--------------------------- MODULE HandshakeProofs ---------------------------
(***************************************************************************)
(* Proofs about Handshake, for a 0086 in any number of notifications, any  *)
(* number of repetitions and any losses: with one answer the keys agree,   *)
(* plaintext is spoken only with a device that does not authenticate, and  *)
(* no more keys are made, and bytes held, than the device's packets give.  *)
(***************************************************************************)
EXTENDS Handshake, WellFoundedInduction, TLAPS

-----------------------------------------------------------------------------
(* The types the arguments below need.  TypeOK also bounds the secrets and *)
(* the bytes held: it is the last theorem, as it needs all that is before. *)

Kinds  == {"01", "02", "03", "0086", "0007", "Key", "Data", "Reply"}
Packet == [type : Kinds, part : Nat, len : Nat, key : Nat, ok : BOOLEAN]
Phases == {"WaitingAuth", "AuthDone", "Encrypted", Plaintext}

Session ==
    [phase : Phases, auth_started : BOOLEAN, auth_succeeded : BOOLEAN,
     key_exchange_done : BOOLEAN, encryption_ready : BOOLEAN,
     new_aes_key : BOOLEAN, iot_public_key : BOOLEAN,
     shared_key : Nat, ephemeral_secret : Nat, handshake_acc : Seq(Packet),
     rx_encrypted : BOOLEAN, rx_key : Nat, rx_junk : BOOLEAN]

States == {"Request", "Respond", "EcdhRequest", "EcdhRespond", "AesCbc", "Complete"}

Device ==
    [state : States, status : States \cup {"Refresh"}, seen : States \cup {"Refresh"},
     buf : Kinds \cup {"None"}, bufKey : Nat, key : Nat, retry : Nat]

Types ==
    /\ cli \in Session /\ answers \in Nat
    /\ dev \in Device
    /\ d2c \in Seq(Packet) /\ c2d \in Seq(Packet)

LEMMA PacketTypes ==
    /\ {Challenge, Answer, Result} \subseteq Packet
    /\ \A key \in Nat : {Data(key), Reply(key), KeyPacket(key)} \subseteq Packet
    /\ {KeyResult(TRUE), KeyResult(FALSE)} \subseteq Seq(Packet)
    /\ KeyRequest \in Seq(Packet)
  <1> USE DEF Packet, Kinds, Chunk, None
  <1>1. {Challenge, Answer, Result} \subseteq Packet
    BY DEF Challenge, Answer, Result
  <1>2. \A key \in Nat : {Data(key), Reply(key), KeyPacket(key)} \subseteq Packet
    BY DEF Data, Reply, KeyPacket
  <1>3. ASSUME NEW ok \in BOOLEAN
        PROVE  KeyResult(ok) \in Seq(Packet)
    <2>1. Chunk("0007", 1, 18, None, ok) \in Packet
      OBVIOUS
    <2> QED
      BY <2>1 DEF KeyResult
  <1>4. KeyRequest \in Seq(Packet)
    <2>1. Len(Parts) \in Nat /\ \A i \in 1..Len(Parts) : Parts[i] \in Nat
      BY HandshakeAssumption
    <2>2. \A i \in 1..Len(Parts) : Chunk("0086", i, Parts[i], None, TRUE) \in Packet
      BY <2>1
    <2> QED
      BY <2>1, <2>2 DEF KeyRequest
  <1> QED
    BY <1>1, <1>2, <1>3, <1>4

\* What the client's handlers make of a session is a session.
LEMMA SessionTypes ==
    ASSUME NEW s \in Session
    PROVE  /\ HandleAuthRequest(s) \in Session
           /\ \A ok \in BOOLEAN : HandleAuthResult(s, ok) \in Session
           /\ \A n \in Nat : HandleKeyExchange(s, n) \in Session
           /\ \A ok \in BOOLEAN : HandleKeyExchangeResult(s, ok) \in Session
           /\ MarkPlaintextMode(s) \in Session
           /\ \A c \in Packet : PushNotification(s, c) \subseteq Session
           /\ \A q \in Seq(Packet) : [s EXCEPT !.handshake_acc = q] \in Session
  <1> USE DEF Session, Phases
  <1>1. HandleAuthRequest(s) \in Session
    BY DEF HandleAuthRequest
  <1>2. ASSUME NEW ok \in BOOLEAN
        PROVE  HandleAuthResult(s, ok) \in Session
    <2>1. (s.new_aes_key /\ ok) \in BOOLEAN
      OBVIOUS
    <2> QED
      BY <2>1 DEF HandleAuthResult
  <1>3. \A n \in Nat : HandleKeyExchange(s, n) \in Session
    BY DEF HandleKeyExchange
  <1>4. ASSUME NEW ok \in BOOLEAN
        PROVE  HandleKeyExchangeResult(s, ok) \in Session
    <2> DEFINE taken == [s EXCEPT !.ephemeral_secret =
                                IF s.new_aes_key THEN None ELSE @]
    <2>1. taken \in Session
      BY DEF None
    <2> DEFINE full(t) == [t EXCEPT !.shared_key = s.ephemeral_secret,
                                !.key_exchange_done = TRUE, !.encryption_ready = TRUE,
                                !.phase = "Encrypted",
                                !.rx_encrypted = TRUE, !.rx_key = s.ephemeral_secret,
                                !.rx_junk = FALSE]
    <2>2. \A t \in Session : full(t) \in Session
      OBVIOUS
    <2>3. HandleKeyExchangeResult(s, ok) \in {taken, full(taken)}
      BY DEF HandleKeyExchangeResult
    <2> HIDE DEF taken, full
    <2> QED
      BY <2>1, <2>2, <2>3
  <1>5. MarkPlaintextMode(s) \in Session
    BY DEF MarkPlaintextMode, None
  <1>6. ASSUME NEW c \in Packet
        PROVE  PushNotification(s, c) \subseteq Session
    <2>1. \A junk \in BOOLEAN : [s EXCEPT !.rx_junk = junk] \in Session
      OBVIOUS
    <2>2. \A t \in PushNotification(s, c) :
            \E junk \in BOOLEAN : t = [s EXCEPT !.rx_junk = junk]
      BY DEF PushNotification
    <2> QED
      BY <2>1, <2>2
  <1>7. \A q \in Seq(Packet) : [s EXCEPT !.handshake_acc = q] \in Session
    OBVIOUS
  <1> QED
    BY <1>1, <1>2, <1>3, <1>4, <1>5, <1>6, <1>7

LEMMA TypesInit == Init => Types
  <1> SUFFICES ASSUME Init
               PROVE  Types
    OBVIOUS
  <1>1. cli \in Session
    BY DEF Init, NewSession, Session, Phases, None
  <1>2. dev \in Device
    BY DEF Init, NewDevice, Device, States, Kinds, None
  <1> QED
    BY <1>1, <1>2 DEF Init, Types

LEMMA HeadIsPacket ==
    ASSUME NEW q \in Seq(Packet), q # <<>>
    PROVE  Head(q) \in Packet /\ Tail(q) \in Seq(Packet)
  OBVIOUS

LEMMA TypesClient ==
    ASSUME Types, ClientReads
    PROVE  Types'
  <1> USE DEF Types
  <1>1. /\ Head(d2c) \in Packet /\ Tail(d2c) \in Seq(Packet)
        /\ Head(d2c).ok \in BOOLEAN
    <2>1. d2c # <<>>
      BY DEF ClientReads, ClientCollects, ClientAuthRequest, ClientAuthResult,
             ClientKeyExchange, ClientKeyExchangeResult, ClientBusiness,
             ClientDispatches, Reading
    <2> QED
      BY <2>1, HeadIsPacket DEF Packet
  <1>2. cli.handshake_acc \in Seq(Packet) /\ <<>> \in Seq(Packet)
    BY DEF Session
  <1>3. CASE ClientCollects
    <2>1. Collected(cli, Head(d2c)) \in Seq(Packet)
      BY <1>1, <1>2 DEF Collected
    <2>2. cli' \in Session
      BY <1>3, <2>1, SessionTypes DEF ClientCollects
    <2> QED
      BY <1>1, <1>3, <2>2 DEF ClientCollects, devVars
  <1>4. CASE ClientAuthRequest
    <2>1. cli' \in Session
      BY <1>4, SessionTypes DEF ClientAuthRequest
    <2> QED
      BY <1>1, <1>4, <2>1, PacketTypes DEF ClientAuthRequest, devVars
  <1>5. CASE ClientAuthResult
    <2>1. cli' \in Session
      BY <1>1, <1>5, SessionTypes DEF ClientAuthResult
    <2> QED
      BY <1>1, <1>5, <2>1 DEF ClientAuthResult, devVars
  <1>6. CASE ClientKeyExchange
    <2> DEFINE packet == Collected(cli, Head(d2c))
    <2> DEFINE held   == [cli EXCEPT !.handshake_acc = <<>>]
    <2>1. held \in Session
      BY <1>2, SessionTypes
    <2>2. CASE /\ answers' = answers + 1
               /\ cli' = HandleKeyExchange(held, answers + 1)
               /\ c2d' = Append(c2d, KeyExchangeResponse(answers + 1))
      <3>1. cli' \in Session
        BY <2>1, <2>2, SessionTypes
      <3>2. KeyExchangeResponse(answers + 1) \in Packet
        BY PacketTypes DEF KeyExchangeResponse
      <3> QED
        BY <1>1, <1>6, <2>2, <3>1, <3>2 DEF ClientKeyExchange, ClientDispatches, devVars
    <2>3. CASE cli' = held /\ UNCHANGED <<answers, c2d>>
      BY <1>1, <1>6, <2>1, <2>3 DEF ClientKeyExchange, ClientDispatches, devVars
    <2> QED
      BY <1>6, <2>2, <2>3 DEF ClientKeyExchange
  <1>7. CASE ClientKeyExchangeResult
    <2>1. [cli EXCEPT !.handshake_acc = <<>>] \in Session
      BY <1>2, SessionTypes
    <2>2. cli' \in Session
      BY <1>1, <1>7, <2>1, SessionTypes DEF ClientKeyExchangeResult
    <2> QED
      BY <1>1, <1>7, <2>2 DEF ClientKeyExchangeResult, ClientDispatches, devVars
  <1>8. CASE ClientBusiness
    <2>1. cli' \in Session
      BY <1>1, <1>8, SessionTypes DEF ClientBusiness
    <2> QED
      BY <1>1, <1>8, <2>1 DEF ClientBusiness, devVars
  <1> QED
    BY <1>3, <1>4, <1>5, <1>6, <1>7, <1>8 DEF ClientReads

Subscription ==
    ClientSubscribes \/ ClientOpensReader \/ NotificationUnheard

LEMMA TypesSession ==
    ASSUME Types, Subscription \/ ClientPlainTimer \/ ClientPolls \/ AirLoses
    PROVE  Types'
  <1> USE DEF Types
  <1>1. CASE ClientSubscribes
    <2>1. dev' \in Device
      BY <1>1 DEF ClientSubscribes, Device, States
    <2> QED
      BY <1>1, <2>1 DEF ClientSubscribes
  <1>2. CASE ClientOpensReader
    BY <1>2 DEF ClientOpensReader, devVars
  <1>3. CASE NotificationUnheard
    BY <1>3, HeadIsPacket DEF NotificationUnheard, cliVars, devVars
  <1>4. CASE ClientPlainTimer
    BY <1>4, SessionTypes DEF ClientPlainTimer, devVars
  <1>5. CASE ClientPolls
    <2>1. WrapKey(cli) \in Nat
      BY DEF WrapKey, Session, None
    <2> QED
      BY <1>5, <2>1, PacketTypes DEF ClientPolls, cliVars, devVars
  <1>6. CASE AirLoses
    <2>1. CASE c2d # <<>> /\ c2d' = Tail(c2d) /\ UNCHANGED d2c
      BY <1>6, <2>1, HeadIsPacket DEF AirLoses, cliVars, devVars
    <2>2. CASE d2c # <<>> /\ d2c' = Tail(d2c) /\ UNCHANGED c2d
      BY <1>6, <2>2, HeadIsPacket DEF AirLoses, cliVars, devVars
    <2> QED
      BY <1>6, <2>1, <2>2 DEF AirLoses
  <1> QED
    BY <1>1, <1>2, <1>3, <1>4, <1>5, <1>6 DEF Subscription

LEMMA DeviceTypes ==
    /\ NewDevice \in Device
    /\ dev \in Device => \A state \in States : Enters(state) \in Device
  BY DEF NewDevice, Enters, Device, States, Kinds, None

LEMMA TypesDevice ==
    ASSUME Types, DeviceStep
    PROVE  Types'
  <1> USE DEF Types
  <1>1. CASE DeviceChallenges
    BY <1>1, DeviceTypes, PacketTypes DEF DeviceChallenges, States, cliVars
  <1>2. CASE DeviceChecksAnswer
    <2>1. dev' \in Device
      <3>1. CASE dev.buf = "02"
        <4>1. Enters("EcdhRequest") \in Device
          BY DeviceTypes DEF States
        <4>2. [Enters("EcdhRequest") EXCEPT !.status = "EcdhRequest"] \in Device
          BY <4>1 DEF Device, States
        <4> QED
          BY <1>2, <3>1, <4>2 DEF DeviceChecksAnswer
      <3>2. CASE dev.buf # "02"
        BY <1>2, <3>2 DEF DeviceChecksAnswer, Device, States
      <3> QED
        BY <3>1, <3>2
    <2>2. d2c' \in Seq(Packet)
      BY <1>2, PacketTypes DEF DeviceChecksAnswer
    <2> QED
      BY <1>2, <2>1, <2>2 DEF DeviceChecksAnswer, cliVars
  <1>3. CASE DeviceRequestsKey
    BY <1>3, DeviceTypes, PacketTypes DEF DeviceRequestsKey, States, cliVars
  <1>4. CASE DeviceAcceptsKey
    <2>1. Enters("AesCbc") \in Device /\ dev.bufKey \in Nat
      BY DeviceTypes DEF States, Device
    <2>2. dev' \in Device
      BY <1>4, <2>1 DEF DeviceAcceptsKey, Device
    <2>3. PICK r \in Seq(Packet) : r = KeyResult(TRUE)
      BY PacketTypes, Zenon
    <2>4. d2c' = d2c \o r
      BY <1>4, <2>3, Zenon DEF DeviceAcceptsKey
    <2>5. d2c' \in Seq(Packet)
      BY <2>4
    <2> QED
      BY <1>4, <2>2, <2>5 DEF DeviceAcceptsKey, cliVars
  <1>5. CASE DeviceRefusesKey
    <2>1. PICK r \in Seq(Packet) : r = KeyResult(FALSE)
      BY PacketTypes, Zenon
    <2>2. d2c' = d2c \o r \/ d2c' = d2c
      BY <1>5, <2>1, Zenon DEF DeviceRefusesKey
    <2>3. dev' \in Device /\ c2d' = <<>>
      BY <1>5, DeviceTypes, Zenon DEF DeviceRefusesKey
    <2>4. d2c \o r \in Seq(Packet) /\ d2c \in Seq(Packet)
      OBVIOUS
    <2>5. d2c' \in Seq(Packet)
      BY <2>2, <2>4, Zenon
    <2>6. UNCHANGED <<cli, answers>>
      BY <1>5 DEF DeviceRefusesKey, cliVars
    <2> QED
      BY <2>3, <2>5, <2>6
  <1> QED
    BY <1>1, <1>2, <1>3, <1>4, <1>5 DEF DeviceStep

LEMMA TypesReceiver ==
    ASSUME Types, DeviceReceives \/ DeviceResends \/ DeviceGivesUp
    PROVE  Types'
  <1> USE DEF Types
  <1>1. ASSUME DeviceReceiving
        PROVE  /\ Head(c2d) \in Packet /\ c2d' \in Seq(Packet)
               /\ Head(c2d).type \in Kinds /\ Head(c2d).key \in Nat
    BY <1>1, HeadIsPacket DEF DeviceReceiving, Packet
  <1>2. CASE DeviceTakesAnswer
    <2>1. dev' \in Device
      BY <1>1, <1>2 DEF DeviceTakesAnswer, Device, States
    <2> QED
      BY <1>1, <1>2, <2>1 DEF DeviceTakesAnswer, cliVars
  <1>3. CASE DeviceTakesKey
    <2>1. dev' \in Device
      BY <1>1, <1>3 DEF DeviceTakesKey, Device, States, Kinds
    <2> QED
      BY <1>1, <1>3, <2>1 DEF DeviceTakesKey, cliVars
  <1>4. CASE DeviceServes
    <2>1. dev' \in Device /\ Reply(dev.key) \in Packet
      BY <1>4, PacketTypes DEF DeviceServes, Device, States
    <2> QED
      BY <1>1, <1>4, <2>1 DEF DeviceServes, cliVars
  <1>5. CASE DeviceIgnores
    BY <1>1, <1>5 DEF DeviceIgnores, cliVars, devVars
  <1>6. CASE DeviceResends
    <2>1. Retransmit \in Seq(Packet)
      <3>1. CASE dev.state = "Respond"
        <4>1. Challenge \in Packet
          BY PacketTypes
        <4>2. <<Challenge>> \in Seq(Packet)
          BY <4>1
        <4> QED
          BY <3>1, <4>2, Zenon DEF Retransmit
      <3>2. CASE dev.state = "EcdhRespond"
        BY <3>2, PacketTypes, Zenon DEF Retransmit
      <3>3. CASE dev.state = "AesCbc"
        BY <3>3, PacketTypes, Zenon DEF Retransmit
      <3> QED
        BY <1>6, <3>1, <3>2, <3>3 DEF DeviceResends, Waiting
    <2>2. dev' \in Device
      <3>1. dev' = [dev EXCEPT !.retry = dev.retry + 1]
        BY <1>6 DEF DeviceResends
      <3>2. dev.retry + 1 \in Nat
        BY DEF Device
      <3> QED
        BY <3>1, <3>2 DEF Device
    <2> QED
      BY <1>6, <2>1, <2>2 DEF DeviceResends, cliVars
  <1>7. CASE DeviceGivesUp
    <2>1. dev' \in Device /\ c2d' = <<>>
      BY <1>7, DeviceTypes, Zenon DEF DeviceGivesUp
    <2>2. UNCHANGED <<cli, answers, d2c>>
      BY <1>7 DEF DeviceGivesUp, cliVars
    <2> QED
      BY <2>1, <2>2
  <1> QED
    BY <1>2, <1>3, <1>4, <1>5, <1>6, <1>7 DEF DeviceReceives

LEMMA TypesNext == Types /\ [Next]_vars => Types'
  <1> SUFFICES ASSUME Types, [Next]_vars
               PROVE  Types'
    OBVIOUS
  <1>1. CASE UNCHANGED vars
    BY <1>1 DEF Types, vars, cliVars, devVars
  <1> QED
    BY <1>1, TypesClient, TypesSession, TypesDevice, TypesReceiver
    DEF Next, Subscription

-----------------------------------------------------------------------------
(* The keys.  Every key on either side, and in a packet to the device, is  *)
(* the number of a secret that was made; with one there is no other.       *)

Secrets == 0..answers

SecretsKnown ==
    /\ {cli.ephemeral_secret, cli.shared_key, dev.bufKey, dev.key} \subseteq Secrets
    /\ \A i \in DOMAIN c2d : c2d[i].key \in Secrets
    /\ cli.encryption_ready => cli.shared_key # None

KInv == Types /\ SecretsKnown

LEMMA KInvInit == Init => KInv
  <1> SUFFICES ASSUME Init
               PROVE  SecretsKnown
    BY TypesInit DEF KInv
  <1> QED
    BY DEF Init, SecretsKnown, Secrets, NewSession, NewDevice, None

\* The packets on their way stay known when one is taken or one is sent.
LEMMA Carried ==
    ASSUME NEW q \in Seq(Packet), NEW n \in Nat,
           \A i \in DOMAIN q : q[i].key \in 0..n
    PROVE  /\ q # <<>> => /\ Head(q).key \in 0..n
                          /\ \A i \in DOMAIN Tail(q) : Tail(q)[i].key \in 0..n
           /\ \A c \in Packet : c.key \in 0..n =>
                \A i \in DOMAIN Append(q, c) : Append(q, c)[i].key \in 0..n
  OBVIOUS

\* A 0007 makes the stored secret the shared key, or changes no key.
LEMMA TakenSecret ==
    ASSUME NEW s \in Session, NEW ok,
           NEW t, t = HandleKeyExchangeResult(s, ok)
    PROVE  /\ t.ephemeral_secret \in {None, s.ephemeral_secret}
           /\ \/ t.shared_key = s.ephemeral_secret /\ s.ephemeral_secret # None
              \/ /\ t.shared_key = s.shared_key
                 /\ t.encryption_ready = s.encryption_ready
  <1> DEFINE taken == [s EXCEPT !.ephemeral_secret =
                             IF s.new_aes_key THEN None ELSE @]
  <1> DEFINE full(u) == [u EXCEPT !.shared_key = s.ephemeral_secret,
                              !.key_exchange_done = TRUE, !.encryption_ready = TRUE,
                              !.phase = "Encrypted",
                              !.rx_encrypted = TRUE, !.rx_key = s.ephemeral_secret,
                              !.rx_junk = FALSE]
  <1>1. \/ t = full(taken) /\ s.ephemeral_secret # None
        \/ t = taken
    BY Zenon DEF HandleKeyExchangeResult
  <1>2. taken \in Session
    BY DEF Session, None
  <1>3. /\ taken.ephemeral_secret \in {None, s.ephemeral_secret}
        /\ taken.shared_key = s.shared_key
        /\ taken.encryption_ready = s.encryption_ready
    BY DEF Session
  <1>4. \A u \in Session : /\ full(u).ephemeral_secret = u.ephemeral_secret
                           /\ full(u).shared_key = s.ephemeral_secret
    BY DEF Session
  <1> HIDE DEF taken, full
  <1> QED
    BY <1>1, <1>2, <1>3, <1>4

LEMMA SecretsClient ==
    ASSUME KInv, ClientReads
    PROVE  SecretsKnown'
  <1> USE DEF KInv, Types
  <1>1. CASE ClientCollects
    BY <1>1 DEF ClientCollects, SecretsKnown, Secrets, devVars, Session
  <1>2. CASE ClientAuthRequest
    <2>1. Answer \in Packet /\ Answer.key \in 0..answers
      BY PacketTypes DEF Answer, Chunk, None
    <2>2. \A i \in DOMAIN c2d' : c2d'[i].key \in 0..answers
      BY <1>2, <2>1, Carried DEF ClientAuthRequest, SecretsKnown, Secrets
    <2>3. UNCHANGED <<cli.ephemeral_secret, cli.shared_key, cli.encryption_ready>>
      BY <1>2 DEF ClientAuthRequest, HandleAuthRequest, Session
    <2> QED
      BY <1>2, <2>2, <2>3 DEF ClientAuthRequest, SecretsKnown, Secrets, devVars
  <1>3. CASE ClientAuthResult
    <2>1. UNCHANGED <<cli.ephemeral_secret, cli.shared_key, cli.encryption_ready>>
      BY <1>3 DEF ClientAuthResult, HandleAuthResult, Session
    <2> QED
      BY <1>3, <2>1 DEF ClientAuthResult, SecretsKnown, Secrets, devVars
  <1>4. CASE ClientKeyExchange
    <2> DEFINE packet == Collected(cli, Head(d2c))
    <2> DEFINE held   == [cli EXCEPT !.handshake_acc = <<>>]
    <2>1. CASE /\ answers' = answers + 1
               /\ cli' = HandleKeyExchange(held, answers + 1)
               /\ c2d' = Append(c2d, KeyExchangeResponse(answers + 1))
      <3>1. KeyExchangeResponse(answers + 1) \in Packet
        BY PacketTypes DEF KeyExchangeResponse
      <3>2. KeyExchangeResponse(answers + 1).key = answers + 1
        BY DEF KeyExchangeResponse, KeyPacket, Chunk
      <3>3. \A i \in DOMAIN c2d' : c2d'[i].key \in 0..(answers + 1)
        <4>1. \A i \in DOMAIN c2d : c2d[i].key \in 0..(answers + 1)
          BY DEF SecretsKnown, Secrets
        <4> QED
          BY <2>1, <3>1, <3>2, <4>1, Carried
      <3>4. /\ cli'.ephemeral_secret = answers + 1
            /\ UNCHANGED <<cli.shared_key, cli.encryption_ready>>
        BY <2>1 DEF HandleKeyExchange, Session
      <3> QED
        BY <1>4, <2>1, <3>3, <3>4 DEF ClientKeyExchange, SecretsKnown, Secrets, devVars
    <2>2. CASE cli' = held /\ UNCHANGED <<answers, c2d>>
      BY <1>4, <2>2 DEF ClientKeyExchange, SecretsKnown, Secrets, devVars, Session
    <2> QED
      BY <1>4, <2>1, <2>2 DEF ClientKeyExchange
  <1>5. CASE ClientKeyExchangeResult
    <2> DEFINE s == [cli EXCEPT !.handshake_acc = <<>>]
    <2>1. /\ cli'.ephemeral_secret \in {None, s.ephemeral_secret}
          /\ \/ /\ cli'.shared_key = s.ephemeral_secret
                /\ s.ephemeral_secret # None
             \/ /\ cli'.shared_key = s.shared_key
                /\ cli'.encryption_ready = s.encryption_ready
      <3>1. s \in Session
        <4>1. <<>> \in Seq(Packet)
          OBVIOUS
        <4> QED
          BY <4>1, SessionTypes
      <3>2. cli' = HandleKeyExchangeResult(s, Head(d2c).ok)
        BY <1>5 DEF ClientKeyExchangeResult
      <3> HIDE DEF s
      <3> QED
        BY <3>1, <3>2, TakenSecret
    <2>2. /\ s.ephemeral_secret = cli.ephemeral_secret
          /\ s.shared_key = cli.shared_key /\ s.encryption_ready = cli.encryption_ready
      BY DEF Session
    <2> HIDE DEF s
    <2> QED
      BY <1>5, <2>1, <2>2
      DEF ClientKeyExchangeResult, SecretsKnown, Secrets, devVars, None
  <1>6. CASE ClientBusiness
    <2>1. UNCHANGED <<cli.ephemeral_secret, cli.shared_key, cli.encryption_ready>>
      BY <1>6 DEF ClientBusiness, PushNotification, Session
    <2> QED
      BY <1>6, <2>1 DEF ClientBusiness, SecretsKnown, Secrets, devVars
  <1> QED
    BY <1>1, <1>2, <1>3, <1>4, <1>5, <1>6 DEF ClientReads

LEMMA SecretsSession ==
    ASSUME KInv, Subscription \/ ClientPlainTimer \/ ClientPolls \/ AirLoses
    PROVE  SecretsKnown'
  <1> USE DEF KInv, Types
  <1>1. CASE ClientSubscribes
    <2>1. UNCHANGED <<dev.bufKey, dev.key>>
      BY <1>1 DEF ClientSubscribes, Device
    <2> QED
      BY <1>1, <2>1 DEF ClientSubscribes, SecretsKnown, Secrets
  <1>2. CASE ClientOpensReader \/ NotificationUnheard
    BY <1>2 DEF ClientOpensReader, NotificationUnheard, SecretsKnown, Secrets,
                cliVars, devVars
  <1>3. CASE ClientPlainTimer
    <2>1. /\ UNCHANGED <<cli.ephemeral_secret, cli.shared_key>>
          /\ cli'.encryption_ready = FALSE
      BY <1>3 DEF ClientPlainTimer, MarkPlaintextMode, Session
    <2> QED
      BY <1>3, <2>1 DEF ClientPlainTimer, SecretsKnown, Secrets, devVars
  <1>4. CASE ClientPolls
    <2>1. WrapKey(cli) \in 0..answers
      BY DEF WrapKey, SecretsKnown, Secrets, Session, None
    <2>2. Data(WrapKey(cli)) \in Packet /\ Data(WrapKey(cli)).key = WrapKey(cli)
      BY <2>1, PacketTypes DEF Data, Chunk
    <2>3. \A i \in DOMAIN c2d' : c2d'[i].key \in 0..answers
      BY <1>4, <2>1, <2>2, Carried DEF ClientPolls, SecretsKnown, Secrets
    <2> QED
      BY <1>4, <2>3 DEF ClientPolls, SecretsKnown, Secrets, cliVars, devVars
  <1>5. CASE AirLoses
    <2>1. \A i \in DOMAIN c2d' : c2d'[i].key \in 0..answers
      BY <1>5, Carried DEF AirLoses, SecretsKnown, Secrets
    <2> QED
      BY <1>5, <2>1 DEF AirLoses, SecretsKnown, Secrets, cliVars, devVars
  <1> QED
    BY <1>1, <1>2, <1>3, <1>4, <1>5 DEF Subscription

LEMMA SecretsDevice ==
    ASSUME KInv, \/ DeviceStep \/ DeviceReceives
                 \/ DeviceResends \/ DeviceGivesUp
    PROVE  SecretsKnown'
  <1> USE DEF KInv, Types
  <1>1. UNCHANGED <<cli, answers>>
    BY DEF DeviceStep, DeviceChallenges, DeviceChecksAnswer, DeviceRequestsKey,
           DeviceAcceptsKey, DeviceRefusesKey, DeviceReceives, DeviceTakesAnswer,
           DeviceTakesKey, DeviceServes, DeviceIgnores, DeviceResends,
           DeviceGivesUp, cliVars
  <1>2. {dev'.bufKey, dev'.key} \subseteq Secrets
    <2>1. CASE DeviceChallenges \/ DeviceChecksAnswer \/ DeviceRequestsKey
               \/ DeviceTakesAnswer \/ DeviceServes \/ DeviceIgnores \/ DeviceResends
      <3>1. UNCHANGED <<dev.bufKey, dev.key>>
        BY <2>1 DEF DeviceChallenges, DeviceChecksAnswer, DeviceRequestsKey,
                    DeviceTakesAnswer, DeviceServes, DeviceIgnores,
                    DeviceResends, Enters, devVars, Device
      <3> QED
        BY <3>1 DEF SecretsKnown
    <2>2. CASE DeviceAcceptsKey
      <3>1. dev'.bufKey = dev.bufKey /\ dev'.key = dev.bufKey
        BY <2>2 DEF DeviceAcceptsKey, Enters, Device
      <3> QED
        BY <3>1 DEF SecretsKnown
    <2>3. CASE DeviceRefusesKey \/ DeviceGivesUp
      <3>1. dev' = NewDevice
        BY <2>3, Zenon DEF DeviceRefusesKey, DeviceGivesUp
      <3> QED
        BY <3>1 DEF NewDevice, Secrets, None
    <2>4. CASE DeviceTakesKey
      <3>1. Head(c2d).key \in Secrets
        BY <2>4, Carried DEF DeviceTakesKey, DeviceReceiving, SecretsKnown, Secrets
      <3>2. dev'.key = dev.key /\ dev'.bufKey \in {dev.bufKey, Head(c2d).key}
        BY <2>4 DEF DeviceTakesKey, Device
      <3> QED
        BY <3>1, <3>2 DEF SecretsKnown
    <2> QED
      BY <2>1, <2>2, <2>3, <2>4 DEF DeviceStep, DeviceReceives
  <1>3. \A i \in DOMAIN c2d' : c2d'[i].key \in Secrets
    <2>1. CASE UNCHANGED c2d
      BY <2>1 DEF SecretsKnown
    <2>2. CASE c2d' = <<>>
      BY <2>2
    <2>3. CASE c2d # <<>> /\ c2d' = Tail(c2d)
      BY <2>3, Carried DEF SecretsKnown, Secrets
    <2>4. \/ UNCHANGED c2d \/ c2d' = <<>>
          \/ c2d # <<>> /\ c2d' = Tail(c2d)
      BY DEF DeviceStep, DeviceChallenges, DeviceChecksAnswer, DeviceRequestsKey,
             DeviceAcceptsKey, DeviceRefusesKey, DeviceReceives, DeviceTakesAnswer,
             DeviceTakesKey, DeviceServes, DeviceIgnores, DeviceResends,
             DeviceGivesUp, DeviceReceiving
    <2> QED
      BY <2>1, <2>2, <2>3, <2>4
  <1> QED
    BY <1>1, <1>2, <1>3 DEF SecretsKnown, Secrets

LEMMA KInvNext == KInv /\ [Next]_vars => KInv'
  <1> SUFFICES ASSUME KInv, [Next]_vars
               PROVE  SecretsKnown'
    BY TypesNext DEF KInv
  <1>1. CASE UNCHANGED vars
    BY <1>1 DEF KInv, SecretsKnown, Secrets, vars, cliVars, devVars
  <1> QED
    BY <1>1, SecretsClient, SecretsSession, SecretsDevice DEF Next, Subscription

\* As long as the client has answered one request for its key, both ends have
\* the same key once they have one: every key of theirs is a secret that was
\* made, and there is no other, whatever the ends repeat and the air loses.
THEOREM KeysCorrect == Spec => []OneAnswerKeysAgree
  <1>1. KInv => OneAnswerKeysAgree
    BY DEF KInv, Types, SecretsKnown, Secrets, OneAnswerKeysAgree, KeysAgree, None
  <1> QED
    BY <1>1, KInvInit, KInvNext, PTL DEF Spec

-----------------------------------------------------------------------------
(* The plaintext mode.  A device that authenticates and is still there is  *)
(* about to send its challenge, waits for the answer, or has had one, which *)
(* a client gives only once it has seen a challenge: the timer finds none  *)
(* of these.                                                               *)

Begun == cli.auth_started

AnswersAreReal == \A i \in DOMAIN c2d : c2d[i].type = "02" => Begun

Authenticating ==
    peer # "Plain" /\ linkUp =>
        /\ dev.buf = "02" => Begun
        /\ dev.status = "EcdhRequest" => Begun
        /\ dev.state \notin {"Request", "Respond"} => Begun
        /\ reader # "Off" =>
                dev.status = "Request" \/ dev.state = "Respond" \/ Begun
        /\ cli.phase # Plaintext

PInv == Types /\ AnswersAreReal /\ Authenticating

LEMMA PInvInit == Init => PInv
  <1> SUFFICES ASSUME Init
               PROVE  AnswersAreReal /\ Authenticating
    BY TypesInit DEF PInv
  <1> QED
    BY DEF Init, AnswersAreReal, Authenticating, NewSession, NewDevice, Plaintext

\* The client's handlers never forget a challenge, nor fall back to plaintext.
LEMMA HandlersKeep ==
    ASSUME NEW s \in Session, NEW c, NEW ok, NEW n,
           NEW t \in PushNotification(s, c)
               \cup {HandleAuthRequest(s), HandleAuthResult(s, ok),
                     HandleKeyExchange(s, n), HandleKeyExchangeResult(s, ok)}
    PROVE  /\ s.auth_started => t.auth_started
           /\ t.phase # s.phase => t.phase # Plaintext
  <1>1. CASE t \in PushNotification(s, c)
    BY <1>1 DEF PushNotification, Session
  <1>2. CASE t = HandleAuthRequest(s)
    BY <1>2 DEF HandleAuthRequest, Session, Phases, Plaintext
  <1>3. CASE t = HandleAuthResult(s, ok)
    <2>1. t.auth_started = s.auth_started /\ t.phase \in {s.phase, "AuthDone"}
      BY <1>3 DEF HandleAuthResult, Session
    <2> QED
      BY <2>1 DEF Phases, Plaintext
  <1>4. CASE t = HandleKeyExchange(s, n)
    BY <1>4 DEF HandleKeyExchange, Session, Phases, Plaintext
  <1>5. CASE t = HandleKeyExchangeResult(s, ok)
    <2>1. t.auth_started = s.auth_started /\ t.phase \in {s.phase, "Encrypted"}
      BY <1>5 DEF HandleKeyExchangeResult, Session
    <2> QED
      BY <2>1 DEF Phases, Plaintext
  <1> QED
    BY <1>1, <1>2, <1>3, <1>4, <1>5

LEMMA PlainClient ==
    ASSUME PInv, ClientReads
    PROVE  (AnswersAreReal /\ Authenticating)'
  <1> USE DEF PInv, Types
  <1>1. UNCHANGED <<reader, peer, dev, linkUp>>
    BY DEF ClientReads, ClientCollects, ClientAuthRequest, ClientAuthResult,
           ClientKeyExchange, ClientKeyExchangeResult, ClientBusiness, devVars
  <1> DEFINE held == [cli EXCEPT !.handshake_acc = <<>>]
  <1>2. held \in Session /\ held.auth_started = cli.auth_started
        /\ held.phase = cli.phase
    <2>1. <<>> \in Seq(Packet)
      OBVIOUS
    <2> QED
      BY <2>1 DEF Session
  <1>3. /\ cli.auth_started => cli'.auth_started
        /\ cli'.phase # cli.phase => cli'.phase # Plaintext
    <2>1. CASE ClientCollects
      BY <2>1 DEF ClientCollects, Session
    <2>2. CASE ClientAuthRequest
      BY <2>2, HandlersKeep DEF ClientAuthRequest
    <2>3. CASE ClientAuthResult
      <3>1. PICK ok : cli' = HandleAuthResult(cli, ok)
        BY <2>3, Zenon DEF ClientAuthResult
      <3> QED
        BY <3>1, HandlersKeep
    <2>4. CASE ClientKeyExchange
      <3>1. cli' \in {held, HandleKeyExchange(held, answers + 1)}
        BY <2>4 DEF ClientKeyExchange
      <3> HIDE DEF held
      <3> QED
        BY <1>2, <3>1, HandlersKeep
    <2>5. CASE ClientKeyExchangeResult
      <3>1. cli' = HandleKeyExchangeResult(held, Head(d2c).ok)
        BY <2>5 DEF ClientKeyExchangeResult
      <3> HIDE DEF held
      <3> QED
        BY <1>2, <3>1, HandlersKeep
    <2>6. CASE ClientBusiness
      <3>1. cli' \in PushNotification(cli, Head(d2c)) \/ cli' = cli
        BY <2>6 DEF ClientBusiness
      <3> QED
        BY <3>1, HandlersKeep
    <2> QED
      BY <2>1, <2>2, <2>3, <2>4, <2>5, <2>6 DEF ClientReads
  <1>4. AnswersAreReal'
    <2>1. CASE ClientAuthRequest
      <3>1. cli'.auth_started
        BY <2>1 DEF ClientAuthRequest, HandleAuthRequest, Session
      <3> QED
        BY <3>1 DEF AnswersAreReal, Begun
    <2>2. CASE ClientKeyExchange
      <3>1. KeyExchangeResponse(answers + 1) \in Packet
            /\ KeyExchangeResponse(answers + 1).type = "Key"
        BY PacketTypes DEF KeyExchangeResponse, KeyPacket, Chunk
      <3>2. c2d' \in {c2d, Append(c2d, KeyExchangeResponse(answers + 1))}
        BY <2>2 DEF ClientKeyExchange
      <3>3. \A i \in DOMAIN c2d' : c2d'[i].type = "02" =>
                i \in DOMAIN c2d /\ c2d[i].type = "02"
        BY <3>1, <3>2
      <3> QED
        BY <1>3, <3>3 DEF AnswersAreReal, Begun
    <2>3. CASE UNCHANGED c2d
      BY <1>3, <2>3 DEF AnswersAreReal, Begun
    <2> QED
      BY <2>1, <2>2, <2>3 DEF ClientReads, ClientCollects, ClientAuthResult,
         ClientKeyExchangeResult, ClientBusiness
  <1>5. Authenticating'
    BY <1>1, <1>3 DEF Authenticating, Begun
  <1> QED
    BY <1>4, <1>5

LEMMA PlainSession ==
    ASSUME PInv, Subscription \/ ClientPlainTimer \/ ClientPolls \/ AirLoses
    PROVE  (AnswersAreReal /\ Authenticating)'
  <1> USE DEF PInv, Types
  <1>1. CASE ClientSubscribes
    <2>1. /\ dev'.state = dev.state /\ dev'.buf = dev.buf
          /\ dev'.status \in {dev.status, "Request"}
          /\ peer # "Plain" /\ dev.state = "Request" => dev'.status = "Request"
      BY <1>1 DEF ClientSubscribes, Device
    <2> QED
      BY <1>1, <2>1 DEF ClientSubscribes, AnswersAreReal, Authenticating, Begun
  <1>2. CASE ClientOpensReader \/ NotificationUnheard
    BY <1>2 DEF ClientOpensReader, NotificationUnheard, AnswersAreReal,
                Authenticating, Begun, cliVars, devVars
  <1>3. CASE ClientPlainTimer
    <2>1. cli'.auth_started = cli.auth_started
      BY <1>3 DEF ClientPlainTimer, MarkPlaintextMode, Session
    <2>2. peer # "Plain" /\ linkUp => FALSE
      BY <1>3 DEF ClientPlainTimer, TimerMayFire, Authenticating, Begun
    <2> QED
      BY <1>3, <2>1, <2>2
      DEF ClientPlainTimer, AnswersAreReal, Authenticating, Begun, devVars
  <1>4. CASE ClientPolls
    <2>1. WrapKey(cli) \in Nat
      BY DEF WrapKey, Session, None
    <2>2. Data(WrapKey(cli)) \in Packet /\ Data(WrapKey(cli)).type = "Data"
      BY <2>1, PacketTypes DEF Data, Chunk
    <2>3. \A i \in DOMAIN c2d' : c2d'[i].type = "02" =>
              i \in DOMAIN c2d /\ c2d[i].type = "02"
      BY <1>4, <2>2 DEF ClientPolls
    <2> QED
      BY <1>4, <2>3
      DEF ClientPolls, AnswersAreReal, Authenticating, Begun, cliVars, devVars
  <1>5. CASE AirLoses
    <2>1. \A i \in DOMAIN c2d' : \E j \in DOMAIN c2d : c2d'[i] = c2d[j]
      BY <1>5 DEF AirLoses
    <2> QED
      BY <1>5, <2>1
      DEF AirLoses, AnswersAreReal, Authenticating, Begun, cliVars, devVars
  <1> QED
    BY <1>1, <1>2, <1>3, <1>4, <1>5 DEF Subscription

LEMMA PlainDevice ==
    ASSUME PInv, \/ DeviceStep \/ DeviceReceives
                 \/ DeviceResends \/ DeviceGivesUp
    PROVE  (AnswersAreReal /\ Authenticating)'
  <1> USE DEF PInv, Types
  <1>1. UNCHANGED <<cli, reader, peer>>
    BY DEF DeviceStep, DeviceChallenges, DeviceChecksAnswer, DeviceRequestsKey,
           DeviceAcceptsKey, DeviceRefusesKey, DeviceReceives, DeviceTakesAnswer,
           DeviceTakesKey, DeviceServes, DeviceIgnores, DeviceResends,
           DeviceGivesUp, cliVars, devVars
  <1>2. AnswersAreReal'
    <2>1. \/ UNCHANGED c2d \/ c2d' = <<>>
          \/ c2d # <<>> /\ c2d' = Tail(c2d)
      BY DEF DeviceStep, DeviceChallenges, DeviceChecksAnswer, DeviceRequestsKey,
             DeviceAcceptsKey, DeviceRefusesKey, DeviceReceives, DeviceTakesAnswer,
             DeviceTakesKey, DeviceServes, DeviceIgnores, DeviceResends,
             DeviceGivesUp, DeviceReceiving
    <2>2. \A i \in DOMAIN c2d' : \E j \in DOMAIN c2d : c2d'[i] = c2d[j]
      BY <2>1
    <2> QED
      BY <1>1, <2>2 DEF AnswersAreReal, Begun
  <1>3. Authenticating'
    <2> USE DEF Authenticating, Begun
    <2>1. CASE DeviceChallenges
      <3>1. dev'.state = "Respond" /\ dev'.status = dev.status /\ dev'.buf = dev.buf
        BY <2>1 DEF DeviceChallenges, Enters, Device
      <3> QED
        BY <1>1, <2>1, <3>1 DEF DeviceChallenges
    <2>2. CASE DeviceChecksAnswer
      <3>1. CASE dev.buf = "02"
        <4>1. dev'.state = "EcdhRequest" /\ dev'.status = "EcdhRequest"
              /\ dev'.buf = dev.buf
          BY <2>2, <3>1 DEF DeviceChecksAnswer, Enters, Device
        <4> QED
          BY <1>1, <2>2, <3>1, <4>1 DEF DeviceChecksAnswer
      <3>2. CASE dev.buf # "02"
        <4>1. dev'.state = dev.state /\ dev'.status = dev.status
              /\ dev'.buf = dev.buf
          BY <2>2, <3>2 DEF DeviceChecksAnswer, Device
        <4> QED
          BY <1>1, <2>2, <4>1 DEF DeviceChecksAnswer
      <3> QED
        BY <3>1, <3>2
    <2>3. CASE DeviceRequestsKey \/ DeviceAcceptsKey
      <3>1. dev'.status = dev.status /\ dev'.buf = dev.buf
        BY <2>3 DEF DeviceRequestsKey, DeviceAcceptsKey, Enters, Device
      <3>2. dev.status = "EcdhRequest" \/ dev.state = "EcdhRespond"
        BY <2>3 DEF DeviceRequestsKey, DeviceAcceptsKey, StatusChanged
      <3> QED
        BY <1>1, <2>3, <3>1, <3>2 DEF DeviceRequestsKey, DeviceAcceptsKey
    <2>4. CASE DeviceRefusesKey \/ DeviceGivesUp
      BY <2>4 DEF DeviceRefusesKey, DeviceGivesUp
    <2>5. CASE DeviceTakesAnswer
      <3>1. /\ dev'.state = "Respond" /\ dev'.status = "Respond"
            /\ dev'.buf = Head(c2d).type
        BY <2>5 DEF DeviceTakesAnswer, Device
      <3>2. Head(c2d).type = "02" => cli.auth_started
        BY <2>5 DEF DeviceTakesAnswer, DeviceReceiving, AnswersAreReal
      <3> QED
        BY <1>1, <2>5, <3>1, <3>2 DEF DeviceTakesAnswer
    <2>6. CASE DeviceTakesKey
      <3>1. /\ dev.state = "EcdhRespond" /\ dev'.state = dev.state
            /\ dev'.buf \in {dev.buf, "Key"}
            /\ dev'.status \in {dev.status, "EcdhRespond"}
        BY <2>6 DEF DeviceTakesKey, Device
      <3> QED
        BY <1>1, <2>6, <3>1 DEF DeviceTakesKey
    <2>7. CASE DeviceServes
      <3>1. dev'.status = dev.status /\ dev'.buf = dev.buf
        BY <2>7 DEF DeviceServes, Device
      <3>2. peer = "Plain" \/ dev.state \in {"AesCbc", "Complete"}
        BY <2>7 DEF DeviceServes
      <3> QED
        BY <1>1, <2>7, <3>1, <3>2 DEF DeviceServes
    <2>8. CASE DeviceIgnores \/ DeviceResends
      <3>1. dev'.state = dev.state /\ dev'.status = dev.status /\ dev'.buf = dev.buf
        BY <2>8 DEF DeviceIgnores, DeviceResends, devVars, Device
      <3> QED
        BY <1>1, <2>8, <3>1 DEF DeviceIgnores, DeviceResends, devVars
    <2> QED
      BY <2>1, <2>2, <2>3, <2>4, <2>5, <2>6, <2>7, <2>8 DEF DeviceStep, DeviceReceives
  <1> QED
    BY <1>2, <1>3

LEMMA PInvNext == PInv /\ [Next]_vars => PInv'
  <1> SUFFICES ASSUME PInv, [Next]_vars
               PROVE  (AnswersAreReal /\ Authenticating)'
    BY TypesNext DEF PInv
  <1>1. CASE UNCHANGED vars
    BY <1>1 DEF PInv, AnswersAreReal, Authenticating, Begun, vars, cliVars, devVars
  <1> QED
    BY <1>1, PlainClient, PlainSession, PlainDevice DEF Next, Subscription

\* As long as the link is up, the client speaks plaintext only to a device that
\* does not authenticate, however late its timer or its reader, and whatever is
\* unheard or lost.
THEOREM PlaintextCorrect == Spec => []PlaintextOnlyToPlain
  <1>1. PInv => PlaintextOnlyToPlain
    BY DEF PInv, Authenticating, PlaintextOnlyToPlain
  <1> QED
    BY <1>1, PInvInit, PInvNext, PTL DEF Spec

-----------------------------------------------------------------------------
(* Counting bytes.  ByteCount is recursive: its equation has a solution,   *)
(* so that the count of a sequence with one chunk more is known, and what  *)
(* holds of all sequences follows by induction over a set of them.         *)

\* Induction over the natural numbers, for a set: its complement has no least
\* number.
LEMMA SetInduction ==
    ASSUME NEW S, 0 \in S, \A n \in Nat : n \in S => n + 1 \in S
    PROVE  \A n \in Nat : n \in S
  <1> DEFINE T == {n \in Nat : n \notin S}
             Below == {ss \in Nat \X Nat : ss[1] < ss[2]}
  <1> SUFFICES ASSUME T # {} PROVE FALSE
    OBVIOUS
  <1>1. IsWellFoundedOn(Below, Nat)
    BY NatLessThanWellFounded, Zenon DEF OpToRel
  <1>2. PICK n \in T : \A m \in T : ~ (<<m, n>> \in Below)
    <2>1. T \subseteq Nat
      OBVIOUS
    <2> HIDE DEF T, Below
    <2> QED
      BY <1>1, <2>1, WFMin, Zenon
  <1>3. n # 0 /\ n - 1 \in Nat /\ n - 1 < n
    BY <1>2
  <1>4. n - 1 \in T
    BY <1>2, <1>3
  <1> QED
    BY <1>2, <1>3, <1>4

\* Induction over sequences: they are what one gets by appending.
LEMMA AppendInduction ==
    ASSUME NEW S, NEW I, <<>> \in I,
           \A q \in Seq(S), c \in S : q \in I => Append(q, c) \in I
    PROVE  Seq(S) \subseteq I
  <1> DEFINE N == {n \in Nat : \A q \in Seq(S) : Len(q) = n => q \in I}
  <1>1. 0 \in N
    <2>1. \A q \in Seq(S) : Len(q) = 0 => q = <<>>
      OBVIOUS
    <2> QED
      BY <2>1
  <1>2. ASSUME NEW n \in Nat, n \in N
        PROVE  n + 1 \in N
    <2> SUFFICES ASSUME NEW q \in Seq(S), Len(q) = n + 1
                 PROVE  q \in I
      OBVIOUS
    <2> DEFINE front == [i \in 1..n |-> q[i]]
    <2>1. /\ front \in Seq(S) /\ Len(front) = n /\ q[n + 1] \in S
          /\ q = Append(front, q[n + 1])
      OBVIOUS
    <2>2. front \in I
      BY <1>2, <2>1
    <2> HIDE DEF front
    <2> QED
      BY <2>1, <2>2
  <1>3. \A n \in Nat : n \in N
    <2> HIDE DEF N
    <2> QED
      BY <1>1, <1>2, SetInduction
  <1> QED
    BY <1>3

HasLengths(S) == \A c \in S : c.len \in Nat

\* sum[k] is the length of the first k chunks of q.
IsSum(sum, q, n) ==
    /\ sum \in [0..n -> Nat] /\ sum[0] = 0
    /\ \A k \in 1..n : sum[k] = sum[k - 1] + q[k].len

\* There is such a sum.
LEMMA SumExists ==
    ASSUME NEW S, HasLengths(S), NEW q \in Seq(S)
    PROVE  \E sum : IsSum(sum, q, Len(q))
  <1> DEFINE N == {n \in Nat : n <= Len(q) => \E sum : IsSum(sum, q, n)}
  <1>1. 0 \in N
    <2> DEFINE sum == [k \in 0..0 |-> 0]
    <2>1. IsSum(sum, q, 0)
      BY DEF IsSum
    <2> HIDE DEF sum
    <2> QED
      BY <2>1
  <1>2. ASSUME NEW n \in Nat, n \in N
        PROVE  n + 1 \in N
    <2> SUFFICES ASSUME n + 1 <= Len(q)
                 PROVE  \E sum : IsSum(sum, q, n + 1)
      OBVIOUS
    <2>1. PICK sum : IsSum(sum, q, n)
      BY <1>2
    <2>2. q[n + 1].len \in Nat
      BY DEF HasLengths
    <2> DEFINE more == [k \in 0..(n + 1) |->
                          IF k = n + 1 THEN sum[n] + q[n + 1].len ELSE sum[k]]
    <2>3. more \in [0..(n + 1) -> Nat] /\ more[0] = 0
      BY <2>1, <2>2 DEF IsSum
    <2>4. ASSUME NEW k \in 1..(n + 1)
          PROVE  more[k] = more[k - 1] + q[k].len
      <3>1. k - 1 \in 0..(n + 1) /\ k - 1 # n + 1
        OBVIOUS
      <3>2. more[k - 1] = sum[k - 1]
        BY <3>1
      <3>3. CASE k = n + 1
        BY <3>2, <3>3
      <3>4. CASE k # n + 1
        <4>1. k \in 1..n
          BY <3>4
        <4> QED
          BY <2>1, <3>2, <4>1 DEF IsSum
      <3> QED
        BY <3>3, <3>4
    <2>5. IsSum(more, q, n + 1)
      <3> HIDE DEF more
      <3> QED
        BY <2>3, <2>4 DEF IsSum
    <2> QED
      BY <2>5
  <1>3. \A n \in Nat : n \in N
    <2> HIDE DEF N
    <2> QED
      BY <1>1, <1>2, SetInduction
  <1> QED
    BY <1>3

\* There is one only.
LEMMA SumIsUnique ==
    ASSUME NEW n \in Nat, NEW q, NEW f, NEW g, IsSum(f, q, n), IsSum(g, q, n)
    PROVE  f[n] = g[n]
  <1> DEFINE N == {k \in Nat : k <= n => f[k] = g[k]}
  <1>1. 0 \in N
    BY DEF IsSum
  <1>2. ASSUME NEW k \in Nat, k \in N
        PROVE  k + 1 \in N
    <2> SUFFICES ASSUME k + 1 <= n
                 PROVE  f[k + 1] = g[k + 1]
      OBVIOUS
    <2>1. k + 1 \in 1..n /\ (k + 1) - 1 = k /\ f[k] = g[k]
      BY <1>2
    <2>2. /\ f[k + 1] = f[(k + 1) - 1] + q[k + 1].len
          /\ g[k + 1] = g[(k + 1) - 1] + q[k + 1].len
      BY <2>1 DEF IsSum
    <2> QED
      BY <2>1, <2>2
  <1>3. \A k \in Nat : k \in N
    <2> HIDE DEF N
    <2> QED
      BY <1>1, <1>2, SetInduction
  <1> QED
    BY <1>3

\* ByteCount is the sum up to the end.
LEMMA ByteCountIsSum ==
    ASSUME NEW S, HasLengths(S), NEW q \in Seq(S)
    PROVE  \E sum : IsSum(sum, q, Len(q)) /\ ByteCount(q) = sum[Len(q)]
  <1> DEFINE count[k \in 0..Len(q)] ==
               IF k = 0 THEN 0 ELSE count[k - 1] + q[k].len
  <1>1. PICK sum : IsSum(sum, q, Len(q))
    BY SumExists
  <1>2. sum = [k \in 0..Len(q) |-> IF k = 0 THEN 0 ELSE sum[k - 1] + q[k].len]
    <2>1. sum = [k \in 0..Len(q) |-> sum[k]]
      BY <1>1 DEF IsSum
    <2>2. \A k \in 0..Len(q) : sum[k] = IF k = 0 THEN 0 ELSE sum[k - 1] + q[k].len
      BY <1>1 DEF IsSum
    <2> QED
      BY <2>1, <2>2
  <1>3. count = [k \in 0..Len(q) |-> IF k = 0 THEN 0 ELSE count[k - 1] + q[k].len]
    BY <1>2, Zenon
  <1>4. ByteCount(q) = count[Len(q)]
    BY Zenon DEF ByteCount
  <1> HIDE DEF count
  <1>5. \A k \in 1..Len(q) : count[k] = count[k - 1] + q[k].len
    BY <1>3
  <1>6. count[0] = 0
    BY <1>3
  <1> DEFINE N == {k \in Nat : k <= Len(q) => count[k] = sum[k]}
  <1>7. 0 \in N
    BY <1>1, <1>6 DEF IsSum
  <1>8. ASSUME NEW k \in Nat, k \in N
        PROVE  k + 1 \in N
    <2> SUFFICES ASSUME k + 1 <= Len(q)
                 PROVE  count[k + 1] = sum[k + 1]
      OBVIOUS
    <2>1. k + 1 \in 1..Len(q) /\ (k + 1) - 1 = k /\ count[k] = sum[k]
      BY <1>8
    <2>2. /\ count[k + 1] = count[(k + 1) - 1] + q[k + 1].len
          /\ sum[k + 1] = sum[(k + 1) - 1] + q[k + 1].len
      BY <1>1, <1>5, <2>1 DEF IsSum
    <2> QED
      BY <2>1, <2>2
  <1>9. \A k \in Nat : k \in N
    <2> HIDE DEF N
    <2> QED
      BY <1>7, <1>8, SetInduction
  <1>10. count[Len(q)] = sum[Len(q)]
    BY <1>9
  <1> QED
    BY <1>1, <1>4, <1>10

\* Nothing has no bytes, and a chunk more has its length more.
LEMMA ByteCountFacts ==
    ASSUME NEW S, HasLengths(S)
    PROVE  /\ ByteCount(<<>>) = 0
           /\ \A q \in Seq(S) : ByteCount(q) \in Nat
           /\ \A q \in Seq(S), c \in S :
                 ByteCount(Append(q, c)) = ByteCount(q) + c.len
  <1>1. ByteCount(<<>>) = 0
    <2>1. <<>> \in Seq(S) /\ Len(<<>>) = 0
      OBVIOUS
    <2>2. PICK sum : IsSum(sum, <<>>, 0) /\ ByteCount(<<>>) = sum[0]
      BY <2>1, ByteCountIsSum
    <2> QED
      BY <2>2 DEF IsSum
  <1>2. ASSUME NEW q \in Seq(S)
        PROVE  ByteCount(q) \in Nat
    <2>1. PICK sum : IsSum(sum, q, Len(q)) /\ ByteCount(q) = sum[Len(q)]
      BY ByteCountIsSum
    <2> QED
      BY <2>1 DEF IsSum
  <1>3. ASSUME NEW q \in Seq(S), NEW c \in S
        PROVE  ByteCount(Append(q, c)) = ByteCount(q) + c.len
    <2> DEFINE n == Len(q)
               r == Append(q, c)
    <2>1. /\ n \in Nat /\ r \in Seq(S) /\ Len(r) = n + 1 /\ r[n + 1] = c
          /\ \A k \in 1..n : r[k] = q[k]
      OBVIOUS
    <2>2. PICK f : IsSum(f, q, n) /\ ByteCount(q) = f[n]
      BY ByteCountIsSum
    <2>3. PICK g : IsSum(g, r, n + 1) /\ ByteCount(r) = g[n + 1]
      <3> HIDE DEF r
      <3> QED
        BY <2>1, ByteCountIsSum
    <2> HIDE DEF r, n
    <2> DEFINE h == [k \in 0..n |-> g[k]]
    <2>4. IsSum(h, q, n)
      <3>1. h \in [0..n -> Nat] /\ h[0] = 0
        BY <2>1, <2>3 DEF IsSum
      <3>2. ASSUME NEW k \in 1..n
            PROVE  h[k] = h[k - 1] + q[k].len
        <4>1. k \in 1..(n + 1) /\ k \in 0..n /\ k - 1 \in 0..n
          BY <2>1
        <4>2. g[k] = g[k - 1] + r[k].len
          BY <2>3, <4>1 DEF IsSum
        <4> QED
          BY <2>1, <4>1, <4>2
      <3> HIDE DEF h
      <3> QED
        BY <3>1, <3>2 DEF IsSum
    <2>5. h[n] = f[n]
      <3> HIDE DEF h
      <3> QED
        BY <2>1, <2>2, <2>4, SumIsUnique
    <2>6. g[n + 1] = g[n] + c.len
      <3>1. n + 1 \in 1..(n + 1) /\ (n + 1) - 1 = n
        BY <2>1
      <3>2. g[n + 1] = g[(n + 1) - 1] + r[n + 1].len
        BY <2>3, <3>1 DEF IsSum
      <3> QED
        BY <2>1, <3>1, <3>2
    <2>7. n \in 0..n
      BY <2>1
    <2> QED
      BY <2>2, <2>3, <2>5, <2>6, <2>7 DEF r
  <1> QED
    BY <1>1, <1>2, <1>3

\* The bytes of the chunks of some types.
Size(T, c) == IF c.type \in T THEN c.len ELSE 0
Sizes(T, q) == [i \in 1..Len(q) |-> [len |-> Size(T, q[i])]]
Weigh(T, q) == ByteCount(Sizes(T, q))

\* Packets can be counted.
LEMMA PacketHasLength ==
    /\ HasLengths(Packet)
    /\ \A T, c : c \in Packet => Size(T, c) \in Nat
  BY DEF HasLengths, Packet, Size

\* What ByteCountFacts says, for the chunks of some types.
LEMMA WeighFacts ==
    ASSUME NEW T
    PROVE  /\ Weigh(T, <<>>) = 0
           /\ \A q \in Seq(Packet) : Weigh(T, q) \in Nat
           /\ \A q \in Seq(Packet), c \in Packet :
                 Weigh(T, Append(q, c)) = Weigh(T, q) + Size(T, c)
  <1> DEFINE S == [len : Nat]
  <1>1. HasLengths(S)
    BY DEF HasLengths
  <1>2. Sizes(T, <<>>) = <<>>
    BY DEF Sizes
  <1>3. ASSUME NEW q \in Seq(Packet)
        PROVE  Sizes(T, q) \in Seq(S) /\ Len(Sizes(T, q)) = Len(q)
    <2>1. \A i \in 1..Len(q) : [len |-> Size(T, q[i])] \in S
      BY PacketHasLength
    <2> HIDE DEF S
    <2> QED
      BY <2>1 DEF Sizes
  <1>4. ASSUME NEW q \in Seq(Packet), NEW c \in Packet
        PROVE  Sizes(T, Append(q, c)) = Append(Sizes(T, q), [len |-> Size(T, c)])
    <2> DEFINE r == Append(q, c)
    <2>1. /\ Len(r) = Len(q) + 1 /\ r[Len(q) + 1] = c
          /\ \A i \in 1..Len(q) : r[i] = q[i]
          /\ Len(q) \in Nat
      OBVIOUS
    <2>2. Sizes(T, r) = [i \in 1..(Len(q) + 1) |-> [len |-> Size(T, r[i])]]
      BY <2>1 DEF Sizes
    <2>3. Append(Sizes(T, q), [len |-> Size(T, c)])
          = [i \in 1..(Len(q) + 1) |->
                IF i = Len(q) + 1 THEN [len |-> Size(T, c)] ELSE Sizes(T, q)[i]]
      BY <1>3, <2>1
    <2>4. \A i \in 1..(Len(q) + 1) : [len |-> Size(T, r[i])]
          = IF i = Len(q) + 1 THEN [len |-> Size(T, c)] ELSE Sizes(T, q)[i]
      BY <2>1 DEF Sizes
    <2> HIDE DEF r
    <2> QED
      BY <2>2, <2>3, <2>4 DEF r
  <1>5. ASSUME NEW c \in Packet
        PROVE  [len |-> Size(T, c)] \in S /\ [len |-> Size(T, c)].len = Size(T, c)
    BY PacketHasLength
  <1> HIDE DEF S
  <1>6. Weigh(T, <<>>) = 0
    BY <1>1, <1>2, ByteCountFacts DEF Weigh
  <1>7. \A q \in Seq(Packet) : Weigh(T, q) \in Nat
    BY <1>1, <1>3, ByteCountFacts DEF Weigh
  <1>8. ASSUME NEW q \in Seq(Packet), NEW c \in Packet
        PROVE  Weigh(T, Append(q, c)) = Weigh(T, q) + Size(T, c)
    <2> DEFINE s == Sizes(T, q)
               d == [len |-> Size(T, c)]
    <2>1. s \in Seq(S) /\ d \in S /\ d.len = Size(T, c)
          /\ Sizes(T, Append(q, c)) = Append(s, d)
      BY <1>3, <1>4, <1>5
    <2>2. Weigh(T, Append(q, c)) = ByteCount(Append(s, d)) /\ Weigh(T, q) = ByteCount(s)
      BY <2>1 DEF Weigh
    <2> HIDE DEF s, d
    <2>3. ByteCount(Append(s, d)) = ByteCount(s) + d.len
      BY <1>1, <2>1, ByteCountFacts
    <2> QED
      BY <2>1, <2>2, <2>3
  <1> QED
    BY <1>6, <1>7, <1>8

\* Two lots of chunks weigh what both weigh.
LEMMA WeighConcat ==
    ASSUME NEW T, NEW q \in Seq(Packet), NEW r \in Seq(Packet)
    PROVE  Weigh(T, q \o r) = Weigh(T, q) + Weigh(T, r)
  <1> DEFINE I == {s \in Seq(Packet) : Weigh(T, q \o s) = Weigh(T, q) + Weigh(T, s)}
  <1>1. <<>> \in I
    <2>1. q \o <<>> = q /\ <<>> \in Seq(Packet)
      OBVIOUS
    <2> QED
      BY <2>1, WeighFacts
  <1>2. ASSUME NEW s \in Seq(Packet), NEW c \in Packet, s \in I
        PROVE  Append(s, c) \in I
    <2>1. q \o Append(s, c) = Append(q \o s, c)
      OBVIOUS
    <2>2. q \o s \in Seq(Packet) /\ Append(s, c) \in Seq(Packet)
      OBVIOUS
    <2>3. /\ Weigh(T, Append(q \o s, c)) = Weigh(T, q \o s) + Size(T, c)
          /\ Weigh(T, Append(s, c)) = Weigh(T, s) + Size(T, c)
          /\ {Weigh(T, q), Weigh(T, s), Weigh(T, q \o s)} \subseteq Nat
      BY <2>2, WeighFacts
    <2>4. Size(T, c) \in Nat
      BY PacketHasLength
    <2>5. Weigh(T, q \o s) = Weigh(T, q) + Weigh(T, s)
      BY <1>2
    <2>6. Weigh(T, q \o Append(s, c)) = Weigh(T, q) + Weigh(T, Append(s, c))
      BY <2>1, <2>3, <2>4, <2>5
    <2> QED
      BY <2>2, <2>6
  <1>3. Seq(Packet) \subseteq I
    <2> HIDE DEF I
    <2> QED
      BY <1>1, <1>2, AppendInduction
  <1> QED
    BY <1>3

\* What is taken from the front is taken from the weight.
LEMMA WeighTail ==
    ASSUME NEW T, NEW q \in Seq(Packet), q # <<>>
    PROVE  Weigh(T, q) = Size(T, Head(q)) + Weigh(T, Tail(q))
  <1>1. Head(q) \in Packet /\ Tail(q) \in Seq(Packet)
    OBVIOUS
  <1> DEFINE first == Append(<<>>, Head(q))
  <1>2. first \in Seq(Packet) /\ q = first \o Tail(q)
    OBVIOUS
  <1>3. Weigh(T, first) = Weigh(T, <<>>) + Size(T, Head(q))
    <2>1. <<>> \in Seq(Packet)
      OBVIOUS
    <2> QED
      BY <1>1, <2>1, WeighFacts
  <1>4. Weigh(T, <<>>) = 0 /\ Size(T, Head(q)) \in Nat
    BY <1>1, WeighFacts, PacketHasLength
  <1> HIDE DEF first
  <1>5. Weigh(T, first \o Tail(q)) = Weigh(T, first) + Weigh(T, Tail(q))
    BY <1>1, <1>2, WeighConcat
  <1>6. Weigh(T, Tail(q)) \in Nat
    BY <1>1, WeighFacts
  <1>7. Weigh(T, q) = Weigh(T, first \o Tail(q))
    BY <1>2, Zenon
  <1> QED
    BY <1>3, <1>4, <1>5, <1>6, <1>7

Requests == {"0086"}
Results  == {"0007"}
KeyTypes == Requests \cup Results

\* The members of a sequence with one more.
LEMMA AppendMembers ==
    ASSUME NEW S, NEW s \in Seq(S), NEW c \in S
    PROVE  /\ \A i \in DOMAIN s : i \in DOMAIN Append(s, c) /\ Append(s, c)[i] = s[i]
           /\ Len(s) + 1 \in DOMAIN Append(s, c) /\ Append(s, c)[Len(s) + 1] = c
  OBVIOUS

\* Chunks of these types have the bytes of both.
LEMMA WeighSplit ==
    ASSUME NEW q \in Seq(Packet), \A i \in DOMAIN q : q[i].type \in KeyTypes
    PROVE  ByteCount(q) = Weigh(Requests, q) + Weigh(Results, q)
  <1> DEFINE I == {s \in Seq(Packet) : (\A i \in DOMAIN s : s[i].type \in KeyTypes) =>
                      ByteCount(s) = Weigh(Requests, s) + Weigh(Results, s)}
  <1>1. <<>> \in I
    <2>1. <<>> \in Seq(Packet)
      OBVIOUS
    <2> QED
      BY <2>1, WeighFacts, ByteCountFacts, PacketHasLength
  <1>2. ASSUME NEW s \in Seq(Packet), NEW c \in Packet, s \in I
        PROVE  Append(s, c) \in I
    <2>0. Append(s, c) \in Seq(Packet)
      OBVIOUS
    <2> SUFFICES ASSUME \A i \in DOMAIN Append(s, c) : Append(s, c)[i].type \in KeyTypes
                 PROVE  ByteCount(Append(s, c))
                        = Weigh(Requests, Append(s, c)) + Weigh(Results, Append(s, c))
      BY <2>0, Zenon
    <2>1. /\ \A i \in DOMAIN s : i \in DOMAIN Append(s, c) /\ Append(s, c)[i] = s[i]
          /\ Len(s) + 1 \in DOMAIN Append(s, c) /\ Append(s, c)[Len(s) + 1] = c
      BY AppendMembers
    <2>2. c.type \in KeyTypes /\ \A i \in DOMAIN s : s[i].type \in KeyTypes
      BY <2>1
    <2>3. ByteCount(s) = Weigh(Requests, s) + Weigh(Results, s)
      BY <1>2, <2>2
    <2>4. c.len = Size(Requests, c) + Size(Results, c) /\ c.len \in Nat
      BY <2>2 DEF Size, KeyTypes, Requests, Results, Packet
    <2>5. /\ Weigh(Requests, Append(s, c)) = Weigh(Requests, s) + Size(Requests, c)
          /\ Weigh(Results, Append(s, c)) = Weigh(Results, s) + Size(Results, c)
          /\ {Weigh(Requests, s), Weigh(Results, s)} \subseteq Nat
      BY WeighFacts
    <2>6. ByteCount(Append(s, c)) = ByteCount(s) + c.len
      BY ByteCountFacts, PacketHasLength
    <2>7. {Size(Requests, c), Size(Results, c)} \subseteq Nat
      BY PacketHasLength
    <2> QED
      BY <2>3, <2>4, <2>5, <2>6, <2>7
  <1>3. Seq(Packet) \subseteq I
    <2> HIDE DEF I
    <2> QED
      BY <1>1, <1>2, AppendInduction
  <1> QED
    BY <1>3

\* Chunks of other types weigh nothing.
LEMMA WeighNothing ==
    ASSUME NEW T, NEW q \in Seq(Packet), \A i \in DOMAIN q : q[i].type \notin T
    PROVE  Weigh(T, q) = 0
  <1> DEFINE I == {s \in Seq(Packet) : (\A i \in DOMAIN s : s[i].type \notin T) =>
                      Weigh(T, s) = 0}
  <1>1. <<>> \in I
    <2>1. <<>> \in Seq(Packet)
      OBVIOUS
    <2> QED
      BY <2>1, WeighFacts
  <1>2. ASSUME NEW s \in Seq(Packet), NEW c \in Packet, s \in I
        PROVE  Append(s, c) \in I
    <2>0. Append(s, c) \in Seq(Packet)
      OBVIOUS
    <2> SUFFICES ASSUME \A i \in DOMAIN Append(s, c) : Append(s, c)[i].type \notin T
                 PROVE  Weigh(T, Append(s, c)) = 0
      BY <2>0, Zenon
    <2>1. /\ \A i \in DOMAIN s : i \in DOMAIN Append(s, c) /\ Append(s, c)[i] = s[i]
          /\ Len(s) + 1 \in DOMAIN Append(s, c) /\ Append(s, c)[Len(s) + 1] = c
      BY AppendMembers
    <2>2. c.type \notin T /\ \A i \in DOMAIN s : s[i].type \notin T
      BY <2>1
    <2>3. Weigh(T, s) = 0
      BY <1>2, <2>2
    <2>4. Size(T, c) = 0
      BY <2>2 DEF Size
    <2>5. Weigh(T, Append(s, c)) = Weigh(T, s) + Size(T, c)
      BY WeighFacts
    <2> QED
      BY <2>3, <2>4, <2>5
  <1>3. Seq(Packet) \subseteq I
    <2> HIDE DEF I
    <2> QED
      BY <1>1, <1>2, AppendInduction
  <1> QED
    BY <1>3

\* The device's key packets.
LEMMA KeyPacketsWeigh ==
    /\ KeyRequest \in Seq(Packet) /\ KeyRequest # <<>>
    /\ ByteCount(KeyRequest) \in Nat /\ ByteCount(KeyRequest) > 0
    /\ Weigh(Requests, KeyRequest) = ByteCount(KeyRequest)
    /\ Weigh(Results, KeyRequest) = 0
    /\ \A ok \in BOOLEAN : /\ KeyResult(ok) \in Seq(Packet)
                           /\ Weigh(Requests, KeyResult(ok)) = 0
                           /\ Weigh(Results, KeyResult(ok)) = 18
                           /\ ByteCount(KeyResult(ok)) = 18
  <1>1. KeyRequest \in Seq(Packet)
    BY PacketTypes
  <1>2. Len(Parts) \in Nat \ {0} /\ \A i \in 1..Len(Parts) : Parts[i] \in Nat \ {0}
    BY HandshakeAssumption
  <1>3. /\ DOMAIN KeyRequest = 1..Len(Parts) /\ KeyRequest # <<>>
        /\ Head(KeyRequest) = Chunk("0086", 1, Parts[1], None, TRUE)
        /\ \A i \in DOMAIN KeyRequest : KeyRequest[i].type = "0086"
    <2>1. \A i \in 1..Len(Parts) : KeyRequest[i] = Chunk("0086", i, Parts[i], None, TRUE)
      BY DEF KeyRequest
    <2>2. DOMAIN KeyRequest = 1..Len(Parts)
      BY DEF KeyRequest
    <2>3. 1 \in 1..Len(Parts)
      BY <1>2
    <2> HIDE DEF KeyRequest
    <2>4. KeyRequest # <<>> /\ Head(KeyRequest) = KeyRequest[1]
      BY <1>1, <2>2, <2>3
    <2>5. \A i \in DOMAIN KeyRequest : KeyRequest[i].type = "0086"
      BY <2>1, <2>2 DEF Chunk
    <2> QED
      BY <2>1, <2>2, <2>3, <2>4, <2>5
  <1>4. Weigh(Results, KeyRequest) = 0
    <2>1. \A i \in DOMAIN KeyRequest : KeyRequest[i].type \notin Results
      BY <1>3 DEF Results
    <2> QED
      BY <1>1, <2>1, WeighNothing
  <1>5. ByteCount(KeyRequest) = Weigh(Requests, KeyRequest)
    <2>1. \A i \in DOMAIN KeyRequest : KeyRequest[i].type \in KeyTypes
      BY <1>3 DEF KeyTypes, Requests
    <2>2. ByteCount(KeyRequest) = Weigh(Requests, KeyRequest) + Weigh(Results, KeyRequest)
      BY <1>1, <2>1, WeighSplit
    <2>3. Weigh(Requests, KeyRequest) \in Nat
      BY <1>1, WeighFacts
    <2> QED
      BY <1>4, <2>2, <2>3
  <1>6. Weigh(Requests, KeyRequest) > 0 /\ Weigh(Requests, KeyRequest) \in Nat
    <2>1. Weigh(Requests, KeyRequest)
          = Size(Requests, Head(KeyRequest)) + Weigh(Requests, Tail(KeyRequest))
      BY <1>1, <1>3, WeighTail
    <2>2. Size(Requests, Head(KeyRequest)) = Parts[1] /\ Parts[1] \in Nat \ {0}
      BY <1>2, <1>3 DEF Size, Chunk, Requests
    <2>3. Weigh(Requests, Tail(KeyRequest)) \in Nat
      <3>1. Tail(KeyRequest) \in Seq(Packet)
        BY <1>1, <1>3
      <3> QED
        BY <3>1, WeighFacts
    <2> QED
      BY <2>1, <2>2, <2>3
  <1>7. ASSUME NEW ok \in BOOLEAN
        PROVE  /\ KeyResult(ok) \in Seq(Packet)
               /\ Weigh(Requests, KeyResult(ok)) = 0
               /\ Weigh(Results, KeyResult(ok)) = 18
               /\ ByteCount(KeyResult(ok)) = 18
    <2> DEFINE c == Chunk("0007", 1, 18, None, ok)
    <2>1. c \in Packet /\ c.type = "0007" /\ c.len = 18
      BY DEF Chunk, Packet, Kinds, None
    <2>2. KeyResult(ok) = Append(<<>>, c)
      BY DEF KeyResult
    <2>3. <<>> \in Seq(Packet) /\ Append(<<>>, c) \in Seq(Packet)
      BY <2>1
    <2>4. /\ Size(Requests, c) = 0 /\ Size(Results, c) = 18
      BY <2>1 DEF Size, Requests, Results
    <2> HIDE DEF c
    <2>5. /\ Weigh(Requests, Append(<<>>, c)) = Weigh(Requests, <<>>) + 0
          /\ Weigh(Results, Append(<<>>, c)) = Weigh(Results, <<>>) + 18
      BY <2>1, <2>3, <2>4, WeighFacts
    <2>6. ByteCount(Append(<<>>, c)) = ByteCount(<<>>) + 18
      BY <2>1, <2>3, ByteCountFacts, PacketHasLength
    <2>7. /\ Weigh(Requests, <<>>) = 0 /\ Weigh(Results, <<>>) = 0 /\ ByteCount(<<>>) = 0
      BY WeighFacts, ByteCountFacts, PacketHasLength
    <2> QED
      BY <2>2, <2>3, <2>5, <2>6, <2>7
  <1> QED
    BY <1>1, <1>3, <1>4, <1>5, <1>6, <1>7

-----------------------------------------------------------------------------
(* The order of the packets.  Once the device asks for the client's key it *)
(* sends key packets, and then replies, which there are only when the      *)
(* client has its key, or when nothing was ever asked: so nothing else     *)
(* comes between the chunks of a 0086.                                     *)

Only(q, T) == \A i \in DOMAIN q : q[i].type \in T

AfterKey == KeyTypes \cup {"Reply"}
KeysLast(q) == \A i, j \in DOMAIN q :
                  i < j /\ q[i].type \in KeyTypes => q[j].type \in AfterKey

NoKeys    == Kinds \ KeyTypes
NoReplies == Kinds \ {"Reply"}
NoData    == Kinds \ {"Data"}

HeldIsKeyPacket == Only(cli.handshake_acc, KeyTypes)

NothingBetween ==
    /\ cli.handshake_acc # <<>> => Only(d2c, AfterKey)
    /\ KeysLast(d2c)

DoneHoldsNothing ==
    /\ cli.key_exchange_done => cli.handshake_acc = <<>>
    /\ cli.encryption_ready => cli.key_exchange_done

RepliesComeLast ==
    \/ cli.key_exchange_done \/ peer = "Plain"
    \/ Only(d2c, NoReplies) /\ Only(c2d, NoData)

PlainIsSilent ==
    peer = "Plain" =>
        dev = NewDevice /\ cli.handshake_acc = <<>> /\ Only(d2c, {"Reply"})

KeysAreAsked ==
    linkUp /\ dev.state \in {"Request", "Respond", "EcdhRequest"} =>
        cli.handshake_acc = <<>> /\ Only(d2c, NoKeys)

\* What the device has not looked at yet is what it waits for.
StatusFits ==
    dev.status # dev.seen /\ dev.status \in {"Request", "Respond", "EcdhRequest"} =>
        dev.state = dev.status

Order ==
    /\ HeldIsKeyPacket /\ NothingBetween /\ DoneHoldsNothing
    /\ RepliesComeLast /\ PlainIsSilent /\ KeysAreAsked /\ StatusFits

\* Order holds at first, when nothing was sent.
LEMMA OrderInit == Init => Order
  <1> SUFFICES ASSUME Init
               PROVE  Order
    OBVIOUS
  <1> USE DEF Init, NewSession, NewDevice
  <1>1. /\ cli.handshake_acc = <<>> /\ d2c = <<>> /\ c2d = <<>>
        /\ cli.key_exchange_done = FALSE /\ cli.encryption_ready = FALSE
        /\ dev.status = dev.seen /\ dev = NewDevice
    OBVIOUS
  <1>2. \A T : Only(<<>>, T)
    BY DEF Only
  <1>3. KeysLast(<<>>)
    BY DEF KeysLast
  <1> QED
    BY <1>1, <1>2, <1>3
    DEF Order, HeldIsKeyPacket, NothingBetween, DoneHoldsNothing,
        RepliesComeLast, PlainIsSilent, KeysAreAsked, StatusFits

\* The types of what is taken, kept and added.
LEMMA OnlyFacts ==
    ASSUME NEW q \in Seq(Packet), NEW T, Only(q, T)
    PROVE  /\ q # <<>> => Head(q).type \in T /\ Only(Tail(q), T)
           /\ \A c \in Packet : c.type \in T => Only(Append(q, c), T)
           /\ \A r \in Seq(Packet) : Only(r, T) => Only(q \o r, T)
  <1>1. q # <<>> => Head(q).type \in T /\ Only(Tail(q), T)
    BY DEF Only
  <1>2. \A c \in Packet : c.type \in T => Only(Append(q, c), T)
    BY DEF Only
  <1>3. ASSUME NEW r \in Seq(Packet), Only(r, T)
        PROVE  Only(q \o r, T)
    <2>1. \A i \in DOMAIN (q \o r) :
             (q \o r)[i] = IF i <= Len(q) THEN q[i] ELSE r[i - Len(q)]
      OBVIOUS
    <2>2. \A i \in DOMAIN (q \o r) :
             IF i <= Len(q) THEN i \in DOMAIN q ELSE i - Len(q) \in DOMAIN r
      OBVIOUS
    <2> QED
      BY <1>3, <2>1, <2>2 DEF Only
  <1> QED
    BY <1>1, <1>2, <1>3

\* Key packets stay last.
LEMMA KeysLastFacts ==
    ASSUME NEW q \in Seq(Packet), KeysLast(q)
    PROVE  /\ q # <<>> => KeysLast(Tail(q))
           /\ q # <<>> /\ Head(q).type \in KeyTypes => Only(Tail(q), AfterKey)
           /\ \A c \in Packet : c.type \in AfterKey => KeysLast(Append(q, c))
           /\ \A c \in Packet : Only(q, NoKeys) => KeysLast(Append(q, c))
           /\ \A r \in Seq(Packet) : Only(r, AfterKey) => KeysLast(q \o r)
  <1>1. ASSUME q # <<>>
        PROVE  /\ KeysLast(Tail(q))
               /\ Head(q).type \in KeyTypes => Only(Tail(q), AfterKey)
    <2>1. /\ \A i \in DOMAIN Tail(q) : /\ i + 1 \in DOMAIN q /\ Tail(q)[i] = q[i + 1]
                                       /\ i \in Nat \ {0}
          /\ Head(q) = q[1] /\ 1 \in DOMAIN q
      BY <1>1
    <2>2. \A i, j \in DOMAIN Tail(q) : i < j => i + 1 < j + 1
      BY <2>1
    <2>3. \A j \in DOMAIN Tail(q) : 1 < j + 1
      BY <2>1
    <2>4. KeysLast(Tail(q))
      BY <2>1, <2>2 DEF KeysLast
    <2>5. Head(q).type \in KeyTypes => Only(Tail(q), AfterKey)
      BY <2>1, <2>3 DEF KeysLast, Only
    <2> QED
      BY <2>4, <2>5
  <1>2. ASSUME NEW c \in Packet, c.type \in AfterKey \/ Only(q, NoKeys)
        PROVE  KeysLast(Append(q, c))
    <2>1. \A i \in DOMAIN Append(q, c) :
             \/ i \in DOMAIN q /\ Append(q, c)[i] = q[i]
             \/ i = Len(q) + 1 /\ Append(q, c)[i] = c
      OBVIOUS
    <2>2. \A i \in DOMAIN q : i < Len(q) + 1
      OBVIOUS
    <2>3. \A i \in DOMAIN q : Only(q, NoKeys) => q[i].type \notin KeyTypes
      BY DEF Only, NoKeys
    <2>4. \A i, j \in DOMAIN Append(q, c) : i < j => i \in DOMAIN q
      OBVIOUS
    <2> QED
      BY <1>2, <2>1, <2>2, <2>3, <2>4 DEF KeysLast
  <1>3. ASSUME NEW r \in Seq(Packet), Only(r, AfterKey)
        PROVE  KeysLast(q \o r)
    <2>1. \A i \in DOMAIN (q \o r) :
             \/ i \in DOMAIN q /\ (q \o r)[i] = q[i] /\ i <= Len(q)
             \/ i - Len(q) \in DOMAIN r /\ (q \o r)[i] = r[i - Len(q)] /\ i > Len(q)
      OBVIOUS
    <2>2. \A i, j \in DOMAIN (q \o r) : i < j /\ j <= Len(q) => i <= Len(q)
      OBVIOUS
    <2> SUFFICES ASSUME NEW i \in DOMAIN (q \o r), NEW j \in DOMAIN (q \o r),
                        i < j, (q \o r)[i].type \in KeyTypes
                 PROVE  (q \o r)[j].type \in AfterKey
      BY DEF KeysLast
    <2> DEFINE p == q \o r
    <2>3. \/ i \in DOMAIN q /\ p[i] = q[i] /\ j \in DOMAIN q /\ p[j] = q[j]
          \/ j - Len(q) \in DOMAIN r /\ p[j] = r[j - Len(q)]
      <3>1. i \in Nat /\ j \in Nat /\ Len(q) \in Nat
        OBVIOUS
      <3> QED
        BY <2>1, <3>1
    <2> HIDE DEF p
    <2>4. p[i].type \in KeyTypes
      BY DEF p
    <2>5. p[j].type \in AfterKey
      BY <1>3, <2>3, <2>4 DEF KeysLast, Only
    <2> QED
      BY <2>5 DEF p
  <1> QED
    BY <1>1, <1>2, <1>3

OInv == PInv /\ Order

\* A packet is taken, and no packet is put together.
LEMMA OrderTaken ==
    ASSUME OInv, d2c # <<>>, d2c' = Tail(d2c), UNCHANGED <<peer, dev, linkUp>>,
           cli'.handshake_acc \in {<<>>, cli.handshake_acc},
           cli.key_exchange_done => cli'.key_exchange_done,
           cli'.encryption_ready => cli'.key_exchange_done,
           cli'.key_exchange_done =>
                cli.key_exchange_done \/ cli'.handshake_acc = <<>>,
           Only(c2d, NoData) => Only(c2d', NoData)
    PROVE  Order'
  <1>1. d2c \in Seq(Packet)
    BY DEF OInv, PInv, Types
  <1>2. \A T : Only(d2c, T) => Only(Tail(d2c), T)
    BY <1>1, OnlyFacts
  <1>3. KeysLast(Tail(d2c))
    BY <1>1, KeysLastFacts DEF OInv, Order, NothingBetween
  <1>4. \A T : Only(<<>>, T)
    BY DEF Only
  <1> USE DEF OInv, Order
  <1>5. (HeldIsKeyPacket /\ NothingBetween)'
    BY <1>2, <1>3, <1>4 DEF HeldIsKeyPacket, NothingBetween
  <1>6. (DoneHoldsNothing /\ RepliesComeLast)'
    BY <1>2 DEF DoneHoldsNothing, RepliesComeLast
  <1>7. (PlainIsSilent /\ KeysAreAsked /\ StatusFits)'
    BY <1>2 DEF PlainIsSilent, KeysAreAsked, StatusFits
  <1> QED
    BY <1>5, <1>6, <1>7

\* A chunk is kept: it belongs to a packet, for which the device was asked.
LEMMA KeptIsKeyPacket ==
    ASSUME OInv, d2c # <<>>, Collecting(cli, Head(d2c))
    PROVE  /\ Head(d2c) \in Packet /\ Head(d2c).type \in KeyTypes
           /\ ~cli.key_exchange_done /\ peer # "Plain"
           /\ Only(Tail(d2c), AfterKey)
           /\ linkUp => dev.state \notin {"Request", "Respond", "EcdhRequest"}
  <1> USE DEF OInv, Order
  <1>1. d2c \in Seq(Packet)
    BY DEF PInv, Types
  <1>2. Head(d2c) \in Packet
    BY <1>1
  <1>3. \A T : Only(d2c, T) => Head(d2c).type \in T /\ Only(Tail(d2c), T)
    BY <1>1, OnlyFacts
  <1>4. ~cli.key_exchange_done
    BY DEF DoneHoldsNothing, Collecting
  <1>5. peer # "Plain"
    BY <1>3 DEF PlainIsSilent, Collecting
  <1>6. Only(d2c, NoReplies)
    BY <1>4, <1>5 DEF RepliesComeLast
  <1>7. Head(d2c).type \in KeyTypes /\ Only(Tail(d2c), AfterKey)
    <2>1. CASE cli.handshake_acc # <<>>
      <3>1. Head(d2c).type \in AfterKey /\ Only(Tail(d2c), AfterKey)
        BY <2>1, <1>3 DEF NothingBetween
      <3>2. Head(d2c).type \in NoReplies
        BY <1>3, <1>6
      <3> QED
        BY <3>1, <3>2 DEF AfterKey, NoReplies
    <2>2. CASE cli.handshake_acc = <<>>
      <3>1. Head(d2c).type \in KeyTypes
        BY <2>2 DEF Collecting, KeyTypes, Requests, Results
      <3> QED
        BY <1>1, <3>1, KeysLastFacts DEF NothingBetween
    <2> QED
      BY <2>1, <2>2
  <1>8. linkUp => dev.state \notin {"Request", "Respond", "EcdhRequest"}
    <2>1. ASSUME linkUp, dev.state \in {"Request", "Respond", "EcdhRequest"}
          PROVE  FALSE
      <3>1. Only(d2c, NoKeys)
        BY <2>1 DEF KeysAreAsked
      <3>2. Head(d2c).type \in NoKeys
        BY <1>3, <3>1
      <3> QED
        BY <1>7, <3>2 DEF NoKeys
    <2> QED
      BY <2>1
  <1> QED
    BY <1>2, <1>4, <1>5, <1>7, <1>8

\* What is kept is of a key packet, and only key packets follow it.
LEMMA OrderCollects ==
    ASSUME OInv, ClientCollects
    PROVE  Order'
  <1> USE DEF OInv, Order
  <1>1. d2c # <<>> /\ d2c' = Tail(d2c) /\ Collecting(cli, Head(d2c))
        /\ UNCHANGED <<peer, dev, linkUp, c2d>>
    BY DEF ClientCollects, Reading, devVars
  <1>2. d2c \in Seq(Packet) /\ cli.handshake_acc \in Seq(Packet) /\ cli \in Session
    BY DEF PInv, Types, Session
  <1>3. /\ Head(d2c) \in Packet /\ Head(d2c).type \in KeyTypes
        /\ ~cli.key_exchange_done /\ peer # "Plain"
        /\ Only(Tail(d2c), AfterKey)
        /\ linkUp => dev.state \notin {"Request", "Respond", "EcdhRequest"}
    BY <1>1, KeptIsKeyPacket
  <1>4. /\ cli'.handshake_acc = Append(cli.handshake_acc, Head(d2c))
        /\ cli'.key_exchange_done = cli.key_exchange_done
        /\ cli'.encryption_ready = cli.encryption_ready
    BY <1>2 DEF ClientCollects, Collected, Session
  <1>5. HeldIsKeyPacket'
    BY <1>2, <1>3, <1>4, OnlyFacts DEF HeldIsKeyPacket
  <1>6. NothingBetween'
    BY <1>1, <1>2, <1>3, KeysLastFacts DEF NothingBetween
  <1>7. DoneHoldsNothing'
    BY <1>3, <1>4 DEF DoneHoldsNothing
  <1>8. RepliesComeLast'
    BY <1>1, <1>2, <1>4, OnlyFacts DEF RepliesComeLast
  <1>9. (PlainIsSilent /\ KeysAreAsked /\ StatusFits)'
    BY <1>1, <1>3 DEF PlainIsSilent, KeysAreAsked, StatusFits
  <1> QED
    BY <1>5, <1>6, <1>7, <1>8, <1>9

\* Order holds after whatever the client reads.
LEMMA OrderClient ==
    ASSUME OInv, ClientReads
    PROVE  Order'
  <1> USE DEF OInv, PInv, Types
  <1>1. CASE ClientCollects
    BY <1>1, OrderCollects
  <1>2. d2c # <<>> /\ UNCHANGED <<peer, dev, linkUp>> /\ d2c' = Tail(d2c)
    BY DEF ClientReads, ClientCollects, ClientAuthRequest, ClientAuthResult,
           ClientKeyExchange, ClientKeyExchangeResult, ClientBusiness,
           ClientDispatches, Reading, devVars
  <1>3. cli.encryption_ready => cli.key_exchange_done
    BY DEF Order, DoneHoldsNothing
  <1> DEFINE held == [cli EXCEPT !.handshake_acc = <<>>]
  <1>4. /\ held \in Session /\ held.handshake_acc = <<>>
        /\ held.key_exchange_done = cli.key_exchange_done
        /\ held.encryption_ready = cli.encryption_ready
    <2>1. <<>> \in Seq(Packet)
      OBVIOUS
    <2> QED
      BY <2>1 DEF Session
  <1>5. CASE ClientAuthRequest
    <2>1. UNCHANGED <<cli.handshake_acc, cli.key_exchange_done, cli.encryption_ready>>
      BY <1>5 DEF ClientAuthRequest, HandleAuthRequest, Session
    <2>2. Answer \in Packet /\ Answer.type \in NoData
      BY PacketTypes DEF Answer, Chunk, NoData, Kinds
    <2>3. Only(c2d, NoData) => Only(c2d', NoData)
      BY <1>5, <2>2, OnlyFacts DEF ClientAuthRequest
    <2> QED
      BY <1>2, <1>3, <2>1, <2>3, OrderTaken
  <1>6. CASE ClientAuthResult
    <2>1. UNCHANGED <<cli.handshake_acc, cli.key_exchange_done, cli.encryption_ready>>
      BY <1>6 DEF ClientAuthResult, HandleAuthResult, Session
    <2>2. UNCHANGED c2d
      BY <1>6 DEF ClientAuthResult
    <2> QED
      BY <1>2, <1>3, <2>1, <2>2, OrderTaken
  <1>7. CASE ClientKeyExchange
    <2>1. cli' \in {held, HandleKeyExchange(held, answers + 1)}
      BY <1>7 DEF ClientKeyExchange
    <2>2. KeyExchangeResponse(answers + 1) \in Packet
          /\ KeyExchangeResponse(answers + 1).type \in NoData
      BY PacketTypes DEF KeyExchangeResponse, KeyPacket, Chunk, NoData, Kinds
    <2>3. c2d' \in {c2d, Append(c2d, KeyExchangeResponse(answers + 1))}
      BY <1>7 DEF ClientKeyExchange
    <2>4. Only(c2d, NoData) => Only(c2d', NoData)
      <3> SUFFICES ASSUME Only(c2d, NoData)
                   PROVE  Only(c2d', NoData)
        OBVIOUS
      <3>1. \A c \in Packet : c.type \in NoData => Only(Append(c2d, c), NoData)
        BY OnlyFacts
      <3> QED
        BY <2>2, <2>3, <3>1
    <2> HIDE DEF held
    <2>5. /\ cli'.handshake_acc = <<>>
          /\ cli'.key_exchange_done = cli.key_exchange_done
          /\ cli'.encryption_ready = cli.encryption_ready
      BY <1>4, <2>1 DEF HandleKeyExchange, Session
    <2> QED
      BY <1>2, <1>3, <2>4, <2>5, OrderTaken
  <1>8. CASE ClientKeyExchangeResult
    <2>1. cli' = HandleKeyExchangeResult(held, Head(d2c).ok)
      BY <1>8 DEF ClientKeyExchangeResult
    <2>2. UNCHANGED c2d
      BY <1>8 DEF ClientKeyExchangeResult
    <2> HIDE DEF held
    <2>3. /\ cli'.handshake_acc = <<>>
          /\ \/ cli'.key_exchange_done = TRUE
             \/ /\ cli'.key_exchange_done = held.key_exchange_done
                /\ cli'.encryption_ready = held.encryption_ready
      BY <1>4, <2>1 DEF HandleKeyExchangeResult, Session
    <2> QED
      BY <1>2, <1>3, <1>4, <2>2, <2>3, OrderTaken
  <1>9. CASE ClientBusiness
    <2>1. UNCHANGED <<cli.handshake_acc, cli.key_exchange_done, cli.encryption_ready>>
      BY <1>9 DEF ClientBusiness, PushNotification, Session
    <2>2. UNCHANGED c2d
      BY <1>9 DEF ClientBusiness
    <2> QED
      BY <1>2, <1>3, <2>1, <2>2, OrderTaken
  <1> QED
    BY <1>1, <1>5, <1>6, <1>7, <1>8, <1>9 DEF ClientReads

\* Order holds after a step of the client's session, and after a loss.
LEMMA OrderSession ==
    ASSUME OInv, Subscription \/ ClientPlainTimer \/ ClientPolls \/ AirLoses
    PROVE  Order'
  <1> USE DEF OInv, PInv, Types
  <1>1. CASE ClientSubscribes
    <2>1. /\ UNCHANGED <<cli, peer, linkUp, d2c, c2d>>
          /\ peer = "Plain" => dev' = dev
          /\ dev'.state = dev.state /\ dev'.seen = dev.seen
          /\ \/ dev'.status = dev.status
             \/ dev'.status = "Request" /\ dev.state = "Request"
      BY <1>1 DEF ClientSubscribes, Device
    <2> QED
      BY <2>1
      DEF Order, HeldIsKeyPacket, NothingBetween, DoneHoldsNothing,
          RepliesComeLast, PlainIsSilent, KeysAreAsked, StatusFits
  <1>2. CASE ClientOpensReader
    BY <1>2 DEF ClientOpensReader, devVars, Order, HeldIsKeyPacket, NothingBetween,
        DoneHoldsNothing, RepliesComeLast, PlainIsSilent, KeysAreAsked, StatusFits
  <1>3. CASE NotificationUnheard
    <2>1. cli.encryption_ready => cli.key_exchange_done
      BY DEF Order, DoneHoldsNothing
    <2>2. d2c # <<>> /\ d2c' = Tail(d2c) /\ UNCHANGED <<cli, peer, dev, linkUp, c2d>>
      BY <1>3 DEF NotificationUnheard, cliVars, devVars
    <2> QED
      BY <2>1, <2>2, OrderTaken
  <1>4. CASE ClientPlainTimer
    <2>1. /\ UNCHANGED <<cli.handshake_acc, cli.key_exchange_done>>
          /\ cli'.encryption_ready = FALSE
      BY <1>4 DEF ClientPlainTimer, MarkPlaintextMode, Session
    <2>2. UNCHANGED <<dev, peer, linkUp, d2c, c2d>>
      BY <1>4 DEF ClientPlainTimer, devVars
    <2> QED
      BY <2>1, <2>2 DEF Order, HeldIsKeyPacket, NothingBetween, DoneHoldsNothing,
          RepliesComeLast, PlainIsSilent, KeysAreAsked, StatusFits
  <1>5. CASE ClientPolls
    <2>1. UNCHANGED <<cli, dev, peer, linkUp, d2c>>
      BY <1>5 DEF ClientPolls, cliVars, devVars
    <2>2. cli.key_exchange_done \/ peer = "Plain"
      <3>1. linkUp /\ (cli.encryption_ready \/ cli.phase = Plaintext)
        BY <1>5 DEF ClientPolls, ModbusReady
      <3> QED
        BY <3>1 DEF Authenticating, Order, DoneHoldsNothing
    <2> QED
      BY <2>1, <2>2 DEF Order, HeldIsKeyPacket, NothingBetween, DoneHoldsNothing,
          RepliesComeLast, PlainIsSilent, KeysAreAsked, StatusFits
  <1>6. CASE AirLoses
    <2>1. cli.encryption_ready => cli.key_exchange_done
      BY DEF Order, DoneHoldsNothing
    <2>2. UNCHANGED <<cli, peer, dev, linkUp>>
      BY <1>6 DEF AirLoses, cliVars, devVars
    <2>3. CASE d2c # <<>> /\ d2c' = Tail(d2c) /\ UNCHANGED c2d
      BY <2>1, <2>2, <2>3, OrderTaken
    <2>4. CASE c2d # <<>> /\ c2d' = Tail(c2d) /\ UNCHANGED d2c
      <3>1. Only(c2d, NoData) => Only(c2d', NoData)
        BY <2>4, OnlyFacts
      <3> QED
        BY <2>2, <2>4, <3>1
        DEF Order, HeldIsKeyPacket, NothingBetween, DoneHoldsNothing,
            RepliesComeLast, PlainIsSilent, KeysAreAsked, StatusFits
    <2> QED
      BY <1>6, <2>3, <2>4 DEF AirLoses
  <1> QED
    BY <1>1, <1>2, <1>3, <1>4, <1>5, <1>6 DEF Subscription

Early == {"Request", "Respond", "EcdhRequest"}

\* The device sends something that is no reply.
LEMMA OrderSends ==
    ASSUME OInv, UNCHANGED <<cli, peer>>, peer # "Plain",
           Only(c2d, NoData) => Only(c2d', NoData), StatusFits',
           NEW r \in Seq(Packet), d2c' = d2c \o r, Only(r, NoReplies),
           \/ Only(r, AfterKey) /\ ~(linkUp' /\ dev'.state \in Early)
           \/ /\ cli.handshake_acc = <<>> /\ Only(d2c, NoKeys)
              /\ Only(r, NoKeys)
    PROVE  Order'
  <1> USE DEF OInv, Order
  <1>1. d2c \in Seq(Packet)
    BY DEF PInv, Types
  <1>2. \A T : Only(d2c, T) /\ Only(r, T) => Only(d2c', T)
    BY <1>1, OnlyFacts
  <1>3. CASE Only(r, AfterKey) /\ ~(linkUp' /\ dev'.state \in Early)
    <2>1. NothingBetween'
      BY <1>1, <1>2, <1>3, KeysLastFacts DEF NothingBetween
    <2>2. KeysAreAsked'
      BY <1>3 DEF KeysAreAsked, Early
    <2> QED
      BY <1>2, <2>1, <2>2
      DEF HeldIsKeyPacket, DoneHoldsNothing, RepliesComeLast, PlainIsSilent
  <1>4. CASE cli.handshake_acc = <<>> /\ Only(d2c, NoKeys) /\ Only(r, NoKeys)
    <2>1. Only(d2c', NoKeys)
      BY <1>2, <1>4
    <2>2. KeysLast(d2c')
      BY <2>1 DEF KeysLast, Only, NoKeys
    <2> QED
      BY <1>2, <1>4, <2>1, <2>2
      DEF NothingBetween, KeysAreAsked, HeldIsKeyPacket, DoneHoldsNothing,
          RepliesComeLast, PlainIsSilent
  <1> QED
    BY <1>3, <1>4

\* The device sends nothing.
LEMMA OrderQuiet ==
    ASSUME OInv, UNCHANGED <<cli, peer, d2c>>, peer = "Plain" => dev' = dev,
           Only(c2d, NoData) => Only(c2d', NoData), StatusFits',
           linkUp' /\ dev'.state \in Early => linkUp /\ dev.state \in Early
    PROVE  Order'
  BY DEF OInv, Order, HeldIsKeyPacket, NothingBetween, DoneHoldsNothing,
         RepliesComeLast, PlainIsSilent, KeysAreAsked, Early

\* One packet sent is a sequence of one.
LEMMA OneSent ==
    ASSUME NEW q \in Seq(Packet), NEW c \in Packet
    PROVE  /\ <<c>> \in Seq(Packet) /\ Append(q, c) = q \o <<c>>
           /\ \A T : c.type \in T => Only(<<c>>, T)
  <1>1. <<c>> \in Seq(Packet) /\ Append(q, c) = q \o <<c>>
    OBVIOUS
  <1>2. \A i \in DOMAIN <<c>> : <<c>>[i] = c
    OBVIOUS
  <1> QED
    BY <1>1, <1>2 DEF Only

\* The types of the key packets.
LEMMA SentTypes ==
    /\ Only(KeyRequest, KeyTypes)
    /\ \A ok \in BOOLEAN : Only(KeyResult(ok), KeyTypes)
    /\ \A q : Only(q, KeyTypes) => Only(q, AfterKey) /\ Only(q, NoReplies)
  <1>1. Only(KeyRequest, KeyTypes)
    <2>1. \A i \in DOMAIN KeyRequest : KeyRequest[i].type = "0086"
      BY DEF KeyRequest, Chunk
    <2> QED
      BY <2>1 DEF Only, KeyTypes, Requests
  <1>2. ASSUME NEW ok \in BOOLEAN
        PROVE  Only(KeyResult(ok), KeyTypes)
    <2>1. Chunk("0007", 1, 18, None, ok) \in Packet
          /\ Chunk("0007", 1, 18, None, ok).type = "0007"
      BY DEF Chunk, Packet, Kinds, None
    <2>2. <<>> \in Seq(Packet)
      OBVIOUS
    <2>3. \A T : "0007" \in T => Only(KeyResult(ok), T)
      BY <2>1, <2>2, OneSent, Zenon DEF KeyResult
    <2> QED
      BY <2>3 DEF KeyTypes, Results
  <1>3. \A q : Only(q, KeyTypes) => Only(q, AfterKey) /\ Only(q, NoReplies)
    BY DEF Only, KeyTypes, AfterKey, NoReplies, Requests, Results, Kinds
  <1> QED
    BY <1>1, <1>2, <1>3

\* A device that does not authenticate has nothing to look at or to repeat.
LEMMA PlainDoesNothing ==
    ASSUME OInv, DeviceStep \/ DeviceResends \/ DeviceGivesUp
    PROVE  peer # "Plain"
  <1> SUFFICES ASSUME dev = NewDevice
               PROVE  FALSE
    BY DEF OInv, Order, PlainIsSilent
  <1> QED
    BY DEF NewDevice, DeviceStep, DeviceChallenges, DeviceChecksAnswer,
           DeviceRequestsKey, DeviceAcceptsKey, DeviceRefusesKey, StatusChanged,
           DeviceResends, DeviceGivesUp, Waiting

\* A device that is about to challenge, to check or to ask for a key has not
\* asked for one before.
LEMMA NothingAsked ==
    ASSUME OInv, NEW status \in Early, StatusChanged(status)
    PROVE  /\ linkUp /\ dev.state = status /\ dev.status = status
           /\ cli.handshake_acc = <<>> /\ Only(d2c, NoKeys)
  BY DEF OInv, Order, StatusFits, KeysAreAsked, StatusChanged, Early

\* Order holds after a step of the device's authenticator.
LEMMA OrderDeviceStep ==
    ASSUME OInv, DeviceStep
    PROVE  Order'
  <1> USE DEF OInv
  <1>0. d2c \in Seq(Packet) /\ c2d \in Seq(Packet) /\ dev \in Device
    BY DEF PInv, Types
  <1>1. peer # "Plain" /\ UNCHANGED <<cli, peer>>
    BY PlainDoesNothing DEF DeviceStep, DeviceChallenges, DeviceChecksAnswer,
       DeviceRequestsKey, DeviceAcceptsKey, DeviceRefusesKey, cliVars
  <1>2. Only(c2d, NoData) => Only(c2d', NoData)
    <2>1. c2d' = c2d \/ c2d' = <<>>
      BY DEF DeviceStep, DeviceChallenges, DeviceChecksAnswer, DeviceRequestsKey,
         DeviceAcceptsKey, DeviceRefusesKey
    <2>2. Only(<<>>, NoData)
      BY DEF Only
    <2> QED
      BY <2>1, <2>2
  <1>3. CASE DeviceChallenges
    <2>1. Challenge \in Packet /\ Challenge.type = "01"
      BY PacketTypes DEF Challenge, Chunk
    <2>2. <<Challenge>> \in Seq(Packet) /\ d2c' = d2c \o <<Challenge>>
          /\ Only(<<Challenge>>, NoReplies) /\ Only(<<Challenge>>, NoKeys)
      BY <1>0, <1>3, <2>1, OneSent
      DEF DeviceChallenges, NoReplies, NoKeys, KeyTypes, Requests, Results, Kinds
    <2>3. cli.handshake_acc = <<>> /\ Only(d2c, NoKeys)
      BY <1>3, NothingAsked DEF DeviceChallenges, Early
    <2>4. StatusFits'
      BY <1>0, <1>3 DEF DeviceChallenges, Enters, StatusFits, Device
    <2> QED
      BY <1>1, <1>2, <2>2, <2>3, <2>4, OrderSends
  <1>4. CASE DeviceChecksAnswer
    <2>1. cli.handshake_acc = <<>> /\ Only(d2c, NoKeys) /\ linkUp
          /\ dev.state = "Respond" /\ dev.status = "Respond"
      BY <1>4, NothingAsked DEF DeviceChecksAnswer, Early
    <2>2. CASE dev.buf = "02"
      <3>1. Result \in Packet /\ Result.type = "03"
        BY PacketTypes DEF Result, Chunk
      <3>2. <<Result>> \in Seq(Packet) /\ d2c' = d2c \o <<Result>>
            /\ Only(<<Result>>, NoReplies) /\ Only(<<Result>>, NoKeys)
        BY <1>0, <1>4, <2>2, <3>1, OneSent
        DEF DeviceChecksAnswer, NoReplies, NoKeys, KeyTypes, Requests, Results, Kinds
      <3>3. dev'.state = "EcdhRequest" /\ dev'.status = "EcdhRequest"
        BY <1>0, <1>4, <2>2 DEF DeviceChecksAnswer, Enters, Device
      <3>4. StatusFits'
        BY <3>3 DEF StatusFits
      <3> QED
        BY <1>1, <1>2, <2>1, <3>2, <3>4, OrderSends
    <2>3. CASE dev.buf # "02"
      <3>1. dev'.state = dev.state /\ dev'.status = "Respond" /\ dev'.seen = "Respond"
        BY <1>0, <1>4, <2>1, <2>3 DEF DeviceChecksAnswer, Device
      <3>2. StatusFits'
        BY <3>1 DEF StatusFits
      <3>3. UNCHANGED <<d2c, linkUp>>
        BY <1>4, <2>3 DEF DeviceChecksAnswer
      <3> QED
        BY <1>1, <1>2, <3>1, <3>2, <3>3, OrderQuiet
    <2> QED
      BY <2>2, <2>3
  <1>5. CASE DeviceRequestsKey
    <2>1. PICK r \in Seq(Packet) : r = KeyRequest
      BY PacketTypes, Zenon
    <2>2. d2c' = d2c \o r
      BY <1>5, <2>1, Zenon DEF DeviceRequestsKey
    <2>3. Only(r, AfterKey) /\ Only(r, NoReplies)
      BY <2>1, SentTypes, Zenon
    <2>4. dev'.state = "EcdhRespond" /\ dev'.status = dev.status
          /\ dev'.seen = dev.status
      BY <1>0, <1>5 DEF DeviceRequestsKey, Enters, Device
    <2>5. StatusFits' /\ dev'.state \notin Early
      BY <2>4 DEF StatusFits, Early
    <2> QED
      BY <1>1, <1>2, <2>2, <2>3, <2>5, OrderSends
  <1>6. CASE DeviceAcceptsKey
    <2>1. PICK r \in Seq(Packet) : r = KeyResult(TRUE)
      BY PacketTypes, Zenon
    <2>2. d2c' = d2c \o r
      BY <1>6, <2>1, Zenon DEF DeviceAcceptsKey
    <2>3. Only(r, AfterKey) /\ Only(r, NoReplies)
      <3>1. TRUE \in BOOLEAN
        OBVIOUS
      <3> QED
        BY <2>1, <3>1, SentTypes, Zenon
    <2>4. dev'.state = "AesCbc" /\ dev'.status = dev.status /\ dev'.seen = dev.status
      BY <1>0, <1>6 DEF DeviceAcceptsKey, Enters, Device
    <2>5. StatusFits' /\ dev'.state \notin Early
      BY <2>4 DEF StatusFits, Early
    <2> QED
      BY <1>1, <1>2, <2>2, <2>3, <2>5, OrderSends
  <1>7. CASE DeviceRefusesKey
    <2>1. PICK r \in Seq(Packet) : r = KeyResult(FALSE)
      BY PacketTypes, Zenon
    <2>2. d2c' = d2c \o r \/ d2c' = d2c
      BY <1>7, <2>1, Zenon DEF DeviceRefusesKey
    <2>3. Only(r, AfterKey) /\ Only(r, NoReplies)
      <3>1. FALSE \in BOOLEAN
        OBVIOUS
      <3> QED
        BY <2>1, <3>1, SentTypes, Zenon
    <2>4. dev' = NewDevice /\ ~linkUp'
      BY <1>7, Zenon DEF DeviceRefusesKey
    <2>5. StatusFits'
      BY <2>4 DEF StatusFits, NewDevice
    <2> QED
      BY <1>1, <1>2, <2>2, <2>3, <2>4, <2>5, OrderSends, OrderQuiet
  <1> QED
    BY <1>3, <1>4, <1>5, <1>6, <1>7 DEF DeviceStep

\* Order holds after the device has received, repeated or given up.
LEMMA OrderReceiver ==
    ASSUME OInv, DeviceReceives \/ DeviceResends \/ DeviceGivesUp
    PROVE  Order'
  <1> USE DEF OInv
  <1>0. d2c \in Seq(Packet) /\ c2d \in Seq(Packet) /\ dev \in Device
        /\ StatusFits
    BY DEF PInv, Types, Order
  <1>1. ASSUME DeviceReceiving
        PROVE  /\ Head(c2d) \in Packet /\ linkUp
               /\ Only(c2d, NoData) => Head(c2d).type \in NoData /\ Only(c2d', NoData)
    BY <1>0, <1>1, OnlyFacts, HeadIsPacket DEF DeviceReceiving
  <1>2. CASE DeviceTakesAnswer
    <2>1. dev'.state = "Respond" /\ dev'.status = "Respond" /\ dev'.seen = dev.seen
          /\ dev.state = "Respond" /\ UNCHANGED <<cli, peer, linkUp, d2c>>
      BY <1>0, <1>2 DEF DeviceTakesAnswer, Device, cliVars
    <2>2. StatusFits'
      BY <2>1 DEF StatusFits
    <2>3. peer # "Plain"
      BY <2>1 DEF Order, PlainIsSilent, NewDevice
    <2> QED
      BY <1>1, <1>2, <2>1, <2>2, <2>3, OrderQuiet DEF DeviceTakesAnswer
  <1>3. CASE DeviceTakesKey
    <2>1. dev'.state = dev.state /\ dev.state = "EcdhRespond" /\ dev'.seen = dev.seen
          /\ dev'.status \in {dev.status, "EcdhRespond"}
          /\ UNCHANGED <<cli, peer, linkUp, d2c>>
      BY <1>0, <1>3 DEF DeviceTakesKey, Device, cliVars
    <2>2. StatusFits'
      BY <1>0, <2>1 DEF StatusFits
    <2>3. peer # "Plain"
      BY <2>1 DEF Order, PlainIsSilent, NewDevice
    <2> QED
      BY <1>1, <1>3, <2>1, <2>2, <2>3, OrderQuiet DEF DeviceTakesKey
  <1>4. CASE DeviceServes
    <2>1. /\ UNCHANGED <<cli, peer, linkUp>>
          /\ dev'.seen = dev.seen /\ dev'.status = dev.status
          /\ peer = "Plain" => dev' = dev
          /\ peer # "Plain" => /\ dev.state \in {"AesCbc", "Complete"}
                               /\ dev'.state = "Complete"
      BY <1>0, <1>4 DEF DeviceServes, Device, cliVars
    <2>2. StatusFits'
      <3>1. peer # "Plain" => dev.state \notin Early
        BY <2>1 DEF Early
      <3> QED
        BY <1>0, <2>1, <3>1 DEF StatusFits, Early
    <2>3. CASE UNCHANGED d2c
      <3>1. linkUp' /\ dev'.state \in Early => linkUp /\ dev.state \in Early
        BY <2>1 DEF Early
      <3> QED
        BY <1>1, <1>4, <2>1, <2>2, <2>3, <3>1, OrderQuiet DEF DeviceServes
    <2>4. CASE Head(c2d) = Data(dev.key) /\ d2c' = Append(d2c, Reply(dev.key))
      <3>1. Reply(dev.key) \in Packet /\ Reply(dev.key).type = "Reply"
        BY <1>0, PacketTypes DEF Device, Reply, Chunk
      <3>2. cli.key_exchange_done \/ peer = "Plain"
        <4>1. Head(c2d).type = "Data"
          BY <2>4 DEF Data, Chunk
        <4>2. ~Only(c2d, NoData)
          BY <1>1, <1>4, <4>1 DEF DeviceServes, NoData
        <4> QED
          BY <4>2 DEF Order, RepliesComeLast
      <3>3. cli.handshake_acc = <<>>
        BY <3>2 DEF Order, DoneHoldsNothing, PlainIsSilent
      <3>4. KeysLast(d2c')
        BY <1>0, <2>4, <3>1, KeysLastFacts DEF Order, NothingBetween, AfterKey
      <3>5. peer = "Plain" => Only(d2c', {"Reply"})
        BY <1>0, <2>4, <3>1, OnlyFacts DEF Order, PlainIsSilent
      <3>6. peer = "Plain" => Only(d2c', NoKeys)
        BY <3>5 DEF Only, NoKeys, KeyTypes, Requests, Results, Kinds
      <3> QED
        BY <2>1, <2>2, <3>2, <3>3, <3>4, <3>5, <3>6
        DEF Order, HeldIsKeyPacket, NothingBetween, DoneHoldsNothing,
            RepliesComeLast, PlainIsSilent, KeysAreAsked
    <2> QED
      BY <1>4, <2>3, <2>4 DEF DeviceServes
  <1>5. CASE DeviceIgnores
    <2>1. UNCHANGED <<cli, peer, dev, linkUp, d2c>>
      BY <1>5 DEF DeviceIgnores, cliVars, devVars
    <2>2. StatusFits'
      BY <1>0, <2>1 DEF StatusFits
    <2> QED
      BY <1>1, <1>5, <2>1, <2>2, OrderQuiet DEF DeviceIgnores
  <1>6. CASE DeviceResends
    <2>1. peer # "Plain" /\ UNCHANGED <<cli, peer, linkUp, c2d>>
          /\ dev'.state = dev.state /\ dev'.status = dev.status /\ dev'.seen = dev.seen
      BY <1>0, <1>6, PlainDoesNothing DEF DeviceResends, Device, cliVars
    <2>2. StatusFits'
      BY <1>0, <2>1 DEF StatusFits
    <2>3. CASE dev.state = "Respond"
      <3>1. Challenge \in Packet /\ Challenge.type = "01"
        BY PacketTypes DEF Challenge, Chunk
      <3>2. Retransmit = <<Challenge>>
        BY <2>3, Zenon DEF Retransmit
      <3>3. d2c' = d2c \o <<Challenge>>
        BY <1>6, <3>2 DEF DeviceResends
      <3>4. <<Challenge>> \in Seq(Packet)
            /\ Only(<<Challenge>>, NoReplies) /\ Only(<<Challenge>>, NoKeys)
        BY <1>0, <3>1, OneSent DEF NoReplies, NoKeys, KeyTypes, Requests, Results, Kinds
      <3>5. cli.handshake_acc = <<>> /\ Only(d2c, NoKeys)
        BY <1>6, <2>3 DEF DeviceResends, Order, KeysAreAsked
      <3> QED
        BY <2>1, <2>2, <3>3, <3>4, <3>5, OrderSends
    <2>4. CASE dev.state \in {"EcdhRespond", "AesCbc"}
      <3>1. PICK r \in Seq(Packet) : r = Retransmit /\ Only(r, KeyTypes)
        <4>1. CASE dev.state = "EcdhRespond"
          <5>1. Retransmit = KeyRequest
            BY <4>1, Zenon DEF Retransmit
          <5> QED
            BY <5>1, PacketTypes, SentTypes, Zenon
        <4>2. CASE dev.state = "AesCbc"
          <5>1. Retransmit = KeyResult(TRUE)
            BY <4>2, Zenon DEF Retransmit
          <5>2. TRUE \in BOOLEAN
            OBVIOUS
          <5> QED
            BY <5>1, <5>2, PacketTypes, SentTypes, Zenon
        <4> QED
          BY <2>4, <4>1, <4>2
      <3>2. d2c' = d2c \o r
        BY <1>6, <3>1, Zenon DEF DeviceResends
      <3>3. Only(r, AfterKey) /\ Only(r, NoReplies)
        BY <3>1, SentTypes, Zenon
      <3>4. dev'.state \notin Early
        BY <2>1, <2>4 DEF Early
      <3> QED
        BY <2>1, <2>2, <3>2, <3>3, <3>4, OrderSends
    <2> QED
      BY <1>6, <2>3, <2>4 DEF DeviceResends, Waiting
  <1>7. CASE DeviceGivesUp
    <2>1. dev' = NewDevice /\ ~linkUp' /\ c2d' = <<>> /\ peer # "Plain"
      BY <1>7, PlainDoesNothing, Zenon DEF DeviceGivesUp
    <2>2. UNCHANGED <<cli, peer, d2c>>
      BY <1>7 DEF DeviceGivesUp, cliVars
    <2>3. StatusFits'
      BY <2>1 DEF StatusFits, NewDevice
    <2>4. Only(c2d', NoData)
      BY <2>1 DEF Only
    <2> QED
      BY <2>1, <2>2, <2>3, <2>4, OrderQuiet
  <1> QED
    BY <1>2, <1>3, <1>4, <1>5, <1>6, <1>7 DEF DeviceReceives

\* Order is inductive, with the types and PInv.
LEMMA OInvNext == OInv /\ [Next]_vars => OInv'
  <1> SUFFICES ASSUME OInv, [Next]_vars
               PROVE  Order'
    BY PInvNext DEF OInv
  <1>1. CASE UNCHANGED vars
    BY <1>1 DEF OInv, Order, HeldIsKeyPacket, NothingBetween, DoneHoldsNothing,
        RepliesComeLast, PlainIsSilent, KeysAreAsked, StatusFits,
        vars, cliVars, devVars
  <1> QED
    BY <1>1, OrderClient, OrderSession, OrderDeviceStep, OrderReceiver
    DEF Next, Subscription

-----------------------------------------------------------------------------
(* The bytes of the key packets.  The device asks for a key, and reports   *)
(* the result, once and again for every repetition, and every answer uses  *)
(* up a whole 0086.                                                        *)

Asked ==
    IF linkUp /\ dev.state \in Early THEN 0
    ELSE IF linkUp /\ dev.state = "EcdhRespond" THEN dev.retry + 1
    ELSE Resends + 1

Reported ==
    IF linkUp /\ dev.state \in Early \cup {"EcdhRespond"} THEN 0
    ELSE IF linkUp /\ dev.state = "AesCbc" THEN dev.retry + 1
    ELSE ResultResends + 1

\* The bytes of some types that were sent and neither lost nor used.
Unused(T) == Weigh(T, cli.handshake_acc) + Weigh(T, d2c)

RequestsFit ==
    answers * ByteCount(KeyRequest) + Unused(Requests) <= Asked * ByteCount(KeyRequest)

ResultsFit == Unused(Results) <= Reported * 18

Ranges ==
    /\ dev.retry <= Limit /\ lost \in 0..MaxLost
    /\ reader \in {"Off", "Subscribed", "Open"} /\ peer \in Peers
    /\ answered \in BOOLEAN /\ linkUp \in BOOLEAN
    /\ cli.rx_key \in Secrets

CInv == KInv /\ PInv /\ Order /\ Ranges /\ RequestsFit /\ ResultsFit

\* Multiples of one number compare as what they are multiples of.
LEMMA Products ==
    ASSUME NEW b \in Nat \ {0}
    PROVE  /\ \A a \in Nat : a * b \in Nat /\ (a + 1) * b = a * b + b /\ 0 * b = 0
           /\ \A a, c \in Nat : a <= c <=> a * b <= c * b
  <1>1. \A a \in Nat : a * b \in Nat /\ (a + 1) * b = a * b + b /\ 0 * b = 0
    OBVIOUS
  <1>2. ASSUME NEW a \in Nat, NEW c \in Nat
        PROVE  a <= c <=> a * b <= c * b
    <2>1. ASSUME a <= c
          PROVE  a * b <= c * b
      BY <2>1
    <2>2. ASSUME ~(a <= c)
          PROVE  ~(a * b <= c * b)
      <3>1. c + 1 <= a
        BY <2>2
      <3>2. (c + 1) * b <= a * b
        BY <3>1
      <3>3. (c + 1) * b = c * b + b /\ c * b \in Nat /\ a * b \in Nat
        OBVIOUS
      <3> QED
        BY <3>2, <3>3
    <2> QED
      BY <2>1, <2>2
  <1> QED
    BY <1>1, <1>2

\* Nothing is sent and nothing is answered at first.
LEMMA CInvInit == Init => CInv
  <1> SUFFICES ASSUME Init
               PROVE  Ranges /\ RequestsFit /\ ResultsFit
    BY KInvInit, PInvInit, OrderInit DEF CInv
  <1>1. Ranges
    <2>1. cli.rx_key = 0 /\ dev.retry = 0 /\ answers = 0 /\ lost = 0
      BY DEF Init, NewSession, NewDevice, None
    <2>2. reader = "Off" /\ peer \in Peers /\ answered \in BOOLEAN /\ linkUp \in BOOLEAN
      BY DEF Init
    <2> QED
      BY <2>1, <2>2, HandshakeAssumption DEF Ranges, Secrets, Limit
  <1>2. \A T : Unused(T) = 0
    BY WeighFacts DEF Init, NewSession, Unused
  <1>3. answers = 0 /\ Asked = 0 /\ Reported = 0
    BY DEF Init, Asked, Reported, NewDevice, Early
  <1> QED
    BY <1>1, <1>2, <1>3, KeyPacketsWeigh DEF RequestsFit, ResultsFit

\* What is counted is a number.
LEMMA CountTypes ==
    ASSUME CInv
    PROVE  /\ Asked \in Nat /\ Reported \in Nat /\ answers \in Nat
           /\ Asked <= Resends + 1 /\ Reported <= ResultResends + 1
           /\ ByteCount(KeyRequest) \in Nat \ {0}
           /\ answers * ByteCount(KeyRequest) \in Nat
           /\ Asked * ByteCount(KeyRequest) \in Nat
           /\ \A T : /\ Weigh(T, cli.handshake_acc) \in Nat /\ Weigh(T, d2c) \in Nat
                     /\ Unused(T) \in Nat
  <1>1. /\ dev.retry \in Nat /\ answers \in Nat
        /\ Resends \in Nat /\ ResultResends \in Nat
        /\ cli.handshake_acc \in Seq(Packet) /\ d2c \in Seq(Packet)
    BY HandshakeAssumption DEF CInv, KInv, Types, Session, Device
  <1>2. Asked \in Nat /\ Reported \in Nat
        /\ Asked <= Resends + 1 /\ Reported <= ResultResends + 1
    BY <1>1 DEF Asked, Reported, CInv, Ranges, Limit, Early
  <1>3. ByteCount(KeyRequest) \in Nat \ {0}
    BY KeyPacketsWeigh
  <1>4. \A T : Weigh(T, cli.handshake_acc) \in Nat /\ Weigh(T, d2c) \in Nat
    BY <1>1, WeighFacts
  <1> QED
    BY <1>1, <1>2, <1>3, <1>4, Products DEF Unused

\* Fewer are unused, and no more were used; or as many more as are asked for.
LEMMA CountFits ==
    ASSUME CInv, answers' = answers, Unused(Requests)' \in Nat, Unused(Results)' \in Nat,
           NEW a \in Nat, NEW b \in Nat, NEW m \in Nat, NEW n \in Nat,
           Unused(Requests)' <= Unused(Requests) + m,
           Unused(Results)' <= Unused(Results) + n,
           m <= a * ByteCount(KeyRequest), n <= b * 18,
           Asked' \in Nat, Asked + a <= Asked', Reported' \in Nat, Reported + b <= Reported'
    PROVE  (RequestsFit /\ ResultsFit)'
  <1> DEFINE B == ByteCount(KeyRequest)
             U == Unused(Requests)
             V == Unused(Requests)'
  <1>1. B \in Nat \ {0} /\ Asked \in Nat /\ Reported \in Nat
        /\ U \in Nat /\ Unused(Results) \in Nat /\ answers * B \in Nat
        /\ B' = B
    <2>1. B' = B
      BY DEF KeyRequest
    <2> QED
      BY <2>1, CountTypes
  <1>2. answers * B + U <= Asked * B /\ Unused(Results) <= Reported * 18
    BY DEF CInv, RequestsFit, ResultsFit
  <1> HIDE DEF B, U, V
  <1>3. /\ a * B \in Nat /\ Asked * B \in Nat /\ Asked' * B \in Nat
        /\ (Asked + a) * B = Asked * B + a * B
        /\ (Asked + a) * B <= Asked' * B
    <2>1. /\ a * B \in Nat /\ Asked * B \in Nat /\ Asked' * B \in Nat
          /\ (Asked + a) * B <= Asked' * B
      <3>1. Asked + a \in Nat /\ Asked + a <= Asked' /\ Asked' \in Nat
        BY <1>1
      <3>2. \A x, y \in Nat : x * B \in Nat /\ (x <= y => x * B <= y * B)
        BY <1>1, Products
      <3> QED
        BY <1>1, <3>1, <3>2
    <2>2. (Asked + a) * B = Asked * B + a * B
      BY <1>1
    <2> QED
      BY <2>1, <2>2
  <1>4. V \in Nat /\ V <= U + m /\ m <= a * B
    BY DEF V, U, B
  <1>5. answers * B + V <= Asked' * B
    BY <1>1, <1>2, <1>3, <1>4
  <1>6. RequestsFit'
    <2>1. RequestsFit' <=> answers' * B' + V <= Asked' * B'
      BY DEF RequestsFit, B, V
    <2> QED
      BY <1>1, <1>5, <2>1
  <1>7. ResultsFit'
    <2> DEFINE W == Unused(Results)'
    <2>1. W \in Nat /\ W <= Unused(Results) + n /\ n <= b * 18
      OBVIOUS
    <2> HIDE DEF W
    <2>2. W <= Reported * 18 + b * 18
      BY <1>1, <1>2, <2>1
    <2> DEFINE R == Reported'
    <2>3. Reported * 18 + b * 18 <= R * 18
      <3>1. R \in Nat /\ Reported + b <= R
        OBVIOUS
      <3> HIDE DEF R
      <3> QED
        BY <1>1, <3>1
    <2>4. W <= R * 18
      <3>1. R \in Nat
        OBVIOUS
      <3> HIDE DEF R
      <3> QED
        BY <3>1, <1>1, <2>1, <2>2, <2>3
    <2> QED
      BY <2>4 DEF ResultsFit, W
  <1> QED
    BY <1>6, <1>7

\* A packet is taken that is not the end of a good 0086.
LEMMA CountTaken ==
    ASSUME CInv, Types', d2c # <<>>, d2c' = Tail(d2c), UNCHANGED <<dev, linkUp, answers>>,
           cli'.handshake_acc \in {<<>>, cli.handshake_acc}
    PROVE  (RequestsFit /\ ResultsFit)'
  <1>1. d2c \in Seq(Packet) /\ Head(d2c) \in Packet
    BY HeadIsPacket DEF CInv, KInv, Types
  <1>2. Asked' = Asked /\ Reported' = Reported
    BY DEF Asked, Reported
  <1>3. ASSUME NEW T
        PROVE  Unused(T)' <= Unused(T) /\ Unused(T)' \in Nat
    <2>1. Weigh(T, d2c) = Size(T, Head(d2c)) + Weigh(T, d2c')
      BY <1>1, WeighTail
    <2>2. Size(T, Head(d2c)) \in Nat
      BY <1>1, PacketHasLength
    <2>3. Weigh(T, <<>>) = 0
      BY WeighFacts
    <2>4. Weigh(T, cli.handshake_acc) \in Nat /\ Weigh(T, d2c) \in Nat
      BY CountTypes
    <2>5. Weigh(T, d2c') \in Nat
      BY WeighFacts DEF Types
    <2>6. Weigh(T, cli'.handshake_acc) \in {0, Weigh(T, cli.handshake_acc)}
      BY <2>3
    <2>7. Unused(T)' = Weigh(T, cli'.handshake_acc) + Weigh(T, d2c')
      BY DEF Unused
    <2> QED
      BY <2>1, <2>2, <2>4, <2>5, <2>6, <2>7 DEF Unused
  <1>4. Asked \in Nat /\ Reported \in Nat /\ Unused(Requests) \in Nat
        /\ Unused(Results) \in Nat /\ ByteCount(KeyRequest) \in Nat
    BY CountTypes
  <1>5. /\ Unused(Requests)' <= Unused(Requests) + 0
        /\ Unused(Results)' <= Unused(Results) + 0
        /\ 0 <= 0 * ByteCount(KeyRequest) /\ 0 <= 0 * 18
        /\ Asked + 0 <= Asked' /\ Reported + 0 <= Reported'
        /\ Asked' \in Nat /\ Reported' \in Nat
    BY <1>2, <1>3, <1>4
  <1> QED
    BY <1>3, <1>5, CountFits

\* A chunk that is kept is still unused.
LEMMA CountCollects ==
    ASSUME CInv, Types', ClientCollects
    PROVE  (RequestsFit /\ ResultsFit)'
  <1>1. d2c \in Seq(Packet) /\ cli.handshake_acc \in Seq(Packet) /\ cli \in Session
    BY DEF CInv, KInv, Types, Session
  <1>2. d2c # <<>> /\ d2c' = Tail(d2c) /\ UNCHANGED <<dev, linkUp, answers>>
        /\ cli'.handshake_acc = Append(cli.handshake_acc, Head(d2c))
        /\ Head(d2c) \in Packet
    BY <1>1, HeadIsPacket DEF ClientCollects, Reading, Collected, devVars, Session
  <1>3. Asked' = Asked /\ Reported' = Reported
    BY <1>2 DEF Asked, Reported
  <1>4. ASSUME NEW T
        PROVE  Unused(T)' = Unused(T)
    <2>1. Weigh(T, d2c) = Size(T, Head(d2c)) + Weigh(T, d2c')
      BY <1>1, <1>2, WeighTail
    <2>2. Weigh(T, cli'.handshake_acc)
          = Weigh(T, cli.handshake_acc) + Size(T, Head(d2c))
      BY <1>1, <1>2, WeighFacts
    <2>3. Size(T, Head(d2c)) \in Nat /\ Weigh(T, cli.handshake_acc) \in Nat
      BY <1>2, CountTypes, PacketHasLength
    <2>4. Weigh(T, d2c') \in Nat
      BY WeighFacts DEF Types
    <2>5. Unused(T)' = Weigh(T, cli'.handshake_acc) + Weigh(T, d2c')
      BY DEF Unused
    <2> QED
      BY <2>1, <2>2, <2>3, <2>4, <2>5 DEF Unused
  <1>5. Asked \in Nat /\ Reported \in Nat /\ Unused(Requests) \in Nat
        /\ Unused(Results) \in Nat /\ ByteCount(KeyRequest) \in Nat
    BY CountTypes
  <1>6. /\ Unused(Requests)' <= Unused(Requests) + 0
        /\ Unused(Results)' <= Unused(Results) + 0
        /\ 0 <= 0 * ByteCount(KeyRequest) /\ 0 <= 0 * 18
        /\ Asked + 0 <= Asked' /\ Reported + 0 <= Reported'
        /\ Asked' \in Nat /\ Reported' \in Nat
        /\ Unused(Requests)' \in Nat /\ Unused(Results)' \in Nat
    BY <1>3, <1>4, <1>5
  <1> QED
    BY <1>2, <1>6, CountFits

\* An answer uses up the 0086 it answers.
LEMMA CountAnswers ==
    ASSUME CInv, Types', d2c # <<>>, d2c' = Tail(d2c), UNCHANGED <<dev, linkUp>>,
           answers' = answers + 1, cli'.handshake_acc = <<>>,
           Collected(cli, Head(d2c)) = KeyRequest
    PROVE  (RequestsFit /\ ResultsFit)'
  <1>1. d2c \in Seq(Packet) /\ Head(d2c) \in Packet
        /\ cli.handshake_acc \in Seq(Packet)
    BY HeadIsPacket DEF CInv, KInv, Types, Session
  <1>2. Asked' = Asked /\ Reported' = Reported
    BY DEF Asked, Reported
  <1>3. ASSUME NEW T
        PROVE  /\ Unused(T) = Weigh(T, KeyRequest) + Unused(T)'
               /\ Unused(T)' \in Nat
    <2>1. Weigh(T, d2c) = Size(T, Head(d2c)) + Weigh(T, d2c')
      BY <1>1, WeighTail
    <2>2. Weigh(T, KeyRequest) = Weigh(T, cli.handshake_acc) + Size(T, Head(d2c))
      <3>1. KeyRequest = Append(cli.handshake_acc, Head(d2c))
        BY DEF Collected
      <3> QED
        BY <1>1, <3>1, WeighFacts
    <2>3. Size(T, Head(d2c)) \in Nat /\ Weigh(T, cli.handshake_acc) \in Nat
      BY <1>1, CountTypes, PacketHasLength
    <2>4. Weigh(T, d2c') \in Nat
      BY WeighFacts DEF Types
    <2>5. Weigh(T, cli'.handshake_acc) = 0
      BY WeighFacts
    <2>6. Unused(T)' = Weigh(T, cli'.handshake_acc) + Weigh(T, d2c')
      BY DEF Unused
    <2> QED
      BY <2>1, <2>2, <2>3, <2>4, <2>5, <2>6 DEF Unused
  <1> DEFINE B == ByteCount(KeyRequest)
             V == Unused(Requests)'
             W == Unused(Results)'
  <1>4. B' = B
    BY DEF KeyRequest
  <1>5. /\ Unused(Requests) = B + V /\ Unused(Results) = 0 + W
        /\ V \in Nat /\ W \in Nat /\ B \in Nat \ {0}
    BY <1>3, KeyPacketsWeigh
  <1>6. /\ answers * B + Unused(Requests) <= Asked * B
        /\ Unused(Results) <= Reported * 18
        /\ answers \in Nat /\ answers * B \in Nat /\ Asked * B \in Nat
        /\ Reported \in Nat
    BY CountTypes DEF CInv, RequestsFit, ResultsFit
  <1> HIDE DEF B, V, W
  <1>7. (answers + 1) * B + V <= Asked * B
    <2>1. (answers + 1) * B = answers * B + B
      BY <1>5, <1>6, Products
    <2> QED
      BY <1>5, <1>6, <2>1
  <1>8. W <= Reported * 18
    BY <1>5, <1>6
  <1>9. RequestsFit'
    <2>1. RequestsFit' <=> answers' * B' + V <= Asked' * B'
      BY DEF RequestsFit, B, V
    <2> QED
      BY <1>2, <1>4, <1>7, <2>1
  <1>10. ResultsFit'
    BY <1>2, <1>8 DEF ResultsFit, W
  <1> QED
    BY <1>9, <1>10

\* The counts fit after whatever the client reads.
LEMMA CountClient ==
    ASSUME CInv, Types', ClientReads
    PROVE  (RequestsFit /\ ResultsFit)'
  <1>1. d2c # <<>> /\ UNCHANGED <<dev, linkUp>> /\ d2c' = Tail(d2c)
    BY DEF ClientReads, ClientCollects, ClientAuthRequest, ClientAuthResult,
           ClientKeyExchange, ClientKeyExchangeResult, ClientBusiness,
           ClientDispatches, Reading, devVars
  <1>2. cli \in Session
    BY DEF CInv, KInv, Types
  <1> DEFINE held == [cli EXCEPT !.handshake_acc = <<>>]
  <1>3. held \in Session /\ held.handshake_acc = <<>>
    <2>1. <<>> \in Seq(Packet)
      OBVIOUS
    <2> QED
      BY <1>2, <2>1 DEF Session
  <1>4. CASE ClientCollects
    BY <1>4, CountCollects
  <1>5. CASE ClientAuthRequest
    <2>1. UNCHANGED cli.handshake_acc /\ UNCHANGED answers
      BY <1>2, <1>5 DEF ClientAuthRequest, HandleAuthRequest, Session
    <2> QED
      BY <1>1, <2>1, CountTaken
  <1>6. CASE ClientAuthResult
    <2>1. UNCHANGED cli.handshake_acc /\ UNCHANGED answers
      BY <1>2, <1>6 DEF ClientAuthResult, HandleAuthResult, Session
    <2> QED
      BY <1>1, <2>1, CountTaken
  <1>7. CASE ClientKeyExchange
    <2>1. \/ /\ KeyRequestIsGood(cli, Collected(cli, Head(d2c)))
             /\ answers' = answers + 1 /\ cli' = HandleKeyExchange(held, answers + 1)
          \/ cli' = held /\ UNCHANGED answers
      BY <1>7 DEF ClientKeyExchange
    <2> HIDE DEF held
    <2>2. CASE /\ KeyRequestIsGood(cli, Collected(cli, Head(d2c)))
               /\ answers' = answers + 1 /\ cli' = HandleKeyExchange(held, answers + 1)
      <3>1. cli'.handshake_acc = <<>>
        BY <1>3, <2>2 DEF HandleKeyExchange, Session
      <3>2. Collected(cli, Head(d2c)) = KeyRequest
        BY <2>2 DEF KeyRequestIsGood
      <3> QED
        BY <1>1, <2>2, <3>1, <3>2, CountAnswers
    <2>3. CASE cli' = held /\ UNCHANGED answers
      BY <1>1, <1>3, <2>3, CountTaken
    <2> QED
      BY <2>1, <2>2, <2>3
  <1>8. CASE ClientKeyExchangeResult
    <2>1. cli' = HandleKeyExchangeResult(held, Head(d2c).ok) /\ UNCHANGED answers
      BY <1>8 DEF ClientKeyExchangeResult
    <2> HIDE DEF held
    <2>2. cli'.handshake_acc = <<>>
      BY <1>3, <2>1 DEF HandleKeyExchangeResult, Session
    <2> QED
      BY <1>1, <2>1, <2>2, CountTaken
  <1>9. CASE ClientBusiness
    <2>1. UNCHANGED cli.handshake_acc /\ UNCHANGED answers
      BY <1>2, <1>9 DEF ClientBusiness, PushNotification, Session
    <2> QED
      BY <1>1, <2>1, CountTaken
  <1> QED
    BY <1>4, <1>5, <1>6, <1>7, <1>8, <1>9 DEF ClientReads

\* The device sends key packets, as many as it counts, or none.
LEMMA CountSends ==
    ASSUME CInv, Types', UNCHANGED answers, UNCHANGED cli.handshake_acc,
           NEW r \in Seq(Packet), d2c' = d2c \o r,
           NEW a \in Nat, NEW b \in Nat,
           Weigh(Requests, r) <= a * ByteCount(KeyRequest), Weigh(Results, r) <= b * 18,
           Asked' \in Nat, Asked + a <= Asked', Reported' \in Nat, Reported + b <= Reported'
    PROVE  (RequestsFit /\ ResultsFit)'
  <1>1. d2c \in Seq(Packet)
    BY DEF CInv, KInv, Types
  <1>2. ASSUME NEW T
        PROVE  /\ Unused(T)' = Unused(T) + Weigh(T, r)
               /\ Unused(T)' \in Nat /\ Weigh(T, r) \in Nat /\ Unused(T) \in Nat
    <2>1. Weigh(T, d2c') = Weigh(T, d2c) + Weigh(T, r)
      BY <1>1, WeighConcat
    <2>2. /\ Weigh(T, cli.handshake_acc) \in Nat /\ Weigh(T, d2c) \in Nat
          /\ Weigh(T, r) \in Nat
      BY CountTypes, WeighFacts
    <2>3. Unused(T)' = Weigh(T, cli'.handshake_acc) + Weigh(T, d2c')
      BY DEF Unused
    <2>4. Weigh(T, cli'.handshake_acc) = Weigh(T, cli.handshake_acc)
      OBVIOUS
    <2> QED
      BY <2>1, <2>2, <2>3, <2>4 DEF Unused
  <1>3. /\ Unused(Requests)' <= Unused(Requests) + Weigh(Requests, r)
        /\ Unused(Results)' <= Unused(Results) + Weigh(Results, r)
        /\ Unused(Requests)' \in Nat /\ Unused(Results)' \in Nat
        /\ Weigh(Requests, r) \in Nat /\ Weigh(Results, r) \in Nat
    BY <1>2
  <1> QED
    BY <1>3, CountFits

\* Nothing is added.
LEMMA CountQuiet ==
    ASSUME CInv, Types', UNCHANGED answers, UNCHANGED cli.handshake_acc,
           \/ UNCHANGED d2c
           \/ \E c \in Packet : c.type \notin KeyTypes /\ d2c' = Append(d2c, c),
           Asked' \in Nat, Asked <= Asked', Reported' \in Nat, Reported <= Reported'
    PROVE  (RequestsFit /\ ResultsFit)'
  <1>1. d2c \in Seq(Packet)
    BY DEF CInv, KInv, Types
  <1>2. ASSUME NEW T, T \subseteq KeyTypes
        PROVE  Unused(T)' = Unused(T)
    <2>1. Weigh(T, d2c') = Weigh(T, d2c)
      <3>1. ASSUME NEW c \in Packet, c.type \notin KeyTypes, d2c' = Append(d2c, c)
            PROVE  Weigh(T, d2c') = Weigh(T, d2c)
        <4>1. Size(T, c) = 0
          BY <1>2, <3>1 DEF Size
        <4>2. Weigh(T, d2c') = Weigh(T, d2c) + Size(T, c) /\ Weigh(T, d2c) \in Nat
          BY <1>1, <3>1, WeighFacts
        <4> QED
          BY <4>1, <4>2
      <3> QED
        BY <3>1
    <2>2. Unused(T)' = Weigh(T, cli'.handshake_acc) + Weigh(T, d2c')
      BY DEF Unused
    <2>3. Weigh(T, cli'.handshake_acc) = Weigh(T, cli.handshake_acc)
      OBVIOUS
    <2> QED
      BY <2>1, <2>2, <2>3 DEF Unused
  <1>3. Requests \subseteq KeyTypes /\ Results \subseteq KeyTypes
    BY DEF KeyTypes
  <1>4. Unused(Requests)' = Unused(Requests) /\ Unused(Results)' = Unused(Results)
    BY <1>2, <1>3
  <1>5. Asked \in Nat /\ Reported \in Nat /\ Unused(Requests) \in Nat
        /\ Unused(Results) \in Nat /\ ByteCount(KeyRequest) \in Nat
    BY CountTypes
  <1>6. /\ Unused(Requests)' <= Unused(Requests) + 0
        /\ Unused(Results)' <= Unused(Results) + 0
        /\ 0 <= 0 * ByteCount(KeyRequest) /\ 0 <= 0 * 18
        /\ Asked + 0 <= Asked' /\ Reported + 0 <= Reported'
        /\ Unused(Requests)' \in Nat /\ Unused(Results)' \in Nat
    BY <1>4, <1>5
  <1> QED
    BY <1>6, CountFits

\* The counts fit after a step of the client's session, and after a loss.
LEMMA CountSession ==
    ASSUME CInv, Types', Subscription \/ ClientPlainTimer \/ ClientPolls \/ AirLoses
    PROVE  (RequestsFit /\ ResultsFit)'
  <1>0. dev \in Device /\ cli \in Session /\ Asked \in Nat /\ Reported \in Nat
    BY CountTypes DEF CInv, KInv, Types
  <1>1. CASE ClientSubscribes
    <2>1. /\ UNCHANGED <<cli, answers, linkUp, d2c>>
          /\ dev'.state = dev.state /\ dev'.retry = dev.retry
      BY <1>0, <1>1 DEF ClientSubscribes, Device
    <2>2. Asked' = Asked /\ Reported' = Reported
      BY <2>1 DEF Asked, Reported
    <2> QED
      BY <1>0, <2>1, <2>2, CountQuiet
  <1>2. CASE ClientOpensReader \/ ClientPolls
    <2>1. UNCHANGED <<cli, answers, dev, linkUp, d2c>>
      BY <1>2 DEF ClientOpensReader, ClientPolls, cliVars, devVars
    <2>2. Asked' = Asked /\ Reported' = Reported
      BY <2>1 DEF Asked, Reported
    <2> QED
      BY <1>0, <2>1, <2>2, CountQuiet
  <1>3. CASE NotificationUnheard
    BY <1>3, CountTaken DEF NotificationUnheard, cliVars, devVars
  <1>4. CASE ClientPlainTimer
    <2>1. UNCHANGED cli.handshake_acc
      BY <1>0, <1>4 DEF ClientPlainTimer, MarkPlaintextMode, Session
    <2>2. UNCHANGED <<answers, dev, linkUp, d2c>>
      BY <1>4 DEF ClientPlainTimer, devVars
    <2>3. Asked' = Asked /\ Reported' = Reported
      BY <2>2 DEF Asked, Reported
    <2> QED
      BY <1>0, <2>1, <2>2, <2>3, CountQuiet
  <1>5. CASE AirLoses
    <2>1. UNCHANGED <<cli, answers, dev, linkUp>>
      BY <1>5 DEF AirLoses, cliVars, devVars
    <2>2. Asked' = Asked /\ Reported' = Reported
      BY <2>1 DEF Asked, Reported
    <2>3. CASE d2c # <<>> /\ d2c' = Tail(d2c)
      BY <2>1, <2>3, CountTaken
    <2>4. CASE UNCHANGED d2c
      BY <1>0, <2>1, <2>2, <2>4, CountQuiet
    <2> QED
      BY <1>5, <2>3, <2>4 DEF AirLoses
  <1> QED
    BY <1>1, <1>2, <1>3, <1>4, <1>5 DEF Subscription

\* The counts fit after a step of the device's authenticator.
LEMMA CountDeviceStep ==
    ASSUME CInv, Types', DeviceStep
    PROVE  (RequestsFit /\ ResultsFit)'
  <1>0. /\ dev \in Device /\ Asked \in Nat /\ Reported \in Nat
        /\ Resends \in Nat /\ ResultResends \in Nat
        /\ Asked <= Resends + 1 /\ Reported <= ResultResends + 1 /\ OInv
        /\ ByteCount(KeyRequest) \in Nat \ {0}
    BY CountTypes, HandshakeAssumption DEF CInv, KInv, Types, OInv
  <1>1. UNCHANGED answers /\ UNCHANGED cli.handshake_acc
    BY DEF DeviceStep, DeviceChallenges, DeviceChecksAnswer,
       DeviceRequestsKey, DeviceAcceptsKey, DeviceRefusesKey, cliVars
  <1>2. CASE DeviceChallenges
    <2>1. Challenge \in Packet /\ Challenge.type \notin KeyTypes
          /\ d2c' = Append(d2c, Challenge)
      BY <1>2, PacketTypes
      DEF DeviceChallenges, Challenge, Chunk, KeyTypes, Requests, Results
    <2>2. dev.state = "Request" /\ linkUp
      BY <1>0, <1>2, NothingAsked DEF DeviceChallenges, Early
    <2>3. dev'.state = "Respond" /\ linkUp'
      BY <1>0, <1>2, <2>2 DEF DeviceChallenges, Enters, Device
    <2>4. Asked' = Asked /\ Reported' = Reported
      BY <2>2, <2>3 DEF Asked, Reported, Early
    <2> QED
      BY <1>0, <1>1, <2>1, <2>4, CountQuiet
  <1>3. CASE DeviceChecksAnswer
    <2>1. dev.state = "Respond" /\ linkUp
      BY <1>0, <1>3, NothingAsked DEF DeviceChecksAnswer, Early
    <2>2. dev'.state \in {"Respond", "EcdhRequest"} /\ linkUp'
      <3>1. CASE dev.buf = "02"
        BY <1>0, <1>3, <2>1, <3>1 DEF DeviceChecksAnswer, Enters, Device
      <3>2. CASE dev.buf # "02"
        BY <1>0, <1>3, <2>1, <3>2 DEF DeviceChecksAnswer, Device
      <3> QED
        BY <3>1, <3>2
    <2>3. Asked' = Asked /\ Reported' = Reported
      BY <2>1, <2>2 DEF Asked, Reported, Early
    <2>4. Result \in Packet /\ Result.type \notin KeyTypes
          /\ (d2c' = Append(d2c, Result) \/ UNCHANGED d2c)
      BY <1>3, PacketTypes
      DEF DeviceChecksAnswer, Result, Chunk, KeyTypes, Requests, Results
    <2> QED
      BY <1>0, <1>1, <2>3, <2>4, CountQuiet
  <1>4. CASE DeviceRequestsKey
    <2>1. dev.state = "EcdhRequest" /\ linkUp
      BY <1>0, <1>4, NothingAsked DEF DeviceRequestsKey, Early
    <2>2. dev'.state = "EcdhRespond" /\ dev'.retry = 0 /\ linkUp'
      BY <1>0, <1>4, <2>1 DEF DeviceRequestsKey, Enters, Device
    <2>3. Asked = 0 /\ Asked' = 1 /\ Reported = 0 /\ Reported' = 0
      BY <2>1, <2>2 DEF Asked, Reported, Early
    <2>4. PICK r \in Seq(Packet) : r = KeyRequest
      BY PacketTypes, Zenon
    <2>5. d2c' = d2c \o r
      BY <1>4, <2>4, Zenon DEF DeviceRequestsKey
    <2>6. Weigh(Requests, r) = ByteCount(KeyRequest) /\ Weigh(Results, r) = 0
      BY <2>4, KeyPacketsWeigh, Zenon
    <2>7. /\ Weigh(Requests, r) <= 1 * ByteCount(KeyRequest) /\ Weigh(Results, r) <= 0 * 18
          /\ Asked' \in Nat /\ Asked + 1 <= Asked' /\ Reported' \in Nat
          /\ Reported + 0 <= Reported'
      BY <1>0, <2>3, <2>6
    <2> QED
      BY <1>1, <2>5, <2>7, CountSends
  <1>5. CASE DeviceAcceptsKey
    <2>1. dev.state = "EcdhRespond" /\ linkUp /\ dev'.state = "AesCbc"
          /\ dev'.retry = 0 /\ linkUp'
      BY <1>0, <1>5 DEF DeviceAcceptsKey, StatusChanged, Enters, Device
    <2>2. Asked' = Resends + 1 /\ Reported = 0 /\ Reported' = 1
      BY <2>1 DEF Asked, Reported, Early
    <2>3. PICK r \in Seq(Packet) : r = KeyResult(TRUE)
      BY PacketTypes, Zenon
    <2>4. d2c' = d2c \o r
      BY <1>5, <2>3, Zenon DEF DeviceAcceptsKey
    <2>5. Weigh(Requests, r) = 0 /\ Weigh(Results, r) = 18
      <3>1. TRUE \in BOOLEAN
        OBVIOUS
      <3> QED
        BY <2>3, <3>1, KeyPacketsWeigh, Zenon
    <2>6. /\ Weigh(Requests, r) <= 0 * ByteCount(KeyRequest) /\ Weigh(Results, r) <= 1 * 18
          /\ Asked' \in Nat /\ Asked + 0 <= Asked' /\ Reported' \in Nat
          /\ Reported + 1 <= Reported'
      BY <1>0, <2>2, <2>5
    <2> QED
      BY <1>1, <2>4, <2>6, CountSends
  <1>6. CASE DeviceRefusesKey
    <2>1. dev.state = "EcdhRespond" /\ linkUp /\ ~linkUp'
      BY <1>6, Zenon DEF DeviceRefusesKey, StatusChanged
    <2>2. Asked' = Resends + 1 /\ Reported = 0 /\ Reported' = ResultResends + 1
      BY <2>1 DEF Asked, Reported, Early
    <2>3. PICK r \in Seq(Packet) : r = KeyResult(FALSE)
      BY PacketTypes, Zenon
    <2>4. d2c' = d2c \o r \/ d2c' = d2c
      BY <1>6, <2>3, Zenon DEF DeviceRefusesKey
    <2>5. Weigh(Requests, r) = 0 /\ Weigh(Results, r) = 18
      <3>1. FALSE \in BOOLEAN
        OBVIOUS
      <3> QED
        BY <2>3, <3>1, KeyPacketsWeigh, Zenon
    <2>6. /\ Weigh(Requests, r) <= 0 * ByteCount(KeyRequest) /\ Weigh(Results, r) <= 1 * 18
          /\ Asked' \in Nat /\ Asked + 0 <= Asked' /\ Reported' \in Nat
          /\ Reported + 1 <= Reported'
      BY <1>0, <2>2, <2>5
    <2>7. CASE d2c' = d2c \o r
      BY <1>1, <2>6, <2>7, CountSends
    <2>8. CASE d2c' = d2c
      <3>1. Asked <= Asked' /\ Reported <= Reported'
        BY <1>0, <2>2
      <3> QED
        BY <1>1, <2>6, <2>8, <3>1, CountQuiet
    <2> QED
      BY <2>4, <2>7, <2>8
  <1> QED
    BY <1>2, <1>3, <1>4, <1>5, <1>6 DEF DeviceStep

\* The counts fit after the device has received, repeated or given up.
LEMMA CountReceiver ==
    ASSUME CInv, Types', DeviceReceives \/ DeviceResends \/ DeviceGivesUp
    PROVE  (RequestsFit /\ ResultsFit)'
  <1>0. /\ dev \in Device /\ Asked \in Nat /\ Reported \in Nat
        /\ Resends \in Nat /\ ResultResends \in Nat
        /\ Asked <= Resends + 1 /\ Reported <= ResultResends + 1 /\ OInv
        /\ ByteCount(KeyRequest) \in Nat \ {0} /\ dev.retry \in Nat
    BY CountTypes, HandshakeAssumption DEF CInv, KInv, Types, OInv, Device
  <1>1. UNCHANGED answers /\ UNCHANGED cli.handshake_acc
    BY DEF DeviceReceives, DeviceTakesAnswer, DeviceTakesKey, DeviceServes,
           DeviceIgnores, DeviceResends, DeviceGivesUp, cliVars
  <1>2. CASE DeviceTakesAnswer \/ DeviceTakesKey \/ DeviceIgnores
    <2>1. UNCHANGED <<linkUp, d2c>> /\ dev'.state = dev.state /\ dev'.retry = dev.retry
      BY <1>0, <1>2 DEF DeviceTakesAnswer, DeviceTakesKey, DeviceIgnores, devVars, Device
    <2>2. Asked' = Asked /\ Reported' = Reported
      BY <2>1 DEF Asked, Reported
    <2> QED
      BY <1>0, <1>1, <2>1, <2>2, CountQuiet
  <1>3. CASE DeviceServes
    <2>1. /\ UNCHANGED linkUp
          /\ \/ dev' = dev
             \/ dev.state \in {"AesCbc", "Complete"} /\ dev'.state = "Complete"
      BY <1>0, <1>3 DEF DeviceServes, Device
    <2>2. Asked' = Asked /\ (Reported' = Reported \/ Reported' = ResultResends + 1)
      BY <2>1 DEF Asked, Reported, Early
    <2>3. Reply(dev.key) \in Packet /\ Reply(dev.key).type \notin KeyTypes
      BY <1>0, PacketTypes DEF Device, Reply, Chunk, KeyTypes, Requests, Results
    <2>4. d2c' = Append(d2c, Reply(dev.key)) \/ UNCHANGED d2c
      BY <1>3 DEF DeviceServes
    <2>5. Asked' \in Nat /\ Asked <= Asked' /\ Reported' \in Nat /\ Reported <= Reported'
      BY <1>0, <2>2
    <2> QED
      BY <1>1, <2>3, <2>4, <2>5, CountQuiet
  <1>4. CASE DeviceResends
    <2>1. linkUp /\ linkUp' /\ dev'.state = dev.state /\ dev'.retry = dev.retry + 1
          /\ dev.retry + 1 \in Nat
      BY <1>0, <1>4 DEF DeviceResends, Device
    <2>2. CASE dev.state = "Respond"
      <3>1. Challenge \in Packet /\ Challenge.type \notin KeyTypes
        BY PacketTypes DEF Challenge, Chunk, KeyTypes, Requests, Results
      <3>2. Retransmit = <<Challenge>>
        BY <2>2, Zenon DEF Retransmit
      <3>3. d2c \in Seq(Packet)
        BY DEF CInv, KInv, Types
      <3>4. d2c' = Append(d2c, Challenge)
        BY <1>4, <3>1, <3>2, <3>3 DEF DeviceResends
      <3>5. Asked' = Asked /\ Reported' = Reported
        BY <2>1, <2>2 DEF Asked, Reported, Early
      <3> QED
        BY <1>0, <1>1, <3>1, <3>4, <3>5, CountQuiet
    <2>3. CASE dev.state = "EcdhRespond"
      <3>1. PICK r \in Seq(Packet) : r = KeyRequest
        BY PacketTypes, Zenon
      <3>2. d2c' = d2c \o r
        <4>1. Retransmit = KeyRequest
          BY <2>3, Zenon DEF Retransmit
        <4> QED
          BY <1>4, <3>1, <4>1, Zenon DEF DeviceResends
      <3>3. Weigh(Requests, r) = ByteCount(KeyRequest) /\ Weigh(Results, r) = 0
        BY <3>1, KeyPacketsWeigh, Zenon
      <3>4. Asked = dev.retry + 1 /\ Asked' = dev.retry + 2
            /\ Reported = 0 /\ Reported' = 0
        BY <1>0, <2>1, <2>3 DEF Asked, Reported, Early
      <3>5. /\ Weigh(Requests, r) <= 1 * ByteCount(KeyRequest)
            /\ Weigh(Results, r) <= 0 * 18
            /\ Asked' \in Nat /\ Asked + 1 <= Asked' /\ Reported' \in Nat
            /\ Reported + 0 <= Reported'
        BY <1>0, <3>3, <3>4
      <3> QED
        BY <1>1, <3>2, <3>5, CountSends
    <2>4. CASE dev.state = "AesCbc"
      <3>1. PICK r \in Seq(Packet) : r = KeyResult(TRUE)
        BY PacketTypes, Zenon
      <3>2. d2c' = d2c \o r
        <4>1. Retransmit = KeyResult(TRUE)
          BY <2>4, Zenon DEF Retransmit
        <4> QED
          BY <1>4, <3>1, <4>1, Zenon DEF DeviceResends
      <3>3. Weigh(Requests, r) = 0 /\ Weigh(Results, r) = 18
        <4>1. TRUE \in BOOLEAN
          OBVIOUS
        <4> QED
          BY <3>1, <4>1, KeyPacketsWeigh, Zenon
      <3>4. Asked' = Asked /\ Reported = dev.retry + 1 /\ Reported' = dev.retry + 2
        BY <1>0, <2>1, <2>4 DEF Asked, Reported, Early
      <3>5. /\ Weigh(Requests, r) <= 0 * ByteCount(KeyRequest)
            /\ Weigh(Results, r) <= 1 * 18
            /\ Asked' \in Nat /\ Asked + 0 <= Asked' /\ Reported' \in Nat
            /\ Reported + 1 <= Reported'
        BY <1>0, <3>3, <3>4
      <3> QED
        BY <1>1, <3>2, <3>5, CountSends
    <2> QED
      BY <1>4, <2>2, <2>3, <2>4 DEF DeviceResends, Waiting
  <1>5. CASE DeviceGivesUp
    <2>1. ~linkUp' /\ UNCHANGED d2c
      BY <1>5, Zenon DEF DeviceGivesUp
    <2>2. Asked' = Resends + 1 /\ Reported' = ResultResends + 1
      BY <2>1 DEF Asked, Reported
    <2>3. Asked' \in Nat /\ Asked <= Asked' /\ Reported' \in Nat /\ Reported <= Reported'
      BY <1>0, <2>2
    <2> QED
      BY <1>1, <2>1, <2>3, CountQuiet
  <1> QED
    BY <1>2, <1>3, <1>4, <1>5 DEF DeviceReceives

\* The client's keys are known and its variables in range.
LEMMA RangesClient ==
    ASSUME CInv, ClientReads
    PROVE  Ranges'
  <1>0. cli \in Session /\ answers \in Nat /\ cli.ephemeral_secret \in Secrets /\ Ranges
    BY DEF CInv, KInv, Types, SecretsKnown
  <1>1. UNCHANGED <<dev, lost, reader, peer, linkUp>>
    BY DEF ClientReads, ClientCollects, ClientAuthRequest, ClientAuthResult,
           ClientKeyExchange, ClientKeyExchangeResult, ClientBusiness, devVars
  <1>2. answered' \in BOOLEAN
    BY <1>0 DEF ClientReads, ClientCollects, ClientAuthRequest, ClientAuthResult,
           ClientKeyExchange, ClientKeyExchangeResult, ClientBusiness, Ranges
  <1>3. answers' \in {answers, answers + 1}
    BY DEF ClientReads, ClientCollects, ClientAuthRequest, ClientAuthResult,
           ClientKeyExchange, ClientKeyExchangeResult, ClientBusiness
  <1> DEFINE held == [cli EXCEPT !.handshake_acc = <<>>]
  <1>4. /\ held \in Session /\ held.rx_key = cli.rx_key
        /\ held.ephemeral_secret = cli.ephemeral_secret
    <2>1. <<>> \in Seq(Packet)
      OBVIOUS
    <2> QED
      BY <1>0, <2>1 DEF Session
  <1>5. cli'.rx_key \in {cli.rx_key, cli.ephemeral_secret}
    <2>1. CASE ClientCollects
      BY <1>0, <2>1 DEF ClientCollects, Session
    <2>2. CASE ClientAuthRequest
      BY <1>0, <2>2 DEF ClientAuthRequest, HandleAuthRequest, Session
    <2>3. CASE ClientAuthResult
      BY <1>0, <2>3 DEF ClientAuthResult, HandleAuthResult, Session
    <2>4. CASE ClientKeyExchange
      <3>1. cli' \in {held, HandleKeyExchange(held, answers + 1)}
        BY <2>4 DEF ClientKeyExchange
      <3> HIDE DEF held
      <3> QED
        BY <1>4, <3>1 DEF HandleKeyExchange, Session
    <2>5. CASE ClientKeyExchangeResult
      <3>1. cli' = HandleKeyExchangeResult(held, Head(d2c).ok)
        BY <2>5 DEF ClientKeyExchangeResult
      <3> HIDE DEF held
      <3> QED
        BY <1>4, <3>1 DEF HandleKeyExchangeResult, Session
    <2>6. CASE ClientBusiness
      BY <1>0, <2>6 DEF ClientBusiness, PushNotification, Session
    <2> QED
      BY <2>1, <2>2, <2>3, <2>4, <2>5, <2>6 DEF ClientReads
  <1>6. cli'.rx_key \in Secrets'
    BY <1>0, <1>3, <1>5 DEF Ranges, Secrets
  <1> QED
    BY <1>0, <1>1, <1>2, <1>6 DEF Ranges, Limit

\* So they are after a step of its session, and after a loss.
LEMMA RangesSession ==
    ASSUME CInv, Subscription \/ ClientPlainTimer \/ ClientPolls \/ AirLoses
    PROVE  Ranges'
  <1>0. cli \in Session /\ dev \in Device /\ answers \in Nat /\ Ranges
        /\ MaxLost \in Nat
    BY HandshakeAssumption DEF CInv, KInv, Types
  <1>1. CASE ClientSubscribes
    <2>1. dev'.retry = dev.retry
      BY <1>0, <1>1 DEF ClientSubscribes, Device
    <2> QED
      BY <1>0, <1>1, <2>1 DEF ClientSubscribes, Ranges, Secrets, Limit, Device
  <1>2. CASE ClientOpensReader \/ NotificationUnheard \/ ClientPolls
    BY <1>0, <1>2 DEF ClientOpensReader, NotificationUnheard, ClientPolls, Ranges,
       Limit, Secrets, cliVars, devVars
  <1>3. CASE ClientPlainTimer
    <2>1. cli'.rx_key = 0
      BY <1>0, <1>3 DEF ClientPlainTimer, MarkPlaintextMode, Session, None
    <2> QED
      BY <1>0, <1>3, <2>1 DEF ClientPlainTimer, Ranges, Limit, Secrets, devVars
  <1>4. CASE AirLoses
    BY <1>0, <1>4 DEF AirLoses, Ranges, Limit, Secrets, cliVars, devVars
  <1> QED
    BY <1>1, <1>2, <1>3, <1>4 DEF Subscription

\* So they are after a step of the device, which repeats no more than it may.
LEMMA RangesDevice ==
    ASSUME CInv, \/ DeviceStep \/ DeviceReceives
                 \/ DeviceResends \/ DeviceGivesUp
    PROVE  Ranges'
  <1>0. /\ dev \in Device /\ dev.retry \in Nat
        /\ Resends \in Nat /\ ResultResends \in Nat /\ Ranges
    BY HandshakeAssumption DEF CInv, KInv, Types, Device
  <1>1. UNCHANGED <<cli, reader, answers, answered, peer, lost>>
    BY DEF DeviceStep, DeviceChallenges, DeviceChecksAnswer, DeviceRequestsKey,
           DeviceAcceptsKey, DeviceRefusesKey, DeviceReceives, DeviceTakesAnswer,
           DeviceTakesKey, DeviceServes, DeviceIgnores, DeviceResends,
           DeviceGivesUp, cliVars, devVars
  <1>2. linkUp' \in BOOLEAN
    BY <1>0 DEF DeviceStep, DeviceChallenges, DeviceChecksAnswer, DeviceRequestsKey,
           DeviceAcceptsKey, DeviceRefusesKey, DeviceReceives, DeviceTakesAnswer,
           DeviceTakesKey, DeviceServes, DeviceIgnores, DeviceResends,
           DeviceGivesUp, devVars, Ranges
  <1>3. dev'.retry <= Limit'
    <2>1. CASE DeviceResends
      <3>1. dev'.retry = dev.retry + 1 /\ dev'.state = dev.state /\ dev.retry < Limit
        BY <1>0, <2>1 DEF DeviceResends, Device
      <3>2. Limit' = Limit /\ Limit \in Nat
        BY <1>0, <3>1 DEF Limit
      <3> QED
        BY <1>0, <3>1, <3>2
    <2>2. CASE DeviceStep \/ DeviceReceives \/ DeviceGivesUp
      <3>1. \/ dev'.retry = 0
            \/ /\ dev'.retry = dev.retry
               /\ \/ dev'.state = dev.state
                  \/ dev.state \in {"AesCbc", "Complete"} /\ dev'.state = "Complete"
        <4>1. CASE DeviceChallenges \/ DeviceChecksAnswer \/ DeviceRequestsKey
          BY <1>0, <4>1 DEF DeviceChallenges, DeviceChecksAnswer, DeviceRequestsKey,
             Enters, Device
        <4>2. CASE DeviceAcceptsKey
          BY <1>0, <4>2 DEF DeviceAcceptsKey, Enters, Device
        <4>3. CASE DeviceRefusesKey \/ DeviceGivesUp
          <5>1. dev' = NewDevice
            BY <4>3, Zenon DEF DeviceRefusesKey, DeviceGivesUp
          <5> QED
            BY <5>1 DEF NewDevice
        <4>4. CASE DeviceReceives
          <5>1. CASE DeviceTakesAnswer \/ DeviceTakesKey \/ DeviceIgnores
            BY <1>0, <5>1 DEF DeviceTakesAnswer, DeviceTakesKey, DeviceIgnores,
               devVars, Device
          <5>2. CASE DeviceServes
            <6>1. \/ dev' = dev
                  \/ /\ dev.state \in {"AesCbc", "Complete"}
                     /\ dev' = [dev EXCEPT !.state = "Complete"]
              BY <5>2 DEF DeviceServes
            <6> QED
              BY <1>0, <6>1 DEF Device
          <5> QED
            BY <4>4, <5>1, <5>2 DEF DeviceReceives
        <4> QED
          BY <2>2, <4>1, <4>2, <4>3, <4>4 DEF DeviceStep
      <3> QED
        BY <1>0, <3>1 DEF Ranges, Limit
    <2> QED
      BY <2>1, <2>2
  <1> QED
    BY <1>0, <1>1, <1>2, <1>3 DEF Ranges, Secrets

\* The whole is inductive.
LEMMA CInvNext == CInv /\ [Next]_vars => CInv'
  <1> SUFFICES ASSUME CInv, [Next]_vars
               PROVE  (Ranges /\ RequestsFit /\ ResultsFit)'
    BY KInvNext, OInvNext, PInvNext DEF CInv, OInv
  <1>1. Types'
    BY TypesNext DEF CInv, KInv
  <1>2. CASE UNCHANGED vars
    <2>1. Ranges'
      BY <1>2 DEF CInv, Ranges, Limit, Secrets, vars, cliVars, devVars
    <2>2. UNCHANGED <<cli, answers, dev, linkUp, d2c>>
      BY <1>2 DEF vars, cliVars, devVars
    <2>3. Asked' = Asked /\ Reported' = Reported
      BY <2>2 DEF Asked, Reported
    <2>4. Asked \in Nat /\ Reported \in Nat
      BY CountTypes
    <2> QED
      BY <1>1, <2>1, <2>2, <2>3, <2>4, CountQuiet
  <1>3. CASE ClientReads
    BY <1>1, <1>3, RangesClient, CountClient
  <1>4. CASE Subscription \/ ClientPlainTimer \/ ClientPolls \/ AirLoses
    BY <1>1, <1>4, RangesSession, CountSession
  <1>5. CASE DeviceStep
    BY <1>1, <1>5, RangesDevice, CountDeviceStep
  <1>6. CASE DeviceReceives \/ DeviceResends \/ DeviceGivesUp
    BY <1>1, <1>6, RangesDevice, CountReceiver
  <1> QED
    BY <1>2, <1>3, <1>4, <1>5, <1>6 DEF Next, Subscription

\* Every variable has its type.  The client makes no more secrets than the
\* device asks for keys, once and at every repetition; and what it has answered
\* and what it holds of a packet are bytes of key packets the device has sent.
THEOREM TypeCorrect == Spec => []TypeOK
  <1>1. ASSUME CInv
        PROVE  TypeOK
    <2> DEFINE B == ByteCount(KeyRequest)
    <2>1. /\ Asked \in Nat /\ Reported \in Nat /\ answers \in Nat
          /\ Asked <= Resends + 1 /\ Reported <= ResultResends + 1
          /\ B \in Nat \ {0} /\ answers * B \in Nat /\ Asked * B \in Nat
          /\ \A T : /\ Weigh(T, cli.handshake_acc) \in Nat /\ Weigh(T, d2c) \in Nat
                    /\ Unused(T) \in Nat
      BY <1>1, CountTypes
    <2>2. Resends \in Nat /\ ResultResends \in Nat /\ B = ByteCount(KeyRequest)
          /\ ByteCount(KeyResult(TRUE)) = 18
      BY HandshakeAssumption, KeyPacketsWeigh
    <2>3. answers * B + Unused(Requests) <= Asked * B
          /\ Unused(Results) <= Reported * 18
      BY <1>1 DEF CInv, RequestsFit, ResultsFit
    <2>4. ByteCount(cli.handshake_acc) = Weigh(Requests, cli.handshake_acc)
                                         + Weigh(Results, cli.handshake_acc)
      BY <1>1, WeighSplit DEF CInv, KInv, Types, Session, Order, HeldIsKeyPacket, Only
    <2>5. /\ Weigh(Requests, cli.handshake_acc) <= Unused(Requests)
          /\ Weigh(Results, cli.handshake_acc) <= Unused(Results)
      BY <2>1 DEF Unused
    <2> HIDE DEF B
    <2>6. Asked * B <= (Resends + 1) * B /\ (Resends + 1) * B \in Nat
      <3>1. Resends + 1 \in Nat
        BY <2>2
      <3> QED
        BY <2>1, <3>1, Products
    <2>7. answers * B + ByteCount(cli.handshake_acc)
             <= (Resends + 1) * B + (ResultResends + 1) * 18
      <3> DEFINE u == Weigh(Requests, cli.handshake_acc)
                 v == Weigh(Results, cli.handshake_acc)
                 R == (Resends + 1) * B
      <3>1. u \in Nat /\ v \in Nat /\ R \in Nat
        BY <2>1, <2>6
      <3>2. answers * B + u <= R
        BY <2>1, <2>3, <2>5, <2>6
      <3>3. v <= (ResultResends + 1) * 18
        BY <2>1, <2>2, <2>3, <2>5
      <3>4. ByteCount(cli.handshake_acc) = u + v
        BY <2>4
      <3> HIDE DEF u, v, R
      <3>5. answers * B + (u + v) <= R + (ResultResends + 1) * 18
        BY <2>1, <2>2, <3>1, <3>2, <3>3
      <3> USE DEF R
      <3> QED
        BY <3>4, <3>5
    <2>8. answers <= Resends + 1
      <3>1. answers * B <= (Resends + 1) * B
        BY <2>1, <2>3, <2>6
      <3> QED
        BY <2>1, <2>2, <3>1, Products
    <2>9. {cli.shared_key, cli.ephemeral_secret, cli.rx_key, answers,
           dev.key, dev.bufKey} \subseteq Key
      <3>1. Secrets \subseteq Key /\ answers \in Key
        BY <2>1, <2>2, <2>8 DEF Secrets, Key
      <3> QED
        BY <1>1, <3>1 DEF CInv, KInv, SecretsKnown, Ranges
    <2>10. /\ cli.phase \in {"WaitingAuth", "AuthDone", "Encrypted", Plaintext}
           /\ {cli.auth_started, cli.auth_succeeded, cli.key_exchange_done,
               cli.encryption_ready, cli.new_aes_key, cli.iot_public_key,
               cli.rx_encrypted, cli.rx_junk} \subseteq BOOLEAN
      BY <1>1 DEF CInv, KInv, Types, Session, Phases
    <2>11. /\ reader \in {"Off", "Subscribed", "Open"}
           /\ answered \in BOOLEAN /\ linkUp \in BOOLEAN
           /\ peer \in Peers /\ dev.retry \in 0..Limit /\ lost \in 0..MaxLost
      BY <1>1, <2>2 DEF CInv, KInv, Types, Ranges, Limit, Device
    <2>12. answers * ByteCount(KeyRequest) + ByteCount(cli.handshake_acc) <=
              (Resends + 1) * ByteCount(KeyRequest)
                  + (ResultResends + 1) * ByteCount(KeyResult(TRUE))
      BY <2>2, <2>7
    <2> QED
      BY <2>9, <2>10, <2>11, <2>12 DEF TypeOK
  <1>2. CInv => TypeOK
    BY <1>1
  <1> QED
    BY <1>2, CInvInit, CInvNext, PTL DEF Spec
=============================================================================
