----------------------------- MODULE Handshake -----------------------------
(***************************************************************************)
(* The 2A2A / ECDH handshake of one connection, both ends of it: the       *)
(* client's ProtocolSession (services/ble/protocol.rs, fed by notify_task  *)
(* of worker/session.rs) and the device's authenticator (the firmware in   *)
(* ref/dev/main/bluetooth/app_ble.c), over two FIFO channels.              *)
(*                                                                         *)
(*     device                      client                                  *)
(*       01  challenge       -->                                           *)
(*                           <--   02  answer to the challenge             *)
(*       03  result, 0086    -->   (0086 may come in several chunks)       *)
(*                           <--   Key  the client's public key            *)
(*       0007  result        -->   both compute the ECDH shared key        *)
(*                           <--   Data  Modbus under that key             *)
(*       Reply               -->                                           *)
(*                                                                         *)
(* What is hard: the device sends its last packet again while it waits,    *)
(* the client may not be listening yet, writes and notifications get lost, *)
(* and the client makes a new ECDH secret for every 0086 it answers.       *)
(* A key is represented by the number of the secret it was made from, the  *)
(* shared key by the client secret that went into it.                      *)
(***************************************************************************)
EXTENDS Naturals, Sequences

CONSTANTS
    Parts,         \* lengths of the notifications that carry a 0086
    Peers,         \* the devices this instance meets
    Resends,       \* times the device sends 01 or 0086 again (5 in app_ble.c)
    ResultResends, \* times it sends 0007 again (7)
    MaxLost        \* bound of the model: packets lost on the air

ASSUME HandshakeAssumption ==
    /\ Parts \in Seq(Nat \ {0}) /\ Parts # <<>>
    /\ Peers \subseteq {"Match", "Prompt", "ClientRefuses", "DeviceRefuses", "Plain"}
    /\ Resends \in Nat /\ ResultResends \in Nat /\ MaxLost \in Nat

VARIABLES
    cli,      \* the ProtocolSession
    reader,   \* the client's side of the link: "Off", "Subscribed", "Open"
    answers,  \* ECDH secrets the client has made
    answered, \* a Modbus reply was decoded
    peer,     \* what kind of device this is; "Prompt": a matching one that never gives up
    dev,      \* ble_encrypt_info and ble_authenticate_buf
    d2c,      \* notifications on their way to the client
    c2d,      \* writes on their way to the device
    linkUp,   \* the device has not disconnected
    lost      \* packets lost so far

cliVars == <<cli, reader, answers, answered>>
devVars == <<peer, dev, linkUp>>
vars == <<cliVars, devVars, d2c, c2d, lost>>

None == 0                   \* no secret; the first one is 1
Plaintext == "Plaintext"

-----------------------------------------------------------------------------
(* Packets.  A packet is one chunk, except 0086, which is Len(Parts) many. *)

Chunk(type, part, len, key, ok) ==
    [type |-> type, part |-> part, len |-> len, key |-> key, ok |-> ok]

Challenge   == Chunk("01", 1, 10, None, TRUE)
Answer      == Chunk("02", 1, 10, None, TRUE)
Result      == Chunk("03", 1, 7, None, TRUE)
Data(key)   == Chunk("Data", 1, 22, key, TRUE)
Reply(key)  == Chunk("Reply", 1, 22, key, TRUE)
KeyPacket(key) == Chunk("Key", 1, 146, key, TRUE)
KeyResult(ok)  == <<Chunk("0007", 1, 18, None, ok)>>
KeyRequest  == [i \in 1..Len(Parts) |-> Chunk("0086", i, Parts[i], None, TRUE)]

ByteCount(chunks) ==
    LET count[k \in 0..Len(chunks)] ==
            IF k = 0 THEN 0 ELSE count[k - 1] + chunks[k].len
    IN count[Len(chunks)]

IsHandshakePacketComplete(prefix, count) ==
    CASE prefix = "0086" -> count >= 146 /\ (count - 2) % 16 = 0
      [] prefix = "0007" -> count >= 18 /\ (count - 2) % 16 = 0

-----------------------------------------------------------------------------
(* The client: ProtocolSession.  A handler maps the session to the next    *)
(* one; what it does not set stays, also when it returns an error.         *)

NewSession ==
    [phase |-> "WaitingAuth", auth_started |-> FALSE, auth_succeeded |-> FALSE,
     key_exchange_done |-> FALSE, encryption_ready |-> FALSE,
     new_aes_key |-> FALSE, iot_public_key |-> FALSE,
     shared_key |-> None, ephemeral_secret |-> None,
     handshake_acc |-> <<>>,
     rx_encrypted |-> FALSE, rx_key |-> None, rx_junk |-> FALSE]

\* handshake_prefix is Some exactly while bytes of that packet are held.
HandshakePrefix(s) == IF s.handshake_acc = <<>> THEN "None"
                      ELSE s.handshake_acc[1].type

ModbusReady(s) == s.encryption_ready \/ s.phase = Plaintext

HandleAuthRequest(s) ==
    [s EXCEPT !.auth_started = TRUE, !.phase = "WaitingAuth", !.new_aes_key = TRUE]

HandleAuthResult(s, ok) ==
    [s EXCEPT !.auth_succeeded = ok,
              !.phase = IF ok THEN "AuthDone" ELSE @,
              !.new_aes_key = @ /\ ok]

\* The packet decrypts and carries a signature this client trusts.
KeyRequestIsGood(s, packet) ==
    /\ s.auth_succeeded /\ s.new_aes_key
    /\ packet = KeyRequest
    /\ peer # "ClientRefuses"

\* Every answer comes from a new secret, which replaces the one before.
HandleKeyExchange(s, secret) ==
    [s EXCEPT !.iot_public_key = TRUE, !.phase = "AuthDone",
              !.ephemeral_secret = secret]

\* Mutant: the answer is made with a secret of its own, not the stored one.
AnswersWithAnother(secret) == KeyPacket(secret + 1)

\* The public key the answer carries is the stored secret's.
KeyExchangeResponse(secret) == KeyPacket(secret)

\* The secret is taken before the packet is looked into.
HandleKeyExchangeResult(s, ok) ==
    LET taken == [s EXCEPT !.ephemeral_secret = IF s.new_aes_key THEN None ELSE @]
        good  == /\ s.new_aes_key /\ s.ephemeral_secret # None
                 /\ s.iot_public_key /\ ok
    IN  IF good
        THEN [taken EXCEPT !.shared_key = s.ephemeral_secret,
                           !.key_exchange_done = TRUE, !.encryption_ready = TRUE,
                           !.phase = "Encrypted",
                           !.rx_encrypted = TRUE, !.rx_key = s.ephemeral_secret,
                           !.rx_junk = FALSE]
        ELSE taken

MarkPlaintextMode(s) ==
    [s EXCEPT !.phase = Plaintext, !.encryption_ready = FALSE,
              !.rx_encrypted = FALSE, !.rx_key = None, !.rx_junk = FALSE]

\* What the assembler makes of a business packet: it decodes it when nothing
\* is left over before it and the keys agree.  The bytes of a handshake packet
\* stay in the buffer (a 0007 looks like the beginning of a longer packet) and
\* are taken for the head of the next packet; what is then left of that one is
\* thrown away or taken for a head in turn, as its random bytes say.
PushNotification(s, c) ==
    {[s EXCEPT !.rx_junk = junk] : junk \in
        IF ~s.rx_encrypted THEN {FALSE}
        ELSE IF c.type # "Reply" THEN {TRUE}
        ELSE IF s.rx_junk THEN BOOLEAN ELSE {FALSE}}

Decodes(s, c) ==
    /\ ModbusReady(s) /\ c.type = "Reply" /\ ~s.rx_junk /\ c.key = s.rx_key

\* The packet that c completes, if one is being put together.
Collected(s, c) == Append(s.handshake_acc, c)

Collecting(s, c) ==
    \/ s.handshake_acc # <<>>
    \/ c.type \in {"0086", "0007"} /\ c.part = 1 /\ ~s.key_exchange_done

Completes(s, c) ==
    IsHandshakePacketComplete(Collected(s, c)[1].type, ByteCount(Collected(s, c)))

Reading == reader = "Open" /\ d2c # <<>>

\* A handshake packet that is not a complete one yet.
ClientCollects ==
    /\ Reading /\ Collecting(cli, Head(d2c)) /\ ~Completes(cli, Head(d2c))
    /\ cli' = [cli EXCEPT !.handshake_acc = Collected(cli, Head(d2c))]
    /\ d2c' = Tail(d2c)
    /\ UNCHANGED <<reader, answers, answered, devVars, c2d, lost>>

\* 2A2A01: the answer goes to the write task.
ClientAuthRequest ==
    /\ Reading /\ cli.handshake_acc = <<>> /\ Head(d2c).type = "01"
    /\ cli' = HandleAuthRequest(cli)
    /\ d2c' = Tail(d2c) /\ c2d' = Append(c2d, Answer)
    /\ UNCHANGED <<reader, answers, answered, devVars, lost>>

ClientAuthResult ==
    /\ Reading /\ cli.handshake_acc = <<>> /\ Head(d2c).type = "03"
    /\ cli' = HandleAuthResult(cli, Head(d2c).ok)
    /\ d2c' = Tail(d2c)
    /\ UNCHANGED <<reader, answers, answered, devVars, c2d, lost>>

\* The rest of a packet being put together is complete, or it comes whole.
ClientDispatches(prefix) ==
    /\ Reading /\ Collecting(cli, Head(d2c)) /\ Completes(cli, Head(d2c))
    /\ Collected(cli, Head(d2c))[1].type = prefix
    /\ d2c' = Tail(d2c)

\* Mutant: the prefix and the bytes held are not cleared.
PrefixNotCleared ==
    LET packet == Collected(cli, Head(d2c))
        held   == [cli EXCEPT !.handshake_acc = packet]
    IN  /\ ClientDispatches("0086")
        /\ \/ /\ KeyRequestIsGood(cli, packet)
              /\ answers' = answers + 1
              /\ cli' = HandleKeyExchange(held, answers + 1)
              /\ c2d' = Append(c2d, KeyExchangeResponse(answers + 1))
           \/ /\ ~KeyRequestIsGood(cli, packet)
              /\ cli' = held
              /\ UNCHANGED <<answers, c2d>>
        /\ UNCHANGED <<reader, answered, devVars, lost>>

ClientKeyExchange ==
    LET packet == Collected(cli, Head(d2c))
        held   == [cli EXCEPT !.handshake_acc = <<>>]
    IN  /\ ClientDispatches("0086")
        /\ \/ /\ KeyRequestIsGood(cli, packet)
              /\ answers' = answers + 1
              /\ cli' = HandleKeyExchange(held, answers + 1)
              /\ c2d' = Append(c2d, KeyExchangeResponse(answers + 1))
           \/ /\ ~KeyRequestIsGood(cli, packet)
              /\ cli' = held
              /\ UNCHANGED <<answers, c2d>>
        /\ UNCHANGED <<reader, answered, devVars, lost>>

ClientKeyExchangeResult ==
    /\ ClientDispatches("0007")
    /\ cli' = HandleKeyExchangeResult([cli EXCEPT !.handshake_acc = <<>>], Head(d2c).ok)
    /\ UNCHANGED <<reader, answers, answered, devVars, c2d, lost>>

\* Anything else is business data, once the session can carry any.
ClientBusiness ==
    LET c == Head(d2c)
    IN  /\ Reading /\ ~Collecting(cli, c) /\ c.type \notin {"01", "03"}
        /\ cli' \in IF ModbusReady(cli) THEN PushNotification(cli, c) ELSE {cli}
        /\ answered' = (answered \/ Decodes(cli, c))
        /\ d2c' = Tail(d2c)
        /\ UNCHANGED <<reader, answers, devVars, c2d, lost>>

-----------------------------------------------------------------------------
(* The client's session: subscription, reader, timer, first request.       *)

\* peripheral.subscribe: the device is told, and starts.
ClientSubscribes ==
    /\ reader = "Off" /\ linkUp
    /\ reader' = "Subscribed"
    /\ dev' = IF peer # "Plain" /\ dev.state = "Request"
              THEN [dev EXCEPT !.status = "Request"] ELSE dev
    /\ UNCHANGED <<cli, answers, answered, peer, linkUp, d2c, c2d, lost>>

\* notify_task opens the stream later; what came before is gone.
ClientOpensReader ==
    /\ reader = "Subscribed"
    /\ reader' = "Open"
    /\ UNCHANGED <<cli, answers, answered, devVars, d2c, c2d, lost>>

NotificationUnheard ==
    /\ reader = "Subscribed" /\ d2c # <<>>
    /\ d2c' = Tail(d2c)
    /\ UNCHANGED <<cliVars, devVars, c2d, lost>>

\* plain_timer, 6 s after the reader was opened.  A device that authenticates
\* sends its challenge at the subscription and hangs up 5 s later if nobody
\* answers, so by now it has had its answer or is gone.
TimerMayFire == dev.state # "Respond" /\ dev.status # "Request" /\ d2c = <<>>

\* Mutant: the timer does not ask whether authentication has begun.
TimerIgnoresAuth ==
    /\ reader = "Open"
    /\ TimerMayFire
    /\ cli.phase = "WaitingAuth"
    /\ cli' = MarkPlaintextMode(cli)
    /\ UNCHANGED <<reader, answers, answered, devVars, d2c, c2d, lost>>

ClientPlainTimer ==
    /\ reader = "Open"
    /\ TimerMayFire
    /\ cli.phase = "WaitingAuth" /\ ~cli.auth_started
    /\ cli' = MarkPlaintextMode(cli)
    /\ UNCHANGED <<reader, answers, answered, devVars, d2c, c2d, lost>>

\* The poller's request, wrapped by wrap_modbus_request; one at a time, and
\* again when nothing came back.
WrapKey(s) == IF s.encryption_ready THEN s.shared_key ELSE None

ClientPolls ==
    /\ reader = "Open" /\ linkUp /\ ModbusReady(cli) /\ ~answered
    /\ \A i \in DOMAIN c2d : c2d[i].type # "Data"
    /\ \A i \in DOMAIN d2c : d2c[i].type # "Reply"
    /\ c2d' = Append(c2d, Data(WrapKey(cli)))
    /\ UNCHANGED <<cliVars, devVars, d2c, lost>>

-----------------------------------------------------------------------------
(* The device: ble_authenticate_task_step acts when the buffer's status    *)
(* has changed since it last looked; ble_data_give is the receive callback; *)
(* ble_authenticate_task resends and gives up.                             *)

NewDevice ==
    [state |-> "Request", status |-> "Refresh", seen |-> "Refresh",
     buf |-> "None", bufKey |-> None, key |-> None, retry |-> 0]

StatusChanged(status) == linkUp /\ dev.seen # dev.status /\ dev.status = status

Waiting == dev.state \in {"Respond", "EcdhRespond", "AesCbc"}

\* The packet kept for retransmission.
Retransmit == CASE dev.state = "Respond" -> <<Challenge>>
                [] dev.state = "EcdhRespond" -> KeyRequest
                [] dev.state = "AesCbc" -> KeyResult(TRUE)

\* What counts while the last packet is awaited stays when a write ends it.
Limit == IF dev.state \in {"AesCbc", "Complete"} THEN ResultResends ELSE Resends

Enters(state) == [dev EXCEPT !.seen = dev.status, !.state = state, !.retry = 0]

DeviceChallenges ==
    /\ StatusChanged("Request")
    /\ dev' = Enters("Respond")
    /\ d2c' = Append(d2c, Challenge)
    /\ UNCHANGED <<cliVars, peer, linkUp, c2d, lost>>

\* The answer is right; a packet of another type is only noted as seen, and
\* then even a right answer goes unnoticed.
DeviceChecksAnswer ==
    /\ StatusChanged("Respond")
    /\ dev' = IF dev.buf = "02"
              THEN [Enters("EcdhRequest") EXCEPT !.status = "EcdhRequest"]
              ELSE [dev EXCEPT !.seen = "Respond"]
    /\ d2c' = IF dev.buf = "02" THEN Append(d2c, Result) ELSE d2c
    /\ UNCHANGED <<cliVars, peer, linkUp, c2d, lost>>

DeviceRequestsKey ==
    /\ StatusChanged("EcdhRequest")
    /\ dev' = Enters("EcdhRespond")
    /\ d2c' = d2c \o KeyRequest
    /\ UNCHANGED <<cliVars, peer, linkUp, c2d, lost>>

DeviceAcceptsKey ==
    /\ StatusChanged("EcdhRespond") /\ dev.state = "EcdhRespond"
    /\ peer # "DeviceRefuses"
    /\ dev' = [Enters("AesCbc") EXCEPT !.key = dev.bufKey]
    /\ d2c' = d2c \o KeyResult(TRUE)
    /\ UNCHANGED <<cliVars, peer, linkUp, c2d, lost>>

\* The failure is sent, and the link dropped right after it.
DeviceRefusesKey ==
    /\ StatusChanged("EcdhRespond") /\ dev.state = "EcdhRespond"
    /\ peer = "DeviceRefuses"
    /\ dev' = NewDevice /\ linkUp' = FALSE
    /\ d2c' \in {d2c \o KeyResult(FALSE), d2c}
    /\ c2d' = <<>>
    /\ UNCHANGED <<cliVars, peer, lost>>

\* Mutant: one repetition too many.
ResendsOnceMore ==
    /\ linkUp /\ Waiting /\ dev.retry <= Limit
    /\ dev' = [dev EXCEPT !.retry = @ + 1]
    /\ d2c' = d2c \o Retransmit
    /\ UNCHANGED <<cliVars, peer, linkUp, c2d, lost>>

DeviceResends ==
    /\ linkUp /\ Waiting /\ dev.retry < Limit
    /\ dev' = [dev EXCEPT !.retry = @ + 1]
    /\ d2c' = d2c \o Retransmit
    /\ UNCHANGED <<cliVars, peer, linkUp, c2d, lost>>

\* Mutant: only the wait for the first answer has a deadline.
GivesUpOnlyAtFirst ==
    /\ peer # "Prompt" /\ linkUp /\ dev.state = "Respond" /\ dev.retry = Limit
    /\ dev' = NewDevice /\ linkUp' = FALSE
    /\ c2d' = <<>>
    /\ UNCHANGED <<cliVars, peer, d2c, lost>>

DeviceGivesUp ==
    /\ peer # "Prompt" /\ linkUp /\ Waiting /\ dev.retry = Limit
    /\ dev' = NewDevice /\ linkUp' = FALSE
    /\ c2d' = <<>>
    /\ UNCHANGED <<cliVars, peer, d2c, lost>>

DeviceReceiving == linkUp /\ c2d # <<>> /\ c2d' = Tail(c2d)

\* ble_data_give while a handshake answer is awaited.
DeviceTakesAnswer ==
    /\ DeviceReceiving /\ dev.state = "Respond"
    /\ dev' = [dev EXCEPT !.buf = Head(c2d).type, !.status = "Respond"]
    /\ UNCHANGED <<cliVars, peer, linkUp, d2c, lost>>

DeviceTakesKey ==
    /\ DeviceReceiving /\ dev.state = "EcdhRespond"
    /\ dev' = IF Head(c2d).type = "Key"
              THEN [dev EXCEPT !.buf = "Key", !.bufKey = Head(c2d).key,
                               !.status = "EcdhRespond"]
              ELSE dev                      \* a repeated answer: abandoned
    /\ UNCHANGED <<cliVars, peer, linkUp, d2c, lost>>

\* Any write ends the wait; what does not decrypt is not answered.
DeviceServes ==
    /\ DeviceReceiving
    /\ dev.state \in {"AesCbc", "Complete"} \/ peer = "Plain"
    /\ dev' = IF peer = "Plain" THEN dev ELSE [dev EXCEPT !.state = "Complete"]
    /\ d2c' = IF Head(c2d) = Data(dev.key) THEN Append(d2c, Reply(dev.key)) ELSE d2c
    /\ UNCHANGED <<cliVars, peer, linkUp, lost>>

DeviceIgnores ==
    /\ DeviceReceiving
    /\ dev.state \in {"Request", "EcdhRequest"} /\ peer # "Plain"
    /\ UNCHANGED <<cliVars, devVars, d2c, lost>>

-----------------------------------------------------------------------------
(* A write fails and is dropped; a notification does not get through.      *)

AirLoses ==
    /\ lost < MaxLost /\ lost' = lost + 1
    /\ \/ c2d # <<>> /\ c2d' = Tail(c2d) /\ UNCHANGED d2c
       \/ d2c # <<>> /\ d2c' = Tail(d2c) /\ UNCHANGED c2d
    /\ UNCHANGED <<cliVars, devVars>>

Init ==
    /\ cli = NewSession /\ reader = "Off" /\ answers = 0 /\ answered = FALSE
    /\ peer \in Peers /\ dev = NewDevice /\ linkUp = TRUE
    /\ d2c = <<>> /\ c2d = <<>> /\ lost = 0

ClientReads ==
    \/ ClientCollects \/ ClientAuthRequest \/ ClientAuthResult
    \/ ClientKeyExchange \/ ClientKeyExchangeResult \/ ClientBusiness

DeviceStep ==
    \/ DeviceChallenges \/ DeviceChecksAnswer \/ DeviceRequestsKey
    \/ DeviceAcceptsKey \/ DeviceRefusesKey

DeviceReceives ==
    \/ DeviceTakesAnswer \/ DeviceTakesKey \/ DeviceServes \/ DeviceIgnores

Next ==
    \/ ClientSubscribes \/ ClientOpensReader \/ NotificationUnheard
    \/ ClientReads \/ ClientPlainTimer \/ ClientPolls
    \/ DeviceStep \/ DeviceReceives \/ DeviceResends \/ DeviceGivesUp
    \/ AirLoses

Spec == Init /\ [][Next]_vars

\* Every task of either side is scheduled; nothing is assumed of the air.
Fairness ==
    /\ WF_vars(ClientSubscribes) /\ WF_vars(ClientOpensReader)
    /\ WF_vars(ClientReads) /\ WF_vars(ClientPolls) /\ WF_vars(ClientPlainTimer)
    /\ WF_vars(DeviceStep) /\ WF_vars(DeviceReceives)
    /\ WF_vars(DeviceResends) /\ WF_vars(DeviceGivesUp)

FairSpec == Spec /\ Fairness

-----------------------------------------------------------------------------
(* Correctness.                                                            *)

\* Every variable has its type; no more secrets than challenges for a key; and
\* what is answered and what is held are bytes the device has sent.
Key == 0..(Resends + 1)
TypeOK ==
    /\ cli.phase \in {"WaitingAuth", "AuthDone", "Encrypted", Plaintext}
    /\ {cli.auth_started, cli.auth_succeeded, cli.key_exchange_done,
        cli.encryption_ready, cli.new_aes_key, cli.iot_public_key,
        cli.rx_encrypted, cli.rx_junk} \subseteq BOOLEAN
    /\ {cli.shared_key, cli.ephemeral_secret, cli.rx_key, answers,
        dev.key, dev.bufKey} \subseteq Key
    /\ answers * ByteCount(KeyRequest) + ByteCount(cli.handshake_acc) <=
           (Resends + 1) * ByteCount(KeyRequest)
               + (ResultResends + 1) * ByteCount(KeyResult(TRUE))
    /\ reader \in {"Off", "Subscribed", "Open"}
    /\ answered \in BOOLEAN /\ linkUp \in BOOLEAN
    /\ peer \in Peers /\ dev.retry \in 0..Limit /\ lost \in 0..MaxLost

\* Both ends hold the same key once both have one: what "ECDH shared key"
\* says.  A 0086 that is sent again while its answer is under way breaks it.
KeysAgree ==
    cli.encryption_ready /\ dev.key # None => cli.shared_key = dev.key

\* As long as the client has answered one 0086 only, the keys agree whatever
\* else was lost or sent again, and whichever packets came in between.
OneAnswerKeysAgree == answers = 1 => KeysAgree

\* The client falls back to plaintext only with a device that does not
\* authenticate, never because a challenge was late, unheard or lost.
PlaintextOnlyToPlain ==
    cli.phase = Plaintext /\ linkUp => peer = "Plain"

\* A handshake with a device that authenticates and keeps its deadlines comes to
\* an end: a write has taken the device out of its last wait, whether or not it
\* could decrypt it, or it has hung up.  A device without encryption answers in
\* plaintext after the timer.
HandshakeEnds ==
    /\ (reader # "Off" /\ peer \notin {"Plain", "Prompt"})
            ~> (dev.state = "Complete" \/ ~linkUp)
    /\ (reader = "Open" /\ peer = "Plain") ~> answered

\* If the reader is open while a device that hears from the client in time
\* still has a challenge to send again, and nothing is lost after that, both
\* ends get to their key, whatever was lost or unheard before.
HandshakeSucceeds ==
    \A n \in 0..MaxLost :
        (/\ reader = "Open" /\ peer = "Prompt" /\ lost = n
         /\ dev.state = "Respond" /\ dev.retry < Resends)
            ~> (lost > n \/ (cli.encryption_ready /\ dev.key # None))
=============================================================================
