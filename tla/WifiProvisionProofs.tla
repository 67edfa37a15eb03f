------------------------- MODULE WifiProvisionProofs -------------------------
(***************************************************************************)
(* Proofs about WifiProvision, for any set of networks and any bounds: its *)
(* types, and that an attempt gets past the Wi-Fi only with a name the     *)
(* device has been given.                                                  *)
(***************************************************************************)
EXTENDS WifiProvision, TLAPS

-----------------------------------------------------------------------------
(* Types.                                                                   *)

Snapshots == [target : Targets, items : UNION {[d -> Value] : d \in SUBSET Item}]

LEMMA NoLiveType == NoLive \in Snapshots
  <1>1. [i \in {} |-> Failed] \in [{} -> Value]
    OBVIOUS
  <1>2. {} \in SUBSET Item
    OBVIOUS
  <1> QED
    BY <1>1, <1>2 DEF NoLive, Snapshots, Targets

\* What the snapshot says of its results.
LEMMA ItemsType ==
    ASSUME live \in Snapshots
    PROVE  /\ DOMAIN live.items \subseteq Item
           /\ \A i \in DOMAIN live.items : live.items[i] \in Value
  <1>1. PICK d \in SUBSET Item : live.items \in [d -> Value]
    BY DEF Snapshots
  <1> QED
    BY <1>1

LEMMA PublishedType ==
    ASSUME live \in Snapshots, NEW target \in Targets, NEW item \in Item, NEW result \in Value
    PROVE  Published(target, item, result) \in Snapshots
  <1>1. CASE live.target # target
    <2>1. {item} \in SUBSET Item
      OBVIOUS
    <2>2. [j \in {item} |-> result] \in [{item} -> Value]
      OBVIOUS
    <2> QED
      BY <1>1, <2>1, <2>2 DEF Published, Snapshots
  <1>2. CASE live.target = target
    <2> DEFINE D == DOMAIN live.items \cup {item}
               F == [j \in D |-> IF j = item THEN result ELSE live.items[j]]
    <2>1. D \in SUBSET Item
      BY ItemsType
    <2>2. F \in [D -> Value]
      BY ItemsType
    <2>3. F \in UNION {[d -> Value] : d \in SUBSET Item}
      BY <2>1, <2>2
    <2>4. Published(target, item, result) = [live EXCEPT !.items = F]
      BY <1>2 DEF Published
    <2> QED
      BY <2>3, <2>4 DEF Snapshots
  <1> QED
    BY <1>1, <1>2

States == [phase : Phase, late : BOOLEAN, pending : Ssid \cup {None},
           link : Link, ssid : Ssid \cup {None}]

LEMMA AdvancedType ==
    ASSUME NEW w \in States
    PROVE  Advanced(w) \in States
  BY DEF Advanced, States, Phase

-----------------------------------------------------------------------------
(* A result fits the register it was read from, wherever it has got to, and *)
(* a name is always one that the device has been given.                     *)

Fits(item, v) ==
    \/ v = Failed
    \/ item = "Link" /\ v \in Link
    \/ item = "Ssid" /\ v \in had
    \/ item = "Card" /\ v = "Text"

Readings ==
    /\ round.hand # <<>> => Fits(round.hand[1], round.hand[2])
    /\ \A i \in DOMAIN live.items : Fits(i, live.items[i])
    /\ dev.ssid \in had
    /\ wifi.ssid \in had \cup {None}
    /\ Trying => wifi.pending \in Ssid
    /\ NameWasGiven

IInv == TypeOK /\ Readings

LEMMA MergedResults ==
    ASSUME TypeOK, Readings
    PROVE  /\ Result("Link", wifi.link) \in Link
           /\ Result("Ssid", wifi.ssid) \in had \cup {None}
  <1>1. wifi.link \in Link /\ wifi.ssid \in had \cup {None}
    BY DEF TypeOK, Readings
  <1>2. ASSUME NEW i \in DOMAIN live.items
        PROVE  Fits(i, live.items[i])
    BY DEF Readings
  <1> QED
    BY <1>1, <1>2 DEF Result, Fits

LEMMA MergedType ==
    ASSUME TypeOK, Readings
    PROVE  Merged \in States
  <1>1. wifi \in States /\ had \subseteq Ssid
    BY DEF TypeOK, States
  <1>2. CASE fresh /\ live.target = "Builtin" /\ group = "Builtin"
    <2> DEFINE l == Result("Link", wifi.link)
               n == Result("Ssid", wifi.ssid)
               r == [wifi EXCEPT !.link = l, !.ssid = n]
    <2>1. l \in Link /\ n \in Ssid \cup {None}
      BY <1>1, MergedResults
    <2>2. r \in States
      <3> HIDE DEF l, n
      <3> QED
        BY <1>1, <2>1 DEF States
    <2>3. Merged = Advanced(r)
      BY <1>2 DEF Merged
    <2> QED
      BY <2>2, <2>3, AdvancedType
  <1> QED
    BY <1>1, <1>2 DEF Merged

LEMMA RegisterFits ==
    ASSUME TypeOK, Readings, NEW item \in Item
    PROVE  Register(item) \in Value /\ Fits(item, Register(item))
  BY DEF TypeOK, Readings, Register, Value, Item, Fits

-----------------------------------------------------------------------------
(* Every step keeps both.                                                   *)

LEMMA IInvInit == Init => IInv
  <1> SUFFICES ASSUME Init
               PROVE  IInv
    OBVIOUS
  <1>1. TypeOK
    <2>1. wifi \in States
      BY DEF Init, Blank, States, Phase, Link
    <2>2. round \in [pc : {"Off", "Begin", "Read", "Last"}, target : Targets,
                     todo : Seq(Item), hand : (Item \X Value) \cup {<<>>}]
      BY DEF Init, NoRound, Targets
    <2>3. dev \in [ssid : Ssid, on : BOOLEAN, due : BOOLEAN, link : Link]
      BY WifiAssumption DEF Init
    <2>4. live \in Snapshots /\ policy \in Targets
      BY NoLiveType DEF Init, Targets
    <2>5. /\ fresh \in BOOLEAN /\ seen \in BOOLEAN /\ linkUp \in BOOLEAN /\ was \in BOOLEAN
          /\ page \in {"Config", "Other"} /\ group \in {"Builtin", "Cards"}
          /\ writes = {} /\ had \subseteq Ssid
      BY WifiAssumption DEF Init
    <2>6. applies \in 0..MaxApplies /\ faults \in 0..MaxFaults
      BY WifiAssumption DEF Init
    <2> QED
      BY <2>1, <2>2, <2>3, <2>4, <2>5, <2>6 DEF TypeOK, States, Snapshots
  <1>2. Readings
    BY DEF Init, Readings, NoRound, NoLive, Blank, Trying, NameWasGiven
  <1> QED
    BY <1>1, <1>2 DEF IInv

LEMMA UserKeeps ==
    ASSUME IInv,
           \/ \E p \in {"Config", "Other"}, g \in {"Builtin", "Cards"} : TurnPage(p, g)
           \/ \E s \in Ssid : Apply(s)
    PROVE  IInv'
  <1> USE DEF IInv
  <1>1. CASE \E p \in {"Config", "Other"}, g \in {"Builtin", "Cards"} : TurnPage(p, g)
    <2> PICK p \in {"Config", "Other"}, g \in {"Builtin", "Cards"} : TurnPage(p, g)
      BY <1>1
    <2>1. Foreground(p, g) \in Targets
      BY DEF Foreground, Targets
    <2>2. TypeOK'
      BY <2>1 DEF TurnPage, TypeOK, timer, net, spent
    <2>3. Readings'
      BY DEF TurnPage, Readings, Fits, Trying, NameWasGiven, net
    <2> QED
      BY <2>2, <2>3
  <1>2. CASE \E s \in Ssid : Apply(s)
    <2> PICK s \in Ssid : Apply(s)
      BY <1>2
    <2>1. wifi' \in States
      BY DEF Apply, TypeOK, States, Phase
    <2>2. applies' \in 0..MaxApplies
      <3>1. applies \in 0..MaxApplies
        BY DEF TypeOK
      <3>2. applies < MaxApplies /\ applies' = applies + 1
        BY DEF Apply
      <3> QED
        BY <3>1, <3>2, WifiAssumption
    <2>3. writes' \subseteq [n : 0..MaxApplies, reg : {"Ssid", "OnOff"}, ssid : Ssid]
      <3>1. \A reg \in {"Ssid", "OnOff"} :
                Write(reg, s) \in [n : 0..MaxApplies, reg : {"Ssid", "OnOff"}, ssid : Ssid]
        <4>1. applies \in 0..MaxApplies
          BY DEF TypeOK
        <4> QED
          BY <4>1 DEF Write
      <3>2. writes \subseteq [n : 0..MaxApplies, reg : {"Ssid", "OnOff"}, ssid : Ssid]
        BY DEF TypeOK
      <3>3. writes' = writes \cup {Write(reg, s) : reg \in {"Ssid", "OnOff"}}
        BY DEF Apply
      <3> QED
        BY <3>1, <3>2, <3>3
    <2>4. UNCHANGED <<screen, shared, timer, linkUp, round, net, faults>>
      BY DEF Apply
    <2>7. TypeOK'
      BY <2>1, <2>2, <2>3, <2>4 DEF TypeOK, States, screen, shared, timer, net
    <2>5. wifi'.phase = "ConnectingWifi" /\ wifi'.pending = s /\ wifi'.ssid = wifi.ssid
      BY DEF Apply, TypeOK
    <2>6. Readings'
      BY <2>4, <2>5 DEF Readings, Fits, Trying, NameWasGiven, shared, net
    <2> QED
      BY <2>6, <2>7
  <1> QED
    BY <1>1, <1>2

LEMMA DeviceKeeps ==
    ASSUME IInv,
           \/ \E w \in writes : WriteLands(w) \/ WriteFails(w)
           \/ LeavesNetwork \/ GetsOn \/ LosesNetwork
    PROVE  IInv'
  <1> USE DEF IInv
  <1>1. CASE \E w \in writes : WriteLands(w)
    <2> PICK w \in writes : WriteLands(w)
      BY <1>1
    <2>1. w.ssid \in Ssid
      BY DEF TypeOK
    <2>2. dev' \in [ssid : Ssid, on : BOOLEAN, due : BOOLEAN, link : Link]
      <3>1. CASE w.reg = "OnOff"
        BY <3>1 DEF WriteLands, TypeOK
      <3>2. CASE w.reg # "OnOff"
        <4>1. (dev.due \/ (dev.on /\ dev.ssid # w.ssid)) \in BOOLEAN
          OBVIOUS
        <4> QED
          BY <2>1, <3>2, <4>1 DEF WriteLands, TypeOK
      <3> QED
        BY <3>1, <3>2
    <2>3. had' = had \cup {dev'.ssid} /\ had' \subseteq Ssid
      BY <2>2 DEF WriteLands, TypeOK
    <2>4. TypeOK'
      BY <2>2, <2>3 DEF WriteLands, TypeOK, screen, shared, timer, spent
    <2>5. Readings'
      BY <2>3 DEF WriteLands, Readings, Fits, Trying, NameWasGiven, shared
    <2> QED
      BY <2>4, <2>5
  <1>2. CASE \E w \in writes : WriteFails(w)
    BY <1>2 DEF WriteFails, TypeOK, Readings, Fits, Trying, NameWasGiven, screen, shared,
                timer, net, spent
  <1>3. CASE LeavesNetwork \/ GetsOn \/ LosesNetwork
    <2>1. /\ dev' \in [ssid : Ssid, on : BOOLEAN, due : BOOLEAN, link : Link]
          /\ dev'.ssid = dev.ssid
      BY <1>3 DEF LeavesNetwork, GetsOn, LosesNetwork, TypeOK, Link
    <2>2. applies' \in 0..MaxApplies /\ faults' \in 0..MaxFaults
      BY <1>3, WifiAssumption DEF LeavesNetwork, GetsOn, LosesNetwork, Fault, TypeOK, spent
    <2>3. UNCHANGED <<wifi, screen, shared, timer, linkUp, round, writes, had>>
      BY <1>3 DEF LeavesNetwork, GetsOn, LosesNetwork
    <2>4. TypeOK'
      BY <2>1, <2>2, <2>3 DEF TypeOK, screen, shared, timer
    <2>5. Readings'
      BY <2>1, <2>3 DEF Readings, Fits, Trying, NameWasGiven, shared
    <2> QED
      BY <2>4, <2>5
  <1> QED
    BY <1>1, <1>2, <1>3

\* A round's results are of its own list, as are those still in hand when the
\* link is lost.
LEMMA PollKeeps ==
    ASSUME IInv, Poll
    PROVE  IInv'
  <1>1. /\ TypeOK /\ Readings
        /\ round \in [pc : {"Off", "Begin", "Read", "Last"}, target : Targets,
                      todo : Seq(Item), hand : (Item \X Value) \cup {<<>>}]
        /\ UNCHANGED <<wifi, screen, policy, timer, linkUp, writes, net>>
    BY DEF IInv, TypeOK, Poll, PollBegins, PollReads, PollPublishes, shared
  <1>2. /\ applies' \in 0..MaxApplies /\ faults' \in 0..MaxFaults
    <2>1. applies \in 0..MaxApplies /\ faults \in 0..MaxFaults
      BY <1>1 DEF TypeOK
    <2>2. UNCHANGED spent \/ Fault
      BY DEF Poll, PollBegins, PollReads, PollPublishes
    <2> QED
      BY <2>1, <2>2, WifiAssumption DEF spent, Fault
  <1>3. ASSUME /\ round' \in [pc : {"Off", "Begin", "Read", "Last"}, target : Targets,
                              todo : Seq(Item), hand : (Item \X Value) \cup {<<>>}]
               /\ live' \in Snapshots /\ fresh' \in BOOLEAN
        PROVE  TypeOK'
    BY <1>1, <1>2, <1>3 DEF TypeOK, Snapshots, screen, timer, net
  <1>4. ASSUME /\ round'.hand # <<>> => Fits(round'.hand[1], round'.hand[2])
               /\ \A i \in DOMAIN live'.items : Fits(i, live'.items[i])
        PROVE  Readings'
    BY <1>1, <1>4 DEF Readings, Fits, Trying, NameWasGiven, net
  <1>5. CASE PollBegins
    <2>1. <<"Link", "Ssid">> \in Seq(Item) /\ <<"Card">> \in Seq(Item)
      BY DEF Item
    <2>2. /\ round'.hand = round.hand /\ UNCHANGED shared
          /\ round' \in [pc : {"Off", "Begin", "Read", "Last"}, target : Targets,
                         todo : Seq(Item), hand : (Item \X Value) \cup {<<>>}]
      <3>1. policy \in Targets
        BY <1>1 DEF TypeOK
      <3> QED
        BY <1>1, <1>5, <2>1, <3>1 DEF PollBegins
    <2>3. live \in Snapshots /\ fresh \in BOOLEAN
      BY <1>1 DEF TypeOK, Snapshots
    <2> QED
      BY <1>1, <1>3, <1>4, <2>2, <2>3 DEF IInv, Readings, shared
  <1>6. CASE \E ok \in BOOLEAN : PollReads(ok)
    <2> DEFINE item == Head(round.todo)
    <2> PICK ok \in BOOLEAN : PollReads(ok)
      BY <1>6
    <2>1. item \in Item /\ Tail(round.todo) \in Seq(Item)
      BY <1>1 DEF PollReads
    <2>2. PICK v : /\ v \in Value /\ Fits(item, v)
                   /\ round' = [round EXCEPT !.todo = Tail(@), !.hand = <<item, v>>]
      <3>1. Register(item) \in Value /\ Fits(item, Register(item))
        BY <1>1, <2>1, RegisterFits
      <3>2. Failed \in Value /\ Fits(item, Failed)
        BY DEF Value, Fits
      <3>3. round' = [round EXCEPT !.todo = Tail(@),
                          !.hand = <<item, IF ok THEN Register(item) ELSE Failed>>]
        BY DEF PollReads
      <3> QED
        BY <3>1, <3>2, <3>3
    <2>3. /\ round' \in [pc : {"Off", "Begin", "Read", "Last"}, target : Targets,
                         todo : Seq(Item), hand : (Item \X Value) \cup {<<>>}]
          /\ round'.hand = <<item, v>>
      BY <1>1, <2>1, <2>2
    <2>4. live' = live /\ fresh' = fresh /\ live \in Snapshots /\ fresh \in BOOLEAN
      BY <1>1 DEF PollReads, shared, TypeOK, Snapshots
    <2> QED
      BY <1>1, <1>3, <1>4, <2>2, <2>3, <2>4 DEF IInv, Readings
  <1>7. CASE PollPublishes
    <2> DEFINE item == round.hand[1]
               v    == round.hand[2]
    <2>1. item \in Item /\ v \in Value /\ Fits(item, v) /\ round.target \in Targets
      BY <1>1, <1>7 DEF PollPublishes, Readings
    <2>2. live' = Published(round.target, item, v)
      BY <1>7 DEF PollPublishes
    <2>3. live \in Snapshots
      BY <1>1 DEF TypeOK, Snapshots
    <2>4. live' \in Snapshots
      BY <2>1, <2>2, <2>3, PublishedType
    <2>5. fresh' \in BOOLEAN
      BY <1>7 DEF PollPublishes
    <2>6. /\ round' \in [pc : {"Off", "Begin", "Read", "Last"}, target : Targets,
                         todo : Seq(Item), hand : (Item \X Value) \cup {<<>>}]
          /\ round'.hand = <<>>
      BY <1>1, <1>7 DEF PollPublishes, NewRound, NoRound, Targets
    <2>7. ASSUME NEW i \in DOMAIN live'.items
          PROVE  Fits(i, live'.items[i])
      <3>1. CASE live.target # round.target
        BY <2>1, <2>2, <2>7, <3>1 DEF Published
      <3>2. CASE live.target = round.target
        <4>1. live'.items = [j \in DOMAIN live.items \cup {item} |->
                                IF j = item THEN v ELSE live.items[j]]
          BY <2>2, <2>3, <3>2 DEF Published, Snapshots
        <4> QED
          BY <1>1, <2>1, <2>7, <4>1 DEF Readings
      <3> QED
        BY <3>1, <3>2
    <2> QED
      BY <1>3, <1>4, <2>4, <2>5, <2>6, <2>7 DEF IInv
  <1> QED
    BY <1>5, <1>6, <1>7 DEF Poll
LEMMA LinkKeeps ==
    ASSUME IInv, Connect \/ PeerDisconnects \/ EndSession \/ DeadlinePasses
    PROVE  IInv'
  <1>1. TypeOK /\ Readings
    BY DEF IInv
  <1>2. round \in [pc : {"Off", "Begin", "Read", "Last"}, target : Targets,
                   todo : Seq(Item), hand : (Item \X Value) \cup {<<>>}]
    BY <1>1 DEF TypeOK
  <1>3. /\ round' \in [pc : {"Off", "Begin", "Read", "Last"}, target : Targets,
                       todo : Seq(Item), hand : (Item \X Value) \cup {<<>>}]
        /\ round'.hand \in {round.hand, <<>>}
    <2>1. round' \in {round, NoRound, NewRound, [round EXCEPT !.pc = "Last"]}
      BY DEF Connect, PeerDisconnects, EndSession, DeadlinePasses
    <2>2. /\ NoRound \in [pc : {"Off", "Begin", "Read", "Last"}, target : Targets,
                         todo : Seq(Item), hand : (Item \X Value) \cup {<<>>}]
          /\ NoRound.hand = <<>>
      BY DEF NoRound, Targets
    <2>4. /\ NewRound \in [pc : {"Off", "Begin", "Read", "Last"}, target : Targets,
                          todo : Seq(Item), hand : (Item \X Value) \cup {<<>>}]
          /\ NewRound.hand = <<>>
      BY <2>2 DEF NewRound
    <2>3. /\ [round EXCEPT !.pc = "Last"] \in
                 [pc : {"Off", "Begin", "Read", "Last"}, target : Targets,
                  todo : Seq(Item), hand : (Item \X Value) \cup {<<>>}]
          /\ [round EXCEPT !.pc = "Last"].hand = round.hand
      BY <1>2
    <2> QED
      BY <1>2, <2>1, <2>2, <2>3, <2>4
  <1>4. applies' \in 0..MaxApplies /\ faults' \in 0..MaxFaults
    <2>1. applies \in 0..MaxApplies /\ faults \in 0..MaxFaults
      BY <1>1 DEF TypeOK
    <2>2. UNCHANGED spent \/ Fault
      BY DEF Connect, PeerDisconnects, EndSession, DeadlinePasses
    <2> QED
      BY <2>1, <2>2, WifiAssumption DEF spent, Fault
  <1>5. wifi' = wifi \/ wifi' = [wifi EXCEPT !.late = TRUE]
    BY DEF Connect, PeerDisconnects, EndSession, DeadlinePasses
  <1>6. /\ wifi' \in States /\ wifi'.phase = wifi.phase
        /\ wifi'.pending = wifi.pending /\ wifi'.ssid = wifi.ssid
    BY <1>1, <1>5 DEF TypeOK, States
  <1>7. /\ policy' \in {policy, None} /\ linkUp' \in BOOLEAN
        /\ writes' \subseteq writes
        /\ UNCHANGED <<screen, live, fresh, timer, net>>
    BY <1>1 DEF Connect, PeerDisconnects, EndSession, DeadlinePasses, shared, TypeOK
  <1>8. TypeOK'
    BY <1>1, <1>3, <1>4, <1>6, <1>7 DEF TypeOK, States, Targets, screen, timer, net
  <1>9. Readings'
    BY <1>1, <1>3, <1>6, <1>7 DEF Readings, Fits, Trying, NameWasGiven, net
  <1> QED
    BY <1>8, <1>9 DEF IInv

\* The phase only moves on past the Wi-Fi with the name that has been read.
LEMMA AdvancedKeeps ==
    ASSUME NEW w \in States, w.ssid \in had \cup {None}, had \subseteq Ssid,
           w.phase \in {"ConnectingWifi", "ConnectingCloud"} => w.pending \in Ssid,
           w.phase = "ConnectingCloud" => w.pending \in had
    PROVE  LET a == Advanced(w)
           IN  /\ a.ssid = w.ssid
               /\ a.phase \in {"ConnectingWifi", "ConnectingCloud"} => a.pending \in Ssid
               /\ a.phase = "ConnectingCloud" => a.pending \in had
  <1>1. None \notin Ssid
    BY WifiAssumption
  <1>2. CASE w.phase = "ConnectingWifi"
    <2> DEFINE To(phase) == [w EXCEPT !.phase = phase, !.late = FALSE]
    <2>1. \/ Advanced(w) = w
          \/ Advanced(w) = To(Failed)
          \/ Advanced(w) = To("ConnectingCloud") /\ (w.pending = None \/ w.ssid = w.pending)
      BY <1>2 DEF Advanced
    <2>2. w.pending \in Ssid /\ (w.ssid = w.pending => w.pending \in had)
      BY <1>1, <1>2
    <2>3. CASE Advanced(w) = w
      BY <1>2, <2>2, <2>3
    <2>4. CASE Advanced(w) = To(Failed)
      BY <2>4 DEF States, Failed
    <2>5. CASE Advanced(w) = To("ConnectingCloud") /\ (w.pending = None \/ w.ssid = w.pending)
      BY <1>1, <2>2, <2>5 DEF States
    <2> QED
      BY <2>1, <2>3, <2>4, <2>5
  <1>3. CASE w.phase = "ConnectingCloud"
    BY <1>3 DEF Advanced, States
  <1>4. CASE w.phase \notin {"ConnectingWifi", "ConnectingCloud"}
    BY <1>4 DEF Advanced, States
  <1> QED
    BY <1>2, <1>3, <1>4

LEMMA TickKeeps ==
    ASSUME IInv, Tick
    PROVE  IInv'
  <1>1. TypeOK /\ Readings
    BY DEF IInv
  <1>2. wifi \in States /\ had \subseteq Ssid
    BY <1>1 DEF TypeOK, States
  <1>3. PICK w \in States :
            /\ Merged = w \/ Merged = Advanced(w)
            /\ w.ssid \in had \cup {None} /\ w.phase = wifi.phase /\ w.pending = wifi.pending
    <2> DEFINE l == Result("Link", wifi.link)
               n == Result("Ssid", wifi.ssid)
               r == [wifi EXCEPT !.link = l, !.ssid = n]
    <2>1. l \in Link /\ n \in had \cup {None}
      BY <1>1, MergedResults
    <2>2. Merged = wifi \/ Merged = Advanced(r)
      BY DEF Merged
    <2>3. /\ r \in States
          /\ r.ssid \in had \cup {None} /\ r.phase = wifi.phase /\ r.pending = wifi.pending
      <3> HIDE DEF l, n
      <3> QED
        BY <1>2, <2>1 DEF States
    <2>4. wifi.ssid \in had \cup {None}
      BY <1>1 DEF Readings
    <2> HIDE DEF r
    <2> QED
      BY <1>2, <2>2, <2>3, <2>4
  <1>4. /\ w.phase \in {"ConnectingWifi", "ConnectingCloud"} => w.pending \in Ssid
        /\ w.phase = "ConnectingCloud" => w.pending \in had
    BY <1>1, <1>3 DEF Readings, Trying, NameWasGiven
  <1>5. /\ Merged \in States /\ Merged.ssid \in had \cup {None}
        /\ Merged.phase \in {"ConnectingWifi", "ConnectingCloud"} => Merged.pending \in Ssid
        /\ Merged.phase = "ConnectingCloud" => Merged.pending \in had
    BY <1>2, <1>3, <1>4, AdvancedKeeps, AdvancedType
  <1>6. /\ wifi' \in States /\ wifi'.ssid \in had \cup {None}
        /\ wifi'.phase \in {"ConnectingWifi", "ConnectingCloud"} => wifi'.pending \in Ssid
        /\ wifi'.phase = "ConnectingCloud" => wifi'.pending \in had
    <2>1. wifi' = Advanced(Merged)
      BY DEF Tick
    <2> QED
      BY <1>2, <1>5, <2>1, AdvancedKeeps, AdvancedType
  <1>7. policy' \in Targets
    BY <1>1 DEF Tick, TypeOK, Foreground, Targets
  <1>8. fresh' \in BOOLEAN /\ seen' \in BOOLEAN /\ was' \in BOOLEAN
    <2>1. seen' \in BOOLEAN
      <3>1. CASE fresh
        BY <3>1 DEF Tick
      <3>2. CASE ~fresh
        BY <1>1, <3>2 DEF Tick, TypeOK
      <3> QED
        BY <3>1, <3>2
    <2> QED
      BY <1>1, <2>1 DEF Tick, TypeOK
  <1>9. UNCHANGED <<screen, live, linkUp, round, writes, net, spent>>
    BY DEF Tick
  <1>10. TypeOK'
    BY <1>1, <1>6, <1>7, <1>8, <1>9 DEF TypeOK, States, screen, net, spent
  <1>11. Readings'
    BY <1>1, <1>6, <1>9 DEF Readings, Fits, Trying, NameWasGiven, net
  <1> QED
    BY <1>10, <1>11 DEF IInv

LEMMA TickAfterLossKeeps ==
    ASSUME IInv, TickAfterLoss
    PROVE  IInv'
  <1>1. TypeOK /\ Readings
    BY DEF IInv
  <1>2. /\ wifi' \in {wifi, Blank} /\ live' = NoLive /\ policy' = None
        /\ fresh' = FALSE /\ seen' = FALSE /\ was' = FALSE
        /\ UNCHANGED <<screen, linkUp, round, writes, net, spent>>
    BY DEF TickAfterLoss
  <1>3. Blank \in States
    BY DEF Blank, States, Phase, Link
  <1>4. TypeOK'
    <2>1. fresh' \in BOOLEAN /\ seen' \in BOOLEAN /\ was' \in BOOLEAN
      BY <1>2, Zenon
    <2>2. wifi' \in States /\ live' \in Snapshots /\ policy' \in Targets
      BY <1>1, <1>2, <1>3, NoLiveType DEF TypeOK, States, Targets
    <2>3. UNCHANGED <<screen, linkUp, round, writes, net, spent>>
      BY <1>2
    <2> QED
      BY <1>1, <2>1, <2>2, <2>3 DEF TypeOK, States, Snapshots, screen, net, spent
  <1>5. Readings'
    <2>1. DOMAIN live'.items = {}
      BY <1>2 DEF NoLive
    <2>2. /\ wifi'.ssid \in had \cup {None}
          /\ wifi'.phase \in {"ConnectingWifi", "ConnectingCloud"} => wifi'.pending \in Ssid
          /\ wifi'.phase = "ConnectingCloud" => wifi'.pending \in had
      BY <1>1, <1>2 DEF Readings, Trying, NameWasGiven, Blank
    <2> QED
      BY <1>1, <1>2, <2>1, <2>2 DEF Readings, Fits, Trying, NameWasGiven, net
  <1> QED
    BY <1>4, <1>5 DEF IInv

LEMMA IInvNext == IInv /\ [Next]_vars => IInv'
  <1> SUFFICES ASSUME IInv, [Next]_vars
               PROVE  IInv'
    OBVIOUS
  <1>1. CASE UNCHANGED vars
    BY <1>1 DEF IInv, TypeOK, Readings, Fits, Trying, NameWasGiven, vars, screen, shared,
                timer, net, spent
  <1> QED
    BY <1>1, UserKeeps, DeviceKeeps, PollKeeps, LinkKeeps, TickKeeps, TickAfterLossKeeps
       DEF Next

LEMMA Invariant == Spec => []IInv
  BY IInvInit, IInvNext, PTL DEF Spec

\* Every variable keeps its type for any set of networks and any bounds; a result
\* merged into the state of an attempt is one of the register it is taken for.
THEOREM TypeCorrect == Spec => []TypeOK
  <1>1. IInv => TypeOK
    BY DEF IInv
  <1> QED
    BY <1>1, Invariant, PTL

\* No attempt gets past the Wi-Fi before the device has been given the name.
THEOREM NameCorrect == Spec => []NameWasGiven
  <1>1. IInv => NameWasGiven
    BY DEF IInv, Readings
  <1> QED
    BY <1>1, Invariant, PTL
=============================================================================
