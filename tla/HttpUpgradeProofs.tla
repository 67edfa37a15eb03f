-------------------------- MODULE HttpUpgradeProofs --------------------------
(***************************************************************************)
(* Proofs about HttpUpgrade, for a file of any length and any set of       *)
(* clients of the server: its types, and that a success shown has been     *)
(* served.                                                                 *)
(***************************************************************************)
EXTENDS HttpUpgrade, TLAPS

-----------------------------------------------------------------------------
(* Types: the task, the server and the device change parts of the state    *)
(* that hardly overlap.                                                    *)

LEMMA TypeInit == Init => TypeOK
  <1> SUFFICES ASSUME Init
               PROVE  TypeOK
    OBVIOUS
  <1> USE HttpAssumption DEF Init
  <1>1. Cleared \in Groups /\ \A n \in {50, 100}, e \in BOOLEAN : Group(TRUE, 1, n, e) \in Groups
    BY DEF Cleared, Group, Groups
  <1>2. reg \in Groups
    BY <1>1
  <1>3. client \in Clients
    BY DEF Clients
  <1>4. conn \in [Peers -> [at : Stages, sent : 0..Chunks]]
    BY DEF Stages
  <1>5. /\ server \in [open : BOOLEAN, stop : BOOLEAN, got : BOOLEAN,
                      completed : BOOLEAN, sent : 0..Chunks]
        /\ fetch \in [at : {"Idle", "Asked", "Reading", "Ended"}, got : 0..Chunks]
    OBVIOUS
  <1> QED
    BY <1>2, <1>3, <1>4, <1>5 DEF TypeOK

LEMMA TypeClient ==
    ASSUME TypeOK, ClientNext
    PROVE  TypeOK'
  <1> USE DEF TypeOK, Clients, Finish, Conclude, Goto, Alone
  <1>1. CASE LanFails
    BY <1>1 DEF LanFails, device
  <1>2. CASE Serve
    BY <1>2 DEF Serve
  <1>3. CASE Stopped
    BY <1>3 DEF Stopped, device
  <1>4. CASE WatchLooks
    BY <1>4 DEF WatchLooks, device
  <1>5. CASE WatchReads
    <2>1. CASE reg.mine /\ reg.err
      BY <1>5, <2>1 DEF WatchReads, device
    <2>2. CASE ~(reg.mine /\ reg.err)
      <3>1. (client.started \/ Started(reg)) \in BOOLEAN
        OBVIOUS
      <3> QED
        BY <1>5, <2>2, <3>1 DEF WatchReads, device
    <2> QED
      BY <2>1, <2>2
  <1>6. CASE WatchMisses \/ WatchAgain
    BY <1>6 DEF WatchMisses, WatchAgain, device
  <1>7. CASE WatchEnds
    BY <1>7 DEF WatchEnds, device
  <1>8. CASE WatchGivesUp
    BY <1>8 DEF WatchGivesUp, device
  <1>9. CASE AfterReads
    <2>1. CASE reg.mine /\ (reg.err \/ reg.pct = 100)
      <3>1. PICK v \in {"Success", "Failed"} : Conclude(v)
        BY <1>9, <2>1 DEF AfterReads
      <3> QED
        BY <1>9, <3>1 DEF AfterReads, device
    <2>2. CASE ~(reg.mine /\ (reg.err \/ reg.pct = 100))
      BY <1>9, <2>2 DEF AfterReads, device
    <2> QED
      BY <2>1, <2>2
  <1>10. CASE AfterMisses \/ AfterEnds
    BY <1>10 DEF AfterMisses, AfterEnds, device
  <1>11. CASE AfterAgain
    BY <1>11 DEF AfterAgain, device
  <1>12. CASE DistReads
    <2>1. PICK v \in {"Success", "Failed"} : Conclude(v)
      BY <1>12 DEF DistReads
    <2> QED
      BY <1>12, <2>1 DEF DistReads, device
  <1>13. CASE DistStalls
    BY <1>13 DEF DistStalls, device
  <1>14. CASE Close
    BY <1>14 DEF Close, device
  <1> QED
    BY <1>1, <1>2, <1>3, <1>4, <1>5, <1>6, <1>7, <1>8, <1>9, <1>10, <1>11,
       <1>12, <1>13, <1>14 DEF ClientNext

LEMMA TypeServer ==
    ASSUME TypeOK, NEW p \in Peers, ServerNext(p)
    PROVE  TypeOK'
  <1> USE HttpAssumption DEF TypeOK, Stages, Serving, ConnAt
  <1>1. CASE Connect(p)
    BY <1>1 DEF Connect, device
  <1>2. CASE Requested(p)
    BY <1>2 DEF Requested, device
  <1>3. CASE Body(p)
    BY <1>3 DEF Body, device
  <1>4. CASE Chunk(p)
    BY <1>4 DEF Chunk, device
  <1>5. CASE Completed(p)
    BY <1>5 DEF Completed, device
  <1>6. CASE HandlerStops(p)
    BY <1>6 DEF HandlerStops, device
  <1>7. CASE OtherLeaves(p)
    BY <1>7 DEF OtherLeaves, device
  <1> QED
    BY <1>1, <1>2, <1>3, <1>4, <1>5, <1>6, <1>7 DEF ServerNext, Answer

DeviceNext ==
    \/ FetchBegins \/ FetchReads \/ FetchEnds
    \/ FetchUnanswered \/ FetchFails \/ PassOn \/ CanProgress

LEMMA TypeDevice ==
    ASSUME TypeOK, DeviceNext
    PROVE  TypeOK'
  <1>0. \A w \in {0, 1, 3}, n \in {0, 50, 100} :
          Group(TRUE, w, n, FALSE) \in Groups /\ Group(TRUE, w, n, TRUE) \in Groups
    BY DEF Group, Groups
  <1>g. [reg EXCEPT !.where = 3, !.err = TRUE] \in Groups
    BY DEF TypeOK, Groups
  <1>h. Hangs => conn' \in [Peers -> [at : Stages, sent : 0..Chunks]]
    BY HttpAssumption DEF Hangs, TypeOK, Stages
  <1> USE HttpAssumption DEF TypeOK, Fetching
  <1>1. CASE FetchBegins
    BY <1>0, <1>1 DEF FetchBegins
  <1>2. CASE FetchReads
    <2>1. fetch.got + 1 \in 0..Chunks
      BY <1>2 DEF FetchReads
    <2>2. reg' \in Groups
      BY <1>0, <1>2 DEF FetchReads
    <2> QED
      BY <1>2, <2>1, <2>2 DEF FetchReads
  <1>3. CASE FetchEnds
    BY <1>0, <1>3 DEF FetchEnds
  <1>4. CASE FetchUnanswered
    BY <1>h, <1>4 DEF FetchUnanswered
  <1>5. CASE FetchFails
    BY <1>g, <1>h, <1>5 DEF FetchFails
  <1>6. CASE PassOn
    BY <1>0, <1>6 DEF PassOn
  <1>7. CASE CanProgress
    <2>1. reg' \in Groups
      BY <1>0, <1>7 DEF CanProgress
    <2>2. dist' \in {"Running", "Done", "Failed"}
      BY <1>7 DEF CanProgress
    <2> QED
      BY <1>7, <2>1, <2>2 DEF CanProgress
  <1> QED
    BY <1>1, <1>2, <1>3, <1>4, <1>5, <1>6, <1>7 DEF DeviceNext

LEMMA TypeNext == TypeOK /\ [Next]_vars => TypeOK'
  <1> SUFFICES ASSUME TypeOK, [Next]_vars
               PROVE  TypeOK'
    OBVIOUS
  <1>1. CASE AcceptEnds
    BY <1>1 DEF AcceptEnds, TypeOK, Serving, device
  <1>2. CASE PressStop
    BY <1>2 DEF PressStop, TypeOK, device
  <1>3. CASE PeerLost
    <2>1. [client EXCEPT !.pc = "Aborted"] \in Clients
      BY DEF TypeOK, Clients
    <2>2. client' \in Clients
      BY <1>3, <2>1 DEF PeerLost, TypeOK
    <2> QED
      BY <1>3, <2>2 DEF PeerLost, TypeOK, device
  <1>4. CASE UNCHANGED vars
    BY <1>4 DEF vars, TypeOK, device
  <1> QED
    BY <1>1, <1>2, <1>3, <1>4, TypeClient, TypeServer, TypeDevice
    DEF Next, DeviceNext

\* Every variable keeps its type for a file of any length: what the server
\* counts and what the device has read never exceed the file.
THEOREM TypeCorrect == Spec => []TypeOK
  BY TypeInit, TypeNext, PTL DEF Spec

-----------------------------------------------------------------------------
(* A success has been served.  The task believes what it samples of the    *)
(* server, and the server what its connections have told it; the progress  *)
(* of a connection never goes back.                                        *)

Served == \E p \in Peers : conn[p].sent = Chunks

\* bytes_sent is what one connection or another has been sent at least.
SentIsReal == \E p \in Peers : server.sent <= conn[p].sent
\* What has been sampled of the server before a read of register 720.
SeenIsReal == client.seen = Chunks => Served
CompletedIsReal == server.completed => Served

\* Where the task takes the download for complete.
KnowsServed ==
    \/ client.pc \in {"After", "Rested", "Dist"}
    \/ client.verdict = "Success"
    \/ result = "Success"

IInv == /\ TypeOK /\ SentIsReal /\ SeenIsReal /\ CompletedIsReal
        /\ KnowsServed => Served

LEMMA InvInit == Init => IInv
  <1> SUFFICES ASSUME Init
               PROVE  IInv
    OBVIOUS
  <1>1. TypeOK
    BY TypeInit
  <1>2. SentIsReal
    BY HttpAssumption DEF Init, SentIsReal
  <1>3. client.seen # Chunks /\ ~server.completed /\ ~KnowsServed
    BY HttpAssumption DEF Init, KnowsServed
  <1> QED
    BY <1>1, <1>2, <1>3 DEF IInv, SeenIsReal, CompletedIsReal

\* No step takes back what a connection has been sent.
SentGrows == \A p \in Peers : conn'[p].sent \in Nat /\ conn[p].sent <= conn'[p].sent

LEMMA ServedStays ==
    ASSUME TypeOK, TypeOK', SentGrows
    PROVE  /\ Served => Served'
           /\ SentIsReal /\ server'.sent = server.sent => SentIsReal'
  <1>1. \A p \in Peers : /\ conn[p].sent \in 0..Chunks /\ conn'[p].sent \in 0..Chunks
                         /\ conn[p].sent <= conn'[p].sent
    BY DEF TypeOK, SentGrows
  <1>2. Chunks \in Nat /\ server.sent \in 0..Chunks
    BY HttpAssumption DEF TypeOK
  <1> QED
    BY <1>1, <1>2 DEF Served, SentIsReal

\* The invariant survives any step that tells the task nothing new.
LEMMA NothingNew ==
    ASSUME IInv, TypeOK', SentGrows, SentIsReal',
           client'.seen = client.seen, CompletedIsReal', KnowsServed' => KnowsServed
    PROVE  IInv'
  <1>1. Served => Served'
    BY ServedStays DEF IInv
  <1>2. SeenIsReal'
    BY <1>1 DEF IInv, SeenIsReal
  <1> QED
    BY <1>1, <1>2 DEF IInv

LEMMA ClientInv ==
    ASSUME IInv, TypeOK', ClientNext
    PROVE  IInv'
  <1>1. conn' = conn /\ server'.sent = server.sent /\ server'.completed = server.completed
    BY DEF ClientNext, LanFails, Serve, Stopped, WatchLooks, WatchReads, WatchMisses,
       WatchEnds, WatchGivesUp, WatchAgain, AfterReads, AfterMisses, AfterEnds,
       AfterAgain, DistReads, DistStalls, Close, Alone, Conclude, Goto, IInv, TypeOK
  <1>2. SentGrows
    BY <1>1, HttpAssumption DEF SentGrows, IInv, TypeOK
  <1>3. SentIsReal' /\ CompletedIsReal' /\ Served' = Served
    BY <1>1 DEF IInv, SentIsReal, CompletedIsReal, Served
  <1>4. CASE WatchLooks
    <2>1. client'.seen = server.sent
      BY <1>4 DEF WatchLooks, IInv, TypeOK, Clients
    <2>2. SeenIsReal'
      <3> SUFFICES ASSUME server.sent = Chunks
                   PROVE  Served
        BY <1>3, <2>1 DEF SeenIsReal
      <3>1. PICK p \in Peers : server.sent <= conn[p].sent
        BY DEF IInv, SentIsReal
      <3>2. conn[p].sent \in 0..Chunks
        BY DEF IInv, TypeOK
      <3> QED
        BY <3>1, <3>2, HttpAssumption DEF Served
    <2>3. KnowsServed' => KnowsServed
      BY <1>4 DEF WatchLooks, KnowsServed, Alone, IInv, TypeOK, Clients
    <2> QED
      BY <1>3, <2>2, <2>3 DEF IInv
  <1>5. CASE WatchEnds
    <2>1. Served
      BY <1>5 DEF WatchEnds, Downloaded, IInv, CompletedIsReal, SeenIsReal
    <2> QED
      BY <1>3, <2>1 DEF IInv, SeenIsReal
  <1>6. CASE ~WatchLooks /\ ~WatchEnds
    <2>1. client'.seen = client.seen
      BY <1>6 DEF ClientNext, LanFails, Serve, Stopped, WatchReads, WatchMisses,
         WatchGivesUp, WatchAgain, AfterReads, AfterMisses, AfterEnds, AfterAgain,
         DistReads, DistStalls, Close, Alone, Conclude, Goto, Finish, IInv, TypeOK, Clients
    <2>2. KnowsServed' => KnowsServed
      <3> USE DEF KnowsServed, IInv, TypeOK, Clients
      <3>1. CASE LanFails \/ Serve
        BY <3>1 DEF LanFails, Serve, Finish
      <3>2. CASE Stopped
        BY <3>2 DEF Stopped, Alone, Conclude
      <3>3. CASE WatchReads
        BY <3>3 DEF WatchReads, Alone, Conclude
      <3>4. CASE WatchMisses \/ WatchAgain \/ WatchGivesUp
        BY <3>4 DEF WatchMisses, WatchAgain, WatchGivesUp, Alone, Conclude, Goto
      <3>5. CASE AfterReads \/ AfterMisses \/ AfterEnds \/ AfterAgain \/ DistReads
        BY <3>5 DEF AfterReads, AfterMisses, AfterEnds, AfterAgain, DistReads
      <3>6. CASE DistStalls
        BY <3>6 DEF DistStalls
      <3>7. CASE Close
        BY <3>7 DEF Close, Finish
      <3> QED
        BY <1>6, <3>1, <3>2, <3>3, <3>4, <3>5, <3>6, <3>7 DEF ClientNext
    <2> QED
      BY <1>2, <1>3, <2>1, <2>2, NothingNew
  <1> QED
    BY <1>4, <1>5, <1>6

LEMMA ServerInv ==
    ASSUME IInv, TypeOK', NEW p \in Peers, ServerNext(p)
    PROVE  IInv'
  <1> USE DEF IInv, TypeOK, Serving, ConnAt
  <1>0. client' = client /\ result' = result
    BY DEF ServerNext, Answer, Connect, Requested, Body, Chunk, Completed,
       HandlerStops, OtherLeaves
  <1>1. SentGrows
    BY HttpAssumption DEF ServerNext, Answer, Connect, Requested, Body, Chunk,
       Completed, HandlerStops, OtherLeaves, SentGrows
  <1>2. (Served => Served') /\ (SentIsReal /\ server'.sent = server.sent => SentIsReal')
    BY <1>1, ServedStays
  <1>3. SentIsReal'
    <2>1. CASE Body(p)
      BY <1>1, <2>1 DEF Body, SentIsReal, SentGrows
    <2>2. CASE Chunk(p)
      BY <2>2, HttpAssumption DEF Chunk, SentIsReal
    <2>3. CASE ~Body(p) /\ ~Chunk(p)
      BY <1>2, <2>3 DEF ServerNext, Answer, Connect, Requested, Completed,
         HandlerStops, OtherLeaves
    <2> QED
      BY <2>1, <2>2, <2>3
  <1>4. CompletedIsReal'
    <2>1. CASE Completed(p)
      BY <1>2, <2>1 DEF Completed, Served, CompletedIsReal
    <2>2. CASE ~Completed(p)
      BY <1>2, <2>2 DEF ServerNext, Answer, Connect, Requested, Body, Chunk,
         HandlerStops, OtherLeaves, CompletedIsReal
    <2> QED
      BY <2>1, <2>2
  <1> QED
    BY <1>0, <1>1, <1>3, <1>4, NothingNew DEF KnowsServed

LEMMA OtherInv ==
    ASSUME IInv, TypeOK',
           AcceptEnds \/ DeviceNext \/ PressStop \/ PeerLost \/ UNCHANGED vars
    PROVE  IInv'
  <1> USE DEF IInv, TypeOK
  <1>1. SentGrows
    <2>1. Hangs => \A p \in Peers : conn'[p].sent = conn[p].sent
      BY HttpAssumption DEF Hangs
    <2>2. conn' = conn \/ Hangs
      BY DEF AcceptEnds, DeviceNext, FetchBegins, FetchReads, FetchEnds,
         FetchUnanswered, FetchFails, PassOn, CanProgress, PressStop, PeerLost, vars
    <2>3. \A p \in Peers : conn[p].sent \in 0..Chunks /\ Chunks \in Nat
      BY HttpAssumption
    <2> QED
      BY <2>1, <2>2, <2>3 DEF SentGrows
  <1>2. server'.sent = server.sent /\ server'.completed = server.completed
    BY DEF AcceptEnds, DeviceNext, Fetching, FetchBegins, FetchReads, FetchEnds,
       FetchUnanswered, FetchFails, PassOn, CanProgress, PressStop, PeerLost, vars
  <1>3. SentIsReal' /\ CompletedIsReal'
    BY <1>1, <1>2, ServedStays DEF CompletedIsReal
  <1>4. client'.seen = client.seen /\ (KnowsServed' => KnowsServed)
    <2>1. CASE PeerLost
      BY <2>1 DEF PeerLost, KnowsServed, Clients
    <2>2. CASE ~PeerLost
      BY <2>2 DEF KnowsServed, AcceptEnds, Serving, DeviceNext, Fetching, FetchBegins,
         FetchReads, FetchEnds, FetchUnanswered, FetchFails, PassOn, CanProgress,
         PressStop, vars
    <2> QED
      BY <2>1, <2>2
  <1> QED
    BY <1>1, <1>3, <1>4, NothingNew

LEMMA InvNext == IInv /\ [Next]_vars => IInv'
  <1> SUFFICES ASSUME IInv, [Next]_vars
               PROVE  IInv'
    OBVIOUS
  <1>1. TypeOK'
    BY TypeNext DEF IInv
  <1>2. CASE ClientNext
    BY <1>1, <1>2, ClientInv
  <1>3. CASE \E p \in Peers : ServerNext(p)
    BY <1>1, <1>3, ServerInv
  <1>4. CASE AcceptEnds \/ DeviceNext \/ PressStop \/ PeerLost \/ UNCHANGED vars
    BY <1>1, <1>4, OtherInv
  <1> QED
    BY <1>2, <1>3, <1>4 DEF Next, DeviceNext

\* A success shown means that one connection has been handed the whole file,
\* whoever else asked for it and whatever register 720 showed before.
THEOREM SuccessCorrect == Spec => []SuccessWasServed
  <1>1. IInv => SuccessWasServed
    BY DEF IInv, KnowsServed, Served, SuccessWasServed
  <1> QED
    BY <1>1, InvInit, InvNext, PTL DEF Spec
=============================================================================
