-------------------------- MODULE ModbusLinkProofs --------------------------
(***************************************************************************)
(* Proofs about ModbusLink, for any number of register writes: its types,  *)
(* the gate as a lock (who waits, who holds it, who has a request open),   *)
(* and from that that the transfer of an upgrade has the link to itself.   *)
(*                                                                         *)
(* On the gate rests the second half: as long as no reply comes after its  *)
(* deadline and no distribution read runs beside another transaction, one  *)
(* queue of replies is enough for all the tasks: a transaction gets its    *)
(* own answer, a bit write changes one bit, and what is shown of the       *)
(* outputs is what they are.  And whatever one thing goes wrong, a device  *)
(* keeps its read mode.                                                    *)
(*                                                                         *)
(* A leaf whose actions assign FALSE is sent to Zenon: the SMT translation *)
(* does not take them.                                                     *)
(***************************************************************************)
EXTENDS ModbusLink, FiniteSetTheorems, TLAPS

-----------------------------------------------------------------------------
(* What a task may be.                                                     *)

PcOf(t) == IF t = "Poll" THEN RoundPc \cup PollPc
           ELSE IF t = "Ota" THEN OtaPc ELSE RoundPc \cup WriterPc
Jobs == [op : {"None", "Toggle", "Bit", "Ble", "Http"}, reg : Reg,
         bit : Bits, on : BOOLEAN]
Tasks(t) == [pc : PcOf(t), job : Jobs, req : Frames, tries : 0..1,
             word : SUBSET Bits, one : BOOLEAN]

\* The steps in which a task waits for the gate or holds it, and those in
\* which it may have a request open.
GatePc == {"Probe", "Info", "Page", "TlvPage", "TlvStatus", "Soc", "Out",
           "Toggle", "ReadBack", "Modify", "Write", "Transfer"}
RequestPc == (GatePc \ {"Page", "Transfer"}) \cup {"Dist"}

InLine(t) == (t = "Ota" /\ At(t, "Dist") /\ ~IsBle) \/ task[t].pc \in GatePc
Queued(t) == \E i \in DOMAIN gate : gate[i] = t

\* The gate is a lock: whoever is in line for it is there once, and only its
\* holder has a request open, or an upgrade over BLE that reads without it.
TaskTypes == \A t \in Task : task[t] \in Tasks(t)
GateTypes == gate \in Seq(Task) /\ \A i, j \in DOMAIN gate : gate[i] = gate[j] => i = j
Line      == \A t \in Task : Queued(t) <=> InLine(t)
OpenAt    == \A t \in Task : Open(t) => task[t].pc \in RequestPc
OneOpen   == \A t \in Task : Open(t) => Holds(t) \/ (t = "Ota" /\ At(t, "Dist"))
HttpHolds == InLine("Ota") /\ At("Ota", "Dist") => Holds("Ota")
Gate == /\ task = [t \in Task |-> task[t]] /\ TaskTypes
        /\ GateTypes /\ Line /\ OpenAt /\ OneOpen /\ HttpHolds

-----------------------------------------------------------------------------
(* The four ways in which a step of t changes t and the gate.              *)

Alters(t) == task' = [task EXCEPT ![t] = task'[t]] /\ task'[t] \in Tasks(t)

Keeps(t) ==
    /\ Alters(t) /\ gate' = gate
    /\ InLine(t)' <=> InLine(t)
    /\ InLine(t) /\ task'[t].pc = "Dist" => Holds(t)
    /\ Open(t)' => /\ task'[t].pc \in RequestPc
                   /\ Holds(t) \/ (t = "Ota" /\ task'[t].pc = "Dist")
Enters(t) ==
    /\ Alters(t) /\ gate' = Append(gate, t)
    /\ ~InLine(t) /\ InLine(t)' /\ task'[t].pc # "Dist" /\ ~Open(t)'
Leaves(t) ==
    /\ Alters(t) /\ gate' = Tail(gate)
    /\ Holds(t) /\ ~InLine(t)' /\ ~Open(t)'
Rejoins(t) ==
    /\ Alters(t) /\ gate' = Append(Tail(gate), t)
    /\ Holds(t) /\ InLine(t)' /\ task'[t].pc # "Dist" /\ ~Open(t)'

\* Nothing about a task is said by another task's step.
LEMMA OthersStay ==
    ASSUME Gate, NEW t \in Task, Alters(t)
    PROVE  /\ task' = [u \in Task |-> task'[u]] /\ TaskTypes'
           /\ \A u \in Task \ {t} : /\ task'[u] = task[u]
                                    /\ InLine(u)' <=> InLine(u)
                                    /\ Open(u)' <=> Open(u)
  <1>1. /\ task' = [u \in Task |-> task'[u]]
        /\ \A u \in Task \ {t} : task'[u] = task[u]
    BY DEF Gate, Alters
  <1>2. TaskTypes'
    BY <1>1 DEF Gate, TaskTypes, Alters
  <1>3. ASSUME NEW u \in Task \ {t}
        PROVE  Open(u)' <=> Open(u)
    BY <1>1 DEF Open
  <1> QED
    BY <1>1, <1>2, <1>3 DEF InLine, At, IsBle

\* A step that leaves the gate alone.
LEMMA KeepsGate ==
    ASSUME Gate, NEW t \in Task, Keeps(t)
    PROVE  Gate'
  <1>1. Alters(t) /\ gate' = gate
    BY DEF Keeps
  <1>2. GateTypes' /\ \A u \in Task : (Queued(u)' <=> Queued(u)) /\ (Holds(u)' <=> Holds(u))
    BY <1>1 DEF Gate, GateTypes, Queued, Holds
  <1>3. Line'
    BY <1>1, <1>2, OthersStay DEF Line, Gate, Keeps
  <1>4. OpenAt'
    BY <1>1, OthersStay DEF OpenAt, Gate, Keeps
  <1>5. OneOpen'
    BY <1>1, <1>2, OthersStay DEF OneOpen, Gate, Keeps, At
  <1>6. HttpHolds'
    BY <1>1, <1>2, "Ota" \in Task, OthersStay DEF HttpHolds, Gate, Keeps, At, Task
  <1> QED
    BY <1>1, <1>2, <1>3, <1>4, <1>5, <1>6, OthersStay DEF Gate

LEMMA SameGate == Gate /\ UNCHANGED <<gate, task>> => Gate'
  BY DEF Gate, TaskTypes, GateTypes, Line, OpenAt, OneOpen, HttpHolds, Queued,
         InLine, At, IsBle, Open, Holds

\* Joining the queue does not take the gate from its holder.
LEMMA EntersGate ==
    ASSUME Gate, NEW t \in Task, Enters(t)
    PROVE  Gate'
  <1>1. Alters(t) /\ gate' = Append(gate, t) /\ ~Queued(t)
    BY DEF Enters, Gate, Line
  <1>2. GateTypes'
    BY <1>1 DEF Gate, GateTypes, Queued
  <1>3. \A u \in Task : Queued(u)' <=> (Queued(u) \/ u = t)
    BY <1>1 DEF Gate, GateTypes, Queued
  <1>4. \A u \in Task : Holds(u) => Holds(u)'
    BY <1>1 DEF Gate, GateTypes, Holds
  <1>5. Line'
    BY <1>1, <1>3, OthersStay DEF Line, Gate, Enters
  <1>6. OpenAt'
    BY <1>1, OthersStay DEF OpenAt, Gate, Enters
  <1>7. OneOpen'
    BY <1>1, <1>4, OthersStay DEF OneOpen, Gate, Enters, At
  <1>8. HttpHolds'
    BY <1>1, <1>4, "Ota" \in Task, OthersStay DEF HttpHolds, Gate, Enters, At, Task
  <1> QED
    BY <1>1, <1>2, <1>5, <1>6, <1>7, <1>8, OthersStay DEF Gate

\* The holder leaves, and nobody else has a request open that needs the gate.
LEMMA LeavesGate ==
    ASSUME Gate, NEW t \in Task, Leaves(t)
    PROVE  Gate'
  <1>1. Alters(t) /\ gate' = Tail(gate) /\ Holds(t)
    BY DEF Leaves
  <1>2. GateTypes'
    BY <1>1 DEF Gate, GateTypes, Holds
  <1>3. \A u \in Task : Queued(u)' <=> (Queued(u) /\ u # t)
    <2> TAKE u \in Task
    <2>1. gate \in Seq(Task) /\ gate # <<>> /\ gate[1] = t
      BY <1>1 DEF Holds, Gate, GateTypes
    <2>2. ASSUME Queued(u)' PROVE Queued(u) /\ u # t
      BY <1>1, <2>1, <2>2 DEF Queued, Gate, GateTypes
    <2>3. ASSUME Queued(u), u # t PROVE Queued(u)'
      <3>1. PICK i \in DOMAIN gate : gate[i] = u
        BY <2>3 DEF Queued
      <3>2. i - 1 \in DOMAIN Tail(gate) /\ Tail(gate)[i - 1] = u
        BY <2>1, <2>3, <3>1
      <3> QED
        BY <1>1, <3>2 DEF Queued
    <2> QED
      BY <2>2, <2>3
  <1>4. \A u \in Task \ {t} : ~Holds(u)
    BY <1>1 DEF Holds
  <1>5. Line'
    BY <1>1, <1>3, OthersStay DEF Line, Gate, Leaves
  <1>6. OpenAt'
    BY <1>1, OthersStay DEF OpenAt, Gate, Leaves
  <1>7. OneOpen'
    BY <1>1, <1>4, OthersStay DEF OneOpen, Gate, Leaves, At
  <1>8. HttpHolds'
    BY <1>1, <1>4, "Ota" \in Task, OthersStay DEF HttpHolds, Gate, Leaves, At, Task
  <1> QED
    BY <1>1, <1>2, <1>5, <1>6, <1>7, <1>8, OthersStay DEF Gate

\* The holder goes to the end of the queue.
LEMMA RejoinsGate ==
    ASSUME Gate, NEW t \in Task, Rejoins(t)
    PROVE  Gate'
  <1>1. Alters(t) /\ gate' = Append(Tail(gate), t) /\ Holds(t)
    BY DEF Rejoins
  <1>2. gate \in Seq(Task) /\ gate # <<>> /\ gate[1] = t
    BY <1>1 DEF Holds, Gate, GateTypes
  <1>3. /\ Tail(gate) \in Seq(Task) /\ Len(Tail(gate)) = Len(gate) - 1
        /\ \A i \in DOMAIN Tail(gate) : Tail(gate)[i] = gate[i + 1] /\ i + 1 \in DOMAIN gate
    BY <1>2
  <1>4. \A i \in DOMAIN Tail(gate) : Tail(gate)[i] # t
    BY <1>2, <1>3 DEF Gate, GateTypes
  <1>5. GateTypes'
    <2>1. gate' \in Seq(Task)
      BY <1>1, <1>3
    <2>2. \A i, j \in DOMAIN Tail(gate) : Tail(gate)[i] = Tail(gate)[j] => i = j
      BY <1>3 DEF Gate, GateTypes
    <2> QED
      BY <1>1, <1>3, <1>4, <2>1, <2>2 DEF GateTypes
  <1>6. \A u \in Task : Queued(u)' <=> Queued(u)
    <2> TAKE u \in Task
    <2>1. ASSUME Queued(u)' PROVE Queued(u)
      BY <1>1, <1>2, <1>3, <2>1 DEF Queued
    <2>2. ASSUME Queued(u), u # t PROVE Queued(u)'
      <3>1. PICK i \in DOMAIN gate : gate[i] = u
        BY <2>2 DEF Queued
      <3>2. i - 1 \in DOMAIN Tail(gate) /\ Tail(gate)[i - 1] = u
        BY <1>2, <2>2, <3>1
      <3>3. i - 1 \in DOMAIN gate' /\ gate'[i - 1] = u
        BY <1>1, <1>3, <3>2
      <3> QED
        BY <3>3 DEF Queued
    <2>3. Queued(t)'
      <3>1. Len(gate) \in DOMAIN gate' /\ gate'[Len(gate)] = t
        BY <1>1, <1>2, <1>3
      <3> QED
        BY <3>1 DEF Queued
    <2> QED
      BY <2>1, <2>2, <2>3
  <1>7. \A u \in Task \ {t} : ~Holds(u)
    BY <1>1 DEF Holds
  <1>8. InLine(t)
    BY <1>2 DEF Gate, Line, Queued
  <1>9. Line'
    BY <1>1, <1>6, <1>8, OthersStay DEF Line, Gate, Rejoins
  <1>10. OpenAt'
    BY <1>1, OthersStay DEF OpenAt, Gate, Rejoins
  <1>11. OneOpen'
    BY <1>1, <1>7, OthersStay DEF OneOpen, Gate, Rejoins, At
  <1>12. HttpHolds'
    BY <1>1, <1>7, "Ota" \in Task, OthersStay DEF HttpHolds, Gate, Rejoins, At, Task
  <1> QED
    BY <1>1, <1>5, <1>9, <1>10, <1>11, <1>12, OthersStay DEF Gate

\* A step that changes t at most, and the gate as t may.
GateStep(t) ==
    Keeps(t) \/ Enters(t) \/ Leaves(t) \/ Rejoins(t) \/ UNCHANGED <<gate, task>>

LEMMA GateStepGate ==
    ASSUME Gate, NEW t \in Task, GateStep(t)
    PROVE  Gate'
  BY KeepsGate, EntersGate, LeavesGate, RejoinsGate, SameGate DEF GateStep

-----------------------------------------------------------------------------
(* The other variables.                                                    *)

Lives == [probed : BOOLEAN, mode : {"Unknown", "Standard", "Tlv"}, loaded : BOOLEAN,
          split : BOOLEAN, out : BOOLEAN, valid : BOOLEAN]
Asks      == [func : {"03", "06", "TLV"}, reg : Reg, word : SUBSET Bits]
AirTypes  == up \in Seq(Asks) /\ down \in Seq(Frames)
DataTypes ==
    /\ live \in Lives /\ dev \in [Reg -> SUBSET Bits]
    /\ mishap \subseteq {"lost", "late", "clash", "cleared"}
UiTypes == {busy, wake, outputBusy} \subseteq BOOLEAN /\ cmds \in Seq(Jobs)

\* There is one upgrade: it is queued once, before its task has begun.
IsUpgrade(job) == job.op \notin {"Toggle", "Bit"}
OneUpgrade ==
    /\ \A i, j \in DOMAIN cmds : IsUpgrade(cmds[i]) /\ IsUpgrade(cmds[j]) => i = j
    /\ \A i \in DOMAIN cmds : IsUpgrade(cmds[i]) => At("Ota", "Idle")

TypeInv == Gate /\ AirTypes /\ DataTypes /\ UiTypes /\ OneUpgrade

-----------------------------------------------------------------------------
(* Every step of a task, and of the worker, is one of these.               *)

LEMMA FrameTypes ==
    /\ None \in Frames /\ Err \in Frames
    /\ AirTypes => Results \subseteq Frames
  <1>1. None \in Frames /\ Err \in Frames
    BY DEF None, Err, Frame, Frames, Reg
  <1> QED
    BY <1>1 DEF AirTypes, Results

NewTasks == [pc : {"Idle"}, job : Jobs, req : Frames, tries : 0..1,
             word : SUBSET Bits, one : BOOLEAN]

LEMMA NewTaskType == NewTask \in NewTasks
  <1>1. /\ \A b \in BOOLEAN : Job("None", "Out", 0, b) \in Jobs
        /\ \A job \in Jobs, w \in SUBSET Bits, b \in BOOLEAN :
             [pc |-> "Idle", job |-> job, req |-> None, tries |-> 0,
              word |-> w, one |-> b] \in NewTasks
    BY FrameTypes DEF Job, Jobs, Reg, Bits, NewTasks
  <1>2. {} \in SUBSET Bits /\ FALSE \in BOOLEAN
    OBVIOUS
  <1> QED
    BY <1>1, <1>2, Zenon DEF NewTask, NoJob

\* Where Goes and its kin leave a task.
InLineAt(t, pc) == (t = "Ota" /\ pc = "Dist" /\ ~IsBle) \/ pc \in GatePc

LEMMA Moves ==
    ASSUME Gate, NEW t \in Task, NEW pc \in PcOf(t), Goes(t, pc)
    PROVE  Alters(t) /\ task'[t].pc = pc /\ ~Open(t)' /\ (InLine(t)' <=> InLineAt(t, pc))
  <1>1. task[t] \in Tasks(t)
    BY DEF Gate, TaskTypes
  <1>2. /\ Moved(t, pc) \in Tasks(t) /\ Moved(t, pc).pc = pc /\ Moved(t, pc).req = None
        /\ Moved(t, pc).job = task[t].job
    <2>1. CASE pc = "End"
      <3> DEFINE Reset(r, j) == [[r EXCEPT !.job = j] EXCEPT !.pc = pc, !.req = None]
      <3>1. ASSUME NEW r \in NewTasks, NEW j \in Jobs
            PROVE  /\ Reset(r, j) \in Tasks(t)
                   /\ Reset(r, j).pc = pc /\ Reset(r, j).req = None
                   /\ Reset(r, j).job = j
        BY FrameTypes DEF Tasks, NewTasks
      <3>2. Moved(t, pc) = Reset(NewTask, task[t].job)
        BY <2>1 DEF Moved
      <3>3. task[t].job \in Jobs
        BY <1>1 DEF Tasks
      <3> HIDE DEF Reset
      <3> QED
        BY <3>1, <3>2, <3>3, NewTaskType
    <2>2. CASE pc # "End"
      <3>1. Moved(t, pc) = [task[t] EXCEPT !.pc = pc, !.req = None]
        BY <2>2 DEF Moved
      <3> QED
        BY <1>1, <3>1, FrameTypes DEF Tasks
    <2> QED
      BY <2>1, <2>2
  <1>3. task' = [task EXCEPT ![t] = Moved(t, pc)] /\ task'[t] = Moved(t, pc)
    BY DEF Goes, Gate
  <1>4. Alters(t) /\ task'[t].pc = pc /\ ~Open(t)'
    BY <1>2, <1>3 DEF Alters, Open
  <1>5. t = "Ota" => (IsBle' <=> IsBle)
    BY <1>2, <1>3 DEF IsBle
  <1> QED
    BY <1>4, <1>5 DEF InLine, InLineAt, At

LEMMA GoesGate ==
    ASSUME Gate, NEW t \in Task, NEW pc \in PcOf(t),
           Goes(t, pc), gate' = gate,
           InLine(t) <=> InLineAt(t, pc), InLine(t) => Holds(t)
    PROVE  GateStep(t)
  BY Moves DEF GateStep, Keeps

LEMMA QueuesGate ==
    ASSUME Gate, NEW t \in Task, NEW pc \in PcOf(t),
           Queues(t, pc), ~InLine(t), pc \in GatePc
    PROVE  GateStep(t)
  BY Moves DEF GateStep, Enters, Queues, InLineAt, GatePc

LEMMA ReleasesGate ==
    ASSUME Gate, NEW t \in Task, NEW pc \in PcOf(t),
           Releases(t, pc), Holds(t), ~InLineAt(t, pc)
    PROVE  GateStep(t)
  BY Moves DEF GateStep, Leaves, Releases

\* A transaction ends with a frame or with Err, in the hands of the holder.
LEMMA EndsFacts ==
    ASSUME TypeInv, NEW t \in Task, NEW pc, NEW res \in Results, Ends(t, pc, res)
    PROVE  /\ At(t, pc) /\ Open(t) /\ res \in Frames
           /\ pc # "Dist" => Holds(t) /\ InLine(t)
  <1>1. At(t, pc) /\ Open(t)
    BY DEF Ends
  <1>2. res \in Frames
    BY FrameTypes DEF TypeInv
  <1>3. pc # "Dist" => Holds(t) /\ InLine(t)
    BY <1>1 DEF TypeInv, Gate, OneOpen, OpenAt, InLine, RequestPc, At
  <1> QED
    BY <1>1, <1>2, <1>3

\* Only the poll task and a writer make a round of polling.
LEMMA RoundTasks ==
    ASSUME Gate, NEW t \in Task, task[t].pc \in RoundPc \ {"End"}
    PROVE  t # "Ota" /\ RoundPc \subseteq PcOf(t)
  BY DEF Gate, TaskTypes, Tasks, PcOf, OtaPc, RoundPc

\* The page is over: the gate is released, or asked for once more.
LEMMA PageGate ==
    ASSUME Gate, NEW t \in Task, NEW loaded, RoundPc \subseteq PcOf(t),
           Holds(t), PageEnds(t, loaded)
    PROVE  GateStep(t)
  <1>1. CASE task[t].one /\ ~loaded
    <2>1. Goes(t, "Info") /\ gate' = Append(Tail(gate), t) /\ "Info" \in PcOf(t)
      BY <1>1 DEF PageEnds, RoundPc
    <2> QED
      BY <2>1, Moves DEF GateStep, Rejoins, InLineAt, GatePc
  <1>2. CASE ~(task[t].one /\ ~loaded)
    <2>1. Releases(t, "End") /\ "End" \in PcOf(t)
      BY <1>2 DEF PageEnds, RoundPc
    <2> QED
      BY <2>1, ReleasesGate DEF InLineAt, GatePc
  <1> QED
    BY <1>1, <1>2

\* A round of polling, whoever makes it, uses the gate as a lock.
LEMMA RoundGate ==
    ASSUME TypeInv, NEW t \in Task, RoundStep(t)
    PROVE  GateStep(t)
  <1> USE DEF TypeInv
  <1>1. CASE RoundBegins(t)
    <2>1. At(t, "Round") /\ ~InLine(t) /\ RoundPc \subseteq PcOf(t) /\ t # "Ota"
      BY <1>1, RoundTasks DEF RoundBegins, At, InLine, GatePc, RoundPc
    <2>2. CASE busy
      BY <1>1, <2>1, <2>2, GoesGate DEF RoundBegins, InLineAt, GatePc, RoundPc
    <2>3. CASE ~busy
      BY <1>1, <2>1, <2>3, QueuesGate DEF RoundBegins, InLineAt, GatePc, RoundPc
    <2> QED
      BY <2>2, <2>3
  <1>2. CASE NeedlessRead(t)
    <2>1. Holds(t) /\ RoundPc \subseteq PcOf(t) /\ (At(t, "Probe") \/ At(t, "Info"))
      BY <1>2, RoundTasks DEF NeedlessRead, Needless, At, RoundPc
    <2>2. \E pc \in {"Choose", "End", "Dash"} : Releases(t, pc)
      BY <1>2, <2>1 DEF NeedlessRead, At
    <2> QED
      BY <2>1, <2>2, ReleasesGate DEF InLineAt, GatePc, RoundPc
  <1>3. CASE ProbeDone(t)
    <2>1. PICK res \in Results :
            /\ Ends(t, "Probe", res)
            /\ \/ /\ task' = [task EXCEPT ![t].req = None, ![t].tries = 1]
                  /\ gate' = gate
               \/ Releases(t, "Choose")
      BY <1>3 DEF ProbeDone
    <2>2. At(t, "Probe") /\ Holds(t) /\ InLine(t)
      BY <2>1, EndsFacts
    <2>3. t # "Ota" /\ RoundPc \subseteq PcOf(t)
      BY <2>2, RoundTasks DEF At, RoundPc
    <2>4. CASE Releases(t, "Choose")
      BY <2>2, <2>3, <2>4, ReleasesGate DEF InLineAt, GatePc, RoundPc
    <2>5. CASE /\ task' = [task EXCEPT ![t].req = None, ![t].tries = 1]
               /\ gate' = gate
      <3>1. task[t] \in Tasks(t)
        BY DEF Gate, TaskTypes
      <3>2. task'[t] = [task[t] EXCEPT !.req = None, !.tries = 1]
        BY <2>5 DEF Gate
      <3>3. task' = [task EXCEPT ![t] = task'[t]]
        BY <2>5 DEF Gate
      <3>4. task'[t] \in Tasks(t) /\ task'[t].pc = task[t].pc /\ task'[t].req = None
        <4>1. PICK n \in 0..1 : n = 1
          OBVIOUS
        <4>2. task'[t] = [task[t] EXCEPT !.req = None, !.tries = n]
          BY <3>2, <4>1
        <4> QED
          BY <3>1, <4>2, FrameTypes DEF Tasks
      <3>5. Alters(t) /\ ~Open(t)'
        BY <3>3, <3>4 DEF Alters, Open
      <3> QED
        BY <2>2, <2>3, <2>5, <3>4, <3>5 DEF GateStep, Keeps, InLine, At
    <2> QED
      BY <2>1, <2>4, <2>5
  <1>4. CASE Choose(t)
    <2>1. At(t, "Choose") /\ ~Open(t) /\ ~InLine(t) /\ t # "Ota" /\ RoundPc \subseteq PcOf(t)
      BY <1>4, RoundTasks DEF Choose, Gate, OpenAt, RequestPc, At, InLine, GatePc, RoundPc
    <2>2. PICK one \in BOOLEAN, pc \in {"Dash", "Info"} :
            /\ task' = [task EXCEPT ![t].pc = pc, ![t].tries = 0, ![t].one = one]
            /\ \/ pc = "Dash" /\ gate' = gate
               \/ pc = "Info" /\ gate' = Append(gate, t)
      BY <1>4 DEF Choose
    <2>3. task[t] \in Tasks(t)
      BY DEF Gate, TaskTypes
    <2>4. task'[t] = [task[t] EXCEPT !.pc = pc, !.tries = 0, !.one = one]
      BY <2>2 DEF Gate
    <2>5. task' = [task EXCEPT ![t] = task'[t]]
      BY <2>2 DEF Gate
    <2>6. task'[t] \in Tasks(t) /\ task'[t].req = task[t].req /\ task'[t].pc = pc
      <3>1. PICK n \in 0..1 : n = 0
        OBVIOUS
      <3>2. task'[t] = [task[t] EXCEPT !.pc = pc, !.tries = n, !.one = one]
        BY <2>4, <3>1
      <3>3. pc \in PcOf(t)
        BY <2>1 DEF RoundPc
      <3> QED
        BY <2>3, <3>2, <3>3 DEF Tasks
    <2>7. Alters(t) /\ ~Open(t)'
      BY <2>1, <2>5, <2>6 DEF Alters, Open
    <2>8. CASE pc = "Dash" /\ gate' = gate
      BY <2>1, <2>6, <2>7, <2>8 DEF GateStep, Keeps, InLine, At, GatePc
    <2>9. CASE pc = "Info" /\ gate' = Append(gate, t)
      BY <2>1, <2>6, <2>7, <2>9 DEF GateStep, Enters, InLine, At, GatePc
    <2> QED
      BY <2>2, <2>8, <2>9
  <1>5. CASE InfoDone(t)
    <2>1. PICK res \in Results : Ends(t, "Info", res)
      BY <1>5 DEF InfoDone
    <2>2. At(t, "Info") /\ Holds(t)
      BY <2>1, EndsFacts
    <2>3. RoundPc \subseteq PcOf(t)
      BY <2>2, RoundTasks DEF At, RoundPc
    <2>4. \E pc \in {"End", "Dash"} : Releases(t, pc)
      BY <1>5 DEF InfoDone
    <2> QED
      BY <2>2, <2>3, <2>4, ReleasesGate DEF InLineAt, GatePc, RoundPc
  <1>6. CASE Dash(t)
    <2>1. At(t, "Dash") /\ ~InLine(t) /\ RoundPc \subseteq PcOf(t) /\ t # "Ota"
      BY <1>6, RoundTasks DEF Dash, At, InLine, GatePc, RoundPc
    <2>2. \/ Queues(t, "Page") \/ Queues(t, "Info")
          \/ Goes(t, "End") /\ gate' = gate
      BY <1>6 DEF Dash
    <2> QED
      BY <2>1, <2>2, GoesGate, QueuesGate DEF InLineAt, GatePc, RoundPc
  <1>7. CASE TlvPageDone(t)
    <2>1. PICK res \in Results :
            /\ Ends(t, "TlvPage", res)
            /\ \/ \E loaded : PageEnds(t, loaded)
               \/ Goes(t, "TlvStatus") /\ gate' = gate
      BY <1>7 DEF TlvPageDone
    <2>2. At(t, "TlvPage") /\ Holds(t) /\ InLine(t)
      BY <2>1, EndsFacts
    <2>3. RoundPc \subseteq PcOf(t)
      BY <2>2, RoundTasks DEF At, RoundPc
    <2> QED
      BY <2>1, <2>2, <2>3, PageGate, GoesGate DEF InLineAt, GatePc, RoundPc
  <1>8. CASE TlvStatusDone(t)
    <2>1. PICK res \in Results : Ends(t, "TlvStatus", res)
      BY <1>8 DEF TlvStatusDone
    <2>2. At(t, "TlvStatus") /\ Holds(t)
      BY <2>1, EndsFacts
    <2>3. RoundPc \subseteq PcOf(t)
      BY <2>2, RoundTasks DEF At, RoundPc
    <2> QED
      BY <1>8, <2>2, <2>3, PageGate DEF TlvStatusDone
  <1>9. CASE SocDone(t)
    <2>1. PICK res \in Results :
            /\ Ends(t, "Soc", res)
            /\ \/ Goes(t, "Out") /\ gate' = gate
               \/ PageEnds(t, live.loaded)
      BY <1>9 DEF SocDone
    <2>2. At(t, "Soc") /\ Holds(t) /\ InLine(t)
      BY <2>1, EndsFacts
    <2>3. RoundPc \subseteq PcOf(t)
      BY <2>2, RoundTasks DEF At, RoundPc
    <2> QED
      BY <2>1, <2>2, <2>3, PageGate, GoesGate DEF InLineAt, GatePc, RoundPc
  <1>10. CASE OutDone(t)
    <2>1. PICK res \in Results : Ends(t, "Out", res)
      BY <1>10 DEF OutDone
    <2>2. At(t, "Out") /\ Holds(t)
      BY <2>1, EndsFacts
    <2>3. RoundPc \subseteq PcOf(t)
      BY <2>2, RoundTasks DEF At, RoundPc
    <2> QED
      BY <1>10, <2>2, <2>3, PageGate DEF OutDone
  <1> QED
    BY <1>1, <1>2, <1>3, <1>4, <1>5, <1>6, <1>7, <1>8, <1>9, <1>10 DEF RoundStep

\* A write holds the gate from its first request to its last reply.
LEMMA WriterGate ==
    ASSUME TypeInv, NEW w \in Writer, WriterStep(w)
    PROVE  GateStep(w)
  <1> USE DEF TypeInv
  <1>1. w \in Task /\ w # "Ota" /\ RoundPc \cup WriterPc = PcOf(w)
    BY ModbusLinkAssumption DEF Task, PcOf
  <1>2. ASSUME NEW good, WriteEnds(w, good), Holds(w)
        PROVE  GateStep(w)
    <2>1. \E pc \in {"Round", "End"} : Releases(w, pc)
      BY <1>2 DEF WriteEnds
    <2> QED
      BY <1>1, <1>2, <2>1, ReleasesGate DEF InLineAt, GatePc, RoundPc
  <1>3. CASE WriterStarts(w)
    <2>1. \E pc \in {"Toggle", "Modify"} : Queues(w, pc)
      BY <1>3 DEF WriterStarts
    <2>2. ~InLine(w)
      BY <1>1, <1>3 DEF WriterStarts, At, InLine, GatePc
    <2> QED
      BY <1>1, <2>1, <2>2, QueuesGate DEF InLineAt, GatePc, WriterPc
  <1>4. CASE ToggleDone(w)
    <2>1. PICK res \in Results :
            /\ Ends(w, "Toggle", res)
            /\ (Goes(w, "ReadBack") /\ gate' = gate) \/ WriteEnds(w, FALSE)
      BY <1>4, Zenon DEF ToggleDone
    <2>2. Holds(w) /\ InLine(w)
      BY <1>1, <2>1, EndsFacts
    <2>3. CASE Goes(w, "ReadBack") /\ gate' = gate
      BY <1>1, <2>2, <2>3, GoesGate DEF InLineAt, GatePc, WriterPc
    <2> QED
      BY <1>2, <2>1, <2>2, <2>3
  <1>5. CASE ReadBackDone(w)
    <2>1. PICK res \in Results :
            /\ Ends(w, "ReadBack", res)
            /\ WriteEnds(w, res = Err \/ (0 \in res.word) = task[w].job.on)
      BY <1>5, Zenon DEF ReadBackDone
    <2>2. Holds(w)
      BY <1>1, <2>1, EndsFacts
    <2> QED
      BY <1>2, <2>1, <2>2, Zenon
  <1>6. CASE ModifyDone(w)
    <2>1. PICK res \in Results :
            /\ Ends(w, "Modify", res)
            /\ (Modifies(w, res.word) /\ gate' = gate) \/ WriteEnds(w, FALSE)
      BY <1>6, Zenon DEF ModifyDone
    <2>2. At(w, "Modify") /\ Holds(w) /\ InLine(w) /\ res \in Frames
      BY <1>1, <2>1, EndsFacts
    <2>3. CASE Modifies(w, res.word) /\ gate' = gate
      <3> DEFINE word == With(res.word, task[w].job.bit, task[w].job.on)
      <3>1. task[w] \in Tasks(w)
        BY <1>1 DEF Gate, TaskTypes
      <3>2. word \in SUBSET Bits
        BY <2>2, <3>1 DEF With, Tasks, Jobs, Frames
      <3> HIDE DEF word
      <3>3. task' = [task EXCEPT ![w].pc = "Write", ![w].req = None, ![w].word = word]
        BY <2>3 DEF Modifies, word
      <3>4. task' = [task EXCEPT ![w] = task'[w]]
        BY <3>3 DEF Gate
      <3>5. task'[w] = [task[w] EXCEPT !.pc = "Write", !.req = None, !.word = word]
        BY <1>1, <3>3 DEF Gate
      <3>6. task'[w] \in Tasks(w) /\ task'[w].pc = "Write" /\ task'[w].req = None
        BY <1>1, <3>1, <3>2, <3>5, FrameTypes DEF Tasks, WriterPc
      <3>7. Alters(w) /\ ~Open(w)'
        BY <3>4, <3>6 DEF Alters, Open
      <3> QED
        BY <1>1, <2>2, <2>3, <3>6, <3>7 DEF GateStep, Keeps, InLine, At, GatePc
    <2> QED
      BY <1>2, <2>1, <2>2, <2>3
  <1>7. CASE WriteDone(w)
    <2>1. PICK res \in Results : Ends(w, "Write", res) /\ WriteEnds(w, res # Err)
      BY <1>7, Zenon DEF WriteDone
    <2>2. Holds(w)
      BY <1>1, <2>1, EndsFacts
    <2> QED
      BY <1>2, <2>1, <2>2, Zenon
  <1> QED
    BY <1>3, <1>4, <1>5, <1>6, <1>7 DEF WriterStep

\* An upgrade over BLE drops the gate for its distribution reads, one over
\* HTTP keeps it until the distribution has ended.
LEMMA OtaGate ==
    ASSUME TypeInv, OtaStep
    PROVE  GateStep("Ota")
  <1> USE DEF TypeInv
  <1>1. "Ota" \in Task /\ PcOf("Ota") = OtaPc
    BY DEF Task, PcOf
  <1>2. CASE OtaStarts
    <2>1. At("Ota", "Start") /\ Queues("Ota", "Transfer")
      BY <1>2 DEF OtaStarts
    <2> QED
      BY <1>1, <2>1, QueuesGate DEF InLine, InLineAt, At, GatePc, OtaPc
  <1>3. CASE OtaTransfers
    <2>1. UNCHANGED <<gate, task>>
      BY <1>3 DEF OtaTransfers
    <2> QED
      BY <2>1 DEF GateStep
  <1>4. CASE OtaTransferEnds
    <2>1. Holds("Ota") /\ InLine("Ota")
      BY <1>4 DEF OtaTransferEnds, InLine, At, GatePc
    <2>2. \/ Releases("Ota", "Over")
          \/ IsBle /\ Releases("Ota", "Dist")
          \/ ~IsBle /\ Goes("Ota", "Dist") /\ gate' = gate
      BY <1>4 DEF OtaTransferEnds
    <2> QED
      BY <1>1, <2>1, <2>2, GoesGate, ReleasesGate DEF InLineAt, GatePc, OtaPc
  <1>5. CASE OtaReadsOn
    <2>1. /\ At("Ota", "Dist") /\ Goes("Ota", "Dist") /\ gate' = gate
          /\ InLine("Ota") => Holds("Ota")
      BY <1>5 DEF OtaReadsOn, Ends, Gate, HttpHolds
    <2> QED
      BY <1>1, <2>1, GoesGate DEF InLine, InLineAt, At, GatePc, OtaPc
  <1>6. CASE OtaDistEnds
    <2>1. At("Ota", "Dist")
      BY <1>6 DEF OtaDistEnds
    <2>2. CASE IsBle
      BY <1>1, <1>6, <2>1, <2>2, GoesGate DEF OtaDistEnds, InLine, InLineAt, At, GatePc, OtaPc
    <2>3. CASE ~IsBle
      <3>1. Holds("Ota") /\ Releases("Ota", "Over")
        BY <1>6, <2>1, <2>3 DEF OtaDistEnds, InLine, Gate, HttpHolds
      <3> QED
        BY <1>1, <3>1, ReleasesGate DEF InLineAt, GatePc, OtaPc
    <2> QED
      BY <2>2, <2>3
  <1>7. CASE OtaFinishes
    <2>1. At("Ota", "Over") /\ Goes("Ota", "End") /\ gate' = gate
      BY <1>7, Zenon DEF OtaFinishes
    <2> QED
      BY <1>1, <2>1, GoesGate DEF InLine, InLineAt, At, GatePc, OtaPc
  <1> QED
    BY <1>2, <1>3, <1>4, <1>5, <1>6, <1>7 DEF OtaStep

\* What a task asks for is a request.
LEMMA RequestTypes ==
    ASSUME NEW t, task[t] \in Tasks(t)
    PROVE  Requests(t) \subseteq Asks
  <1>1. \A reg \in Reg : Read(reg) \in Asks
    BY DEF Read, Frame, Asks
  <1>2. \A reg \in Reg, word \in SUBSET Bits : Write(reg, word) \in Asks
    BY DEF Write, Frame, Asks
  <1>3. \A on \in BOOLEAN : With({}, 0, on) \in SUBSET Bits
    BY DEF With, Bits
  <1>4. /\ task[t].job.reg \in Reg /\ task[t].job.on \in BOOLEAN
        /\ task[t].word \in SUBSET Bits
    BY DEF Tasks, Jobs
  <1>5. {"Status", "Info", "Page", "Soc", "Out", "Dist"} \subseteq Reg
    BY DEF Reg
  <1> QED
    BY <1>1, <1>2, <1>3, <1>4, <1>5 DEF Requests

\* A request is made by the holder of the gate, or by an upgrade over BLE.
LEMMA SendGate ==
    ASSUME TypeInv, NEW t \in Task, Send(t)
    PROVE  GateStep(t)
  <1> USE DEF TypeInv
  <1>1. task[t] \in Tasks(t)
    BY DEF Gate, TaskTypes
  <1>2. PICK req \in Requests(t) : task' = [task EXCEPT ![t].pc = Here(t), ![t].req = req]
    BY DEF Send
  <1>3. Here(t) \in RequestPc
    BY DEF Requests, RequestPc, GatePc
  <1>4. /\ Here(t) \in PcOf(t) /\ (Here(t) = "Dist" => t = "Ota")
        /\ Here(t) = "Dist" <=> At(t, "Dist")
        /\ Here(t) \in GatePc <=> task[t].pc \in GatePc
    <2>1. CASE At(t, "Page")
      <3>1. Here(t) \in {"Soc", "TlvStatus", "TlvPage"}
        BY <2>1 DEF Here
      <3>2. RoundPc \subseteq PcOf(t)
        BY <2>1, RoundTasks DEF At, RoundPc
      <3> QED
        BY <2>1, <3>1, <3>2 DEF At, GatePc, RoundPc
    <2>2. CASE ~At(t, "Page")
      <3>1. Here(t) = task[t].pc
        BY <2>2 DEF Here
      <3>2. task[t].pc \in PcOf(t)
        BY <1>1 DEF Tasks
      <3>3. task[t].pc = "Dist" => t = "Ota"
        BY <3>2 DEF PcOf, RoundPc, PollPc, WriterPc
      <3> QED
        BY <3>1, <3>2, <3>3 DEF At
    <2> QED
      BY <2>1, <2>2
  <1>5. req \in Frames
    BY <1>1, RequestTypes DEF Asks, Frames
  <1>6. task' = [task EXCEPT ![t] = task'[t]] /\ gate' = gate
    BY <1>2 DEF Gate, Send
  <1>7. task'[t] = [task[t] EXCEPT !.pc = Here(t), !.req = req]
    BY <1>2 DEF Gate
  <1>8. task'[t] \in Tasks(t) /\ task'[t].pc = Here(t) /\ task'[t].job = task[t].job
    BY <1>1, <1>4, <1>5, <1>7 DEF Tasks
  <1>9. InLine(t)' <=> InLine(t)
    BY <1>4, <1>8 DEF InLine, At, IsBle, GatePc
  <1>10. InLine(t) => Holds(t)
    BY DEF Send, MayUse, Gate, HttpHolds, InLine, At, GatePc
  <1>11. Holds(t) \/ (t = "Ota" /\ task'[t].pc = "Dist")
    BY <1>3, <1>4, <1>8, <1>10 DEF RequestPc, InLine
  <1> QED
    BY <1>3, <1>6, <1>8, <1>9, <1>10, <1>11 DEF GateStep, Keeps, Alters

\* The poll task waits without the gate.
LEMMA PollGate ==
    ASSUME TypeInv, PollStep
    PROVE  GateStep("Poll")
  <1> USE DEF TypeInv
  <1>1. "Poll" \in Task /\ PcOf("Poll") = RoundPc \cup PollPc
    BY DEF Task, PcOf
  <1>2. task["Poll"].pc \in {"End", "Sleep", "WakeOnly"} /\ gate' = gate
    BY Zenon DEF PollStep, PollPauses, PollTimer, PollNotified, At
  <1>3. \E pc \in {"End", "Round", "Sleep", "WakeOnly"} : Goes("Poll", pc)
    BY DEF PollStep, PollPauses, PollTimer, PollNotified, Resumes
  <1> QED
    BY <1>1, <1>2, <1>3, GoesGate DEF InLine, InLineAt, GatePc, RoundPc, PollPc

LEMMA TaskGate ==
    ASSUME TypeInv, NEW t \in Task, TaskStep(t)
    PROVE  GateStep(t)
  <1>1. CASE PassOver(t)
    BY <1>1 DEF GateStep, PassOver, TypeInv
  <1> QED
    BY <1>1, SendGate, RoundGate, WriterGate, OtaGate, PollGate DEF TaskStep

\* The worker starts tasks outside the queue of the gate.
LEMMA WorkerGate ==
    ASSUME TypeInv, WorkerStep
    PROVE  \E t \in Task : GateStep(t)
  <1> USE DEF TypeInv
  <1>1. ASSUME NEW t \in Task, NEW job \in Jobs, At(t, "Idle"), "Start" \in PcOf(t),
               task' = [task EXCEPT ![t].pc = "Start", ![t].job = job], gate' = gate
        PROVE  GateStep(t)
    <2>1. task[t] \in Tasks(t) /\ ~InLine(t) /\ ~Open(t)
      BY <1>1 DEF Gate, TaskTypes, OpenAt, RequestPc, InLine, At, GatePc
    <2>2. task' = [task EXCEPT ![t] = task'[t]]
      BY <1>1 DEF Gate
    <2>3. task'[t] = [task[t] EXCEPT !.pc = "Start", !.job = job]
      BY <1>1 DEF Gate
    <2>4. task'[t] \in Tasks(t) /\ task'[t].pc = "Start" /\ task'[t].req = task[t].req
      <3>1. PICK pc \in PcOf(t) : pc = "Start"
        BY <1>1
      <3>2. task'[t] = [task[t] EXCEPT !.pc = pc, !.job = job]
        BY <2>3, <3>1
      <3> QED
        BY <2>1, <3>1, <3>2 DEF Tasks
    <2> QED
      BY <1>1, <2>1, <2>2, <2>4 DEF GateStep, Keeps, Alters, InLine, At, GatePc, Open
  <1>2. CASE WorkerTakesWrite
    <2>1. CASE busy
      BY <1>2, <2>1, "Ota" \in Task DEF GateStep, WorkerTakesWrite, Task
    <2>2. CASE ~busy
      <3>1. PICK w \in Fresh : task' = [task EXCEPT ![w].pc = "Start", ![w].job = Head(cmds)]
        BY <1>2, <2>2 DEF WorkerTakesWrite
      <3>2. w \in Task /\ At(w, "Idle") /\ "Start" \in PcOf(w)
        BY ModbusLinkAssumption DEF Fresh, Task, PcOf, WriterPc
      <3>3. Head(cmds) \in Jobs
        BY <1>2 DEF WorkerTakesWrite, Writes, UiTypes
      <3>4. gate' = gate
        BY <1>2 DEF WorkerTakesWrite
      <3> QED
        BY <1>1, <3>1, <3>2, <3>3, <3>4
    <2> QED
      BY <2>1, <2>2
  <1>3. CASE WorkerTakesOta
    <2>1. 1 \in DOMAIN cmds /\ Head(cmds) = cmds[1] /\ Head(cmds) \in Jobs /\ IsUpgrade(cmds[1])
      BY <1>3 DEF WorkerTakesOta, Writes, UiTypes, IsUpgrade
    <2>2. At("Ota", "Idle") /\ "Ota" \in Task /\ "Start" \in PcOf("Ota")
      BY <2>1 DEF OneUpgrade, Task, PcOf, OtaPc
    <2>3. /\ task' = [task EXCEPT !["Ota"].pc = "Start", !["Ota"].job = Head(cmds)]
          /\ gate' = gate
      BY <1>3 DEF WorkerTakesOta
    <2> QED
      BY <1>1, <2>1, <2>2, <2>3
  <1> QED
    BY <1>2, <1>3 DEF WorkerStep

-----------------------------------------------------------------------------
(* Types.                                                                  *)

\* Throwing replies away leaves replies.
LEMMA ClearedTypes == AirTypes => Cleared \subseteq Seq(Frames)
  <1> SUFFICES ASSUME AirTypes, NEW n \in 1..Len(down) + 1
               PROVE  SubSeq(down, n, Len(down)) \in Seq(Frames)
    BY DEF Cleared
  <1> QED
    BY DEF AirTypes

\* A transaction that ends takes a reply at most.
LEMMA EndsTypes ==
    ASSUME TypeInv, NEW t, NEW pc, NEW res, Ends(t, pc, res)
    PROVE  AirTypes' /\ mishap' \subseteq {"lost", "late", "clash", "cleared"}
  <1>1. up' = up /\ (down' = down \/ (down # <<>> /\ down' = Tail(down)))
    BY DEF Ends, Receives, TimesOut
  <1>2. mishap' = mishap \/ mishap' = mishap \cup {"late"}
    BY DEF Ends, Receives, TimesOut
  <1>3. AirTypes'
    <2>1. up \in Seq(Asks) /\ down \in Seq(Frames)
      BY DEF TypeInv, AirTypes
    <2> QED
      BY <1>1, <2>1 DEF AirTypes
  <1>4. mishap' \subseteq {"lost", "late", "clash", "cleared"}
    BY <1>2 DEF TypeInv, DataTypes
  <1> QED
    BY <1>3, <1>4

\* Every update of ModbusLive the code makes keeps it one.
LEMMA LiveUpdates ==
    ASSUME live \in Lives
    PROVE  /\ \A word : Shows(word) \in Lives
           /\ \A b \in BOOLEAN : /\ [live EXCEPT !.out = b] \in Lives
                                 /\ [live EXCEPT !.loaded = b] \in Lives
                                 /\ [live EXCEPT !.split = b] \in Lives
           /\ \A word, b \in BOOLEAN : [Shows(word) EXCEPT !.loaded = b] \in Lives
           /\ \A res : [live EXCEPT !.probed = TRUE, !.mode = Mode(res)] \in Lives
  <1>1. ASSUME NEW word PROVE Shows(word) \in Lives
    <2>1. (0 \in word) \in BOOLEAN
      OBVIOUS
    <2>2. \A b, c \in BOOLEAN : [live EXCEPT !.out = b, !.valid = c] \in Lives
      BY DEF Lives
    <2> QED
      BY <2>1, <2>2, Zenon DEF Shows
  <1>2. \A l \in Lives, b \in BOOLEAN : /\ [l EXCEPT !.out = b] \in Lives
                                        /\ [l EXCEPT !.loaded = b] \in Lives
                                        /\ [l EXCEPT !.split = b] \in Lives
    BY DEF Lives
  <1>3. ASSUME NEW res PROVE [live EXCEPT !.probed = TRUE, !.mode = Mode(res)] \in Lives
    <2>1. Mode(res) \in {"Standard", "Tlv"}
      BY DEF Mode
    <2> QED
      BY <2>1 DEF Lives
  <1> QED
    BY <1>1, <1>2, <1>3

\* A round of polling changes what is shown, and takes replies.
LEMMA RoundTypes ==
    ASSUME TypeInv, NEW t \in Task, RoundStep(t)
    PROVE  AirTypes' /\ DataTypes' /\ UNCHANGED ui
  <1> USE DEF TypeInv
  <1>1. CASE RoundBegins(t) \/ NeedlessRead(t) \/ Choose(t) \/ Dash(t)
    <2>1. UNCHANGED <<ui, up, down, live, dev, mishap>>
      BY <1>1 DEF RoundBegins, NeedlessRead, Choose, Dash, air
    <2> QED
      BY <2>1 DEF AirTypes, DataTypes
  <1>2. ASSUME NEW pc, NEW res, Ends(t, pc, res), live' \in Lives, UNCHANGED <<ui, dev>>
        PROVE  AirTypes' /\ DataTypes' /\ UNCHANGED ui
    BY <1>2, EndsTypes DEF DataTypes
  <1>3. live \in Lives
    BY DEF DataTypes
  <1>4. CASE ProbeDone(t)
    <2>1. PICK res \in Results :
            /\ Ends(t, "Probe", res)
            /\ live' = live \/ live' = [live EXCEPT !.probed = TRUE, !.mode = Mode(res)]
      BY <1>4, Zenon DEF ProbeDone
    <2> QED
      BY <1>2, <1>3, <1>4, <2>1, LiveUpdates DEF ProbeDone
  <1>5. CASE InfoDone(t)
    <2>1. PICK res \in Results :
            Ends(t, "Info", res) /\ live' = [live EXCEPT !.loaded = (res # Err)]
      BY <1>5, Zenon DEF InfoDone
    <2>2. (res # Err) \in BOOLEAN
      OBVIOUS
    <2>3. live' \in Lives
      BY <1>3, <2>1, <2>2, LiveUpdates, Zenon
    <2> QED
      BY <1>2, <1>5, <2>1, <2>3 DEF InfoDone
  <1>6. CASE TlvPageDone(t)
    <2>1. PICK res \in Results :
            /\ Ends(t, "TlvPage", res)
            /\ \/ \E loaded \in {live.loaded, TRUE} :
                    live' = [Shows(res.word) EXCEPT !.loaded = loaded]
               \/ live' = [live EXCEPT !.split = TRUE]
      BY <1>6, Zenon DEF TlvPageDone
    <2>2. {live.loaded, TRUE} \subseteq BOOLEAN
      BY <1>3 DEF Lives
    <2>3. ASSUME NEW loaded \in {live.loaded, TRUE},
                 live' = [Shows(res.word) EXCEPT !.loaded = loaded]
          PROVE  live' \in Lives
      <3>1. \A word : Shows(word) \in Lives
        BY <1>3, LiveUpdates
      <3>2. \A l \in Lives, b \in BOOLEAN : [l EXCEPT !.loaded = b] \in Lives
        BY DEF Lives
      <3> QED
        BY <2>2, <2>3, <3>1, <3>2, Zenon
    <2>4. live' = [live EXCEPT !.split = TRUE] => live' \in Lives
      BY <1>3, LiveUpdates
    <2>5. live' \in Lives
      BY <2>1, <2>3, <2>4
    <2> QED
      BY <1>2, <1>6, <2>1, <2>5 DEF TlvPageDone
  <1>7. CASE TlvStatusDone(t)
    <2>1. PICK res \in Results :
            Ends(t, "TlvStatus", res) /\ (live' = Shows(res.word) \/ live' = live)
      BY <1>7, Zenon DEF TlvStatusDone
    <2> QED
      BY <1>2, <1>3, <1>7, <2>1, LiveUpdates DEF TlvStatusDone
  <1>8. CASE SocDone(t)
    <2>1. PICK res \in Results : Ends(t, "Soc", res)
      BY <1>8 DEF SocDone
    <2> QED
      BY <1>2, <1>3, <1>8, <2>1 DEF SocDone
  <1>9. CASE OutDone(t)
    <2>1. PICK res \in Results :
            Ends(t, "Out", res) /\ \E word : live' = Shows(word)
      BY <1>9, Zenon DEF OutDone
    <2> QED
      BY <1>2, <1>3, <1>9, <2>1, LiveUpdates DEF OutDone
  <1> QED
    BY <1>1, <1>4, <1>5, <1>6, <1>7, <1>8, <1>9 DEF RoundStep

\* A register write shows what it has read back, and frees the buttons.
LEMMA WriterTypes ==
    ASSUME TypeInv, NEW w \in Writer, WriterStep(w)
    PROVE  AirTypes' /\ DataTypes' /\ UiTypes' /\ UNCHANGED cmds
  <1> USE DEF TypeInv
  <1>1. CASE WriterStarts(w)
    <2>1. UNCHANGED <<cmds, busy, wake, outputBusy, up, down, live, dev, mishap>>
      BY <1>1 DEF WriterStarts, ui, air
    <2> QED
      BY <2>1 DEF AirTypes, DataTypes, UiTypes
  <1>2. ASSUME NEW pc, NEW res, Ends(w, pc, res), live' \in Lives,
               outputBusy' \in BOOLEAN, UNCHANGED <<cmds, busy, wake, dev>>
        PROVE  AirTypes' /\ DataTypes' /\ UiTypes' /\ UNCHANGED cmds
    BY <1>2, EndsTypes DEF DataTypes, UiTypes
  <1>3. live \in Lives /\ outputBusy \in BOOLEAN
    BY DEF DataTypes, UiTypes
  <1>4. ASSUME NEW good, WriteEnds(w, good) PROVE outputBusy' \in BOOLEAN
    BY <1>4 DEF WriteEnds
  <1>5. CASE ToggleDone(w)
    <2>1. PICK res \in Results :
            /\ Ends(w, "Toggle", res)
            /\ outputBusy' = outputBusy \/ WriteEnds(w, FALSE)
      BY <1>5, Zenon DEF ToggleDone
    <2>2. outputBusy' \in BOOLEAN
      BY <1>3, <1>4, <2>1
    <2> QED
      BY <1>2, <1>3, <1>5, <2>1, <2>2 DEF ToggleDone
  <1>6. CASE ReadBackDone(w)
    <2>1. PICK res \in Results :
            /\ Ends(w, "ReadBack", res)
            /\ live' = IF res # Err THEN Shows(res.word)
                       ELSE [live EXCEPT !.out = task[w].job.on]
            /\ WriteEnds(w, res = Err \/ (0 \in res.word) = task[w].job.on)
      BY <1>6, Zenon DEF ReadBackDone
    <2>2. task[w].job.on \in BOOLEAN
      BY DEF Gate, TaskTypes, Task, Tasks, Jobs
    <2>3. live' \in Lives
      BY <1>3, <2>1, <2>2, LiveUpdates
    <2>4. outputBusy' \in BOOLEAN
      BY <1>4, <2>1, Zenon
    <2> QED
      BY <1>2, <1>6, <2>1, <2>3, <2>4 DEF ReadBackDone
  <1>7. CASE ModifyDone(w)
    <2>1. PICK res \in Results :
            /\ Ends(w, "Modify", res)
            /\ outputBusy' = outputBusy \/ WriteEnds(w, FALSE)
      BY <1>7, Zenon DEF ModifyDone
    <2>2. outputBusy' \in BOOLEAN
      BY <1>3, <1>4, <2>1
    <2> QED
      BY <1>2, <1>3, <1>7, <2>1, <2>2 DEF ModifyDone
  <1>8. CASE WriteDone(w)
    <2>1. PICK res \in Results : Ends(w, "Write", res) /\ WriteEnds(w, res # Err)
      BY <1>8, Zenon DEF WriteDone
    <2>2. outputBusy' \in BOOLEAN
      BY <1>4, <2>1, Zenon
    <2> QED
      BY <1>2, <1>3, <1>8, <2>1, <2>2 DEF WriteDone
  <1> QED
    BY <1>1, <1>5, <1>6, <1>7, <1>8 DEF WriterStep

\* An upgrade takes and throws away replies.
LEMMA OtaTypes ==
    ASSUME TypeInv, OtaStep
    PROVE  AirTypes' /\ DataTypes' /\ UiTypes' /\ UNCHANGED cmds
  <1> USE DEF TypeInv
  <1>1. CASE OtaStarts
    <2>1. UNCHANGED <<cmds, busy, wake, outputBusy, up, live, dev>>
      BY <1>1 DEF OtaStarts, ui
    <2>2. down' \in Cleared \/ down' = down
      BY <1>1 DEF OtaStarts
    <2>3. mishap' = mishap \/ mishap' = mishap \cup {"cleared"}
      BY <1>1 DEF OtaStarts
    <2>4. AirTypes'
      BY <2>1, <2>2, ClearedTypes DEF AirTypes
    <2> QED
      BY <2>1, <2>3, <2>4 DEF DataTypes, UiTypes
  <1>2. CASE OtaTransfers
    <2>1. /\ UNCHANGED <<cmds, busy, wake, outputBusy, up, live, dev, mishap>>
          /\ down # <<>> /\ down' = Tail(down)
      BY <1>2 DEF OtaTransfers, ui
    <2> QED
      BY <2>1 DEF AirTypes, DataTypes, UiTypes
  <1>3. CASE OtaTransferEnds \/ OtaDistEnds
    <2>1. UNCHANGED <<cmds, busy, wake, outputBusy, up, down, live, dev, mishap>>
      BY <1>3 DEF OtaTransferEnds, OtaDistEnds, ui, air
    <2> QED
      BY <2>1 DEF AirTypes, DataTypes, UiTypes
  <1>4. CASE OtaReadsOn
    <2>1. \E res : Ends("Ota", "Dist", res)
      BY <1>4 DEF OtaReadsOn
    <2>2. UNCHANGED <<cmds, busy, wake, outputBusy, live, dev>>
      BY <1>4 DEF OtaReadsOn, ui
    <2> QED
      BY <2>1, <2>2, EndsTypes DEF DataTypes, UiTypes
  <1>5. CASE OtaFinishes
    <2>1. /\ UNCHANGED <<cmds, outputBusy, up, down, live, dev, mishap>>
          /\ busy' \in BOOLEAN /\ wake' \in BOOLEAN
      BY <1>5, Zenon DEF OtaFinishes, air
    <2> QED
      BY <2>1 DEF AirTypes, DataTypes, UiTypes
  <1> QED
    BY <1>1, <1>2, <1>3, <1>4, <1>5 DEF OtaStep

LEMMA TaskStepTypes ==
    ASSUME TypeInv, NEW t \in Task, TaskStep(t)
    PROVE  AirTypes' /\ DataTypes' /\ UiTypes' /\ UNCHANGED cmds
  <1> USE DEF TypeInv
  <1>1. CASE Send(t)
    <2>1. PICK req \in Requests(t) : up' = Append(up, req)
      BY <1>1 DEF Send
    <2>2. req \in Asks
      BY RequestTypes DEF Gate, TaskTypes
    <2>3. down' \in Cleared /\ UNCHANGED <<cmds, busy, wake, outputBusy, live, dev>>
      BY <1>1 DEF Send, ui
    <2>4. mishap' = mishap \/ mishap' = mishap \cup {"clash"}
      BY <1>1 DEF Send
    <2>5. AirTypes'
      BY <2>1, <2>2, <2>3, ClearedTypes DEF AirTypes
    <2> QED
      BY <2>3, <2>4, <2>5 DEF DataTypes, UiTypes
  <1>2. CASE PassOver(t)
    <2>1. /\ UNCHANGED <<cmds, busy, wake, outputBusy, up, live, dev, mishap>>
          /\ down # <<>> /\ down' = Tail(down)
      BY <1>2 DEF PassOver, ui
    <2> QED
      BY <2>1 DEF AirTypes, DataTypes, UiTypes
  <1>3. CASE RoundStep(t)
    BY <1>3, RoundTypes DEF ui, UiTypes
  <1>4. CASE PollStep
    <2>1. /\ UNCHANGED <<cmds, busy, outputBusy, up, down, live, dev, mishap>>
          /\ wake' = wake \/ wake' \in BOOLEAN
      BY <1>4, Zenon DEF PollStep, PollPauses, PollTimer, PollNotified, ui, air
    <2> QED
      BY <2>1 DEF AirTypes, DataTypes, UiTypes
  <1> QED
    BY <1>1, <1>2, <1>3, <1>4, WriterTypes, OtaTypes DEF TaskStep

\* The device answers what it is asked, and a write changes a register to bits.
LEMMA AirSteps ==
    ASSUME TypeInv, DeviceServes \/ WriteFails
    PROVE  AirTypes' /\ DataTypes' /\ UNCHANGED <<ui, gate, task>>
  <1> USE DEF TypeInv
  <1>1. up # <<>> /\ up' = Tail(up) /\ up' \in Seq(Asks) /\ Head(up) \in Asks
    <2>1. up # <<>> /\ up' = Tail(up)
      BY DEF DeviceServes, WriteFails
    <2>2. up \in Seq(Asks)
      BY DEF AirTypes
    <2> QED
      BY <2>1, <2>2
  <1>2. CASE WriteFails
    <2>1. UNCHANGED <<ui, gate, task, down, live, dev>> /\ mishap' = mishap \cup {"lost"}
      BY <1>2 DEF WriteFails
    <2> QED
      BY <1>1, <2>1 DEF AirTypes, DataTypes
  <1>3. CASE DeviceServes
    <2>1. /\ UNCHANGED <<ui, gate, task, live, mishap>>
          /\ down' = Append(down, Reply(Head(up)))
          /\ dev' = IF Head(up).func = "06"
                    THEN [dev EXCEPT ![Head(up).reg] = Head(up).word] ELSE dev
      BY <1>3 DEF DeviceServes
    <2>2. /\ Head(up).func \in {"03", "06", "TLV"}
          /\ Head(up).reg \in Reg /\ Head(up).word \in SUBSET Bits
      BY <1>1 DEF Asks
    <2>3. dev \in [Reg -> SUBSET Bits] /\ "Out" \in Reg /\ "Page" \in Reg
      BY DEF DataTypes, Reg
    <2>4. Reply(Head(up)) \in Frames
      <3>1. \A reg \in Reg, word \in SUBSET Bits :
              Frame("03", reg, word) \in Frames /\ Frame("TLV", reg, word) \in Frames
        BY DEF Frame, Frames
      <3>2. Head(up) \in Frames
        BY <1>1 DEF Asks, Frames
      <3>3. dev[Head(up).reg] \in SUBSET Bits /\ dev["Out"] \in SUBSET Bits
        BY <2>2, <2>3
      <3> QED
        BY <2>2, <2>3, <3>1, <3>2, <3>3 DEF Reply
    <2>5. dev' \in [Reg -> SUBSET Bits]
      BY <2>1, <2>2, <2>3
    <2> QED
      BY <1>1, <2>1, <2>4, <2>5 DEF AirTypes, DataTypes
  <1> QED
    BY <1>2, <1>3

\* The user queues jobs, and one upgrade in all.
LEMMA UserSteps ==
    ASSUME TypeInv, UserStep
    PROVE  AirTypes' /\ DataTypes' /\ UiTypes' /\ OneUpgrade' /\ UNCHANGED <<gate, task>>
  <1> USE DEF TypeInv
  <1>1. UNCHANGED <<gate, task, up, down, live, dev, mishap>>
    BY DEF UserStep, UiToggle, UiWriteBit, UiStartOta, air
  <1>2. AirTypes' /\ DataTypes'
    BY <1>1 DEF AirTypes, DataTypes
  <1>3. ASSUME NEW job \in Jobs, cmds' = Append(cmds, job),
               \/ ~IsUpgrade(job)
               \/ At("Ota", "Idle") /\ \A i \in DOMAIN cmds : ~IsUpgrade(cmds[i])
        PROVE  cmds' \in Seq(Jobs) /\ OneUpgrade'
    <2>1. cmds' \in Seq(Jobs)
      BY <1>3 DEF UiTypes
    <2>2. /\ cmds \in Seq(Jobs) /\ DOMAIN cmds' = 1..Len(cmds) + 1
          /\ \A i \in 1..Len(cmds) : cmds'[i] = cmds[i]
          /\ cmds'[Len(cmds) + 1] = job
      BY <1>3 DEF UiTypes
    <2>3. At("Ota", "Idle")' <=> At("Ota", "Idle")
      BY <1>1 DEF At
    <2>4. CASE ~IsUpgrade(job)
      <3>1. \A i \in DOMAIN cmds' : IsUpgrade(cmds'[i]) => i \in DOMAIN cmds /\ cmds'[i] = cmds[i]
        BY <2>2, <2>4
      <3> QED
        BY <2>1, <2>3, <3>1 DEF OneUpgrade
    <2>5. CASE At("Ota", "Idle") /\ \A i \in DOMAIN cmds : ~IsUpgrade(cmds[i])
      <3>1. \A i \in DOMAIN cmds' : IsUpgrade(cmds'[i]) => i = Len(cmds) + 1
        BY <2>2, <2>5
      <3> QED
        BY <2>1, <2>3, <2>5, <3>1 DEF OneUpgrade
    <2> QED
      BY <1>3, <2>4, <2>5
  <1>4. CASE UiToggle
    <2>1. PICK on \in BOOLEAN : cmds' = Append(cmds, ToggleTo(on))
      BY <1>4 DEF UiToggle, DataTypes, Lives
    <2>2. ToggleTo(on) \in Jobs /\ ~IsUpgrade(ToggleTo(on))
      BY DEF ToggleTo, Job, Jobs, Reg, Bits, IsUpgrade
    <2>3. UNCHANGED <<busy, wake>> /\ outputBusy' \in BOOLEAN
      BY <1>4 DEF UiToggle
    <2> QED
      BY <1>1, <1>2, <1>3, <2>1, <2>2, <2>3 DEF UiTypes
  <1>5. CASE UiWriteBit
    <2>1. PICK job \in BitWrites : cmds' = Append(cmds, job)
      BY <1>5 DEF UiWriteBit
    <2>2. job \in Jobs /\ ~IsUpgrade(job)
      BY ModbusLinkAssumption DEF Jobs, Reg, IsUpgrade
    <2>3. UNCHANGED <<busy, wake, outputBusy>>
      BY <1>5 DEF UiWriteBit
    <2> QED
      BY <1>1, <1>2, <1>3, <2>1, <2>2, <2>3 DEF UiTypes
  <1>6. CASE UiStartOta
    <2>1. PICK kind \in OtaJobs : cmds' = Append(cmds, OtaJob(kind))
      BY <1>6 DEF UiStartOta
    <2>2. OtaJob(kind) \in Jobs
      <3>1. \A b \in BOOLEAN : Job(kind, "Dist", 0, b) \in Jobs
        BY ModbusLinkAssumption DEF Job, Jobs, Reg, Bits
      <3> QED
        BY <3>1, Zenon DEF OtaJob
    <2>3. At("Ota", "Idle") /\ \A i \in DOMAIN cmds : ~IsUpgrade(cmds[i])
      BY <1>6 DEF UiStartOta, Writes, IsUpgrade
    <2>4. busy' \in BOOLEAN /\ wake' \in BOOLEAN /\ outputBusy' = outputBusy
      BY <1>6 DEF UiStartOta
    <2> QED
      BY <1>1, <1>2, <1>3, <2>1, <2>2, <2>3, <2>4 DEF UiTypes
  <1> QED
    BY <1>4, <1>5, <1>6 DEF UserStep

\* The worker takes the first job; what is left is no second upgrade.
LEMMA WorkerSteps ==
    ASSUME TypeInv, WorkerStep
    PROVE  AirTypes' /\ DataTypes' /\ UiTypes' /\ OneUpgrade'
  <1> USE DEF TypeInv
  <1>1. cmds # <<>> /\ cmds' = Tail(cmds) /\ cmds' \in Seq(Jobs)
    <2>1. cmds # <<>> /\ cmds' = Tail(cmds)
      BY DEF WorkerStep, WorkerTakesWrite, WorkerTakesOta, Writes, UiTypes
    <2>2. cmds \in Seq(Jobs)
      BY DEF UiTypes
    <2> QED
      BY <2>1, <2>2
  <1>2. UNCHANGED <<up, down, live, dev, mishap>>
    BY DEF WorkerStep, WorkerTakesWrite, WorkerTakesOta, air
  <1>3. UiTypes'
    <2>1. busy' \in BOOLEAN /\ wake' \in BOOLEAN /\ outputBusy' \in BOOLEAN
      BY DEF WorkerStep, WorkerTakesWrite, WorkerTakesOta, UiTypes
    <2> QED
      BY <1>1, <2>1 DEF UiTypes
  <1>4. /\ cmds \in Seq(Jobs)
        /\ \A i \in DOMAIN cmds' : i + 1 \in DOMAIN cmds /\ cmds'[i] = cmds[i + 1]
    BY <1>1 DEF UiTypes
  <1>5. OneUpgrade'
    <2>1. \A i, j \in DOMAIN cmds' : IsUpgrade(cmds'[i]) /\ IsUpgrade(cmds'[j]) => i = j
      <3> SUFFICES ASSUME NEW i \in DOMAIN cmds', NEW j \in DOMAIN cmds',
                          IsUpgrade(cmds'[i]), IsUpgrade(cmds'[j])
                   PROVE  i = j
        OBVIOUS
      <3>1. i \in Nat /\ j \in Nat
        BY <1>1
      <3>2. i + 1 = j + 1
        BY <1>4 DEF OneUpgrade
      <3> QED
        BY <3>1, <3>2
    <2>2. ASSUME NEW i \in DOMAIN cmds', IsUpgrade(cmds'[i]) PROVE At("Ota", "Idle")'
      <3>1. IsUpgrade(cmds[i + 1]) /\ i + 1 \in DOMAIN cmds /\ i + 1 # 1
        BY <1>1, <1>4, <2>2
      <3>2. At("Ota", "Idle")
        BY <3>1 DEF OneUpgrade
      <3>3. ~IsUpgrade(cmds[1]) /\ 1 \in DOMAIN cmds
        BY <1>1, <1>4, <3>1 DEF OneUpgrade
      <3>4. WorkerTakesWrite
        BY <3>3 DEF WorkerStep, WorkerTakesOta, Writes, IsUpgrade
      <3>5. \/ task' = task
            \/ \E w \in Fresh : \E job : task' = [task EXCEPT ![w].pc = "Start", ![w].job = job]
        BY <3>4 DEF WorkerTakesWrite
      <3>6. task'["Ota"] = task["Ota"]
        <4>1. "Ota" \in Task /\ "Ota" \notin Fresh
          BY ModbusLinkAssumption DEF Task, Fresh
        <4> QED
          BY <3>5, <4>1 DEF Gate
      <3> QED
        BY <3>2, <3>6 DEF At
    <2> QED
      BY <2>1, <2>2 DEF OneUpgrade
  <1> QED
    BY <1>2, <1>3, <1>5 DEF AirTypes, DataTypes

\* While an upgrade is queued, its task has not begun and makes no step.
LEMMA TaskOneUpgrade ==
    ASSUME TypeInv, NEW t \in Task, TaskStep(t), UNCHANGED cmds
    PROVE  OneUpgrade'
  <1>1. SUFFICES ASSUME At("Ota", "Idle") PROVE At("Ota", "Idle")'
    BY DEF TypeInv, OneUpgrade
  <1>2. t # "Ota"
    <2> SUFFICES ASSUME t = "Ota" PROVE FALSE
      OBVIOUS
    <2>1. Requests(t) = {}
      BY <1>1 DEF Requests, Here, At
    <2>2. ~Send(t)
      BY <2>1 DEF Send
    <2>3. ~PassOver(t)
      BY <1>1 DEF PassOver, TypeInv, Gate, OpenAt, RequestPc, GatePc, At
    <2>4. ~RoundStep(t)
      BY <1>1, Zenon DEF RoundStep, RoundBegins, NeedlessRead, Needless, ProbeDone, Choose,
         InfoDone, Dash, TlvPageDone, TlvStatusDone, SocDone, OutDone, Ends, At
    <2>5. ~OtaStep
      BY <1>1, Zenon DEF OtaStep, OtaStarts, OtaTransfers, OtaTransferEnds,
         OtaReadsOn, OtaDistEnds, OtaFinishes, Ends, At
    <2> QED
      BY <2>2, <2>3, <2>4, <2>5, ModbusLinkAssumption DEF TaskStep
  <1>3. GateStep(t)
    BY TaskGate
  <1>4. task'["Ota"] = task["Ota"]
    <2>1. "Ota" \in Task
      BY DEF Task
    <2>2. CASE Alters(t)
      BY <1>2, <2>1, <2>2, OthersStay DEF TypeInv
    <2>3. CASE UNCHANGED <<gate, task>>
      BY <2>3
    <2> QED
      BY <1>3, <2>2, <2>3 DEF GateStep, Keeps, Enters, Leaves, Rejoins
  <1> QED
    BY <1>1, <1>4 DEF At

LEMMA TypeInit == Init => TypeInv
  <1> SUFFICES ASSUME Init PROVE TypeInv
    OBVIOUS
  <1>1. \A t \in Task : /\ task[t] \in Tasks(t) /\ task[t].req = None
                       /\ task[t].pc = IF t = "Poll" THEN "Round" ELSE "Idle"
    <2>1. \A t \in Task : task[t] = IF t = "Poll" THEN [NewTask EXCEPT !.pc = "Round"]
                                    ELSE NewTask
      BY DEF Init
    <2>2. NewTask.req = None /\ NewTask.pc = "Idle"
      BY DEF NewTask
    <2>3. ASSUME NEW t, NEW pc \in PcOf(t)
          PROVE  LET new == [NewTask EXCEPT !.pc = pc]
                 IN  new \in Tasks(t) /\ new.req = None /\ new.pc = pc
      BY <2>2, NewTaskType DEF NewTasks, Tasks
    <2>4. \A t : "Idle" \in PcOf(t) => NewTask \in Tasks(t)
      BY <2>2, NewTaskType DEF NewTasks, Tasks
    <2>5. "Round" \in PcOf("Poll") /\ \A t : t # "Poll" => "Idle" \in PcOf(t)
      BY DEF PcOf, RoundPc, OtaPc, WriterPc
    <2> QED
      <3>1. task["Poll"] = [NewTask EXCEPT !.pc = "Round"]
        BY <2>1 DEF Task
      <3>2. \A t \in Task \ {"Poll"} : task[t] = NewTask
        BY <2>1
      <3>3. /\ task["Poll"] \in Tasks("Poll") /\ task["Poll"].req = None
            /\ task["Poll"].pc = "Round"
        BY <2>3, <2>5, <3>1
      <3>4. \A t \in Task \ {"Poll"} : /\ task[t] \in Tasks(t) /\ task[t].req = None
                                      /\ task[t].pc = "Idle"
        BY <2>2, <2>4, <2>5, <3>2
      <3> QED
        BY <3>3, <3>4
  <1>2. task = [t \in Task |-> task[t]] /\ gate = <<>>
    BY DEF Init
  <1>3. Gate
    <2>1. \A t \in Task : task[t].pc \in {"Round", "Idle"} /\ ~Open(t)
      BY <1>1 DEF Open
    <2>2. \A t \in Task : ~Queued(t) /\ ~InLine(t)
      BY <1>2, <2>1 DEF Queued, InLine, At, GatePc
    <2>3. TaskTypes /\ GateTypes
      BY <1>1, <1>2 DEF TaskTypes, GateTypes
    <2>4. "Ota" \in Task
      BY DEF Task
    <2> QED
      BY <1>2, <2>1, <2>2, <2>3, <2>4 DEF Gate, Line, OpenAt, OneOpen, HttpHolds
  <1>4. up = <<>> /\ down = <<>> /\ cmds = <<>> /\ mishap = {}
    BY DEF Init
  <1>5. {busy, wake, outputBusy} \subseteq BOOLEAN
    BY Zenon DEF Init
  <1>6. live \in Lives
    <2>1. \A b \in BOOLEAN : [probed |-> b, mode |-> "Unknown", loaded |-> b,
                              split |-> b, out |-> b, valid |-> b] \in Lives
      BY DEF Lives
    <2>2. FALSE \in BOOLEAN
      OBVIOUS
    <2> QED
      BY <2>1, <2>2, Zenon DEF Init
  <1>7. dev \in [Reg -> SUBSET Bits]
    BY DEF Init, Reg, Bits
  <1> QED
    BY <1>3, <1>4, <1>5, <1>6, <1>7
    DEF TypeInv, AirTypes, DataTypes, UiTypes, OneUpgrade

LEMMA TypeNext == TypeInv /\ [Next]_vars => TypeInv'
  <1> SUFFICES ASSUME TypeInv, [Next]_vars PROVE TypeInv'
    OBVIOUS
  <1>1. CASE UserStep
    BY <1>1, UserSteps, SameGate DEF TypeInv
  <1>2. CASE WorkerStep
    BY <1>2, WorkerSteps, WorkerGate, GateStepGate DEF TypeInv
  <1>3. CASE DeviceServes \/ WriteFails
    BY <1>3, AirSteps, SameGate DEF TypeInv, UiTypes, OneUpgrade, At, ui
  <1>4. ASSUME NEW t \in Task, TaskStep(t) PROVE TypeInv'
    BY <1>4, TaskStepTypes, TaskOneUpgrade, TaskGate, GateStepGate DEF TypeInv
  <1>5. CASE UNCHANGED vars
    <2>1. UNCHANGED <<ui, gate, task, up, down, live, dev, mishap>>
      BY <1>5 DEF vars, air
    <2> QED
      BY <2>1, SameGate DEF TypeInv, AirTypes, DataTypes, UiTypes, OneUpgrade, At, ui
  <1> QED
    BY <1>1, <1>2, <1>3, <1>4, <1>5 DEF Next

LEMMA TypeInvCorrect == Spec => []TypeInv
  BY TypeInit, TypeNext, PTL DEF Spec

\* Every variable has its type, and nobody is twice in the queue of the gate:
\* no path of a poll round, a write or an upgrade asks for a gate it holds.
THEOREM TypeCorrect == Spec => []TypeOK
  <1>1. TypeInv => TypeOK
    <2> SUFFICES ASSUME TypeInv PROVE TypeOK
      OBVIOUS
    <2>1. {busy, wake, outputBusy} \subseteq BOOLEAN /\ dev \in [Reg -> SUBSET Bits]
      BY DEF TypeInv, UiTypes, DataTypes
    <2>2. live.mode \in {"Unknown", "Standard", "Tlv"}
      BY DEF TypeInv, DataTypes, Lives
    <2>3. mishap \subseteq {"lost", "late", "clash", "cleared"}
      BY DEF TypeInv, DataTypes
    <2>4. \A i, j \in DOMAIN gate : gate[i] \in Task /\ (gate[i] = gate[j] => i = j)
      BY DEF TypeInv, Gate, GateTypes
    <2>5. \A t \in Task : /\ task[t].pc \in PcOf(t) /\ task[t].req \in Frames
                         /\ task[t].word \subseteq Bits /\ task[t].tries \in 0..1
      BY DEF TypeInv, Gate, TaskTypes, Tasks
    <2> QED
      BY <2>1, <2>2, <2>3, <2>4, <2>5 DEF TypeOK, PcOf
  <1> QED
    BY <1>1, TypeInvCorrect, PTL

\* The transfer of an upgrade over BLE has the link to itself, with any number
\* of writes: whoever has a request open holds the gate, so it is the upgrade,
\* and during the transfer that has none.
THEOREM TransferIsAloneCorrect == Spec => []TransferIsAlone
  <1>1. TypeInv => TransferIsAlone
    <2> SUFFICES ASSUME TypeInv, At("Ota", "Transfer"), Holds("Ota"),
                        NEW t \in Task, Open(t)
                 PROVE  FALSE
      BY DEF TransferIsAlone
    <2>1. t = "Ota"
      BY DEF TypeInv, Gate, OneOpen, Holds
    <2>2. task[t].pc \in RequestPc
      BY DEF TypeInv, Gate, OpenAt
    <2> QED
      BY <2>1, <2>2 DEF RequestPc, GatePc, At
  <1> QED
    BY <1>1, TypeInvCorrect, PTL

-----------------------------------------------------------------------------
(* The replies.                                                            *)

Sound == mishap \cap {"late", "clash"} = {}

\* What a task has asked for is what it asks for where it is.
Carries == \A t \in Task : Open(t) => task[t].req \in Requests(t)

\* Between its two requests a write keeps the gate.
StaysAtGate == \A t \in Task : task[t].pc \in {"Write", "ReadBack"} => Holds(t)

BitJob(job)   == job.op = "Bit" => job.reg \in {"A", "B"}
WriteJob(job) == job.op \in {"Toggle", "Bit"} /\ BitJob(job)
JobsFit ==
    /\ \A i \in DOMAIN cmds : BitJob(cmds[i])
    /\ \A w \in Writer :
        /\ task[w].pc = "Start" => WriteJob(task[w].job)
        /\ task[w].pc \in {"Modify", "Write"} => task[w].job.reg \in {"A", "B"}

\* A reply to the request that brings what the registers hold.
Answers(f, req, held) ==
    /\ f.func = req.func /\ f.reg = req.reg
    /\ f.func = "03" => f.word = held[f.reg]
    /\ f.func = "TLV" => f.word = held["Out"]

\* One request is open at most, and all that is on the air is it or its answer.
OneAsks == \A t, u \in Task : Open(t) /\ Open(u) => t = u
Quiet ==
    /\ OneAsks
    /\ up = <<>> \/ down = <<>>
    /\ up # <<>> => /\ up = <<up[1]>>
                    /\ \E t \in Task : Open(t) /\ up[1] = task[t].req
    /\ down # <<>> => /\ down = <<down[1]>>
                      /\ \E t \in Task : Open(t) /\ Answers(down[1], task[t].req, dev)

\* The word a bit write is about to write, or has written, is the register
\* with the bit as it should be.
WordFits(t) == task[t].word = With(dev[task[t].job.reg], task[t].job.bit, task[t].job.on)
Ready == \A t \in Task : At(t, "Write") => WordFits(t)

\* Nothing has gone wrong: an answer is on its way to every request, and the
\* outputs shown are the device's unless a toggle is under way.
Toggling(t) == (At(t, "Toggle") /\ Open(t)) \/ At(t, "ReadBack")
Answered == \A t \in Task : Open(t) => up # <<>> \/ down # <<>>
Shown == live.valid => (live.out <=> 0 \in dev["Out"]) \/ \E t \in Task : Toggling(t)

Replies ==
    /\ TypeInv
    /\ Carries /\ StaysAtGate /\ JobsFit
    /\ Sound => Quiet /\ Ready
    /\ mishap = {} => Answered /\ Shown

-----------------------------------------------------------------------------
(* Requests.                                                               *)

\* What a task may have asked for, by the step it is at.
LEMMA AskedAt ==
    ASSUME Replies, NEW t \in Task, Open(t)
    PROVE  LET req == task[t].req
               pc  == task[t].pc
           IN  /\ req \in Asks /\ req \in Frames
               /\ pc \in {"TlvPage", "TlvStatus"} => req = Read("Page")
               /\ pc \in {"Out", "ReadBack"} => req = Read("Out")
               /\ pc = "Modify" => req = Read(task[t].job.reg)
               /\ pc = "Write" => req = Write(task[t].job.reg, task[t].word)
               /\ pc \notin {"Write", "Toggle"} => req.func # "06"
               /\ pc = "Toggle" => req.reg = "Out"
               /\ req.func = "TLV" => req.reg = "Page"
  <1>1. /\ task[t] \in Tasks(t) /\ task[t].req \in Requests(t)
        /\ task[t].pc \in RequestPc
    BY DEF Replies, TypeInv, Gate, TaskTypes, OpenAt, Carries
  <1>2. Here(t) = task[t].pc
    BY <1>1 DEF Here, At, RequestPc
  <1>3. task[t].req \in Asks
    BY <1>1, RequestTypes
  <1>4. task[t].req \in Frames
    BY <1>3 DEF Asks, Frames
  <1>5. ASSUME task[t].req.func = "TLV" PROVE task[t].req.reg = "Page"
    BY <1>1, <1>2, <1>5 DEF Requests, Read, Write, Frame
  <1>6. ASSUME task[t].pc \notin {"Write", "Toggle"} PROVE task[t].req.func # "06"
    BY <1>1, <1>2, <1>6 DEF Requests, Read, Write, Frame
  <1>7. ASSUME task[t].pc = "Toggle" PROVE task[t].req.reg = "Out"
    BY <1>1, <1>2, <1>7 DEF Requests, Write, Frame
  <1>8. /\ task[t].pc \in {"TlvPage", "TlvStatus"} => task[t].req = Read("Page")
        /\ task[t].pc \in {"Out", "ReadBack"} => task[t].req = Read("Out")
        /\ task[t].pc = "Modify" => task[t].req = Read(task[t].job.reg)
        /\ task[t].pc = "Write" => task[t].req = Write(task[t].job.reg, task[t].word)
    BY <1>1, <1>2 DEF Requests
  <1> QED
    BY <1>3, <1>4, <1>5, <1>6, <1>7, <1>8

\* While all is sound, the transaction that ends is the only one, it leaves
\* nothing on the air, and what it returns is its own answer.
LEMMA SoundEnd ==
    ASSUME Replies, NEW t \in Task, NEW pc, NEW res \in Results, Ends(t, pc, res),
           mishap' \cap {"late", "clash"} = {}, mishap \subseteq mishap'
    PROVE  /\ Sound /\ \A u \in Task \ {t} : ~Open(u)
           /\ up' = <<>> /\ down' = <<>>
           /\ res # Err => Answers(res, task[t].req, dev)
           /\ up # <<>> \/ down # <<>> => res # Err
           /\ down' # down => Head(down).reg = task[t].req.reg
  <1>1. Sound /\ Quiet /\ At(t, pc) /\ Open(t) /\ up' = up
    BY DEF Replies, Sound, Ends
  <1>2. \A u \in Task : Open(u) => u = t
    BY <1>1 DEF Quiet, OneAsks
  <1>3. CASE Receives(t, res)
    <2>1. down # <<>> /\ down' = Tail(down) /\ mishap' = mishap
          /\ res = IF Accepts(task[t].req, Head(down)) THEN Head(down) ELSE Err
      BY <1>3 DEF Receives
    <2>2. down = <<down[1]>> /\ Answers(down[1], task[t].req, dev) /\ up = <<>>
      BY <1>1, <1>2, <2>1 DEF Quiet
    <2>3. down' = <<>> /\ Head(down) = down[1]
      BY <2>1, <2>2
    <2>4. task[t].req \in Asks
      BY <1>1, AskedAt
    <2>5. Accepts(task[t].req, down[1])
      BY <2>2 DEF Answers, Accepts
    <2>6. res = down[1] /\ res # Err
      <3>1. down[1].func # "Err"
        BY <2>2, <2>4 DEF Answers, Asks
      <3>2. Err.func = "Err"
        BY DEF Err, Frame
      <3> QED
        BY <2>1, <2>3, <2>5, <3>1, <3>2
    <2> QED
      BY <1>1, <1>2, <2>2, <2>3, <2>6 DEF Answers
  <1>4. CASE TimesOut(t, res)
    <2>1. res = Err /\ down' = down
      BY <1>4 DEF TimesOut
    <2>2. ~StillToCome(task[t].req)
      BY <1>4 DEF TimesOut
    <2>3. up = <<>>
      <3>1. SUFFICES ASSUME up # <<>> PROVE FALSE
        OBVIOUS
      <3>2. up = <<up[1]>> /\ up[1] = task[t].req
        BY <1>1, <1>2, <3>1 DEF Quiet
      <3>3. 1 \in DOMAIN up
        BY <3>2
      <3> QED
        BY <2>2, <3>2, <3>3 DEF StillToCome
    <2>4. down = <<>>
      <3>1. SUFFICES ASSUME down # <<>> PROVE FALSE
        OBVIOUS
      <3>2. down = <<down[1]>> /\ Answers(down[1], task[t].req, dev)
        BY <1>1, <1>2, <3>1 DEF Quiet
      <3>3. 1 \in DOMAIN down
        BY <3>2
      <3> QED
        BY <2>2, <3>2, <3>3 DEF StillToCome, Answers
    <2> QED
      BY <1>1, <1>2, <2>1, <2>3, <2>4
  <1> QED
    BY <1>3, <1>4 DEF Ends

-----------------------------------------------------------------------------
(* The steps of a task: it sends, it ends a transaction, or it moves        *)
(* without one.                                                            *)

Alone(t) == /\ \A u \in Task \ {t} : task'[u] = task[u]
            /\ task'[t].req = None /\ task'[t].job = task[t].job
            /\ UNCHANGED <<cmds, dev>>

SameShown == live'.valid = live.valid /\ live'.out = live.out
ShowsWord(word) == live'.out <=> 0 \in word

EndStep(t, res) ==
    /\ Ends(t, task[t].pc, res) /\ Alone(t)
    /\ task'[t].pc \notin {"Idle", "Start", "Toggle", "Modify"}
    /\ task'[t].pc = "ReadBack" => task[t].pc = "Toggle" /\ gate' = gate
    /\ task'[t].pc = "Write" =>
            /\ task[t].pc = "Modify" /\ gate' = gate /\ res # Err
            /\ task'[t].word = With(res.word, task[t].job.bit, task[t].job.on)
    /\ task[t].pc = "Toggle" /\ res # Err => task'[t].pc = "ReadBack"
    /\ \/ SameShown /\ task[t].pc # "ReadBack"
       \/ /\ task[t].pc \in {"TlvPage", "TlvStatus", "Out", "ReadBack"}
          /\ res # Err => ShowsWord(res.word)

MoveStep(t) ==
    /\ ~Open(t) /\ Alone(t) /\ UNCHANGED <<up, live>>
    /\ task[t].pc # "ReadBack"
    /\ task'[t].pc \notin {"Idle", "Start", "ReadBack", "Write"}
    /\ task'[t].pc = "Modify" => task[t].pc = "Start" /\ task[t].job.op # "Toggle"
    /\ \/ UNCHANGED <<down, mishap>>
       \/ /\ t = "Ota" /\ At(t, "Start")
          /\ down' \in Cleared /\ mishap' = mishap \cup {"cleared"}

LEMMA GoesFacts ==
    ASSUME Gate, NEW t \in Task, NEW pc, Goes(t, pc)
    PROVE  /\ \A u \in Task \ {t} : task'[u] = task[u]
           /\ task'[t].pc = pc /\ task'[t].req = None /\ task'[t].job = task[t].job
  <1>1. task[t] \in Tasks(t)
    BY DEF Gate, TaskTypes
  <1>2. task' = [task EXCEPT ![t] = Moved(t, pc)]
    BY DEF Goes
  <1>3. task'[t] = Moved(t, pc) /\ \A u \in Task \ {t} : task'[u] = task[u]
    BY <1>2 DEF Gate
  <1>4. Moved(t, pc).pc = pc /\ Moved(t, pc).req = None /\ Moved(t, pc).job = task[t].job
    <2>1. CASE pc = "End"
      <3>1. ASSUME NEW r \in NewTasks, NEW job
            PROVE  LET m == [[r EXCEPT !.job = job] EXCEPT !.pc = pc, !.req = None]
                   IN  m.pc = pc /\ m.req = None /\ m.job = job
        BY DEF NewTasks
      <3>2. Moved(t, pc) = [[NewTask EXCEPT !.job = task[t].job] EXCEPT !.pc = pc, !.req = None]
        BY <2>1 DEF Moved
      <3> QED
        BY <3>1, <3>2, NewTaskType
    <2>2. CASE pc # "End"
      <3>1. Moved(t, pc) = [task[t] EXCEPT !.pc = pc, !.req = None]
        BY <2>2 DEF Moved
      <3> QED
        BY <1>1, <3>1 DEF Tasks
    <2> QED
      BY <2>1, <2>2
  <1> QED
    BY <1>3, <1>4

LEMMA ShowsFacts ==
    ASSUME live \in Lives, NEW word, live' = Shows(word)
    PROVE  ShowsWord(word)
  <1>1. \A r \in Lives : \A b \in BOOLEAN, v \in BOOLEAN : [r EXCEPT !.out = b, !.valid = v].out = b
    BY DEF Lives
  <1>2. live' = [live EXCEPT !.out = 0 \in word, !.valid = TRUE]
    BY DEF Shows
  <1>3. (0 \in word) \in BOOLEAN /\ TRUE \in BOOLEAN
    OBVIOUS
  <1>4. live'.out = (0 \in word)
    BY <1>1, <1>2, <1>3, Zenon
  <1> QED
    BY <1>4, Zenon DEF ShowsWord

\* Where a page leaves its task.
LEMMA PageEndsFacts ==
    ASSUME Gate, NEW t \in Task, NEW loaded, PageEnds(t, loaded)
    PROVE  \E pc \in {"Info", "End"} : Goes(t, pc)
  BY DEF PageEnds, Releases

\* Places no move and no round of polling leads to.
WritePc == {"Idle", "Start", "Toggle", "ReadBack", "Modify", "Write"}

LEMMA GoesOn ==
    ASSUME Gate, NEW t \in Task, NEW pc, pc \notin WritePc, Goes(t, pc),
           ~Open(t), task[t].pc # "ReadBack",
           UNCHANGED <<cmds, dev, up, down, live, mishap>>
    PROVE  MoveStep(t)
  BY GoesFacts DEF MoveStep, Alone, WritePc

LEMMA RoundEnds ==
    ASSUME Gate, NEW t \in Task, NEW res, NEW pc, pc \notin WritePc,
           Ends(t, task[t].pc, res), Goes(t, pc), UNCHANGED <<cmds, dev>>,
           \/ SameShown /\ task[t].pc \notin WritePc
           \/ /\ task[t].pc \in {"TlvPage", "TlvStatus", "Out"}
              /\ res # Err => ShowsWord(res.word)
    PROVE  EndStep(t, res)
  BY GoesFacts DEF EndStep, Alone, WritePc

LEMMA ClosedAt ==
    ASSUME TypeInv, NEW t \in Task, task[t].pc \notin RequestPc
    PROVE  ~Open(t)
  BY DEF TypeInv, Gate, OpenAt

LEMMA RoundKinds ==
    ASSUME TypeInv, NEW t \in Task, RoundStep(t)
    PROVE  MoveStep(t) \/ \E res \in Results : EndStep(t, res)
  <1> USE DEF TypeInv
  <1>1. CASE RoundBegins(t)
    <2>1. At(t, "Round") /\ UNCHANGED <<cmds, dev, up, down, live, mishap>>
      BY <1>1 DEF RoundBegins, ui, air
    <2>2. \E pc \in {"End", "Probe"} : Goes(t, pc)
      BY <1>1 DEF RoundBegins, Queues
    <2>3. ~Open(t)
      BY <2>1, ClosedAt DEF At, RequestPc, GatePc
    <2> QED
      BY <2>1, <2>2, <2>3, GoesOn DEF At, WritePc
  <1>2. CASE NeedlessRead(t)
    <2>1. ~Open(t) /\ UNCHANGED <<cmds, dev, up, down, live, mishap>>
      BY <1>2 DEF NeedlessRead, ui, air
    <2>2. At(t, "Probe") \/ At(t, "Info")
      BY <1>2 DEF NeedlessRead, Needless
    <2>3. \E pc \in {"Choose", "End", "Dash"} : Goes(t, pc)
      BY <1>2, <2>2 DEF NeedlessRead, Releases, At
    <2> QED
      BY <2>1, <2>2, <2>3, GoesOn DEF At, WritePc
  <1>3. CASE ProbeDone(t)
    <2>1. PICK res \in Results :
            /\ Ends(t, "Probe", res)
            /\ \/ /\ task' = [task EXCEPT ![t].req = None, ![t].tries = 1]
                  /\ live' = live
               \/ /\ Releases(t, "Choose")
                  /\ live' = [live EXCEPT !.probed = TRUE, !.mode = Mode(res)]
      BY <1>3, Zenon DEF ProbeDone
    <2>2. task[t].pc = "Probe" /\ UNCHANGED <<cmds, dev>>
      BY <1>3, <2>1 DEF ProbeDone, Ends, At, ui
    <2>3. CASE /\ task' = [task EXCEPT ![t].req = None, ![t].tries = 1]
               /\ live' = live
      <3>1. task[t] \in Tasks(t)
        BY DEF Gate, TaskTypes
      <3>2. /\ task'[t] = [task[t] EXCEPT !.req = None, !.tries = 1]
            /\ \A u \in Task \ {t} : task'[u] = task[u]
        BY <2>3 DEF Gate
      <3>3. task'[t].req = None /\ task'[t].pc = "Probe" /\ task'[t].job = task[t].job
        BY <2>2, <3>1, <3>2 DEF Tasks
      <3> QED
        BY <2>1, <2>2, <2>3, <3>2, <3>3 DEF EndStep, Alone, SameShown
    <2>4. CASE /\ Releases(t, "Choose")
               /\ live' = [live EXCEPT !.probed = TRUE, !.mode = Mode(res)]
      <3>1. SameShown
        <4>1. \A p, m : LET r == [live EXCEPT !.probed = p, !.mode = m]
                        IN  r.valid = live.valid /\ r.out = live.out
          BY DEF DataTypes, Lives
        <4> QED
          BY <2>4, <4>1, Zenon DEF SameShown
      <3> QED
        BY <2>1, <2>2, <2>4, <3>1, RoundEnds DEF Releases, WritePc
    <2> QED
      BY <2>1, <2>3, <2>4
  <1>4. CASE Choose(t)
    <2>1. At(t, "Choose") /\ UNCHANGED <<cmds, dev, up, down, live, mishap>>
      BY <1>4 DEF Choose, ui, air
    <2>2. ~Open(t)
      BY <2>1, ClosedAt DEF At, RequestPc, GatePc
    <2>3. PICK one \in BOOLEAN, pc \in {"Dash", "Info"} :
            task' = [task EXCEPT ![t].pc = pc, ![t].tries = 0, ![t].one = one]
      BY <1>4 DEF Choose
    <2>4. task[t] \in Tasks(t)
      BY DEF Gate, TaskTypes
    <2>5. /\ task'[t] = [task[t] EXCEPT !.pc = pc, !.tries = 0, !.one = one]
          /\ \A u \in Task \ {t} : task'[u] = task[u]
      BY <2>3 DEF Gate
    <2>6. task'[t].pc = pc /\ task'[t].req = task[t].req /\ task'[t].job = task[t].job
      BY <2>4, <2>5 DEF Tasks
    <2> QED
      BY <2>1, <2>2, <2>5, <2>6 DEF MoveStep, Alone, Open, At
  <1>5. CASE InfoDone(t)
    <2>1. PICK res \in Results : /\ Ends(t, "Info", res)
                                 /\ live' = [live EXCEPT !.loaded = (res # Err)]
      BY <1>5, Zenon DEF InfoDone
    <2>2. \E pc \in {"End", "Dash"} : Goes(t, pc)
      BY <1>5 DEF InfoDone, Releases
    <2>3. task[t].pc = "Info" /\ UNCHANGED <<cmds, dev>>
      BY <1>5, <2>1 DEF InfoDone, Ends, At, ui
    <2>4. SameShown
      <3>1. \A l : LET r == [live EXCEPT !.loaded = l]
                   IN  r.valid = live.valid /\ r.out = live.out
        BY DEF DataTypes, Lives
      <3> QED
        BY <2>1, <3>1, Zenon DEF SameShown
    <2> QED
      BY <2>1, <2>2, <2>3, <2>4, RoundEnds DEF WritePc
  <1>6. CASE Dash(t)
    <2>1. At(t, "Dash") /\ UNCHANGED <<cmds, dev, up, down, live, mishap>>
      BY <1>6 DEF Dash, ui, air
    <2>2. \E pc \in {"Page", "Info", "End"} : Goes(t, pc)
      BY <1>6 DEF Dash, Queues
    <2>3. ~Open(t)
      BY <2>1, ClosedAt DEF At, RequestPc, GatePc
    <2> QED
      BY <2>1, <2>2, <2>3, GoesOn DEF At, WritePc
  <1>7. CASE TlvPageDone(t)
    <2>1. PICK res \in Results :
            /\ Ends(t, "TlvPage", res)
            /\ \/ /\ res # Err
                  /\ \E loaded \in {live.loaded, TRUE} :
                        /\ live' = [Shows(res.word) EXCEPT !.loaded = loaded]
                        /\ PageEnds(t, loaded)
               \/ /\ res = Err /\ live' = [live EXCEPT !.split = TRUE]
                  /\ Goes(t, "TlvStatus")
      BY <1>7, Zenon DEF TlvPageDone
    <2>2. task[t].pc = "TlvPage" /\ UNCHANGED <<cmds, dev>>
      BY <1>7, <2>1 DEF TlvPageDone, Ends, At, ui
    <2>3. ASSUME NEW loaded, live' = [Shows(res.word) EXCEPT !.loaded = loaded],
                 PageEnds(t, loaded)
          PROVE  EndStep(t, res)
      <3>1. ShowsWord(res.word)
        <4>1. \A r \in Lives : \A b \in BOOLEAN, v \in BOOLEAN :
                [[r EXCEPT !.out = b, !.valid = v] EXCEPT !.loaded = loaded].out = b
          BY DEF Lives
        <4>2. live \in Lives /\ (0 \in res.word) \in BOOLEAN /\ TRUE \in BOOLEAN
          BY DEF DataTypes
        <4>3. live'.out = (0 \in res.word)
          BY <2>3, <4>1, <4>2, Zenon DEF Shows
        <4> QED
          BY <4>3, Zenon DEF ShowsWord
      <3>2. \E pc \in {"Info", "End"} : Goes(t, pc)
        BY <2>3, PageEndsFacts
      <3> QED
        BY <2>1, <2>2, <3>1, <3>2, RoundEnds DEF WritePc
    <2>4. ASSUME live' = [live EXCEPT !.split = TRUE], Goes(t, "TlvStatus")
          PROVE  EndStep(t, res)
      <3>1. \A s : LET r == [live EXCEPT !.split = s]
                   IN  r.valid = live.valid /\ r.out = live.out
        BY DEF DataTypes, Lives
      <3>2. SameShown
        BY <2>4, <3>1, Zenon DEF SameShown
      <3> QED
        BY <2>1, <2>2, <2>4, <3>2, RoundEnds DEF WritePc
    <2> QED
      BY <2>1, <2>3, <2>4
  <1>8. CASE TlvStatusDone(t)
    <2>1. PICK res \in Results :
            /\ Ends(t, "TlvStatus", res)
            /\ live' = IF res # Err THEN Shows(res.word) ELSE live
      BY <1>8, Zenon DEF TlvStatusDone
    <2>2. /\ task[t].pc = "TlvStatus" /\ UNCHANGED <<cmds, dev>>
          /\ \E pc \in {"Info", "End"} : Goes(t, pc)
      BY <1>8, <2>1, PageEndsFacts DEF TlvStatusDone, Ends, At, ui
    <2>3. res # Err => ShowsWord(res.word)
      BY <2>1, ShowsFacts DEF DataTypes
    <2> QED
      BY <2>1, <2>2, <2>3, RoundEnds DEF WritePc
  <1>9. CASE SocDone(t)
    <2>1. PICK res \in Results :
            /\ Ends(t, "Soc", res)
            /\ Goes(t, "Out") \/ PageEnds(t, live.loaded)
      BY <1>9 DEF SocDone
    <2>2. task[t].pc = "Soc" /\ UNCHANGED <<cmds, dev>> /\ SameShown
      BY <1>9, <2>1 DEF SocDone, Ends, At, ui, SameShown
    <2>3. \E pc \in {"Out", "Info", "End"} : Goes(t, pc)
      BY <2>1, PageEndsFacts
    <2> QED
      BY <2>1, <2>2, <2>3, RoundEnds DEF WritePc
  <1>10. CASE OutDone(t)
    <2>1. PICK res \in Results :
            /\ Ends(t, "Out", res)
            /\ live' = Shows(IF res # Err THEN res.word ELSE {})
      BY <1>10, Zenon DEF OutDone
    <2>2. /\ task[t].pc = "Out" /\ UNCHANGED <<cmds, dev>>
          /\ \E pc \in {"Info", "End"} : Goes(t, pc)
      BY <1>10, <2>1, PageEndsFacts DEF OutDone, Ends, At, ui
    <2>3. res # Err => ShowsWord(res.word)
      BY <2>1, ShowsFacts DEF DataTypes
    <2> QED
      BY <2>1, <2>2, <2>3, RoundEnds DEF WritePc
  <1> QED
    BY <1>1, <1>2, <1>3, <1>4, <1>5, <1>6, <1>7, <1>8, <1>9, <1>10 DEF RoundStep

LEMMA WriterKinds ==
    ASSUME TypeInv, NEW w \in Writer, WriterStep(w)
    PROVE  MoveStep(w) \/ \E res \in Results : EndStep(w, res)
  <1> USE DEF TypeInv
  <1>1. w \in Task
    BY DEF Task
  <1>2. ASSUME NEW good, WriteEnds(w, good)
        PROVE  \E pc \in {"Round", "End"} : Goes(w, pc)
    BY <1>2 DEF WriteEnds, Releases
  <1>3. CASE WriterStarts(w)
    <2>1. At(w, "Start") /\ UNCHANGED <<cmds, dev, up, down, live, mishap>>
      BY <1>3 DEF WriterStarts, ui, air
    <2>2. ~Open(w)
      BY <1>1, <2>1, ClosedAt DEF At, RequestPc, GatePc
    <2>3. \E pc \in {"Toggle", "Modify"} :
            Goes(w, pc) /\ (pc = "Modify" => task[w].job.op # "Toggle")
      BY <1>3 DEF WriterStarts, Queues
    <2> QED
      BY <1>1, <2>1, <2>2, <2>3, GoesFacts DEF MoveStep, Alone, At
  <1>4. CASE ToggleDone(w)
    <2>1. PICK res \in Results :
            /\ Ends(w, "Toggle", res)
            /\ \/ res # Err /\ Goes(w, "ReadBack") /\ gate' = gate
               \/ res = Err /\ WriteEnds(w, FALSE)
      BY <1>4, Zenon DEF ToggleDone
    <2>2. task[w].pc = "Toggle" /\ UNCHANGED <<cmds, dev>> /\ SameShown
      BY <1>4, <2>1, Zenon DEF ToggleDone, Ends, At, SameShown
    <2>3. CASE res # Err /\ Goes(w, "ReadBack") /\ gate' = gate
      BY <1>1, <2>1, <2>2, <2>3, GoesFacts DEF EndStep, Alone
    <2>4. CASE res = Err /\ WriteEnds(w, FALSE)
      BY <1>1, <1>2, <2>1, <2>2, <2>4, GoesFacts DEF EndStep, Alone
    <2> QED
      BY <2>1, <2>3, <2>4
  <1>5. CASE ReadBackDone(w)
    <2>1. PICK res \in Results :
            /\ Ends(w, "ReadBack", res)
            /\ live' = IF res # Err THEN Shows(res.word)
                       ELSE [live EXCEPT !.out = task[w].job.on]
            /\ \E good : WriteEnds(w, good)
      BY <1>5, Zenon DEF ReadBackDone
    <2>2. task[w].pc = "ReadBack" /\ UNCHANGED <<cmds, dev>>
      BY <1>5, <2>1, Zenon DEF ReadBackDone, Ends, At
    <2>3. res # Err => ShowsWord(res.word)
      BY <2>1, ShowsFacts DEF DataTypes
    <2> QED
      BY <1>1, <1>2, <2>1, <2>2, <2>3, GoesFacts DEF EndStep, Alone
  <1>6. CASE ModifyDone(w)
    <2>1. PICK res \in Results :
            /\ Ends(w, "Modify", res)
            /\ \/ res # Err /\ Modifies(w, res.word) /\ gate' = gate
               \/ res = Err /\ WriteEnds(w, FALSE)
      BY <1>6, Zenon DEF ModifyDone
    <2>2. task[w].pc = "Modify" /\ UNCHANGED <<cmds, dev>> /\ SameShown
      BY <1>6, <2>1, Zenon DEF ModifyDone, Ends, At, SameShown
    <2>3. CASE res # Err /\ Modifies(w, res.word) /\ gate' = gate
      <3> DEFINE word == With(res.word, task[w].job.bit, task[w].job.on)
      <3>1. task[w] \in Tasks(w)
        BY <1>1 DEF Gate, TaskTypes
      <3>2. task' = [task EXCEPT ![w].pc = "Write", ![w].req = None, ![w].word = word]
        BY <2>3 DEF Modifies
      <3> HIDE DEF word
      <3>3. /\ task'[w] = [task[w] EXCEPT !.pc = "Write", !.req = None, !.word = word]
            /\ \A u \in Task \ {w} : task'[u] = task[u]
        BY <1>1, <3>2 DEF Gate
      <3>4. /\ task'[w].pc = "Write" /\ task'[w].req = None /\ task'[w].job = task[w].job
            /\ task'[w].word = word
        BY <3>1, <3>3 DEF Tasks
      <3> QED
        BY <2>1, <2>2, <2>3, <3>3, <3>4 DEF EndStep, Alone, word
    <2>4. CASE res = Err /\ WriteEnds(w, FALSE)
      BY <1>1, <1>2, <2>1, <2>2, <2>4, GoesFacts DEF EndStep, Alone
    <2> QED
      BY <2>1, <2>3, <2>4
  <1>7. CASE WriteDone(w)
    <2>1. PICK res \in Results : Ends(w, "Write", res) /\ \E good : WriteEnds(w, good)
      BY <1>7, Zenon DEF WriteDone
    <2>2. task[w].pc = "Write" /\ UNCHANGED <<cmds, dev>> /\ SameShown
      BY <1>7, <2>1, Zenon DEF WriteDone, Ends, At, SameShown
    <2> QED
      BY <1>1, <1>2, <2>1, <2>2, GoesFacts DEF EndStep, Alone
  <1> QED
    BY <1>3, <1>4, <1>5, <1>6, <1>7 DEF WriterStep

LEMMA OtaKinds ==
    ASSUME TypeInv, OtaStep
    PROVE  OtaTransfers \/ MoveStep("Ota") \/ \E res \in Results : EndStep("Ota", res)
  <1> USE DEF TypeInv
  <1>1. "Ota" \in Task
    BY DEF Task
  <1>2. CASE OtaStarts
    <2>1. /\ At("Ota", "Start") /\ Goes("Ota", "Transfer")
          /\ UNCHANGED <<cmds, dev, up, live>>
          /\ down' \in Cleared \/ down' = down
          /\ mishap' = IF down' # down THEN mishap \cup {"cleared"} ELSE mishap
      BY <1>2 DEF OtaStarts, Queues, ui
    <2>2. ~Open("Ota")
      BY <1>1, <2>1, ClosedAt DEF At, RequestPc, GatePc
    <2> QED
      BY <1>1, <2>1, <2>2, GoesFacts DEF MoveStep, Alone, At
  <1>3. CASE OtaTransferEnds
    <2>1. /\ At("Ota", "Transfer") /\ UNCHANGED <<cmds, dev, up, down, live, mishap>>
          /\ \E pc \in {"Over", "Dist"} : Goes("Ota", pc)
      BY <1>3 DEF OtaTransferEnds, Releases, ui, air
    <2>2. ~Open("Ota")
      BY <1>1, <2>1, ClosedAt DEF At, RequestPc, GatePc
    <2> QED
      BY <1>1, <2>1, <2>2, GoesOn DEF At, WritePc
  <1>4. CASE OtaReadsOn
    <2>1. PICK res \in Results : Ends("Ota", "Dist", res)
      BY <1>4 DEF OtaReadsOn
    <2>2. /\ task["Ota"].pc = "Dist" /\ Goes("Ota", "Dist") /\ UNCHANGED <<cmds, dev>>
          /\ SameShown
      BY <1>4, <2>1 DEF OtaReadsOn, Ends, At, ui, SameShown
    <2> QED
      BY <1>1, <2>1, <2>2, RoundEnds DEF WritePc
  <1>5. CASE OtaDistEnds
    <2>1. /\ At("Ota", "Dist") /\ ~Open("Ota") /\ Goes("Ota", "Over")
          /\ UNCHANGED <<cmds, dev, up, down, live, mishap>>
      BY <1>5 DEF OtaDistEnds, Releases, ui, air
    <2> QED
      BY <1>1, <2>1, GoesOn DEF At, WritePc
  <1>6. CASE OtaFinishes
    <2>1. /\ At("Ota", "Over") /\ Goes("Ota", "End")
          /\ UNCHANGED <<cmds, dev, up, down, live, mishap>>
      BY <1>6, Zenon DEF OtaFinishes, air
    <2>2. ~Open("Ota")
      BY <1>1, <2>1, ClosedAt DEF At, RequestPc, GatePc
    <2> QED
      BY <1>1, <2>1, <2>2, GoesOn DEF At, WritePc
  <1> QED
    BY <1>2, <1>3, <1>4, <1>5, <1>6 DEF OtaStep

LEMMA PollKinds ==
    ASSUME TypeInv, PollStep
    PROVE  MoveStep("Poll")
  <1>1. "Poll" \in Task /\ Gate
    BY DEF Task, TypeInv
  <1>2. /\ task["Poll"].pc \in {"End", "Sleep", "WakeOnly"}
        /\ UNCHANGED <<cmds, dev, up, down, live, mishap>>
    BY Zenon DEF PollStep, PollPauses, PollTimer, PollNotified, At, ui, air
  <1>3. \E pc \in {"End", "Round", "Sleep", "WakeOnly"} : Goes("Poll", pc)
    BY DEF PollStep, PollPauses, PollTimer, PollNotified, Resumes
  <1>4. ~Open("Poll")
    BY <1>1, <1>2, ClosedAt DEF RequestPc, GatePc
  <1> QED
    BY <1>1, <1>2, <1>3, <1>4, GoesOn DEF WritePc

LEMMA TaskKinds ==
    ASSUME TypeInv, NEW t \in Task, TaskStep(t)
    PROVE  \/ Send(t) \/ PassOver(t) \/ OtaTransfers
           \/ MoveStep(t) \/ \E res \in Results : EndStep(t, res)
  BY RoundKinds, WriterKinds, OtaKinds, PollKinds DEF TaskStep

\* Whoever holds the gate holds it through another task's step.
LEMMA HoldsOn ==
    ASSUME Gate, NEW t \in Task, GateStep(t), NEW u \in Task \ {t}, Holds(u)
    PROVE  Holds(u)'
  <1>1. gate \in Seq(Task) /\ gate # <<>> /\ Head(gate) = u
    BY DEF Gate, GateTypes, Holds
  <1>2. ~Holds(t)
    BY <1>1 DEF Holds
  <1>3. gate' = gate \/ gate' = Append(gate, t)
    BY <1>2 DEF GateStep, Keeps, Enters, Leaves, Rejoins
  <1>4. Head(Append(gate, t)) = Head(gate) /\ Append(gate, t) # <<>>
    BY <1>1
  <1> QED
    BY <1>1, <1>3, <1>4 DEF Holds

-----------------------------------------------------------------------------
(* Each kind of step keeps the invariant.                                  *)

\* What a step of t leaves true of the others.
LEMMA OthersKeep ==
    ASSUME Replies, NEW t \in Task, \A u \in Task \ {t} : task'[u] = task[u]
    PROVE  \A u \in Task \ {t} :
                /\ Open(u)' <=> Open(u)
                /\ Open(u)' => task'[u].req \in Requests(u)'
                /\ Toggling(u)' <=> Toggling(u)
  <1> SUFFICES ASSUME NEW u \in Task \ {t}
               PROVE  /\ Open(u)' <=> Open(u)
                      /\ Open(u)' => task'[u].req \in Requests(u)'
                      /\ Toggling(u)' <=> Toggling(u)
    OBVIOUS
  <1>1. task'[u] = task[u]
    OBVIOUS
  <1>2. Open(u)' <=> Open(u)
    BY <1>1 DEF Open
  <1>3. ASSUME Open(u) PROVE task'[u].req \in Requests(u)'
    <2>1. task[u].req \in Requests(u) /\ task[u].pc \in RequestPc
      BY <1>3 DEF Replies, Carries, TypeInv, Gate, OpenAt
    <2>2. task[u].pc # "Page"
      BY <2>1 DEF RequestPc
    <2>3. Here(u) = task[u].pc /\ Here(u)' = task[u].pc
      BY <1>1, <2>2 DEF Here, At
    <2> QED
      BY <1>1, <2>1, <2>3 DEF Requests
  <1> QED
    BY <1>1, <1>2, <1>3 DEF Toggling, At

LEMMA EndKeeps ==
    ASSUME Replies, NEW t \in Task, NEW res \in Results, EndStep(t, res),
           GateStep(t), TypeInv'
    PROVE  Replies' /\ mishap \subseteq mishap'
  <1>1. /\ Ends(t, task[t].pc, res) /\ Open(t) /\ ~Open(t)'
        /\ \A u \in Task \ {t} : task'[u] = task[u]
        /\ UNCHANGED <<cmds, dev>> /\ task'[t].job = task[t].job
    BY DEF EndStep, Alone, Ends, Open
  <1>2. mishap \subseteq mishap'
    BY <1>1 DEF Ends, Receives, TimesOut
  <1>3. Carries'
    BY <1>1, OthersKeep DEF Carries
  <1>4. StaysAtGate'
    <2>1. ASSUME task'[t].pc \in {"Write", "ReadBack"} PROVE Holds(t)'
      <3>1. task[t].pc \in {"Toggle", "Modify"} /\ gate' = gate
        BY <2>1 DEF EndStep
      <3>2. Holds(t)
        BY <1>1, <3>1 DEF Replies, TypeInv, Gate, OneOpen, At
      <3> QED
        BY <3>1, <3>2 DEF Holds
    <2>2. Gate
      BY DEF Replies, TypeInv
    <2> QED
      BY <1>1, <2>1, <2>2, HoldsOn DEF StaysAtGate, Replies
  <1>5. JobsFit'
    <2>1. ASSUME t \in Writer
          PROVE  /\ task'[t].pc # "Start"
                 /\ task'[t].pc \in {"Modify", "Write"} => task'[t].job.reg \in {"A", "B"}
      <3>1. task'[t].pc \notin {"Start", "Modify"}
        BY DEF EndStep
      <3>2. task'[t].pc = "Write" => task[t].pc = "Modify"
        BY DEF EndStep
      <3> QED
        BY <1>1, <2>1, <3>1, <3>2 DEF Replies, JobsFit
    <2>2. \A w \in Writer : w \in Task
      BY DEF Task
    <2> QED
      BY <1>1, <2>1, <2>2 DEF Replies, JobsFit
  <1>6. ASSUME Sound'
        PROVE  Quiet' /\ Ready' /\ (mishap' = {} => Answered' /\ Shown')
    <2>1. /\ Sound /\ \A u \in Task \ {t} : ~Open(u)
          /\ up' = <<>> /\ down' = <<>>
          /\ res # Err => Answers(res, task[t].req, dev)
          /\ mishap' = {} => res # Err
      <3>1. mishap' = {} => up # <<>> \/ down # <<>>
        BY <1>1, <1>2 DEF Replies, Answered
      <3> QED
        BY <1>1, <1>2, <1>6, <3>1, SoundEnd DEF Sound
    <2>2. \A u \in Task : ~Open(u)'
      BY <1>1, <2>1, OthersKeep
    <2>3. Quiet' /\ Answered'
      BY <2>1, <2>2 DEF Quiet, OneAsks, Answered
    <2>4. ASSUME At(t, "Write")' PROVE WordFits(t)'
      <3>1. /\ task[t].pc = "Modify" /\ res # Err
            /\ task'[t].word = With(res.word, task[t].job.bit, task[t].job.on)
        BY <2>4 DEF EndStep, At
      <3>2. task[t].req = Read(task[t].job.reg) /\ Answers(res, task[t].req, dev)
        BY <1>1, <2>1, <3>1, AskedAt
      <3>3. t \in Writer
        BY <3>1 DEF Replies, TypeInv, Gate, TaskTypes, Tasks, PcOf, RoundPc, PollPc, OtaPc, Task
      <3>4. task[t].job.reg \in {"A", "B"}
        BY <3>1, <3>3 DEF Replies, JobsFit
      <3>5. res.word = dev[task[t].job.reg]
        BY <3>2, <3>4 DEF Read, Frame, Answers
      <3> QED
        BY <1>1, <3>1, <3>5 DEF WordFits
    <2>5. Ready'
      BY <1>1, <2>1, <2>4 DEF Replies, Ready, At, WordFits
    <2>6. ASSUME mishap' = {} PROVE Shown'
      <3>1. res # Err /\ mishap = {}
        BY <1>2, <2>1, <2>6
      <3>2. CASE ShowsWord(res.word) /\ task[t].pc \in {"TlvPage", "TlvStatus", "Out", "ReadBack"}
        <4>1. \/ task[t].req = Read("Page")
              \/ task[t].req = Read("Out")
          BY <1>1, <3>2, AskedAt
        <4>2. res.word = dev["Out"]
          BY <2>1, <3>1, <4>1 DEF Read, Frame, Answers
        <4> QED
          BY <1>1, <3>2, <4>2 DEF ShowsWord, Shown
      <3>3. CASE SameShown /\ task[t].pc # "ReadBack"
        <4>1. Shown
          BY <3>1 DEF Replies
        <4>2. ASSUME NEW u \in Task, Toggling(u) PROVE Toggling(u)'
          <5>1. CASE u = t
            <6>1. task[t].pc = "Toggle"
              BY <3>3, <4>2, <5>1 DEF Toggling, At
            <6> QED
              BY <3>1, <5>1, <6>1 DEF EndStep, Toggling, At
          <5>2. CASE u # t
            BY <1>1, <4>2, <5>2, OthersKeep
          <5> QED
            BY <5>1, <5>2
        <4> QED
          BY <1>1, <3>3, <4>1, <4>2 DEF Shown, SameShown
      <3> QED
        BY <3>1, <3>2, <3>3 DEF EndStep
    <2> QED
      BY <2>3, <2>5, <2>6
  <1> QED
    BY <1>2, <1>3, <1>4, <1>5, <1>6 DEF Replies, Sound

\* Throwing replies away leaves the one reply, or none.
LEMMA ClearedQuiet ==
    ASSUME down \in Seq(Frames), down = <<>> \/ down = <<down[1]>>,
           NEW rest \in Cleared
    PROVE  rest = <<>> \/ rest = down
  <1>1. PICK n \in 1..Len(down) + 1 : rest = SubSeq(down, n, Len(down))
    BY DEF Cleared
  <1>2. CASE down = <<>>
    BY <1>1, <1>2
  <1>3. CASE down = <<down[1]>>
    <2>1. Len(down) = 1
      BY <1>3
    <2>2. n = 1 \/ n = 2
      BY <2>1
    <2> QED
      BY <1>1, <1>3, <2>1, <2>2
  <1> QED
    BY <1>2, <1>3

LEMMA MoveKeeps ==
    ASSUME Replies, NEW t \in Task, MoveStep(t), GateStep(t), TypeInv'
    PROVE  Replies' /\ mishap \subseteq mishap'
  <1>1. /\ ~Open(t) /\ ~Open(t)' /\ UNCHANGED <<cmds, dev, up, live>>
        /\ \A u \in Task \ {t} : task'[u] = task[u]
        /\ task'[t].job = task[t].job
    BY DEF MoveStep, Alone, Open
  <1>2. mishap \subseteq mishap' /\ (mishap' = {} => down' = down /\ mishap = {})
    BY DEF MoveStep
  <1>3. Carries'
    BY <1>1, OthersKeep DEF Carries
  <1>4. StaysAtGate'
    <2>1. task'[t].pc \notin {"Write", "ReadBack"} /\ Gate
      BY DEF MoveStep, Replies, TypeInv
    <2> QED
      BY <1>1, <2>1, HoldsOn DEF StaysAtGate, Replies
  <1>5. JobsFit'
    <2>1. ASSUME t \in Writer
          PROVE  /\ task'[t].pc # "Start"
                 /\ task'[t].pc \in {"Modify", "Write"} => task'[t].job.reg \in {"A", "B"}
      <3>1. task'[t].pc \notin {"Start", "Write"}
        BY DEF MoveStep
      <3>2. ASSUME task'[t].pc = "Modify" PROVE task[t].job.reg \in {"A", "B"}
        <4>1. task[t].pc = "Start" /\ task[t].job.op # "Toggle"
          BY <3>2 DEF MoveStep
        <4> QED
          BY <2>1, <4>1 DEF Replies, JobsFit, WriteJob, BitJob
      <3> QED
        BY <1>1, <3>1, <3>2
    <2>2. \A w \in Writer : w \in Task
      BY DEF Task
    <2> QED
      BY <1>1, <2>1, <2>2 DEF Replies, JobsFit
  <1>6. ASSUME Sound' PROVE Quiet' /\ Ready'
    <2>1. Sound /\ Quiet /\ Ready
      BY <1>2, <1>6 DEF Sound, Replies
    <2>2. down' = <<>> \/ down' = down
      <3>1. down = <<>> \/ down = <<down[1]>>
        BY <2>1 DEF Quiet
      <3>2. down \in Seq(Frames)
        BY DEF Replies, TypeInv, AirTypes
      <3> QED
        BY <3>1, <3>2, ClearedQuiet DEF MoveStep
    <2>3. OneAsks' /\ \A u \in Task : Open(u) => Open(u)' /\ task'[u] = task[u]
      BY <1>1, <2>1, OthersKeep DEF OneAsks, Quiet
    <2>4. Quiet'
      <3>1. up' # <<>> => \E u \in Task : Open(u)' /\ up[1] = task'[u].req
        BY <1>1, <2>1, <2>3 DEF Quiet
      <3>2. down' # <<>> => down' = down /\ \E u \in Task : Open(u)' /\ Answers(down[1], task'[u].req, dev)
        BY <2>1, <2>2, <2>3 DEF Quiet
      <3>3. up = <<>> \/ down' = <<>>
        BY <2>1, <2>2 DEF Quiet
      <3>4. (up # <<>> => up = <<up[1]>>) /\ (down # <<>> => down = <<down[1]>>)
        BY <2>1 DEF Quiet
      <3> QED
        BY <1>1, <2>3, <3>1, <3>2, <3>3, <3>4 DEF Quiet
    <2>5. Ready'
      <3>1. task'[t].pc # "Write"
        BY DEF MoveStep
      <3> QED
        BY <1>1, <2>1, <3>1 DEF Ready, At, WordFits
    <2> QED
      BY <2>4, <2>5
  <1>7. ASSUME mishap' = {} PROVE Answered' /\ Shown'
    <2>1. Answered /\ Shown /\ down' = down
      BY <1>2, <1>7 DEF Replies
    <2>2. ~Toggling(t)
      BY <1>1 DEF MoveStep, Toggling, At
    <2>3. Answered'
      BY <1>1, <2>1, OthersKeep DEF Answered
    <2>4. Shown'
      BY <1>1, <2>1, <2>2, OthersKeep DEF Shown
    <2> QED
      BY <2>3, <2>4
  <1> QED
    BY <1>2, <1>3, <1>4, <1>5, <1>6, <1>7 DEF Replies

\* While all is sound, whoever sends is alone and finds the air empty.
LEMMA SendKeeps ==
    ASSUME Replies, NEW t \in Task, Send(t), GateStep(t), TypeInv'
    PROVE  Replies' /\ mishap \subseteq mishap'
  <1> USE DEF TypeInv
  <1>1. Gate /\ task[t] \in Tasks(t)
    BY DEF Replies, Gate, TaskTypes
  <1>2. PICK req \in Requests(t) :
            task' = [task EXCEPT ![t].pc = Here(t), ![t].req = req] /\ up' = Append(up, req)
    BY DEF Send
  <1>3. req \in Frames /\ req \in Asks /\ req # None
    <2>1. req \in Asks
      BY <1>1, <1>2, RequestTypes
    <2> QED
      BY <2>1 DEF Asks, Frames, None, Frame
  <1>4. /\ task'[t] = [task[t] EXCEPT !.pc = Here(t), !.req = req]
        /\ \A u \in Task \ {t} : task'[u] = task[u]
    BY <1>1, <1>2 DEF Gate
  <1>5. /\ task'[t].pc = Here(t) /\ task'[t].req = req
        /\ task'[t].job = task[t].job /\ task'[t].word = task[t].word
    BY <1>1, <1>4 DEF Tasks
  <1>6. UNCHANGED <<cmds, dev, live, gate>> /\ down' \in Cleared /\ ~Open(t)
    BY DEF Send, ui
  <1>7. Here(t) # "Page" /\ (task[t].pc # "Page" => Here(t) = task[t].pc)
        /\ (task[t].pc = "Page" => Here(t) \in {"Soc", "TlvStatus", "TlvPage"})
    BY DEF Here, At
  <1>8. mishap \subseteq mishap'
    BY DEF Send
  <1>9. Carries'
    <2>1. Here(t)' = Here(t)
      BY <1>5, <1>7 DEF Here, At
    <2>2. req \in Requests(t)'
      BY <1>2, <1>5, <2>1 DEF Requests
    <2> QED
      BY <1>4, <1>5, <2>2, OthersKeep DEF Carries
  <1>10. StaysAtGate'
    <2>1. task'[t].pc \in {"Write", "ReadBack"} => task[t].pc = task'[t].pc
      BY <1>5, <1>7
    <2>2. \A u \in Task : Holds(u)' <=> Holds(u)
      BY <1>6 DEF Holds
    <2> QED
      BY <1>4, <2>1, <2>2 DEF StaysAtGate, Replies
  <1>11. JobsFit'
    <2>1. task'[t].pc \in {"Start", "Modify", "Write"} => task[t].pc = task'[t].pc
      BY <1>5, <1>7
    <2>2. JobsFit /\ cmds' = cmds /\ \A w \in Writer : w \in Task
      BY <1>6 DEF Replies, Task
    <2>3. ASSUME NEW w \in Writer
          PROVE  /\ task'[w].pc = "Start" => WriteJob(task'[w].job)
                 /\ task'[w].pc \in {"Modify", "Write"} => task'[w].job.reg \in {"A", "B"}
      <3>1. CASE w = t
        BY <1>5, <2>1, <2>2, <3>1 DEF JobsFit
      <3>2. CASE w # t
        BY <1>4, <2>2, <3>2 DEF JobsFit
      <3> QED
        BY <3>1, <3>2
    <2> QED
      BY <2>2, <2>3 DEF JobsFit
  <1>12. ASSUME Sound'
         PROVE  /\ Sound /\ \A u \in Task \ {t} : ~Open(u)
                /\ up' = <<req>> /\ down' = <<>>
    <2>1. Sound /\ Quiet
      BY <1>8, <1>12 DEF Sound, Replies
    <2>2. ASSUME NEW u \in Task \ {t}, Open(u) PROVE FALSE
      <3>1. "Ota" \notin {t, u}
        BY <1>12, <2>2 DEF Send, Sound
      <3>2. Holds(u)
        BY <1>1, <2>2, <3>1 DEF Gate, OneOpen
      <3>3. task[t].pc # "Dist"
        BY <1>1, <3>1 DEF Tasks, PcOf, RoundPc, WriterPc, PollPc
      <3>4. Holds(t)
        BY <3>3 DEF Send, MayUse, At
      <3> QED
        BY <2>2, <3>2, <3>4 DEF Holds
    <2>3. \A u \in Task : ~Open(u)
      BY <1>6, <2>2
    <2>4. up = <<>> /\ down = <<>>
      BY <2>1, <2>3 DEF Quiet
    <2>5. up' = <<req>>
      BY <1>2, <2>4
    <2>6. down' = <<>>
      <3>1. down \in Seq(Frames)
        BY DEF Replies, AirTypes
      <3> QED
        BY <1>6, <2>4, <3>1, ClearedQuiet
    <2> QED
      BY <2>1, <2>2, <2>5, <2>6
  <1>13. Open(t)'
    BY <1>3, <1>5 DEF Open
  <1>14. ASSUME Sound' PROVE Quiet' /\ Ready'
    <2>1. Quiet'
      <3>1. OneAsks'
        BY <1>4, <1>12, <1>14, OthersKeep DEF OneAsks
      <3>2. up' = <<up'[1]>> /\ up'[1] = task'[t].req
        BY <1>5, <1>12, <1>14
      <3> QED
        BY <1>12, <1>13, <1>14, <3>1, <3>2 DEF Quiet
    <2>2. Ready'
      <3>1. Ready
        BY <1>12, <1>14 DEF Replies
      <3>2. task'[t].pc = "Write" => task[t].pc = "Write"
        BY <1>5, <1>7
      <3> QED
        BY <1>4, <1>5, <1>6, <3>1, <3>2 DEF Ready, At, WordFits
    <2> QED
      BY <2>1, <2>2
  <1>15. ASSUME mishap' = {} PROVE Answered' /\ Shown'
    <2>1. Answered /\ Shown /\ Sound'
      BY <1>8, <1>15 DEF Replies, Sound
    <2>2. Answered'
      BY <1>12, <2>1 DEF Answered
    <2>3. \A u \in Task : Toggling(u) => Toggling(u)'
      <3>1. Toggling(t) => Toggling(t)'
        BY <1>5, <1>6, <1>7 DEF Toggling, At
      <3> QED
        BY <1>4, <3>1, OthersKeep
    <2>4. Shown'
      BY <1>6, <2>1, <2>3 DEF Shown
    <2> QED
      BY <2>2, <2>4
  <1> QED
    BY <1>8, <1>9, <1>10, <1>11, <1>14, <1>15 DEF Replies

\* A step that leaves the tasks and their jobs alone.
LEMMA TasksStay ==
    ASSUME Replies, UNCHANGED <<cmds, gate, task>>
    PROVE  /\ Carries' /\ StaysAtGate' /\ JobsFit'
           /\ \A t \in Task : (Open(t)' <=> Open(t)) /\ (Toggling(t)' <=> Toggling(t))
  <1>1. ASSUME NEW t \in Task, Open(t) PROVE task[t].req \in Requests(t)'
    <2>1. task[t].req \in Requests(t) /\ task[t].pc \in RequestPc
      BY <1>1 DEF Replies, Carries, TypeInv, Gate, OpenAt
    <2>2. Here(t) = task[t].pc /\ Here(t)' = task[t].pc
      BY <2>1 DEF Here, At, RequestPc
    <2> QED
      BY <2>1, <2>2 DEF Requests
  <1>2. Carries'
    BY <1>1 DEF Carries, Open
  <1>3. StaysAtGate' /\ JobsFit'
    BY DEF Replies, StaysAtGate, JobsFit, Holds
  <1> QED
    BY <1>2, <1>3 DEF Open, Toggling, At

\* While all is sound nobody takes a reply that is not his: the others pass
\* over none, and the transfer finds none.
LEMMA TakenKeeps ==
    ASSUME Replies, NEW t \in Task, PassOver(t) \/ OtaTransfers, TypeInv'
    PROVE  Replies' /\ mishap \subseteq mishap'
  <1>1. UNCHANGED <<cmds, gate, task, mishap>> /\ down # <<>>
    BY DEF PassOver, OtaTransfers, ui
  <1>2. ~Sound
    <2> SUFFICES ASSUME Sound PROVE FALSE
      OBVIOUS
    <2>1. PICK u \in Task : Open(u) /\ Answers(down[1], task[u].req, dev)
      BY <1>1 DEF Replies, Quiet
    <2>2. CASE PassOver(t)
      <3>1. u = t
        BY <2>1, <2>2 DEF Replies, Quiet, OneAsks, PassOver
      <3> QED
        BY <2>1, <2>2, <3>1 DEF PassOver, Answers
    <2>3. CASE OtaTransfers
      <3>1. Holds("Ota") /\ task["Ota"].pc = "Transfer"
        BY <2>3 DEF OtaTransfers, At
      <3>2. u # "Ota"
        BY <2>1, <3>1 DEF Replies, TypeInv, Gate, OpenAt, RequestPc
      <3>3. Holds(u)
        BY <2>1, <3>2 DEF Replies, TypeInv, Gate, OneOpen
      <3> QED
        BY <3>1, <3>2, <3>3 DEF Holds
    <2> QED
      BY <2>2, <2>3
  <1>3. ~Sound' /\ mishap' # {}
    BY <1>1, <1>2 DEF Sound
  <1> QED
    BY <1>1, <1>3, TasksStay DEF Replies

LEMMA LostKeeps ==
    ASSUME Replies, WriteFails, TypeInv'
    PROVE  Replies' /\ mishap \subseteq mishap'
  <1>1. /\ UNCHANGED <<cmds, gate, task, down, live, dev>>
        /\ up # <<>> /\ up' = Tail(up) /\ mishap' = mishap \cup {"lost"}
    BY DEF WriteFails, ui
  <1>2. ASSUME Sound' PROVE Quiet' /\ Ready'
    <2>1. Quiet /\ Ready
      BY <1>1, <1>2 DEF Sound, Replies
    <2>2. PICK r : up = <<r>> /\ down = <<>>
      BY <1>1, <2>1 DEF Quiet
    <2>3. up' = <<>> /\ down' = <<>>
      BY <1>1, <2>2
    <2>4. OneAsks'
      BY <1>1, <2>1, TasksStay DEF Quiet, OneAsks
    <2> QED
      BY <1>1, <2>1, <2>3, <2>4 DEF Quiet, Ready, At, WordFits
  <1> QED
    BY <1>1, <1>2, TasksStay DEF Replies

\* The device answers the one request there is, and what a write in progress
\* is about to write, or has shown, is not changed by another's.
LEMMA ServedKeeps ==
    ASSUME Replies, DeviceServes, TypeInv'
    PROVE  Replies' /\ mishap \subseteq mishap'
  <1>1. /\ UNCHANGED <<cmds, gate, task, live, mishap>>
        /\ up # <<>> /\ up' = Tail(up) /\ down' = Append(down, Reply(Head(up)))
        /\ dev' = IF Head(up).func = "06"
                  THEN [dev EXCEPT ![Head(up).reg] = Head(up).word] ELSE dev
    BY DEF DeviceServes, ui
  <1>2. SUFFICES ASSUME Sound PROVE Quiet' /\ Ready' /\ (mishap = {} => Answered' /\ Shown')
    BY <1>1, TasksStay DEF Replies, Sound
  <1>3. /\ Quiet /\ Ready /\ up = <<up[1]>> /\ down = <<>>
    BY <1>1, <1>2 DEF Replies, Quiet
  <1>4. PICK t \in Task : Open(t) /\ up[1] = task[t].req
    BY <1>1, <1>3 DEF Quiet
  <1> DEFINE req == task[t].req
  <1>5. /\ req \in Asks /\ req \in Frames
        /\ task[t].pc = "Write" => req = Write(task[t].job.reg, task[t].word)
        /\ req.func = "06" => task[t].pc \in {"Write", "Toggle"}
        /\ task[t].pc = "Toggle" => req.reg = "Out"
        /\ req.func = "TLV" => req.reg = "Page"
    BY <1>2, <1>4, AskedAt
  <1>6. Head(up) = req
    BY <1>3, <1>4
  <1> HIDE DEF req
  <1>7. up' = <<>> /\ down' = <<Reply(req)>>
    <2>1. up' = <<>>
      <3>1. PICK r : up = <<r>>
        BY <1>3
      <3> QED
        BY <1>1, <3>1
    <2>2. down' = <<Reply(req)>>
      BY <1>1, <1>3, <1>6
    <2> QED
      BY <2>1, <2>2
  <1>8. dev \in [Reg -> SUBSET Bits]
    BY DEF Replies, TypeInv, DataTypes
  <1>9. Answers(Reply(req), req, dev')
    <2>1. CASE req.func = "03"
      BY <1>1, <1>6, <2>1 DEF Answers, Reply, Frame
    <2>2. CASE req.func = "TLV"
      BY <1>1, <1>5, <1>6, <2>2 DEF Answers, Reply, Frame
    <2>3. CASE req.func = "06"
      BY <2>3 DEF Answers, Reply
    <2> QED
      BY <1>5, <2>1, <2>2, <2>3 DEF Asks
  <1>10. Quiet' /\ Answered'
    <2>1. OneAsks'
      BY <1>1, <1>3, TasksStay DEF Quiet, OneAsks
    <2>2. Open(t)' /\ task'[t].req = req
      BY <1>1, <1>4, TasksStay DEF req
    <2>3. down'[1] = Reply(req) /\ down' # <<>>
      BY <1>7
    <2> QED
      BY <1>7, <1>9, <2>1, <2>2, <2>3 DEF Quiet, Answered
  <1>11. Ready'
    <2> SUFFICES ASSUME NEW u \in Task, At(u, "Write") PROVE WordFits(u)'
      BY <1>1 DEF Ready, At
    <2>1. WordFits(u)
      BY <1>3 DEF Ready
    <2>2. CASE dev'[task[u].job.reg] = dev[task[u].job.reg]
      BY <1>1, <2>1, <2>2 DEF WordFits
    <2>3. CASE dev'[task[u].job.reg] # dev[task[u].job.reg]
      <3>1. Head(up).func = "06" /\ Head(up).reg = task[u].job.reg
        BY <1>1, <1>8, <2>3
      <3>2. u \in Writer
        BY DEF Replies, TypeInv, Gate, TaskTypes, Tasks, PcOf, RoundPc, PollPc, OtaPc, Task, At
      <3>3. task[u].job.reg \in {"A", "B"}
        BY <3>2 DEF Replies, JobsFit, At
      <3>4. task[t].pc = "Write"
        BY <1>5, <1>6, <3>1, <3>3
      <3>5. Holds(t) /\ Holds(u)
        BY <3>4 DEF Replies, StaysAtGate, At
      <3>6. u = t
        BY <3>5 DEF Holds
      <3>7. Head(up).word = task[t].word
        BY <1>5, <1>6, <3>4 DEF Write, Frame
      <3>8. dev'[task[u].job.reg] = task[u].word
        BY <1>1, <1>8, <3>1, <3>3, <3>6, <3>7 DEF Reg
      <3>9. With(With(dev[task[u].job.reg], task[u].job.bit, task[u].job.on),
                 task[u].job.bit, task[u].job.on)
            = With(dev[task[u].job.reg], task[u].job.bit, task[u].job.on)
        BY DEF With
      <3> QED
        BY <1>1, <2>1, <3>8, <3>9 DEF WordFits
    <2> QED
      BY <2>2, <2>3
  <1>12. ASSUME mishap = {} PROVE Shown'
    <2>1. Shown
      BY <1>12 DEF Replies
    <2>2. CASE dev'["Out"] = dev["Out"]
      BY <1>1, <2>1, <2>2, TasksStay DEF Shown
    <2>3. CASE dev'["Out"] # dev["Out"]
      <3>1. Head(up).func = "06" /\ Head(up).reg = "Out"
        BY <1>1, <1>8, <2>3
      <3>2. task[t].pc # "Write"
        <4> SUFFICES ASSUME task[t].pc = "Write" PROVE FALSE
          OBVIOUS
        <4>1. t \in Writer
          BY DEF Replies, TypeInv, Gate, TaskTypes, Tasks, PcOf, RoundPc, PollPc, OtaPc, Task
        <4>2. task[t].job.reg \in {"A", "B"}
          BY <4>1 DEF Replies, JobsFit
        <4> QED
          BY <1>5, <1>6, <3>1, <4>2 DEF Write, Frame
      <3>3. Toggling(t)
        BY <1>4, <1>5, <1>6, <3>1, <3>2 DEF Toggling, At
      <3> QED
        BY <1>1, <3>3, TasksStay DEF Shown
    <2> QED
      BY <2>2, <2>3
  <1> QED
    BY <1>10, <1>11, <1>12

\* What is open, asked and shown stays, whatever the worker is sent.
LEMMA StillKeeps ==
    ASSUME Replies, TypeInv', JobsFit', UNCHANGED <<gate, task, up, down, live, dev, mishap>>
    PROVE  Replies' /\ mishap \subseteq mishap'
  <1>1. \A t \in Task : (Open(t)' <=> Open(t)) /\ (Toggling(t)' <=> Toggling(t))
    BY DEF Open, Toggling, At
  <1>2. Carries'
    <2> SUFFICES ASSUME NEW t \in Task, Open(t) PROVE task[t].req \in Requests(t)'
      BY <1>1 DEF Carries
    <2>1. task[t].req \in Requests(t) /\ Here(t)' = Here(t)
      BY DEF Replies, Carries, Here, At
    <2> QED
      BY <2>1 DEF Requests
  <1>3. StaysAtGate'
    BY DEF Replies, StaysAtGate, Holds
  <1>4. Sound' => Quiet' /\ Ready'
    <2> SUFFICES ASSUME Sound' PROVE Quiet' /\ Ready'
      OBVIOUS
    <2>1. Quiet /\ Ready
      BY DEF Replies, Sound
    <2>2. Quiet'
      BY <1>1, <2>1 DEF Quiet, OneAsks
    <2>3. Ready'
      BY <2>1 DEF Ready, At, WordFits
    <2> QED
      BY <2>2, <2>3
  <1>5. mishap' = {} => Answered' /\ Shown'
    BY <1>1 DEF Replies, Answered, Shown
  <1> QED
    BY <1>2, <1>3, <1>4, <1>5 DEF Replies

LEMMA UserKeeps ==
    ASSUME Replies, UserStep, TypeInv'
    PROVE  Replies' /\ mishap \subseteq mishap'
  <1>1. UNCHANGED <<gate, task, up, down, live, dev, mishap>>
    BY DEF UserStep, UiToggle, UiWriteBit, UiStartOta, air
  <1>2. PICK job : cmds' = Append(cmds, job) /\ BitJob(job)
    <2>1. CASE UiToggle
      <3>1. \A on : BitJob(ToggleTo(on))
        BY DEF ToggleTo, Job, BitJob
      <3> QED
        BY <2>1, <3>1 DEF UiToggle
    <2>2. CASE UiWriteBit
      <3>1. \A job \in BitWrites : BitJob(job)
        BY ModbusLinkAssumption DEF BitJob
      <3> QED
        BY <2>2, <3>1 DEF UiWriteBit
    <2>3. CASE UiStartOta
      <3>1. ASSUME NEW kind \in OtaJobs PROVE BitJob(OtaJob(kind))
        <4>1. \A b : Job(kind, "Dist", 0, b).op = kind
          BY DEF Job
        <4>2. OtaJob(kind).op = kind
          BY <4>1, Zenon DEF OtaJob
        <4> QED
          BY <4>2, ModbusLinkAssumption DEF BitJob
      <3>2. \E kind \in OtaJobs : cmds' = Append(cmds, OtaJob(kind))
        BY <2>3 DEF UiStartOta
      <3> QED
        BY <3>1, <3>2
    <2> QED
      BY <2>1, <2>2, <2>3 DEF UserStep
  <1>3. cmds \in Seq(Jobs)
    BY DEF Replies, TypeInv, UiTypes
  <1>4. \A i \in DOMAIN cmds' : cmds'[i] = job \/ (i \in DOMAIN cmds /\ cmds'[i] = cmds[i])
    BY <1>2, <1>3
  <1>5. JobsFit'
    BY <1>1, <1>2, <1>4 DEF Replies, JobsFit
  <1> QED
    BY <1>1, <1>5, StillKeeps

\* A task that the worker starts has a job it can do, and nothing open.
LEMMA WorkerKeeps ==
    ASSUME Replies, WorkerStep, TypeInv'
    PROVE  Replies' /\ mishap \subseteq mishap'
  <1>1. UNCHANGED <<gate, up, down, live, dev, mishap>>
    BY DEF WorkerStep, WorkerTakesWrite, WorkerTakesOta, air
  <1>2. cmds \in Seq(Jobs) /\ cmds # <<>> /\ cmds' = Tail(cmds)
    BY DEF WorkerStep, WorkerTakesWrite, WorkerTakesOta, Writes, Replies, TypeInv, UiTypes
  <1>3. \A i \in DOMAIN cmds' : i + 1 \in DOMAIN cmds /\ cmds'[i] = cmds[i + 1]
    BY <1>2
  <1>4. \A i \in DOMAIN cmds' : BitJob(cmds'[i])
    BY <1>3 DEF Replies, JobsFit
  <1>5. CASE task' = task
    <2>1. JobsFit'
      BY <1>4, <1>5 DEF Replies, JobsFit
    <2> QED
      BY <1>1, <1>5, <2>1, StillKeeps
  <1>6. ASSUME NEW t \in Task, At(t, "Idle"), t \in Writer => WriteJob(Head(cmds)),
               task' = [task EXCEPT ![t].pc = "Start", ![t].job = Head(cmds)]
        PROVE  Replies' /\ mishap \subseteq mishap'
    <2>1. task[t] \in Tasks(t) /\ ~Open(t) /\ Gate
      BY <1>6 DEF Replies, TypeInv, Gate, TaskTypes, OpenAt, RequestPc, GatePc, At
    <2>2. /\ task'[t] = [task[t] EXCEPT !.pc = "Start", !.job = Head(cmds)]
          /\ \A u \in Task \ {t} : task'[u] = task[u]
      BY <1>6, <2>1 DEF Gate
    <2>3. /\ task'[t].pc = "Start" /\ task'[t].job = Head(cmds)
          /\ task'[t].req = task[t].req
      BY <2>1, <2>2 DEF Tasks
    <2>4. ~Open(t)' /\ ~Toggling(t) /\ ~Toggling(t)'
      BY <1>6, <2>1, <2>3 DEF Open, Toggling, At
    <2>5. Carries'
      BY <2>2, <2>4, OthersKeep DEF Carries
    <2>6. StaysAtGate'
      <3>1. \A u \in Task : Holds(u)' <=> Holds(u)
        BY <1>1 DEF Holds
      <3> QED
        BY <2>2, <2>3, <3>1 DEF Replies, StaysAtGate
    <2>7. JobsFit'
      <3>1. \A w \in Writer : w \in Task
        BY DEF Task
      <3> QED
        BY <1>4, <1>6, <2>2, <2>3, <3>1 DEF Replies, JobsFit
    <2>8. ASSUME Sound' PROVE Quiet' /\ Ready'
      <3>1. Quiet /\ Ready
        BY <1>1, <2>8 DEF Replies, Sound
      <3>2. \A u \in Task : (Open(u)' <=> Open(u)) /\ (Open(u) => task'[u] = task[u])
        BY <2>1, <2>2, <2>4, OthersKeep
      <3>3. Quiet'
        BY <1>1, <3>1, <3>2 DEF Quiet, OneAsks
      <3>4. Ready'
        BY <1>1, <2>2, <2>3, <3>1 DEF Ready, At, WordFits
      <3> QED
        BY <3>3, <3>4
    <2>9. ASSUME mishap' = {} PROVE Answered' /\ Shown'
      <3>1. Answered /\ Shown
        BY <1>1, <2>9 DEF Replies
      <3>2. \A u \in Task : (Open(u)' <=> Open(u)) /\ (Toggling(u)' <=> Toggling(u))
        BY <2>1, <2>2, <2>4, OthersKeep
      <3> QED
        BY <1>1, <3>1, <3>2 DEF Answered, Shown
    <2> QED
      BY <1>1, <2>5, <2>6, <2>7, <2>8, <2>9 DEF Replies
  <1>7. CASE WorkerTakesWrite
    <2>1. WriteJob(Head(cmds))
      <3>1. 1 \in DOMAIN cmds /\ Head(cmds) = cmds[1] /\ cmds[1].op \in {"Toggle", "Bit"}
        BY <1>2, <1>7 DEF WorkerTakesWrite, Writes
      <3> QED
        BY <3>1 DEF WriteJob, Replies, JobsFit
    <2>2. CASE busy
      BY <1>5, <1>7, <2>2 DEF WorkerTakesWrite
    <2>3. CASE ~busy
      <3>1. PICK w \in Fresh : task' = [task EXCEPT ![w].pc = "Start", ![w].job = Head(cmds)]
        BY <1>7, <2>3 DEF WorkerTakesWrite
      <3> QED
        BY <1>6, <2>1, <3>1 DEF Fresh, Task
    <2> QED
      BY <2>2, <2>3
  <1>8. CASE WorkerTakesOta
    <2>1. 1 \in DOMAIN cmds /\ IsUpgrade(cmds[1])
      BY <1>2, <1>8 DEF WorkerTakesOta, Writes, IsUpgrade
    <2>2. At("Ota", "Idle")
      BY <2>1 DEF Replies, TypeInv, OneUpgrade
    <2>3. "Ota" \in Task /\ "Ota" \notin Writer
      BY ModbusLinkAssumption DEF Task
    <2> QED
      BY <1>6, <1>8, <2>2, <2>3 DEF WorkerTakesOta
  <1> QED
    BY <1>7, <1>8 DEF WorkerStep

-----------------------------------------------------------------------------
(* The theorems.                                                           *)

LEMMA RepliesInit == Init => Replies
  <1> SUFFICES ASSUME Init PROVE Replies
    OBVIOUS
  <1>1. TypeInv
    BY TypeInit
  <1>2. cmds = <<>> /\ up = <<>> /\ down = <<>> /\ mishap = {}
    BY DEF Init
  <1>3. \A t \in Task : ~Open(t) /\ task[t].pc \in {"Round", "Idle"}
    <2>1. NewTask.req = None /\ NewTask.pc = "Idle"
      BY DEF NewTask
    <2>2. LET r == [NewTask EXCEPT !.pc = "Round"] IN r.req = None /\ r.pc = "Round"
      BY <2>1, NewTaskType DEF NewTasks
    <2>3. \A t \in Task : task[t] = IF t = "Poll" THEN [NewTask EXCEPT !.pc = "Round"]
                                    ELSE NewTask
      BY DEF Init
    <2> QED
      BY <2>1, <2>2, <2>3 DEF Open
  <1>4. ~live.valid
    BY Zenon DEF Init
  <1>5. Carries /\ StaysAtGate /\ Quiet /\ Ready /\ Answered
    BY <1>2, <1>3 DEF Carries, StaysAtGate, Quiet, OneAsks, Ready, At, Answered
  <1>6. JobsFit
    BY <1>2, <1>3 DEF JobsFit, Task
  <1> QED
    BY <1>1, <1>4, <1>5, <1>6 DEF Replies, Shown

LEMMA RepliesNext == Replies /\ [Next]_vars => Replies' /\ mishap \subseteq mishap'
  <1> SUFFICES ASSUME Replies, [Next]_vars PROVE Replies' /\ mishap \subseteq mishap'
    OBVIOUS
  <1>1. TypeInv /\ TypeInv'
    BY TypeNext DEF Replies
  <1>2. CASE UserStep
    BY <1>1, <1>2, UserKeeps
  <1>3. CASE WorkerStep
    BY <1>1, <1>3, WorkerKeeps
  <1>4. CASE DeviceServes
    BY <1>1, <1>4, ServedKeeps
  <1>5. CASE WriteFails
    BY <1>1, <1>5, LostKeeps
  <1>6. ASSUME NEW t \in Task, TaskStep(t) PROVE Replies' /\ mishap \subseteq mishap'
    <2>1. GateStep(t) /\ ("Ota" \in Task)
      BY <1>1, <1>6, TaskGate DEF Task
    <2>2. \/ Send(t) \/ PassOver(t) \/ OtaTransfers
          \/ MoveStep(t) \/ \E res \in Results : EndStep(t, res)
      BY <1>1, <1>6, TaskKinds
    <2> QED
      BY <1>1, <2>1, <2>2, SendKeeps, TakenKeeps, MoveKeeps, EndKeeps
  <1>7. CASE UNCHANGED vars
    <2>1. UNCHANGED <<cmds, gate, task, up, down, live, dev, mishap>>
      BY <1>7 DEF vars, air, ui
    <2>2. JobsFit'
      BY <2>1 DEF Replies, JobsFit
    <2> QED
      BY <1>1, <2>1, <2>2, StillKeeps
  <1> QED
    BY <1>2, <1>3, <1>4, <1>5, <1>6, <1>7 DEF Next

LEMMA RepliesInvariant == Spec => []Replies
  BY RepliesInit, RepliesNext, PTL DEF Spec

\* A request is closed by the end of its transaction, and by nothing else.
LEMMA ClosedByEnd ==
    ASSUME Replies, [Next]_vars, NEW t \in Task, Open(t), ~Open(t)'
    PROVE  \E res \in Results : Ends(t, task[t].pc, res)
  <1>1. TypeInv /\ task'[t] # task[t]
    BY DEF Replies, Open
  <1>2. ~UserStep /\ ~DeviceServes /\ ~WriteFails /\ ~UNCHANGED vars
    BY <1>1 DEF UserStep, UiToggle, UiWriteBit, UiStartOta, DeviceServes, WriteFails, vars
  <1>3. ~WorkerStep
    <2> SUFFICES ASSUME WorkerStep PROVE FALSE
      OBVIOUS
    <2>1. task[t].pc # "Idle"
      BY DEF Replies, TypeInv, Gate, OpenAt, RequestPc, GatePc
    <2>2. CASE WorkerTakesWrite
      <3>1. PICK w \in Fresh : task' = [task EXCEPT ![w].pc = "Start", ![w].job = Head(cmds)]
        BY <1>1, <2>2 DEF WorkerTakesWrite
      <3>2. w = t
        BY <1>1, <3>1 DEF TypeInv, Gate
      <3> QED
        BY <2>1, <3>1, <3>2 DEF Fresh, At
    <2>3. CASE WorkerTakesOta
      <3>1. 1 \in DOMAIN cmds /\ IsUpgrade(cmds[1])
        BY <1>1, <2>3 DEF WorkerTakesOta, Writes, IsUpgrade, TypeInv, UiTypes
      <3>2. At("Ota", "Idle")
        BY <1>1, <3>1 DEF TypeInv, OneUpgrade
      <3>3. t = "Ota"
        BY <1>1, <2>3 DEF WorkerTakesOta, TypeInv, Gate
      <3> QED
        BY <2>1, <3>2, <3>3 DEF At
    <2> QED
      BY <2>2, <2>3 DEF WorkerStep
  <1>4. PICK u \in Task : TaskStep(u)
    BY <1>2, <1>3 DEF Next
  <1>5. ~PassOver(u) /\ ~OtaTransfers
    BY <1>1 DEF PassOver, OtaTransfers
  <1>6. ~Send(u)
    <2> SUFFICES ASSUME Send(u) PROVE FALSE
      OBVIOUS
    <2>1. ~Open(u)
      BY DEF Send
    <2> QED
      BY <1>1, <2>1 DEF Send, TypeInv, Gate
  <1>7. ~MoveStep(u)
    BY <1>1 DEF MoveStep, Alone
  <1>8. PICK res \in Results : EndStep(u, res)
    BY <1>1, <1>4, <1>5, <1>6, <1>7, TaskKinds
  <1>9. u = t
    BY <1>1, <1>8 DEF EndStep, Alone
  <1> QED
    BY <1>8, <1>9 DEF EndStep

\* While no reply has come after its deadline and no distribution read has run
\* beside another transaction, with any number of writes: the one reply on the
\* way is to the one request that is open.
THEOREM RepliesCorrect == Spec => ReplyAnswersRequest
  <1> DEFINE OwnReply ==
        mishap' \cap {"late", "clash"} = {} =>
            \A t \in Task :
                Open(t) /\ ~Open(t)' /\ down' # down /\ Accepts(task[t].req, Head(down))
                    => Head(down).reg = task[t].req.reg
  <1>1. Replies /\ [Next]_vars => OwnReply
    <2> SUFFICES ASSUME Replies, [Next]_vars, mishap' \cap {"late", "clash"} = {},
                        NEW t \in Task, Open(t), ~Open(t)', down' # down
                 PROVE  Head(down).reg = task[t].req.reg
      OBVIOUS
    <2>1. mishap \subseteq mishap'
      BY RepliesNext
    <2>2. PICK res \in Results : Ends(t, task[t].pc, res)
      BY ClosedByEnd
    <2> QED
      BY <2>1, <2>2, SoundEnd
  <1> QED
    BY <1>1, RepliesInvariant, PTL DEF Spec, ReplyAnswersRequest

\* With any number of bit writes at once, polling and an upgrade, a bit write
\* changes no other bit of its register, as far as no reply is late and no
\* distribution read interferes: the word it writes is the register's, but for
\* its bit, from the reply it was made of to the write.
THEOREM BitWritesCorrect == Spec => BitWritesAreAtomic
  <1> DEFINE Atomic ==
        mishap \cap {"late", "clash"} = {} =>
            \A reg \in {"A", "B"}, bit \in Bits :
                (bit \in dev[reg]) # (bit \in dev'[reg]) => Asked(reg, bit, dev'[reg])
  <1>1. Replies /\ [Next]_vars => Atomic
    <2> SUFFICES ASSUME Replies, [Next]_vars, Sound,
                        NEW reg \in {"A", "B"}, NEW bit \in Bits,
                        (bit \in dev[reg]) # (bit \in dev'[reg])
                 PROVE  Asked(reg, bit, dev'[reg])
      BY DEF Sound
    <2>1. dev' # dev /\ dev'[reg] # dev[reg]
      OBVIOUS
    <2>2. DeviceServes
      <3>1. ~UserStep /\ ~WorkerStep /\ ~WriteFails /\ ~UNCHANGED vars
        BY <2>1 DEF UserStep, UiToggle, UiWriteBit, UiStartOta, WorkerStep,
            WorkerTakesWrite, WorkerTakesOta, WriteFails, vars
      <3>2. ASSUME NEW u \in Task, TaskStep(u) PROVE FALSE
        <4>1. \/ Send(u) \/ PassOver(u) \/ OtaTransfers
              \/ MoveStep(u) \/ \E res \in Results : EndStep(u, res)
          BY <3>2, TaskKinds DEF Replies
        <4> QED
          BY <2>1, <4>1 DEF Send, PassOver, OtaTransfers, MoveStep, EndStep, Alone
      <3> QED
        BY <3>1, <3>2 DEF Next
    <2>3. /\ up # <<>> /\ task' = task
          /\ dev' = IF Head(up).func = "06"
                    THEN [dev EXCEPT ![Head(up).reg] = Head(up).word] ELSE dev
      BY <2>2 DEF DeviceServes
    <2>4. dev \in [Reg -> SUBSET Bits] /\ reg \in Reg
      BY DEF Replies, TypeInv, DataTypes, Reg
    <2>5. Head(up).func = "06" /\ Head(up).reg = reg /\ dev'[reg] = Head(up).word
      BY <2>1, <2>3, <2>4
    <2>6. PICK t \in Task : Open(t) /\ up = <<up[1]>> /\ up[1] = task[t].req
      BY <2>3 DEF Replies, Quiet
    <2>7. Head(up) = task[t].req
      BY <2>6
    <2>8. task[t].pc = "Write" /\ task[t].req = Write(task[t].job.reg, task[t].word)
      BY <2>5, <2>6, <2>7, AskedAt
    <2>9. task[t].job.reg = reg /\ dev'[reg] = task[t].word
      BY <2>5, <2>7, <2>8 DEF Write, Frame
    <2>10. t \in Writer
      BY <2>8 DEF Replies, TypeInv, Gate, TaskTypes, Tasks, PcOf, RoundPc, PollPc, OtaPc, Task
    <2>11. dev'[reg] = With(dev[reg], task[t].job.bit, task[t].job.on)
      BY <2>8, <2>9 DEF Replies, Ready, At, WordFits
    <2>12. task[t].job.on \in BOOLEAN
      BY DEF Replies, TypeInv, Gate, TaskTypes, Tasks, Jobs
    <2>13. task[t].job.bit = bit /\ (task[t].job.on <=> bit \in dev'[reg])
      BY <2>11 DEF With
    <2>14. task[t].job.on = (bit \in dev'[reg])
      BY <2>12, <2>13
    <2> QED
      BY <2>9, <2>10, <2>13, <2>14, Zenon DEF Asked
  <1> QED
    BY <1>1, RepliesInvariant, PTL DEF Spec, BitWritesAreAtomic

\* As long as nothing went wrong, with any number of toggles: the outputs
\* change in a toggle only, and the gate is not free before it has read back
\* what they are.
THEOREM ShownCorrect == Spec => []ShownOutputIsReal
  <1>1. Replies => ShownOutputIsReal
    <2> SUFFICES ASSUME Replies, mishap = {}, gate = <<>>, live.valid
                 PROVE  live.out = (0 \in dev["Out"])
      BY DEF ShownOutputIsReal
    <2>1. ASSUME NEW t \in Task, Toggling(t) PROVE FALSE
      <3>1. ~Holds(t)
        BY DEF Holds
      <3>2. task[t].pc # "ReadBack"
        BY <3>1 DEF Replies, StaysAtGate
      <3>3. Open(t) /\ task[t].pc = "Toggle"
        BY <2>1, <3>2 DEF Toggling, At
      <3> QED
        BY <3>1, <3>3 DEF Replies, TypeInv, Gate, OneOpen, At
    <2>2. live.out <=> 0 \in dev["Out"]
      BY <2>1 DEF Replies, Shown
    <2>3. live.out \in BOOLEAN
      BY DEF Replies, TypeInv, DataTypes, Lives
    <2> QED
      BY <2>2, <2>3
  <1> QED
    BY <1>1, RepliesInvariant, PTL

-----------------------------------------------------------------------------
(* One mishap does not cost a device its TLV mode.  Whoever probes twice   *)
(* keeps the gate in between, and no upgrade is at its distribution reads  *)
(* then: ota_busy keeps the probe of any round away that has not been in   *)
(* line before the upgrade.                                                *)

Upgrading  == task["Ota"].pc \in {"Start", "Transfer", "Dist", "Over"} => busy
Behind     == \A i, j \in DOMAIN gate :
                gate[i] = "Ota" /\ At("Ota", "Transfer") /\ At(gate[j], "Probe") => j < i
NoneProbes == At("Ota", "Dist") => \A t \in Task : ~At(t, "Probe")
Tries      == \A t \in Task : task[t].tries = 1 =>
                \/ At(t, "Probe") /\ Holds(t)
                \/ At(t, "Choose")
Turns == Upgrading /\ Behind /\ NoneProbes /\ Tries

\* What a step of t does to the turns.
TurnStep(t) ==
    /\ \A u \in Task \ {t} : task'[u] = task[u]
    /\ task'[t].tries = 1 =>
            \/ task'[t].pc = "Choose"
            \/ At(t, "Probe") /\ task'[t].pc = "Probe" /\ Holds(t) /\ gate' = gate
    /\ task'[t].pc = "Probe" => ~busy \/ (At(t, "Probe") /\ gate' = gate)
    /\ task'[t].pc = "Transfer" =>
            \/ At(t, "Start") /\ gate' = Append(gate, t)
            \/ At(t, "Transfer") /\ gate' = gate
    /\ task'[t].pc = "Dist" => At(t, "Dist") \/ (At(t, "Transfer") /\ Holds(t))
    /\ task'[t].pc = "Over" => At(t, "Dist") \/ At(t, "Transfer")
    /\ task'[t].pc # "Start"
    /\ (busy => busy') \/ (t = "Ota" /\ task'[t].pc = "End")

\* The other steps leave them as they are.
LEMMA TurnsSame ==
    ASSUME Turns, gate' = gate, task' = task, busy => busy'
    PROVE  Turns'
  BY DEF Turns, Upgrading, Behind, NoneProbes, Tries, At, Holds

LEMMA TurnsKeep ==
    ASSUME Gate, Turns, NEW t \in Task, GateStep(t), TurnStep(t), Gate'
    PROVE  Turns'
  <1>1. /\ gate \in Seq(Task) /\ gate' \in Seq(Task) /\ "Ota" \in Task
        /\ \A i, j \in DOMAIN gate : gate[i] = gate[j] => i = j
        /\ \A i, j \in DOMAIN gate' : gate'[i] = gate'[j] => i = j
    BY DEF Gate, GateTypes, Task
  <1>2. \A u \in Task \ {t} : task'[u] = task[u]
    BY DEF TurnStep
  <1>3. Upgrading'
    <2>1. CASE t = "Ota"
      <3>1. task'[t].pc \in {"Transfer", "Dist", "Over"} =>
                task[t].pc \in {"Start", "Transfer", "Dist"} /\ (busy => busy')
        BY DEF TurnStep, At
      <3> QED
        BY <2>1, <3>1 DEF Turns, Upgrading, TurnStep
    <2>2. CASE t # "Ota"
      BY <1>1, <1>2, <2>2 DEF Turns, Upgrading, TurnStep
    <2> QED
      BY <2>1, <2>2
  <1>4. Behind'
    <2> SUFFICES ASSUME NEW i \in DOMAIN gate', NEW j \in DOMAIN gate',
                        gate'[i] = "Ota", task'["Ota"].pc = "Transfer",
                        task'[gate'[j]].pc = "Probe"
                 PROVE  j < i
      BY DEF Behind, At
    <2> DEFINE u == gate'[j]
    <2>1. u \in Task /\ u # "Ota" /\ i \in Nat /\ j \in Nat
      BY <1>1
    <2>2. CASE gate' = gate
      <3>1. At("Ota", "Transfer")
        <4>1. CASE t = "Ota"
          <5>1. gate # Append(gate, t)
            <6>1. Len(Append(gate, t)) # Len(gate)
              BY <1>1
            <6> QED
              BY <6>1
          <5> QED
            BY <2>2, <4>1, <5>1 DEF TurnStep
        <4>2. CASE t # "Ota"
          BY <1>1, <1>2, <4>2 DEF At
        <4> QED
          BY <4>1, <4>2
      <3>2. At(u, "Probe")
        <4>1. CASE u = t
          <5>1. busy
            BY <3>1 DEF Turns, Upgrading, At
          <5> QED
            BY <4>1, <5>1 DEF TurnStep, At
        <4>2. CASE u # t
          BY <1>2, <2>1, <4>2 DEF At
        <4> QED
          BY <4>1, <4>2
      <3> QED
        BY <2>2, <3>1, <3>2 DEF Turns, Behind
    <2>3. CASE gate' # gate /\ t = "Ota"
      <3>1. gate' = Append(gate, "Ota")
        BY <2>3 DEF TurnStep
      <3>2. i = Len(gate) + 1
        BY <1>1, <3>1
      <3>3. j # Len(gate) + 1
        BY <1>1, <2>1, <3>1
      <3> QED
        BY <1>1, <3>1, <3>2, <3>3
    <2>4. CASE gate' # gate /\ t # "Ota"
      <3>1. At("Ota", "Transfer") /\ busy
        BY <1>1, <1>2, <2>4 DEF At, Turns, Upgrading
      <3>2. u # t /\ At(u, "Probe")
        <4>1. u # t
          BY <2>4, <3>1 DEF TurnStep
        <4> QED
          BY <1>2, <2>1, <4>1 DEF At
      <3>3. CASE gate' = Append(gate, t)
        <4>1. i \in DOMAIN gate /\ j \in DOMAIN gate /\ gate[i] = "Ota" /\ gate[j] = u
          BY <1>1, <2>1, <2>4, <3>2, <3>3
        <4> QED
          BY <3>1, <3>2, <4>1 DEF Turns, Behind
      <3>4. CASE gate' = Tail(gate) /\ Holds(t)
        <4>1. /\ i + 1 \in DOMAIN gate /\ j + 1 \in DOMAIN gate
              /\ gate[i + 1] = "Ota" /\ gate[j + 1] = u
          BY <1>1, <3>4 DEF Holds
        <4>2. j + 1 < i + 1
          BY <3>1, <3>2, <4>1 DEF Turns, Behind
        <4> QED
          BY <2>1, <4>2
      <3>5. CASE gate' = Append(Tail(gate), t) /\ Holds(t)
        <4>1. gate # <<>> /\ Tail(gate) \in Seq(Task) /\ Len(Tail(gate)) = Len(gate) - 1
          BY <1>1, <3>5 DEF Holds
        <4>2. i \in DOMAIN Tail(gate) /\ j \in DOMAIN Tail(gate)
              /\ Tail(gate)[i] = "Ota" /\ Tail(gate)[j] = u
          BY <1>1, <2>1, <2>4, <3>2, <3>5, <4>1
        <4>3. /\ i + 1 \in DOMAIN gate /\ j + 1 \in DOMAIN gate
              /\ gate[i + 1] = "Ota" /\ gate[j + 1] = u
          BY <1>1, <4>1, <4>2
        <4>4. j + 1 < i + 1
          BY <3>1, <3>2, <4>3 DEF Turns, Behind
        <4> QED
          BY <2>1, <4>4
      <3> QED
        BY <2>4, <3>3, <3>4, <3>5 DEF GateStep, Keeps, Enters, Leaves, Rejoins
    <2> QED
      BY <2>2, <2>3, <2>4
  <1>5. NoneProbes'
    <2> SUFFICES ASSUME task'["Ota"].pc = "Dist", NEW u \in Task, task'[u].pc = "Probe"
                 PROVE  FALSE
      BY DEF NoneProbes, At
    <2>1. u # "Ota"
      OBVIOUS
    <2>2. At("Ota", "Dist") \/ (t = "Ota" /\ At(t, "Transfer") /\ Holds(t))
      BY <1>1, <1>2 DEF TurnStep, At
    <2>3. busy
      BY <2>2 DEF Turns, Upgrading, At
    <2>4. At(u, "Probe")
      BY <1>2, <2>1, <2>3 DEF TurnStep, At
    <2>5. CASE At("Ota", "Dist")
      BY <2>4, <2>5 DEF Turns, NoneProbes
    <2>6. CASE At("Ota", "Transfer") /\ Holds("Ota")
      <3>1. PICK j \in DOMAIN gate : gate[j] = u
        BY <2>4 DEF Gate, Line, Queued, InLine, GatePc, At
      <3>2. 1 \in DOMAIN gate /\ gate[1] = "Ota"
        BY <1>1, <2>6 DEF Holds
      <3>3. j < 1
        BY <2>4, <2>6, <3>1, <3>2 DEF Turns, Behind
      <3> QED
        BY <1>1, <3>1, <3>3
    <2> QED
      BY <2>2, <2>5, <2>6
  <1>6. Tries'
    <2> SUFFICES ASSUME NEW u \in Task, task'[u].tries = 1
                 PROVE  (At(u, "Probe")' /\ Holds(u)') \/ At(u, "Choose")'
      BY DEF Tries
    <2>1. CASE u = t
      BY <2>1 DEF TurnStep, At, Holds
    <2>2. CASE u # t
      <3>1. task'[u] = task[u]
        BY <1>2, <2>2
      <3>2. Holds(u) => Holds(u)'
        BY <2>2, HoldsOn
      <3> QED
        BY <3>1, <3>2 DEF Turns, Tries, At
    <2> QED
      BY <2>1, <2>2
  <1> QED
    BY <1>3, <1>4, <1>5, <1>6 DEF Turns

SameMode == live'.probed = live.probed /\ live'.mode = live.mode

\* A step that neither settles the mode nor asks for it again.
Elsewhere(t) == SameMode /\ (task'[t].pc = "Probe" => At(t, "Round"))

\* What else is shown of the device leaves the mode alone.
LEMMA ModeStays ==
    ASSUME live \in Lives
    PROVE  /\ live' = live => SameMode
           /\ \A word : live' = Shows(word) => SameMode
           /\ \A word, b : live' = [Shows(word) EXCEPT !.loaded = b] => SameMode
           /\ \A b : /\ live' = [live EXCEPT !.loaded = b] => SameMode
                     /\ live' = [live EXCEPT !.split = b] => SameMode
                     /\ live' = [live EXCEPT !.out = b] => SameMode
  <1> DEFINE Same(r, l) == r.probed = l.probed /\ r.mode = l.mode
  <1>1. \A l \in Lives : \A b : /\ Same([l EXCEPT !.loaded = b], l)
                            /\ Same([l EXCEPT !.split = b], l)
                            /\ Same([l EXCEPT !.out = b], l)
    BY DEF Lives
  <1>2. \A word : Shows(word) \in Lives
    BY LiveUpdates
  <1>3. ASSUME NEW word PROVE Same(Shows(word), live)
    <2>1. \A b, c : Same([live EXCEPT !.out = b, !.valid = c], live)
      BY DEF Lives
    <2> HIDE DEF Same
    <2> QED
      BY <2>1, Zenon DEF Shows
  <1>4. ASSUME NEW word, NEW b PROVE Same([Shows(word) EXCEPT !.loaded = b], live)
    <2>1. Shows(word) \in Lives /\ Same(Shows(word), live)
      BY <1>2, <1>3
    <2>2. \A l \in Lives : Same([l EXCEPT !.loaded = b], l)
      BY <1>1
    <2>3. Same([Shows(word) EXCEPT !.loaded = b], Shows(word))
      BY <2>1, <2>2, Zenon
    <2> QED
      BY <2>1, <2>3, Zenon
  <1>5. \A r : live' = r /\ Same(r, live) => SameMode
    BY Zenon DEF SameMode
  <1>6. Same(live, live)
    OBVIOUS
  <1> HIDE DEF Same
  <1> QED
    BY <1>1, <1>3, <1>4, <1>5, <1>6, Zenon

LEMMA GoesTries ==
    ASSUME Gate, NEW t \in Task, NEW pc, Goes(t, pc), task'[t].tries = 1
    PROVE  task[t].tries = 1
  <1>1. task[t] \in Tasks(t)
    BY DEF Gate, TaskTypes
  <1>2. task'[t] = Moved(t, pc)
    BY DEF Goes, Gate
  <1>3. CASE pc = "End"
    <2>1. \A r \in NewTasks : \A job : [[r EXCEPT !.job = job] EXCEPT !.pc = pc, !.req = None].tries = r.tries
      BY DEF NewTasks
    <2>2. Moved(t, pc) = [[NewTask EXCEPT !.job = task[t].job] EXCEPT !.pc = pc, !.req = None]
      BY <1>3 DEF Moved
    <2>3. NewTask.tries = 0
      BY DEF NewTask
    <2> QED
      BY <1>2, <2>1, <2>2, <2>3, NewTaskType
  <1>4. CASE pc # "End"
    <2>1. Moved(t, pc) = [task[t] EXCEPT !.pc = pc, !.req = None]
      BY <1>4 DEF Moved
    <2> QED
      BY <1>1, <1>2, <2>1 DEF Tasks
  <1> QED
    BY <1>3, <1>4

LEMMA GoesTurn ==
    ASSUME Gate, Tries, NEW t \in Task, NEW pc, Goes(t, pc), busy => busy',
           pc \notin {"Start", "Probe", "Transfer", "Dist", "Over"},
           pc = "Choose" \/ task[t].pc \notin {"Probe", "Choose"}
    PROVE  TurnStep(t) /\ task'[t].pc = pc
  <1>1. (\A u \in Task \ {t} : task'[u] = task[u]) /\ task'[t].pc = pc
    BY GoesFacts
  <1>2. task'[t].tries = 1 => pc = "Choose"
    BY GoesTries DEF Tries, At
  <1> QED
    BY <1>1, <1>2 DEF TurnStep

\* Places a task may be at, or go to, that the turns say nothing of.
PlainPc == {"Round", "Info", "Dash", "Page", "TlvPage", "TlvStatus", "Soc", "Out",
            "End", "Toggle", "ReadBack", "Modify", "Write", "Sleep", "WakeOnly", "Start"}

LEMMA PlainTurn ==
    ASSUME Gate, Tries, NEW t \in Task, NEW pc \in PlainPc \ {"Start"}, Goes(t, pc),
           task[t].pc \in PlainPc, busy => busy', SameMode
    PROVE  TurnStep(t) /\ Elsewhere(t)
  BY GoesTurn DEF PlainPc, Elsewhere

LEMMA RoundTurns ==
    ASSUME TypeInv, Tries, NEW t \in Task, RoundStep(t)
    PROVE  TurnStep(t) /\ (ProbeDone(t) \/ Elsewhere(t))
  <1> USE DEF TypeInv
  <1>1. live \in Lives /\ (busy => busy') /\ task[t] \in Tasks(t)
    BY RoundTypes DEF DataTypes, ui, Gate, TaskTypes
  <1>2. ASSUME NEW pc, NEW res, Ends(t, pc, res) PROVE task[t].pc = pc
    BY <1>2 DEF Ends, At
  <1>3. CASE RoundBegins(t)
    <2>1. At(t, "Round") /\ SameMode
      BY <1>1, <1>3, ModeStays DEF RoundBegins
    <2>2. CASE busy
      BY <1>1, <1>3, <2>1, <2>2, PlainTurn DEF RoundBegins, At, PlainPc
    <2>3. CASE ~busy
      <3>1. Goes(t, "Probe")
        BY <1>3, <2>3 DEF RoundBegins, Queues
      <3>2. (\A u \in Task \ {t} : task'[u] = task[u]) /\ task'[t].pc = "Probe"
        BY <3>1, GoesFacts
      <3>3. task'[t] = [task[t] EXCEPT !.pc = "Probe", !.req = None]
        BY <3>1 DEF Goes, Moved, Gate
      <3>4. task'[t].tries = task[t].tries
        BY <1>1, <3>3 DEF Tasks
      <3>5. task'[t].tries # 1
        BY <2>1, <3>4 DEF Tries, At
      <3> QED
        BY <2>1, <2>3, <3>2, <3>5 DEF TurnStep, Elsewhere
    <2> QED
      BY <2>2, <2>3
  <1>4. CASE NeedlessRead(t)
    <2>1. SameMode
      BY <1>1, <1>4, ModeStays DEF NeedlessRead
    <2>2. CASE At(t, "Probe")
      <3>1. Goes(t, "Choose")
        <4>1. ~At(t, "Info")
          BY <2>2 DEF At
        <4> QED
          BY <1>4, <2>2, <4>1, Zenon DEF NeedlessRead, Releases
      <3> QED
        BY <1>1, <2>1, <3>1, GoesTurn DEF Elsewhere
    <2>3. CASE At(t, "Info")
      <3>1. \E pc \in {"End", "Dash"} : Goes(t, pc)
        BY <1>4, <2>3 DEF NeedlessRead, Releases, At
      <3> QED
        BY <1>1, <2>1, <2>3, <3>1, PlainTurn DEF At, PlainPc
    <2> QED
      BY <1>4, <2>2, <2>3 DEF NeedlessRead, Needless
  <1>5. CASE ProbeDone(t)
    <2>1. PICK res \in Results :
            /\ Ends(t, "Probe", res)
            /\ \/ /\ task' = [task EXCEPT ![t].req = None, ![t].tries = 1]
                  /\ gate' = gate
               \/ Goes(t, "Choose")
      BY <1>5 DEF ProbeDone, Releases
    <2>2. At(t, "Probe") /\ Holds(t)
      BY <2>1, EndsFacts
    <2>3. CASE task' = [task EXCEPT ![t].req = None, ![t].tries = 1] /\ gate' = gate
      <3>1. /\ \A u \in Task \ {t} : task'[u] = task[u]
            /\ task'[t] = [task[t] EXCEPT !.req = None, !.tries = 1]
        BY <2>3 DEF Gate
      <3>2. task'[t].pc = "Probe"
        BY <1>1, <2>2, <3>1 DEF Tasks, At
      <3> QED
        BY <1>1, <1>5, <2>2, <2>3, <3>1, <3>2 DEF TurnStep
    <2>4. CASE Goes(t, "Choose")
      BY <1>1, <1>5, <2>4, GoesTurn
    <2> QED
      BY <2>1, <2>3, <2>4
  <1>6. CASE Choose(t)
    <2>1. PICK one \in BOOLEAN, pc \in {"Dash", "Info"} :
            task' = [task EXCEPT ![t].pc = pc, ![t].tries = 0, ![t].one = one]
      BY <1>6 DEF Choose
    <2>2. /\ \A u \in Task \ {t} : task'[u] = task[u]
          /\ task'[t] = [task[t] EXCEPT !.pc = pc, !.tries = 0, !.one = one]
      BY <2>1 DEF Gate
    <2>3. task'[t].pc = pc /\ task'[t].tries = 0
      BY <1>1, <2>2 DEF Tasks
    <2>4. SameMode
      BY <1>1, <1>6, ModeStays DEF Choose
    <2> QED
      BY <1>1, <2>2, <2>3, <2>4 DEF TurnStep, Elsewhere
  <1>7. CASE InfoDone(t)
    <2>1. PICK res \in Results : /\ Ends(t, "Info", res)
                                 /\ live' = [live EXCEPT !.loaded = (res # Err)]
      BY <1>7, Zenon DEF InfoDone
    <2>2. SameMode
      BY <1>1, <2>1, ModeStays, Zenon
    <2>3. \E pc \in {"End", "Dash"} : Goes(t, pc)
      BY <1>7 DEF InfoDone, Releases
    <2> QED
      BY <1>1, <1>2, <2>1, <2>2, <2>3, PlainTurn DEF PlainPc
  <1>8. CASE Dash(t)
    <2>1. At(t, "Dash") /\ SameMode /\ \E pc \in {"Page", "Info", "End"} : Goes(t, pc)
      BY <1>1, <1>8, ModeStays DEF Dash, Queues
    <2> QED
      BY <1>1, <2>1, PlainTurn DEF At, PlainPc
  <1>9. ASSUME NEW loaded, PageEnds(t, loaded) PROVE \E pc \in {"Info", "End"} : Goes(t, pc)
    BY <1>9, PageEndsFacts
  <1>10. CASE TlvPageDone(t)
    <2>1. PICK res \in Results :
            /\ Ends(t, "TlvPage", res)
            /\ \/ \E loaded : /\ live' = [Shows(res.word) EXCEPT !.loaded = loaded]
                              /\ PageEnds(t, loaded)
               \/ live' = [live EXCEPT !.split = TRUE] /\ Goes(t, "TlvStatus")
      BY <1>10, Zenon DEF TlvPageDone
    <2>2. SameMode
      BY <1>1, <2>1, ModeStays, Zenon
    <2>3. \E pc \in {"Info", "End", "TlvStatus"} : Goes(t, pc)
      BY <1>9, <2>1
    <2> QED
      BY <1>1, <1>2, <2>1, <2>2, <2>3, PlainTurn DEF PlainPc
  <1>11. CASE TlvStatusDone(t)
    <2>1. PICK res \in Results :
            /\ Ends(t, "TlvStatus", res)
            /\ live' = Shows(res.word) \/ live' = live
      BY <1>11, Zenon DEF TlvStatusDone
    <2>2. SameMode /\ \E pc \in {"Info", "End"} : Goes(t, pc)
      BY <1>1, <1>9, <1>11, <2>1, ModeStays DEF TlvStatusDone
    <2> QED
      BY <1>1, <1>2, <2>1, <2>2, PlainTurn DEF PlainPc
  <1>12. CASE SocDone(t)
    <2>1. PICK res \in Results :
            Ends(t, "Soc", res) /\ (Goes(t, "Out") \/ PageEnds(t, live.loaded))
      BY <1>12 DEF SocDone
    <2>2. SameMode /\ \E pc \in {"Out", "Info", "End"} : Goes(t, pc)
      BY <1>1, <1>9, <1>12, <2>1, ModeStays DEF SocDone
    <2> QED
      BY <1>1, <1>2, <2>1, <2>2, PlainTurn DEF PlainPc
  <1>13. CASE OutDone(t)
    <2>1. PICK res \in Results :
            Ends(t, "Out", res) /\ \E word : live' = Shows(word)
      BY <1>13, Zenon DEF OutDone
    <2>2. SameMode /\ \E pc \in {"Info", "End"} : Goes(t, pc)
      BY <1>1, <1>9, <1>13, <2>1, ModeStays DEF OutDone
    <2> QED
      BY <1>1, <1>2, <2>1, <2>2, PlainTurn DEF PlainPc
  <1> QED
    BY <1>3, <1>4, <1>5, <1>6, <1>7, <1>8, <1>10, <1>11, <1>12, <1>13 DEF RoundStep

LEMMA WriterTurns ==
    ASSUME TypeInv, Tries, NEW w \in Writer, WriterStep(w)
    PROVE  TurnStep(w) /\ Elsewhere(w)
  <1> USE DEF TypeInv
  <1>1. w \in Task /\ live \in Lives
    BY DEF Task, DataTypes
  <1>2. busy' = busy
    BY Zenon DEF WriterStep, WriterStarts, ToggleDone, ReadBackDone, ModifyDone,
                 WriteDone, ui
  <1>3. ASSUME NEW pc, NEW res, Ends(w, pc, res) PROVE task[w].pc = pc
    BY <1>3 DEF Ends, At
  <1>4. ASSUME NEW good, WriteEnds(w, good)
        PROVE  \E pc \in {"Round", "End"} : Goes(w, pc)
    BY <1>4 DEF WriteEnds, Releases
  <1>5. CASE WriterStarts(w)
    <2>1. At(w, "Start") /\ SameMode /\ \E pc \in {"Toggle", "Modify"} : Goes(w, pc)
      BY <1>1, <1>5, ModeStays DEF WriterStarts, Queues
    <2> QED
      BY <1>1, <1>2, <2>1, PlainTurn DEF At, PlainPc
  <1>6. CASE ToggleDone(w)
    <2>1. PICK res \in Results :
            Ends(w, "Toggle", res) /\ (Goes(w, "ReadBack") \/ WriteEnds(w, FALSE))
      BY <1>6, Zenon DEF ToggleDone
    <2>2. SameMode
      BY <1>1, <1>6, ModeStays, Zenon DEF ToggleDone
    <2> QED
      BY <1>1, <1>2, <1>3, <1>4, <2>1, <2>2, PlainTurn DEF PlainPc
  <1>7. CASE ReadBackDone(w)
    <2>1. PICK res \in Results :
            /\ Ends(w, "ReadBack", res)
            /\ live' = Shows(res.word) \/ live' = [live EXCEPT !.out = task[w].job.on]
            /\ \E good : WriteEnds(w, good)
      BY <1>7, Zenon DEF ReadBackDone
    <2>2. SameMode
      BY <1>1, <2>1, ModeStays, Zenon
    <2> QED
      BY <1>1, <1>2, <1>3, <1>4, <2>1, <2>2, PlainTurn DEF PlainPc
  <1>8. CASE ModifyDone(w)
    <2>1. PICK res \in Results :
            Ends(w, "Modify", res) /\ (Modifies(w, res.word) \/ WriteEnds(w, FALSE))
      BY <1>8, Zenon DEF ModifyDone
    <2>2. SameMode
      BY <1>1, <1>8, ModeStays, Zenon DEF ModifyDone
    <2>3. CASE Modifies(w, res.word)
      <3> DEFINE word == With(res.word, task[w].job.bit, task[w].job.on)
      <3>1. task' = [task EXCEPT ![w].pc = "Write", ![w].req = None, ![w].word = word]
        BY <2>3 DEF Modifies
      <3> HIDE DEF word
      <3>2. /\ task'[w] = [task[w] EXCEPT !.pc = "Write", !.req = None, !.word = word]
            /\ \A u \in Task \ {w} : task'[u] = task[u]
            /\ task[w] \in Tasks(w)
        BY <1>1, <3>1 DEF Gate, TaskTypes
      <3>3. task'[w].pc = "Write" /\ task'[w].tries = task[w].tries
        BY <3>2 DEF Tasks
      <3>4. task'[w].tries # 1
        BY <1>1, <1>3, <2>1, <3>3 DEF Tries, At
      <3> QED
        BY <1>2, <2>2, <3>2, <3>3, <3>4 DEF TurnStep, Elsewhere
    <2> QED
      BY <1>1, <1>2, <1>3, <1>4, <2>1, <2>2, <2>3, PlainTurn DEF PlainPc
  <1>9. CASE WriteDone(w)
    <2>1. PICK res \in Results : Ends(w, "Write", res) /\ \E good : WriteEnds(w, good)
      BY <1>9, Zenon DEF WriteDone
    <2>2. SameMode
      BY <1>1, <1>9, ModeStays, Zenon DEF WriteDone
    <2> QED
      BY <1>1, <1>2, <1>3, <1>4, <2>1, <2>2, PlainTurn DEF PlainPc
  <1> QED
    BY <1>5, <1>6, <1>7, <1>8, <1>9 DEF WriterStep

LEMMA OtaTurns ==
    ASSUME TypeInv, Tries, OtaStep
    PROVE  OtaTransfers \/ (TurnStep("Ota") /\ Elsewhere("Ota"))
  <1> USE DEF TypeInv
  <1>1. "Ota" \in Task /\ live \in Lives
    BY DEF Task, DataTypes
  <1>2. CASE OtaTransfers
    BY <1>2
  <1>3. CASE ~OtaTransfers
    <2>1. live' = live
      BY <1>3 DEF OtaStep, OtaStarts, OtaTransferEnds, OtaDistEnds, OtaReadsOn, OtaFinishes
    <2>2. PICK pc \in {"Transfer", "Over", "Dist", "End"} :
            /\ Goes("Ota", pc)
            /\ pc = "Transfer" => At("Ota", "Start") /\ gate' = Append(gate, "Ota")
            /\ pc = "Over" => At("Ota", "Transfer") \/ At("Ota", "Dist")
            /\ pc = "Dist" => At("Ota", "Dist") \/ (At("Ota", "Transfer") /\ Holds("Ota"))
            /\ pc = "End" => At("Ota", "Over")
            /\ pc # "End" => busy' = busy
      <3>1. OtaStarts => UNCHANGED busy
        BY DEF OtaStarts, ui
      <3>2. OtaTransferEnds \/ OtaReadsOn \/ OtaDistEnds => UNCHANGED busy
        BY DEF OtaTransferEnds, OtaReadsOn, OtaDistEnds, ui
      <3> QED
        BY <1>3, <3>1, <3>2 DEF OtaStep, OtaStarts, OtaTransferEnds, OtaDistEnds, OtaReadsOn,
                OtaFinishes, Queues, Releases, Ends
    <2>3. task["Ota"].pc \in {"Start", "Transfer", "Dist", "Over"}
      BY <2>2 DEF At
    <2>4. task'["Ota"].tries # 1
      BY <1>1, <2>2, <2>3, GoesTries DEF Tries, At
    <2>5. task'["Ota"].pc = pc /\ \A u \in Task \ {"Ota"} : task'[u] = task[u]
      BY <1>1, <2>2, GoesFacts
    <2>6. SameMode
      BY <1>1, <2>1, ModeStays
    <2> QED
      BY <2>2, <2>4, <2>5, <2>6 DEF TurnStep, Elsewhere
  <1> QED
    BY <1>2, <1>3

LEMMA PollTurns ==
    ASSUME TypeInv, Tries, PollStep
    PROVE  TurnStep("Poll") /\ Elsewhere("Poll")
  <1>1. "Poll" \in Task /\ Gate /\ live \in Lives
    BY DEF Task, TypeInv, DataTypes
  <1>2. task["Poll"].pc \in {"End", "Sleep", "WakeOnly"} /\ live' = live /\ busy' = busy
    BY Zenon DEF PollStep, PollPauses, PollTimer, PollNotified, At, ui
  <1>3. \E pc \in {"End", "Round", "Sleep", "WakeOnly"} : Goes("Poll", pc)
    BY DEF PollStep, PollPauses, PollTimer, PollNotified, Resumes
  <1> QED
    BY <1>1, <1>2, <1>3, ModeStays, PlainTurn DEF PlainPc

LEMMA SendTurn ==
    ASSUME TypeInv, Tries, NEW t \in Task, Send(t)
    PROVE  TurnStep(t)
  <1>1. PICK req \in Requests(t) :
          task' = [task EXCEPT ![t].pc = Here(t), ![t].req = req]
    BY DEF Send
  <1>2. task[t] \in Tasks(t) /\ gate' = gate /\ busy' = busy
    BY DEF TypeInv, Gate, TaskTypes, Send, ui
  <1>3. /\ task'[t] = [task[t] EXCEPT !.pc = Here(t), !.req = req]
        /\ \A u \in Task \ {t} : task'[u] = task[u]
    BY <1>1 DEF TypeInv, Gate
  <1>4. task'[t].pc = Here(t) /\ task'[t].tries = task[t].tries
    BY <1>2, <1>3 DEF Tasks
  <1>5. Here(t) \in {"Soc", "TlvStatus", "TlvPage"} \/ Here(t) = task[t].pc
    BY DEF Here
  <1>6. Here(t) \notin {"Start", "Over"}
    BY <1>1 DEF Requests
  <1>7. task'[t].tries = 1 => (At(t, "Probe") /\ Holds(t)) \/ Here(t) = "Choose"
    BY <1>4 DEF Tries, At, Here
  <1>8. At(t, "Probe") => Here(t) = "Probe"
    BY DEF At, Here
  <1> QED
    BY <1>2, <1>3, <1>4, <1>5, <1>6, <1>7, <1>8 DEF TurnStep, At

LEMMA TurnKinds ==
    ASSUME TypeInv, Tries, NEW t \in Task, TaskStep(t)
    PROVE  \/ PassOver(t) \/ OtaTransfers
           \/ TurnStep(t) /\ (Send(t) \/ ProbeDone(t) \/ Elsewhere(t))
  BY SendTurn, RoundTurns, WriterTurns, OtaTurns, PollTurns DEF TaskStep

-----------------------------------------------------------------------------
(* The probe.  A first failure is the one mishap there may be, and leaves  *)
(* nothing on the air but an answer to the same question; so the second    *)
(* attempt gets one.                                                       *)

Few  == mishap \in {{}, {"lost"}, {"late"}, {"cleared"}}
Once == /\ mishap \cap {"lost", "late"} \subseteq Mishaps
        /\ "cleared" \in mishap => task["Ota"].pc \notin {"Idle", "Start"}

\* What is said of the status block on the air is what it holds.
StatusTrue ==
    /\ \A i \in DOMAIN up : up[i].func = "06" => up[i].reg # "Status"
    /\ \A i \in DOMAIN down :
        down[i].func = "03" /\ down[i].reg = "Status" => down[i].word = dev["Status"]

Matches(f, req) == f.func = req.func /\ f.reg = req.reg
OnlyFor(req) == /\ \A i \in DOMAIN up : up[i] = req
                /\ \A i \in DOMAIN down : Matches(down[i], req)
LastIs(req)  == IF up # <<>> THEN up[Len(up)] = req
                ELSE down # <<>> /\ Matches(down[Len(down)], req)

\* After one late reply and nothing else there is one reply too many at most,
\* and it comes before the answer to what is asked now.
Stale == mishap = {"late"} =>
    /\ OneAsks
    /\ Len(up) + Len(down) <= IF \E t \in Task : Open(t) THEN 2 ELSE 1
    /\ \A t \in Task : Open(t) => LastIs(task[t].req)

Second(t) == At(t, "Probe") /\ task[t].tries = 1
SecondTry == Few => \A t \in Task : Second(t) =>
    /\ mishap # {} /\ OnlyFor(Read("Status"))
    /\ Open(t) => up # <<>> \/ down # <<>>

Settled == live.probed /\ Few => (live.mode = "Tlv" <=> 0 \in dev["Status"])

Modes == Replies /\ Turns /\ Once /\ StatusTrue /\ Stale /\ SecondTry /\ Settled

LEMMA FewBefore ==
    ASSUME mishap \subseteq mishap', Few'
    PROVE  Few /\ (mishap' = mishap \/ mishap = {})
  BY DEF Few

LEMMA FewAsk ==
    ASSUME Modes, Few
    PROVE  OneAsks
  <1>1. Sound \/ mishap = {"late"}
    BY DEF Few, Sound
  <1> QED
    BY <1>1 DEF Modes, Stale, Replies, Quiet

\* Nobody else asks for anything between the two attempts.
LEMMA AloneTry ==
    ASSUME Modes, NEW t \in Task, Second(t)
    PROVE  /\ Holds(t) /\ ~At("Ota", "Dist")
           /\ \A u \in Task \ {t} : ~Open(u) /\ ~Holds(u)
  <1>1. At(t, "Probe") /\ Gate
    BY DEF Second, Modes, Replies, TypeInv
  <1>2. Holds(t)
    BY <1>1 DEF Modes, Turns, Tries, Second, At
  <1>3. ~At("Ota", "Dist")
    BY <1>1 DEF Modes, Turns, NoneProbes
  <1>4. \A u \in Task \ {t} : ~Holds(u)
    BY <1>2 DEF Holds
  <1> QED
    BY <1>1, <1>2, <1>3, <1>4 DEF Gate, OneOpen

LEMMA StatusShrinks ==
    ASSUME StatusTrue, AirTypes, up' = up, dev' = dev,
           down' = down \/ (down # <<>> /\ down' = Tail(down)) \/ down' \in Cleared
    PROVE  StatusTrue'
  <1>1. \A i \in DOMAIN down' : \E j \in DOMAIN down : down'[i] = down[j]
    <2>1. down \in Seq(Frames)
      BY DEF AirTypes
    <2>2. CASE down' = down
      BY <2>2
    <2>3. CASE down # <<>> /\ down' = Tail(down)
      BY <2>1, <2>3
    <2>4. CASE down' \in Cleared
      <3>1. PICK n \in 1..Len(down) + 1 : down' = SubSeq(down, n, Len(down))
        BY <2>4 DEF Cleared
      <3>2. n \in Nat /\ n >= 1 /\ Len(down) \in Nat /\ DOMAIN down = 1..Len(down)
            /\ n <= Len(down) + 1
        BY <2>1, <3>1
      <3>3. DOMAIN down' = 1..(Len(down) - n + 1)
        BY <2>1, <3>1, <3>2
      <3>4. ASSUME NEW i \in DOMAIN down' PROVE \E j \in DOMAIN down : down'[i] = down[j]
        <4>1. i \in Nat /\ i >= 1 /\ i <= Len(down) - n + 1
          BY <3>2, <3>3, <3>4
        <4>2. down'[i] = down[n + i - 1]
          BY <2>1, <3>1, <3>2, <4>1
        <4>3. n + i - 1 \in DOMAIN down
          BY <3>2, <4>1
        <4> QED
          BY <4>2, <4>3
      <3> QED
        BY <3>4
    <2> QED
      BY <2>2, <2>3, <2>4
  <1> QED
    BY <1>1 DEF StatusTrue

\* The end of a transaction leaves at most one frame, which belongs to it.
LEMMA EndLeaves ==
    ASSUME Modes, NEW t \in Task, NEW pc, NEW res \in Results, Ends(t, pc, res),
           Few', mishap \subseteq mishap', NEW req, req = task[t].req
    PROVE  /\ OnlyFor(req)' /\ Len(up') + Len(down') <= 1
           /\ \A u \in Task \ {t} : ~Open(u)
           /\ mishap = {"late"} => Receives(t, res)
  <1>1. Replies /\ Few /\ Open(t) /\ up' = up
    BY FewBefore DEF Modes, Ends
  <1>2. \A u \in Task \ {t} : ~Open(u)
    BY <1>1, FewAsk DEF OneAsks
  <1>3. CASE mishap' # {"late"}
    <2>1. mishap' \cap {"late", "clash"} = {}
      BY <1>3 DEF Few
    <2>2. up' = <<>> /\ down' = <<>> /\ Sound
      BY <1>1, <2>1, SoundEnd
    <2>3. mishap # {"late"}
      BY <2>2 DEF Sound
    <2> QED
      BY <1>2, <2>2, <2>3 DEF OnlyFor
  <1>4. CASE mishap' = {"late"} /\ mishap = {}
    <2>1. Quiet /\ down' = down
      BY <1>1, <1>4 DEF Replies, Sound, Ends, Receives, TimesOut
    <2>2. /\ up # <<>> => up = <<up[1]>> /\ up[1] = req /\ down = <<>>
          /\ down # <<>> => down = <<down[1]>> /\ Matches(down[1], req) /\ up = <<>>
      BY <1>1, <1>2, <2>1 DEF Quiet, Answers, Matches
    <2>3. CASE up # <<>>
      <3>1. Len(up) = 1 /\ DOMAIN up = {1} /\ down = <<>> /\ Len(down) = 0
        BY <2>2, <2>3
      <3> QED
        BY <1>1, <1>2, <1>4, <2>1, <2>2, <2>3, <3>1 DEF OnlyFor
    <2>4. CASE down # <<>>
      <3>1. Len(down) = 1 /\ DOMAIN down = {1} /\ up = <<>> /\ Len(up) = 0
        BY <2>2, <2>4
      <3> QED
        BY <1>1, <1>2, <1>4, <2>1, <2>2, <2>4, <3>1 DEF OnlyFor
    <2>5. CASE up = <<>> /\ down = <<>>
      BY <1>1, <1>2, <1>4, <2>1, <2>5 DEF OnlyFor
    <2> QED
      BY <2>3, <2>4, <2>5
  <1>5. CASE mishap' = {"late"} /\ mishap = {"late"}
    <2>1. LastIs(req) /\ Len(up) + Len(down) <= 2
      BY <1>1, <1>5 DEF Modes, Stale
    <2>2. up \in Seq(Asks) /\ down \in Seq(Frames)
      BY <1>1 DEF Replies, TypeInv, AirTypes
    <2>3. ~TimesOut(t, res)
      <3>1. SUFFICES ASSUME TimesOut(t, res) PROVE FALSE
        OBVIOUS
      <3>2. StillToCome(req)
        <4>1. up # <<>> => Len(up) \in DOMAIN up
          BY <2>2
        <4>2. down # <<>> => Len(down) \in DOMAIN down
          BY <2>2
        <4> QED
          BY <2>1, <4>1, <4>2 DEF LastIs, StillToCome, Matches
      <3>3. MayGoWrong("late")
        BY <3>1, <3>2 DEF TimesOut
      <3> QED
        BY <1>5, <3>3 DEF MayGoWrong
    <2>4. Receives(t, res)
      BY <2>3 DEF Ends
    <2>5. down # <<>> /\ down' = Tail(down)
      BY <2>4 DEF Receives
    <2>6. CASE up = <<>>
      BY <1>1, <1>2, <2>1, <2>2, <2>4, <2>5, <2>6 DEF LastIs, OnlyFor
    <2>7. CASE up # <<>>
      <3>1. Len(up) = 1 /\ Len(down) = 1
        <4>1. Len(up) \in Nat /\ Len(up) # 0 /\ Len(down) \in Nat /\ Len(down) # 0
          BY <2>2, <2>5, <2>7
        <4>2. \A m, n \in Nat : m # 0 /\ n # 0 /\ m + n <= 2 => m = 1 /\ n = 1
          OBVIOUS
        <4> QED
          BY <2>1, <4>1, <4>2
      <3>2. down' = <<>> /\ Len(down') = 0 /\ Len(up') = 1
        BY <1>1, <2>2, <2>5, <3>1
      <3>3. \A i \in DOMAIN up' : up'[i] = req
        BY <1>1, <2>1, <2>2, <2>7, <3>1 DEF LastIs
      <3> QED
        BY <1>2, <2>4, <3>2, <3>3 DEF OnlyFor
    <2> QED
      BY <2>6, <2>7
  <1> QED
    BY <1>3, <1>4, <1>5, FewBefore

\* What a probe asks for, and the only block that has as many registers.
LEMMA ProbeAsks ==
    ASSUME Replies, NEW t \in Task, At(t, "Probe"), Open(t)
    PROVE  /\ task[t].req = Read("Status")
           /\ \A f \in Frames : Matches(f, Read("Status")) => Accepts(task[t].req, f)
           /\ \A f \in Frames : Accepts(task[t].req, f) => f.func = "03" /\ f.reg = "Status"
  <1>1. task[t].req \in Requests(t) /\ Here(t) = "Probe"
    BY DEF Replies, Carries, Here, At
  <1>2. task[t].req = Read("Status")
    BY <1>1 DEF Requests
  <1>3. Read("Status").func = "03" /\ Read("Status").reg = "Status"
    BY DEF Read, Frame
  <1>4. \A r \in Reg : Count[r] = Count["Status"] => r = "Status"
    BY DEF Count, Reg
  <1> QED
    BY <1>2, <1>3, <1>4 DEF Accepts, Matches, Frames

LEMMA ProbeTrue ==
    ASSUME Modes, NEW t \in Task, NEW res \in Results, Ends(t, "Probe", res), res # Err
    PROVE  0 \in res.word <=> 0 \in dev["Status"]
  <1>1. /\ Replies /\ At(t, "Probe") /\ Open(t) /\ Receives(t, res)
        /\ down \in Seq(Frames) /\ StatusTrue
    BY DEF Modes, Ends, TimesOut, Replies, TypeInv, AirTypes
  <1>2. /\ down # <<>> /\ res = Head(down) /\ Accepts(task[t].req, Head(down))
    BY <1>1 DEF Receives
  <1>3. 1 \in DOMAIN down /\ Head(down) = down[1] /\ down[1] \in Frames
    BY <1>1, <1>2
  <1>4. down[1].func = "03" /\ down[1].reg = "Status"
    BY <1>1, <1>2, <1>3, ProbeAsks
  <1> QED
    BY <1>1, <1>2, <1>3, <1>4 DEF StatusTrue

\* The second attempt is answered.
LEMMA SecondAnswered ==
    ASSUME Modes, NEW t \in Task, NEW res \in Results, Ends(t, "Probe", res),
           task[t].tries = 1, Few', mishap \subseteq mishap'
    PROVE  res # Err
  <1>1. Replies /\ Few /\ At(t, "Probe") /\ Open(t) /\ Second(t)
    BY FewBefore DEF Modes, Ends, Second
  <1>2. /\ mishap # {} /\ OnlyFor(Read("Status"))
        /\ up # <<>> \/ down # <<>>
    BY <1>1 DEF Modes, SecondTry
  <1>3. mishap' = mishap
    BY <1>2, FewBefore
  <1>4. CASE mishap = {"late"}
    <2>1. Receives(t, res) /\ down \in Seq(Frames)
      BY <1>1, <1>4, EndLeaves DEF Replies, TypeInv, AirTypes
    <2>2. down # <<>>
      BY <2>1 DEF Receives
    <2>3. 1 \in DOMAIN down /\ Head(down) = down[1] /\ down[1] \in Frames
      BY <2>1, <2>2
    <2>4. Accepts(task[t].req, Head(down)) /\ Matches(Head(down), Read("Status"))
      BY <1>1, <1>2, <2>3, ProbeAsks DEF OnlyFor
    <2>5. res = Head(down)
      BY <2>1, <2>4 DEF Receives
    <2>6. Read("Status").func = "03" /\ Err.func = "Err"
      BY DEF Read, Err, Frame
    <2> QED
      BY <2>4, <2>5, <2>6 DEF Matches
  <1>5. CASE mishap # {"late"}
    <2>1. mishap' \cap {"late", "clash"} = {}
      BY <1>1, <1>3, <1>5 DEF Few
    <2> QED
      BY <1>1, <1>2, <2>1, SoundEnd
  <1> QED
    BY <1>4, <1>5

\* What the end of any transaction leaves.
LEMMA EndAir ==
    ASSUME Modes, NEW t \in Task, NEW pc, NEW res \in Results, Ends(t, pc, res),
           TurnStep(t), ~Open(t)', dev' = dev, mishap \subseteq mishap',
           task'[t].pc # "Idle"
    PROVE  Once' /\ StatusTrue' /\ Stale'
  <1>1. /\ \A u \in Task \ {t} : task'[u] = task[u] /\ (Open(u)' <=> Open(u))
        /\ task'[t].pc # "Start" /\ "Ota" \in Task
    BY DEF TurnStep, Open, Task
  <1>2. up' = up /\ (down' = down \/ (down # <<>> /\ down' = Tail(down)))
    BY DEF Ends, Receives, TimesOut
  <1>3. mishap' = mishap \/ (MayGoWrong("late") /\ mishap' = mishap \cup {"late"})
    BY DEF Ends, Receives, TimesOut
  <1>4. Once'
    BY <1>1, <1>3 DEF Modes, Once, MayGoWrong
  <1>5. StatusTrue'
    BY <1>2, StatusShrinks DEF Modes, Replies, TypeInv
  <1>6. ASSUME mishap' = {"late"}
        PROVE  /\ Len(up') + Len(down') <= 1
               /\ \A u \in Task : ~Open(u)'
    <2>1. Few'
      BY <1>6 DEF Few
    <2>2. Len(up') + Len(down') <= 1 /\ \A u \in Task \ {t} : ~Open(u)
      BY <2>1, EndLeaves
    <2> QED
      BY <1>1, <2>2
  <1>7. Stale'
    BY <1>6 DEF Stale, OneAsks
  <1> QED
    BY <1>4, <1>5, <1>7

\* Nobody but t is at a second attempt after a step of t with its request open.
LEMMA EndSecond ==
    ASSUME Modes, NEW t \in Task, Open(t), TurnStep(t),
           NEW u \in Task, Second(u)'
    PROVE  u = t
  <1> SUFFICES ASSUME u # t PROVE FALSE
    OBVIOUS
  <1>1. Second(u)
    BY DEF TurnStep, Second, At
  <1> QED
    BY <1>1, AloneTry

LEMMA SettledStays ==
    ASSUME Modes, SameMode, dev' = dev, mishap \subseteq mishap'
    PROVE  Settled'
  BY FewBefore DEF Modes, Settled, SameMode

\* A step of t that does not fail a probe leaves t at none.
LEMMA ElsewhereSecond ==
    ASSUME NEW t, TurnStep(t), Elsewhere(t)
    PROVE  ~Second(t)'
  BY DEF TurnStep, Elsewhere, Second, At

LEMMA EndModes ==
    ASSUME Modes, NEW t \in Task, NEW res \in Results, EndStep(t, res),
           TurnStep(t), Elsewhere(t), mishap \subseteq mishap'
    PROVE  Once' /\ StatusTrue' /\ Stale' /\ SecondTry' /\ Settled'
  <1>1. /\ Ends(t, task[t].pc, res) /\ Open(t) /\ ~Open(t)' /\ dev' = dev
        /\ task'[t].pc # "Idle"
    BY DEF EndStep, Alone, Ends, Open
  <1>2. Once' /\ StatusTrue' /\ Stale'
    BY <1>1, EndAir
  <1>3. SecondTry'
    BY <1>1, EndSecond, ElsewhereSecond DEF SecondTry
  <1>4. Settled'
    BY <1>1, SettledStays DEF Elsewhere
  <1> QED
    BY <1>2, <1>3, <1>4

LEMMA ProbeModes ==
    ASSUME Modes, NEW t \in Task, ProbeDone(t), TurnStep(t), mishap \subseteq mishap'
    PROVE  Once' /\ StatusTrue' /\ Stale' /\ SecondTry' /\ Settled'
  <1>1. Replies /\ Gate /\ task[t] \in Tasks(t) /\ live \in Lives
    BY DEF Modes, Replies, TypeInv, Gate, TaskTypes, DataTypes
  <1>2. PICK res \in Results :
          /\ Ends(t, "Probe", res)
          /\ \/ /\ res = Err /\ task[t].tries = 0 /\ live' = live
                /\ task' = [task EXCEPT ![t].req = None, ![t].tries = 1]
             \/ /\ res # Err \/ task[t].tries # 0
                /\ Goes(t, "Choose")
                /\ live' = [live EXCEPT !.probed = TRUE, !.mode = Mode(res)]
    BY Zenon DEF ProbeDone, Releases
  <1>3. At(t, "Probe") /\ Open(t) /\ dev' = dev
    BY <1>2 DEF ProbeDone, Ends
  <1>4. CASE /\ res = Err /\ task[t].tries = 0 /\ live' = live
             /\ task' = [task EXCEPT ![t].req = None, ![t].tries = 1]
    <2>1. task'[t] = [task[t] EXCEPT !.req = None, !.tries = 1]
      BY <1>1, <1>4 DEF Gate
    <2>2. task'[t].req = None /\ task'[t].pc = "Probe"
      BY <1>1, <1>3, <2>1 DEF Tasks, At
    <2>3. Once' /\ StatusTrue' /\ Stale'
      BY <1>2, <1>3, <2>2, EndAir DEF Open
    <2>4. ASSUME Few' PROVE mishap' # {} /\ OnlyFor(Read("Status"))'
      <3>1. OnlyFor(Read("Status"))'
        BY <1>1, <1>2, <1>3, <2>4, EndLeaves, ProbeAsks
      <3>2. ASSUME mishap' = {} PROVE FALSE
        <4>1. mishap = {} /\ mishap' \cap {"late", "clash"} = {}
          BY <3>2
        <4>2. up # <<>> \/ down # <<>>
          BY <1>1, <1>3, <4>1 DEF Replies, Answered
        <4> QED
          BY <1>1, <1>2, <1>4, <4>1, <4>2, SoundEnd
      <3> QED
        BY <3>1, <3>2
    <2>5. SecondTry'
      BY <1>3, <2>2, <2>4, EndSecond DEF SecondTry, Open
    <2>6. Settled'
      BY <1>1, <1>3, <1>4, ModeStays, SettledStays
    <2> QED
      BY <2>3, <2>5, <2>6
  <1>5. CASE /\ res # Err \/ task[t].tries # 0
             /\ Goes(t, "Choose")
             /\ live' = [live EXCEPT !.probed = TRUE, !.mode = Mode(res)]
    <2>1. task'[t].pc = "Choose" /\ task'[t].req = None
      BY <1>1, <1>5, GoesFacts
    <2>2. Once' /\ StatusTrue' /\ Stale'
      BY <1>2, <1>3, <2>1, EndAir DEF Open
    <2>3. SecondTry'
      BY <1>3, <2>1, EndSecond DEF SecondTry, Second, At
    <2>4. live'.mode = Mode(res)
      <3>1. \A l \in Lives : \A m : [l EXCEPT !.probed = TRUE, !.mode = m].mode = m
        BY DEF Lives
      <3> QED
        BY <1>1, <1>5, <3>1, Zenon
    <2>5. ASSUME Few' PROVE live'.mode = "Tlv" <=> 0 \in dev["Status"]
      <3>1. task[t].tries \in {0, 1}
        BY <1>1 DEF Tasks
      <3>2. res # Err
        BY <1>2, <1>5, <2>5, <3>1, SecondAnswered
      <3>3. 0 \in res.word <=> 0 \in dev["Status"]
        BY <1>2, <3>2, ProbeTrue
      <3> QED
        BY <2>4, <3>2, <3>3 DEF Mode
    <2>6. Settled'
      BY <1>3, <2>5 DEF Settled
    <2> QED
      BY <2>2, <2>3, <2>6
  <1> QED
    BY <1>2, <1>4, <1>5

LEMMA MoveModes ==
    ASSUME Modes, NEW t \in Task, MoveStep(t), TurnStep(t), Elsewhere(t),
           mishap \subseteq mishap'
    PROVE  Once' /\ StatusTrue' /\ Stale' /\ SecondTry' /\ Settled'
  <1>1. /\ ~Open(t) /\ ~Open(t)' /\ UNCHANGED <<up, live, dev>>
        /\ \A u \in Task \ {t} : task'[u] = task[u]
        /\ task'[t].pc \notin {"Idle", "Start"} /\ "Ota" \in Task
    BY DEF MoveStep, Alone, Open, Task
  <1>2. \A u \in Task : /\ Open(u)' <=> Open(u)
                        /\ Open(u) => task'[u] = task[u]
                        /\ Second(u)' => Second(u) /\ u # t
    BY <1>1, ElsewhereSecond DEF Open, Second, At
  <1>3. \/ down' = down /\ mishap' = mishap
        \/ /\ t = "Ota" /\ At(t, "Start")
           /\ down' \in Cleared /\ mishap' = mishap \cup {"cleared"}
    BY DEF MoveStep
  <1>4. Once'
    BY <1>1, <1>3 DEF Modes, Once
  <1>5. StatusTrue'
    BY <1>1, <1>3, StatusShrinks DEF Modes, Replies, TypeInv
  <1>6. Settled'
    BY <1>1, SettledStays DEF Elsewhere
  <1>7. CASE down' = down /\ mishap' = mishap
    <2>1. Stale'
      BY <1>1, <1>2, <1>7 DEF Modes, Stale, OneAsks, LastIs
    <2>2. SecondTry'
      BY <1>1, <1>2, <1>7 DEF Modes, SecondTry, Few, OnlyFor
    <2> QED
      BY <1>4, <1>5, <1>6, <2>1, <2>2
  <1>8. CASE /\ t = "Ota" /\ At(t, "Start")
             /\ down' \in Cleared /\ mishap' = mishap \cup {"cleared"}
    <2>1. Few' => mishap = {} /\ Few
      BY <1>8, FewBefore DEF Modes, Once, At
    <2>2. Stale'
      BY <1>8 DEF Stale
    <2>3. SecondTry'
      BY <1>2, <2>1 DEF Modes, SecondTry
    <2> QED
      BY <1>4, <1>5, <1>6, <2>2, <2>3
  <1> QED
    BY <1>3, <1>7, <1>8

\* A request comes behind what little is on the air.
LEMMA SendAir ==
    ASSUME AirTypes, NEW req \in Asks, up' = Append(up, req), down' \in Cleared
    PROVE  /\ Len(up') + Len(down') <= Len(up) + Len(down) + 1
           /\ up' # <<>> /\ up'[Len(up')] = req
           /\ \A i \in DOMAIN up' : up'[i] = req \/ \E j \in DOMAIN up : up'[i] = up[j]
           /\ \A i \in DOMAIN down' : \E j \in DOMAIN down : down'[i] = down[j]
  <1>1. up \in Seq(Asks) /\ down \in Seq(Frames)
    BY DEF AirTypes
  <1>2. PICK n \in 1..Len(down) + 1 : down' = SubSeq(down, n, Len(down))
    BY DEF Cleared
  <1>3. n \in Nat /\ n >= 1 /\ Len(down) \in Nat /\ DOMAIN down = 1..Len(down)
        /\ n <= Len(down) + 1
    BY <1>1, <1>2
  <1>4. DOMAIN down' = 1..(Len(down) - n + 1) /\ Len(down') = Len(down) - n + 1
    BY <1>1, <1>2, <1>3
  <1>5. ASSUME NEW i \in DOMAIN down' PROVE \E j \in DOMAIN down : down'[i] = down[j]
    <2>1. i \in Nat /\ i >= 1 /\ i <= Len(down) - n + 1
      BY <1>3, <1>4, <1>5
    <2>2. down'[i] = down[n + i - 1]
      BY <1>1, <1>2, <1>3, <2>1
    <2>3. n + i - 1 \in DOMAIN down
      BY <1>3, <2>1
    <2> QED
      BY <2>2, <2>3
  <1>6. /\ Len(up') = Len(up) + 1 /\ Len(up) \in Nat
        /\ up' # <<>> /\ up'[Len(up')] = req
        /\ \A i \in DOMAIN up' : up'[i] = req \/ \E j \in DOMAIN up : up'[i] = up[j]
    BY <1>1
  <1>7. Len(up') + Len(down') <= Len(up) + Len(down) + 1
    BY <1>3, <1>4, <1>6
  <1> QED
    BY <1>5, <1>6, <1>7

LEMMA SendModes ==
    ASSUME Modes, NEW t \in Task, Send(t), TurnStep(t), mishap \subseteq mishap'
    PROVE  Once' /\ StatusTrue' /\ Stale' /\ SecondTry' /\ Settled'
  <1>1. Replies /\ Gate /\ task[t] \in Tasks(t) /\ AirTypes /\ live \in Lives
    BY DEF Modes, Replies, TypeInv, Gate, TaskTypes, DataTypes
  <1>2. PICK req \in Requests(t) :
            task' = [task EXCEPT ![t].pc = Here(t), ![t].req = req] /\ up' = Append(up, req)
    BY DEF Send
  <1>3. req \in Asks
    BY <1>1, <1>2, RequestTypes
  <1>4. /\ task'[t] = [task[t] EXCEPT !.pc = Here(t), !.req = req]
        /\ \A u \in Task \ {t} : task'[u] = task[u]
    BY <1>1, <1>2 DEF Gate
  <1>5. task'[t].pc = Here(t) /\ task'[t].req = req /\ task'[t].tries = task[t].tries
    BY <1>1, <1>4 DEF Tasks
  <1>6. UNCHANGED <<dev, live>> /\ down' \in Cleared /\ ~Open(t)
    BY DEF Send
  <1>7. /\ Len(up') + Len(down') <= Len(up) + Len(down) + 1
        /\ up' # <<>> /\ up'[Len(up')] = req
        /\ \A i \in DOMAIN up' : up'[i] = req \/ \E j \in DOMAIN up : up'[i] = up[j]
        /\ \A i \in DOMAIN down' : \E j \in DOMAIN down : down'[i] = down[j]
    BY <1>1, <1>2, <1>3, <1>6, SendAir
  <1>8. Open(t)'
    <2>1. req # None
      BY <1>3 DEF Asks, None, Frame
    <2> QED
      BY <1>5, <2>1 DEF Open
  <1>9. mishap' = mishap \/ "clash" \in mishap'
    BY DEF Send
  <1>10. ASSUME "clash" \notin mishap', NEW u \in Task \ {t} PROVE ~Open(u)
    <2> SUFFICES ASSUME Open(u) PROVE FALSE
      OBVIOUS
    <2>1. "Ota" \notin {t, u}
      BY <1>10 DEF Send
    <2>2. Holds(u)
      BY <1>1, <2>1 DEF Gate, OneOpen
    <2>3. task[t].pc # "Dist"
      BY <1>1, <2>1 DEF Tasks, PcOf, RoundPc, WriterPc, PollPc
    <2>4. Holds(t)
      BY <2>3 DEF Send, MayUse, At
    <2> QED
      BY <2>2, <2>4 DEF Holds
  <1>11. Once'
    <2>1. mishap' \subseteq mishap \cup {"clash"} /\ "Ota" \in Task
      BY DEF Send, Task
    <2>2. task'[t].pc = "Start" => task[t].pc = "Start"
      BY <1>5 DEF Here
    <2>3. task'[t].pc = "Idle" => task[t].pc = "Idle"
      BY <1>5 DEF Here
    <2> QED
      BY <1>4, <2>1, <2>2, <2>3 DEF Modes, Once
  <1>12. StatusTrue'
    <2>1. req.func = "06" => req.reg # "Status"
      <3>1. Here(t) = "Write" => task[t].job.reg \in {"A", "B"}
        <4>1. t = "Poll" \/ t = "Ota" => task[t].pc # "Write"
          BY <1>1, ModbusLinkAssumption
          DEF Tasks, PcOf, RoundPc, PollPc, OtaPc
        <4>2. Here(t) = "Write" => task[t].pc = "Write"
          BY DEF Here
        <4> QED
          BY <1>1, <4>1, <4>2 DEF Task, Replies, JobsFit
      <3> QED
        BY <1>2, <3>1 DEF Requests, Read, Write, Frame
    <2> QED
      BY <1>6, <1>7, <2>1 DEF Modes, StatusTrue
  <1>13. Stale'
    <2> SUFFICES ASSUME mishap' = {"late"}
                 PROVE  /\ OneAsks' /\ Len(up') + Len(down') <= 2
                        /\ \A u \in Task : Open(u)' => LastIs(task[u].req)'
      <3>1. (\E u \in Task : Open(u))'
        BY <1>8
      <3> QED
        BY <3>1 DEF Stale
    <2>1. mishap = {"late"} /\ \A u \in Task : ~Open(u)
      BY <1>6, <1>9, <1>10
    <2>2. Len(up) + Len(down) <= 1
      BY <2>1 DEF Modes, Stale
    <2>3. Len(up') + Len(down') <= 2
      <3>1. Len(up) \in Nat /\ Len(down) \in Nat /\ Len(up') \in Nat /\ Len(down') \in Nat
        <4>1. up' \in Seq(Asks) /\ down' \in Seq(Frames)
          BY <1>1, <1>2, <1>3, <1>6, ClearedTypes DEF AirTypes
        <4> QED
          BY <1>1, <4>1 DEF AirTypes
      <3> QED
        BY <1>7, <2>2, <3>1
    <2>4. \A u \in Task : Open(u)' => u = t
      BY <1>4, <2>1 DEF Open
    <2> QED
      <3>1. LastIs(task[t].req)'
        BY <1>5, <1>7 DEF LastIs
      <3> QED
        BY <2>3, <2>4, <3>1 DEF OneAsks
  <1>14. SecondTry'
    <2> SUFFICES ASSUME Few', NEW u \in Task, Second(u)'
                 PROVE  /\ mishap' # {} /\ OnlyFor(Read("Status"))' /\ up' # <<>>
      BY DEF SecondTry
    <2>1. mishap' = mishap
      BY <1>9 DEF Few
    <2>2. Second(u)
      <3>1. Here(t) = "Probe" => task[t].pc = "Probe"
        BY DEF Here, At
      <3> QED
        BY <1>4, <1>5, <3>1 DEF Second, At
    <2>3. mishap # {} /\ OnlyFor(Read("Status"))
      BY <2>1, <2>2, FewBefore DEF Modes, SecondTry
    <2>4. u = t
      <3>1. Holds(t) \/ At("Ota", "Dist")
        BY <1>1 DEF Send, MayUse, Tasks, PcOf, RoundPc, WriterPc, PollPc, At
      <3> QED
        BY <2>2, <3>1, AloneTry
    <2>5. req = Read("Status")
      BY <1>2, <2>2, <2>4 DEF Second, At, Here, Requests
    <2>6. OnlyFor(Read("Status"))'
      BY <1>7, <2>3, <2>5 DEF OnlyFor
    <2> QED
      BY <1>7, <2>1, <2>3, <2>6
  <1>15. Settled'
    BY <1>1, <1>6, ModeStays, SettledStays
  <1> QED
    BY <1>11, <1>12, <1>13, <1>14, <1>15

\* A frame taken by the way is nobody's: not of the task that passes over it,
\* and during a transfer none is.
LEMMA TakenModes ==
    ASSUME Modes, NEW t \in Task, PassOver(t) \/ OtaTransfers, mishap \subseteq mishap'
    PROVE  Turns' /\ Once' /\ StatusTrue' /\ Stale' /\ SecondTry' /\ Settled'
  <1>1. /\ UNCHANGED <<ui, gate, task, up, live, dev, mishap>>
        /\ down # <<>> /\ down' = Tail(down) /\ busy' = busy
    BY DEF PassOver, OtaTransfers, ui
  <1>2. /\ Replies /\ Gate /\ AirTypes /\ live \in Lives
        /\ up \in Seq(Asks) /\ down \in Seq(Frames) /\ "Ota" \in Task
    BY DEF Modes, Replies, TypeInv, DataTypes, AirTypes, Task
  <1>3. Turns'
    BY <1>1, TurnsSame DEF Modes
  <1>4. Once'
    BY <1>1 DEF Modes, Once
  <1>5. StatusTrue'
    BY <1>1, <1>2, StatusShrinks DEF Modes
  <1>6. Settled'
    BY <1>1, <1>2, ModeStays, SettledStays
  <1>7. \A u \in Task : (Open(u)' <=> Open(u)) /\ (Second(u)' <=> Second(u))
    BY <1>1 DEF Open, Second, At
  <1>8. /\ Len(down') = Len(down) - 1 /\ Len(down) \in Nat /\ Len(up) \in Nat
        /\ Len(down) > 1 => down' # <<>> /\ down'[Len(down')] = down[Len(down)]
        /\ Head(down) = down[1]
    <2>1. /\ Len(down') = Len(down) - 1 /\ Len(down) \in Nat /\ Len(up) \in Nat
          /\ Head(down) = down[1] /\ down' \in Seq(Frames)
          /\ \A i \in 1..Len(down) - 1 : down'[i] = down[i + 1]
      BY <1>1, <1>2
    <2>2. ASSUME Len(down) > 1 PROVE down' # <<>> /\ down'[Len(down')] = down[Len(down)]
      <3>1. Len(down) - 1 \in 1..Len(down) - 1 /\ Len(down') # 0
        BY <2>1, <2>2
      <3>2. down'[Len(down) - 1] = down[Len(down) - 1 + 1]
        BY <2>1, <3>1
      <3> QED
        BY <2>1, <3>1, <3>2
    <2> QED
      BY <2>1, <2>2
  <1>9. Stale'
    <2> SUFFICES ASSUME mishap = {"late"}
                 PROVE  /\ OneAsks'
                        /\ Len(up') + Len(down') <= IF \E u \in Task : Open(u)' THEN 2 ELSE 1
                        /\ \A u \in Task : Open(u) => LastIs(task[u].req)'
      BY <1>1, <1>7 DEF Stale
    <2>1. Stale /\ OneAsks
      BY DEF Modes, Stale
    <2>2. OneAsks'
      BY <1>7, <2>1 DEF OneAsks
    <2>3. Len(up') + Len(down') <= IF \E u \in Task : Open(u)' THEN 2 ELSE 1
      BY <1>1, <1>7, <1>8, <2>1 DEF Stale
    <2>4. ASSUME NEW u \in Task, Open(u) PROVE LastIs(task[u].req)'
      <3>1. LastIs(task[u].req)
        BY <2>1, <2>4 DEF Stale
      <3>2. CASE up # <<>>
        BY <1>1, <3>1, <3>2 DEF LastIs
      <3>3. CASE up = <<>> /\ PassOver(t)
        <4>1. u = t /\ task[u].req.func = "TLV" /\ Head(down).func # "TLV"
          BY <2>1, <2>4, <3>3 DEF OneAsks, PassOver
        <4>2. Matches(down[Len(down)], task[u].req)
          BY <3>1, <3>3 DEF LastIs
        <4>3. Len(down) # 1 /\ Len(down) # 0
          BY <1>1, <1>2, <1>8, <4>1, <4>2 DEF Matches
        <4>4. down' # <<>> /\ down'[Len(down')] = down[Len(down)]
          BY <1>8, <4>3
        <4> QED
          BY <1>1, <3>3, <4>2, <4>4 DEF LastIs
      <3>4. CASE OtaTransfers
        <4>1. Holds("Ota") /\ task["Ota"].pc = "Transfer"
          BY <3>4 DEF OtaTransfers, At
        <4>2. u # "Ota"
          BY <1>2, <2>4, <4>1 DEF Gate, OpenAt, RequestPc
        <4>3. Holds(u)
          BY <1>2, <2>4, <4>2 DEF Gate, OneOpen
        <4> QED
          BY <4>1, <4>2, <4>3 DEF Holds
      <3> QED
        BY <3>2, <3>3, <3>4
    <2> QED
      BY <2>2, <2>3, <2>4
  <1>10. \A u \in Task : ~Second(u)
    <2> SUFFICES ASSUME NEW u \in Task, Second(u) PROVE FALSE
      OBVIOUS
    <2>1. CASE PassOver(t)
      <3>1. u = t /\ Open(u) /\ task[u].req.func = "TLV"
        BY <2>1, AloneTry DEF PassOver
      <3>2. task[u].req = Read("Status")
        BY <1>2, <3>1, ProbeAsks DEF Second
      <3> QED
        BY <3>1, <3>2 DEF Read, Frame
    <2>2. CASE OtaTransfers
      BY <1>2, <2>2, AloneTry DEF OtaTransfers, Second, At
    <2> QED
      BY <2>1, <2>2
  <1>11. SecondTry'
    BY <1>7, <1>10 DEF SecondTry
  <1> QED
    BY <1>3, <1>4, <1>5, <1>6, <1>9, <1>11

\* One request lost, and no other mishap, is not lost in a second attempt.
LEMMA LostModes ==
    ASSUME Modes, WriteFails, mishap \subseteq mishap'
    PROVE  Turns' /\ Once' /\ StatusTrue' /\ Stale' /\ SecondTry' /\ Settled'
  <1>1. /\ UNCHANGED <<gate, task, down, live, dev, busy>>
        /\ up # <<>> /\ up' = Tail(up) /\ mishap' = mishap \cup {"lost"}
        /\ "lost" \in Mishaps /\ mishap \cap Mishaps = {}
    BY DEF WriteFails, ui, MayGoWrong
  <1>2. live \in Lives /\ up \in Seq(Asks)
    BY DEF Modes, Replies, TypeInv, DataTypes, AirTypes
  <1>3. Turns'
    BY <1>1, TurnsSame DEF Modes
  <1>4. Once'
    BY <1>1 DEF Modes, Once
  <1>5. StatusTrue'
    <2>1. \A i \in DOMAIN up' : \E j \in DOMAIN up : up'[i] = up[j]
      BY <1>1, <1>2
    <2> QED
      BY <1>1, <2>1 DEF Modes, StatusTrue
  <1>6. Stale'
    BY <1>1 DEF Stale
  <1>7. SecondTry'
    <2>1. Few' => mishap = {} /\ Few
      BY <1>1, FewBefore
    <2>2. \A u \in Task : Second(u)' <=> Second(u)
      BY <1>1 DEF Second, At
    <2> QED
      BY <2>1, <2>2 DEF Modes, SecondTry
  <1>8. Settled'
    BY <1>1, <1>2, ModeStays, SettledStays
  <1> QED
    BY <1>3, <1>4, <1>5, <1>6, <1>7, <1>8

\* An answer comes behind what little is on the air.
LEMMA ServedAir ==
    ASSUME up \in Seq(Asks), down \in Seq(Frames), up # <<>>, up' = Tail(up),
           NEW r, down' = Append(down, r)
    PROVE  /\ Len(up') + Len(down') = Len(up) + Len(down)
           /\ Head(up) = up[1] /\ 1 \in DOMAIN up
           /\ up' # <<>> => up'[Len(up')] = up[Len(up)]
           /\ up' = <<>> => up[Len(up)] = up[1]
           /\ down' # <<>> /\ down'[Len(down')] = r
           /\ \A i \in DOMAIN up' : \E j \in DOMAIN up : up'[i] = up[j]
           /\ \A i \in DOMAIN down' : down'[i] = r \/ \E j \in DOMAIN down : down'[i] = down[j]
  <1>1. /\ Len(up') = Len(up) - 1 /\ Len(up) \in Nat /\ Len(down) \in Nat
        /\ Len(up) # 0 /\ Len(down') = Len(down) + 1
        /\ Head(up) = up[1] /\ 1 \in DOMAIN up /\ up' \in Seq(Asks)
    OBVIOUS
  <1>2. /\ \A i \in DOMAIN up' : i + 1 \in DOMAIN up /\ up'[i] = up[i + 1]
        /\ up' # <<>> => Len(up') # 0
        /\ up' = <<>> => Len(up') = 0
    <2>1. \A i \in 1..Len(up) - 1 : up'[i] = up[i + 1]
      OBVIOUS
    <2>2. DOMAIN up' = 1..Len(up') /\ DOMAIN up = 1..Len(up)
      BY <1>1
    <2>3. \A s \in Seq(Asks) : Len(s) = 0 <=> s = <<>>
      OBVIOUS
    <2>4. Len(up') = 0 <=> up' = <<>>
      BY <1>1, <2>3, Zenon
    <2> QED
      BY <1>1, <2>1, <2>2, <2>4
  <1>3. up' # <<>> => up'[Len(up')] = up[Len(up)]
    BY <1>1, <1>2
  <1>4. /\ down' # <<>> /\ down'[Len(down')] = r
        /\ \A i \in DOMAIN down' : down'[i] = r \/ \E j \in DOMAIN down : down'[i] = down[j]
    OBVIOUS
  <1>5. up' = <<>> => up[Len(up)] = up[1]
    BY <1>1, <1>2
  <1> QED
    BY <1>1, <1>2, <1>3, <1>4, <1>5

LEMMA ServedModes ==
    ASSUME Modes, DeviceServes, mishap \subseteq mishap'
    PROVE  Turns' /\ Once' /\ StatusTrue' /\ Stale' /\ SecondTry' /\ Settled'
  <1> DEFINE r == Reply(Head(up))
  <1>1. /\ UNCHANGED <<gate, task, live, mishap, busy>>
        /\ up # <<>> /\ up' = Tail(up) /\ down' = Append(down, r)
        /\ dev' = IF Head(up).func = "06"
                  THEN [dev EXCEPT ![Head(up).reg] = Head(up).word] ELSE dev
    BY DEF DeviceServes, ui
  <1>2. /\ Replies /\ live \in Lives /\ up \in Seq(Asks) /\ down \in Seq(Frames)
        /\ dev \in [Reg -> SUBSET Bits]
    BY DEF Modes, Replies, TypeInv, DataTypes, AirTypes
  <1>3. r = Reply(up[1]) /\ up[1] \in Asks /\ 1 \in DOMAIN up /\ Head(up) = up[1]
    BY <1>1, <1>2
  <1>4. /\ r.func = up[1].func
        /\ up[1].func # "TLV" => r.reg = up[1].reg
        /\ up[1].func = "TLV" => r.reg = "Page"
        /\ up[1].func = "03" => r.word = dev[up[1].reg]
    BY <1>3 DEF Reply, Frame, Asks
  <1> HIDE DEF r
  <1>5. /\ Len(up') + Len(down') = Len(up) + Len(down)
        /\ up' # <<>> => up'[Len(up')] = up[Len(up)]
        /\ up' = <<>> => up[Len(up)] = up[1]
        /\ down' # <<>> /\ down'[Len(down')] = r
        /\ \A i \in DOMAIN up' : \E j \in DOMAIN up : up'[i] = up[j]
        /\ \A i \in DOMAIN down' : down'[i] = r \/ \E j \in DOMAIN down : down'[i] = down[j]
    BY <1>1, <1>2, ServedAir
  <1>6. dev'["Status"] = dev["Status"] /\ (r.func = "03" => dev' = dev)
    <2>1. up[1].func = "06" => up[1].reg # "Status"
      BY <1>3 DEF Modes, StatusTrue
    <2> QED
      BY <1>1, <1>2, <1>3, <1>4, <2>1 DEF Reg
  <1>7. \A u \in Task : (Open(u)' <=> Open(u)) /\ (Second(u)' <=> Second(u))
    BY <1>1 DEF Open, Second, At
  <1>8. Turns'
    BY <1>1, TurnsSame DEF Modes
  <1>9. Once'
    BY <1>1 DEF Modes, Once
  <1>10. StatusTrue'
    BY <1>4, <1>5, <1>6 DEF Modes, StatusTrue
  <1>11. Settled'
    BY <1>1, <1>6 DEF Modes, Settled, Few
  <1>12. Stale'
    <2> SUFFICES ASSUME mishap = {"late"}
                 PROVE  /\ OneAsks'
                        /\ Len(up') + Len(down') <= IF \E u \in Task : Open(u)' THEN 2 ELSE 1
                        /\ \A u \in Task : Open(u) => LastIs(task[u].req)'
      BY <1>1, <1>7 DEF Stale
    <2>1. Stale /\ OneAsks
      BY DEF Modes, Stale
    <2>2. OneAsks'
      BY <1>7, <2>1 DEF OneAsks
    <2>3. Len(up') + Len(down') <= IF \E u \in Task : Open(u)' THEN 2 ELSE 1
      BY <1>5, <1>7, <2>1 DEF Stale
    <2>4. ASSUME NEW u \in Task, Open(u) PROVE LastIs(task[u].req)'
      <3>1. up[Len(up)] = task[u].req
        BY <1>1, <2>1, <2>4 DEF Stale, LastIs
      <3>2. task[u].req.func = "TLV" => task[u].req.reg = "Page"
        BY <1>2, <2>4, AskedAt
      <3>3. up' = <<>> => Matches(r, task[u].req)
        BY <1>4, <1>5, <3>1, <3>2 DEF Matches
      <3> QED
        BY <1>1, <1>5, <3>1, <3>3 DEF LastIs
    <2> QED
      BY <2>2, <2>3, <2>4
  <1>13. SecondTry'
    <2> SUFFICES ASSUME Few, NEW u \in Task, Second(u)
                 PROVE  mishap # {} /\ OnlyFor(Read("Status"))' /\ down' # <<>>
      BY <1>1, <1>7 DEF SecondTry, Few
    <2>1. mishap # {} /\ OnlyFor(Read("Status"))
      BY DEF Modes, SecondTry
    <2>2. up[1] = Read("Status")
      BY <1>3, <2>1 DEF OnlyFor
    <2>3. Matches(r, Read("Status"))
      BY <1>4, <2>2 DEF Matches, Read, Frame
    <2> QED
      BY <1>5, <2>1, <2>3 DEF OnlyFor
  <1> QED
    BY <1>8, <1>9, <1>10, <1>11, <1>12, <1>13

\* A step that leaves alone what is on the air, and what is asked and known.
LEMMA StillModes ==
    ASSUME Modes, UNCHANGED <<up, down, live, dev, mishap>>,
           \A u \in Task : task'[u].req = task[u].req /\ (Second(u)' => Second(u))
    PROVE  StatusTrue' /\ Stale' /\ SecondTry' /\ Settled'
  <1>1. \A u \in Task : Open(u)' <=> Open(u)
    BY DEF Open
  <1>2. StatusTrue' /\ Settled'
    BY DEF Modes, StatusTrue, Settled, Few
  <1>3. Stale'
    <2>1. OneAsks => OneAsks'
      BY <1>1 DEF OneAsks
    <2>2. \A u \in Task : LastIs(task[u].req) => LastIs(task[u].req)'
      BY DEF LastIs
    <2>3. (\E u \in Task : Open(u))' <=> \E u \in Task : Open(u)
      BY <1>1
    <2>4. Len(up') + Len(down') = Len(up) + Len(down)
      OBVIOUS
    <2> QED
      BY <1>1, <2>1, <2>2, <2>3, <2>4 DEF Modes, Stale
  <1>4. SecondTry'
    BY <1>1 DEF Modes, SecondTry, Few, OnlyFor
  <1> QED
    BY <1>2, <1>3, <1>4

LEMMA UserModes ==
    ASSUME Modes, UserStep \/ UNCHANGED vars
    PROVE  Turns' /\ Once' /\ StatusTrue' /\ Stale' /\ SecondTry' /\ Settled'
  <1>1. UNCHANGED <<gate, task, up, down, live, dev, mishap>> /\ (busy => busy')
    BY DEF UserStep, UiToggle, UiWriteBit, UiStartOta, air, ui, vars
  <1>2. Turns'
    BY <1>1, TurnsSame DEF Modes
  <1>3. Once'
    BY <1>1 DEF Modes, Once
  <1>4. \A u \in Task : task'[u].req = task[u].req /\ (Second(u)' => Second(u))
    BY <1>1 DEF Second, At
  <1> QED
    BY <1>1, <1>2, <1>3, <1>4, StillModes

\* What the worker starts, if anything, has not been used before.
LEMMA WorkerStarts ==
    ASSUME TypeInv, WorkerStep, task' # task
    PROVE  \E t \in Task :
            /\ At(t, "Idle") /\ \A u \in Task \ {t} : task'[u] = task[u]
            /\ task'[t].pc = "Start" /\ task'[t].req = task[t].req
            /\ task'[t].tries = task[t].tries
            /\ t = "Ota" => busy'
  <1>1. PICK t \in Task : /\ At(t, "Idle") /\ (t = "Ota" => busy')
                          /\ task' = [task EXCEPT ![t].pc = "Start", ![t].job = Head(cmds)]
    <2>1. CASE WorkerTakesWrite
      <3>1. \E w \in Fresh : task' = [task EXCEPT ![w].pc = "Start", ![w].job = Head(cmds)]
        BY <2>1 DEF WorkerTakesWrite
      <3> QED
        BY <3>1, ModbusLinkAssumption DEF Fresh, Task
    <2>2. CASE WorkerTakesOta
      <3>1. 1 \in DOMAIN cmds /\ IsUpgrade(cmds[1])
        BY <2>2 DEF WorkerTakesOta, Writes, IsUpgrade, TypeInv, UiTypes
      <3>2. At("Ota", "Idle") /\ "Ota" \in Task
        BY <3>1 DEF TypeInv, OneUpgrade, Task
      <3> QED
        BY <2>2, <3>2 DEF WorkerTakesOta
    <2> QED
      BY <2>1, <2>2 DEF WorkerStep
  <1>2. task[t] \in Tasks(t)
    BY DEF TypeInv, Gate, TaskTypes
  <1>3. /\ task'[t] = [task[t] EXCEPT !.pc = "Start", !.job = Head(cmds)]
        /\ \A u \in Task \ {t} : task'[u] = task[u]
    BY <1>1 DEF TypeInv, Gate
  <1>4. /\ task'[t].pc = "Start" /\ task'[t].req = task[t].req
        /\ task'[t].tries = task[t].tries
    BY <1>2, <1>3 DEF Tasks
  <1> QED
    BY <1>1, <1>3, <1>4

LEMMA WorkerModes ==
    ASSUME Modes, WorkerStep
    PROVE  Turns' /\ Once' /\ StatusTrue' /\ Stale' /\ SecondTry' /\ Settled'
  <1>1. UNCHANGED <<gate, up, down, live, dev, mishap>> /\ (busy => busy')
    BY DEF WorkerStep, WorkerTakesWrite, WorkerTakesOta, air
  <1>2. CASE task' = task
    <2>1. Turns'
      BY <1>1, <1>2, TurnsSame DEF Modes
    <2>2. Once'
      BY <1>1, <1>2 DEF Modes, Once
    <2>3. \A u \in Task : task'[u].req = task[u].req /\ (Second(u)' => Second(u))
      BY <1>2 DEF Second, At
    <2> QED
      BY <1>1, <2>1, <2>2, <2>3, StillModes
  <1>3. CASE task' # task
    <2>1. PICK t \in Task :
            /\ At(t, "Idle") /\ \A u \in Task \ {t} : task'[u] = task[u]
            /\ task'[t].pc = "Start" /\ task'[t].req = task[t].req
            /\ task'[t].tries = task[t].tries
            /\ t = "Ota" => busy'
      BY <1>3, WorkerStarts DEF Modes, Replies
    <2>2. "Ota" \in Task /\ GateTypes
      BY DEF Task, Modes, Replies, TypeInv, Gate
    <2>3. Turns'
      <3>1. Upgrading'
        BY <1>1, <2>1, <2>2 DEF Modes, Turns, Upgrading
      <3>2. Behind'
        BY <1>1, <2>1, <2>2 DEF Modes, Turns, Behind, At, GateTypes
      <3>3. NoneProbes'
        BY <2>1, <2>2 DEF Modes, Turns, NoneProbes, At
      <3>4. Tries'
        <4>1. task[t].tries # 1
          BY <2>1 DEF Modes, Turns, Tries, At
        <4> QED
          BY <1>1, <2>1, <4>1 DEF Modes, Turns, Tries, At, Holds
      <3> QED
        BY <3>1, <3>2, <3>3, <3>4 DEF Turns
    <2>4. Once'
      <3>1. t = "Ota" => "cleared" \notin mishap
        BY <2>1 DEF Modes, Once, At
      <3> QED
        BY <1>1, <2>1, <2>2, <3>1 DEF Modes, Once
    <2>5. \A u \in Task : task'[u].req = task[u].req /\ (Second(u)' => Second(u))
      BY <2>1 DEF Second, At
    <2> QED
      BY <1>1, <2>3, <2>4, <2>5, StillModes
  <1> QED
    BY <1>2, <1>3

LEMMA ModesInit == Init => Modes
  <1> SUFFICES ASSUME Init PROVE Modes
    OBVIOUS
  <1>1. Replies
    BY RepliesInit
  <1>2. gate = <<>> /\ up = <<>> /\ down = <<>> /\ mishap = {} /\ "Ota" \in Task
    BY DEF Init, Task
  <1>3. ~live.probed
    BY Zenon DEF Init
  <1>4. \A t \in Task : task[t].pc \in {"Round", "Idle"} /\ task[t].tries = 0
    <2>1. NewTask.tries = 0 /\ NewTask.pc = "Idle"
      BY DEF NewTask
    <2>2. LET r == [NewTask EXCEPT !.pc = "Round"] IN r.tries = 0 /\ r.pc = "Round"
      BY <2>1, NewTaskType DEF NewTasks
    <2>3. \A t \in Task : task[t] = IF t = "Poll" THEN [NewTask EXCEPT !.pc = "Round"]
                                    ELSE NewTask
      BY DEF Init
    <2> QED
      BY <2>1, <2>2, <2>3
  <1>5. Turns
    BY <1>2, <1>4 DEF Turns, Upgrading, Behind, NoneProbes, Tries, At
  <1>6. Once /\ StatusTrue /\ Stale
    BY <1>2 DEF Once, StatusTrue, Stale
  <1>7. SecondTry /\ Settled
    BY <1>3, <1>4 DEF SecondTry, Second, Settled
  <1> QED
    BY <1>1, <1>5, <1>6, <1>7 DEF Modes

LEMMA ModesNext == Modes /\ [Next]_vars => Modes'
  <1> SUFFICES ASSUME Modes, [Next]_vars PROVE Modes'
    OBVIOUS
  <1>1. Replies' /\ mishap \subseteq mishap' /\ TypeInv /\ Gate /\ Gate'
    BY RepliesNext DEF Modes, Replies, TypeInv
  <1>2. CASE UserStep \/ UNCHANGED vars
    BY <1>1, <1>2, UserModes DEF Modes
  <1>3. CASE WorkerStep
    BY <1>1, <1>3, WorkerModes DEF Modes
  <1>4. CASE DeviceServes
    BY <1>1, <1>4, ServedModes DEF Modes
  <1>5. CASE WriteFails
    BY <1>1, <1>5, LostModes DEF Modes
  <1>6. ASSUME NEW t \in Task, TaskStep(t) PROVE Modes'
    <2>1. CASE PassOver(t) \/ OtaTransfers
      BY <1>1, <2>1, TakenModes DEF Modes
    <2>2. CASE /\ TurnStep(t) /\ (Send(t) \/ ProbeDone(t) \/ Elsewhere(t))
               /\ ~OtaTransfers /\ ~PassOver(t)
      <3>1. Turns'
        BY <1>1, <1>6, <2>2, TaskGate, TurnsKeep DEF Modes
      <3>2. CASE Send(t)
        BY <1>1, <2>2, <3>1, <3>2, SendModes DEF Modes
      <3>3. CASE ProbeDone(t)
        BY <1>1, <2>2, <3>1, <3>3, ProbeModes DEF Modes
      <3>4. CASE Elsewhere(t) /\ ~Send(t)
        <4>1. MoveStep(t) \/ \E res \in Results : EndStep(t, res)
          BY <1>1, <1>6, <2>2, <3>4, TaskKinds
        <4> QED
          BY <1>1, <2>2, <3>1, <3>4, <4>1, MoveModes, EndModes DEF Modes
      <3> QED
        BY <2>2, <3>2, <3>3, <3>4
    <2> QED
      BY <1>1, <1>6, <2>1, <2>2, TurnKinds DEF Modes, Turns
  <1> QED
    BY <1>2, <1>3, <1>4, <1>5, <1>6 DEF Next

\* At most one thing has gone wrong, and it is not a clash.
LEMMA OneMishap ==
    ASSUME mishap \subseteq {"lost", "late", "clash", "cleared"},
           "clash" \notin mishap, Cardinality(mishap) <= 1
    PROVE  Few
  <1>1. IsFiniteSet(mishap) /\ Cardinality(mishap) \in Nat
    <2>1. IsFiniteSet({"lost", "late", "clash", "cleared"})
      <3>1. IsFiniteSet({"lost"})
        BY FS_Singleton
      <3>2. IsFiniteSet({"lost"} \cup {"late"})
        BY <3>1, FS_AddElement
      <3>3. IsFiniteSet(({"lost"} \cup {"late"}) \cup {"clash"})
        BY <3>2, FS_AddElement
      <3>4. IsFiniteSet((({"lost"} \cup {"late"}) \cup {"clash"}) \cup {"cleared"})
        BY <3>3, FS_AddElement
      <3>5. {"lost", "late", "clash", "cleared"}
              = (({"lost"} \cup {"late"}) \cup {"clash"}) \cup {"cleared"}
        OBVIOUS
      <3> QED
        BY <3>4, <3>5
    <2> QED
      BY <2>1, FS_Subset, FS_CardinalityType
  <1>2. ASSUME NEW x \in mishap, NEW y \in mishap, x # y PROVE FALSE
    <2>1. IsFiniteSet({x}) /\ Cardinality({x}) = 1
      BY FS_Singleton
    <2>2. Cardinality({x} \cup {y}) = 2
      BY <1>2, <2>1, FS_AddElement
    <2>3. ({x} \cup {y}) \subseteq mishap
      OBVIOUS
    <2>4. Cardinality({x} \cup {y}) <= Cardinality(mishap)
      BY <1>1, <2>3, FS_Subset
    <2> QED
      BY <1>1, <2>2, <2>4
  <1> QED
    BY <1>2 DEF Few

\* A single lost, late or cleared reply does not cost a device its TLV mode:
\* probe_modbus_capabilities asks twice, and what spoils the first attempt
\* leaves nothing behind that could spoil the second.
THEOREM TlvModeCorrect == Spec => []TlvDeviceReadAsTlv
  <1>1. Spec => []Modes
    BY ModesInit, ModesNext, PTL DEF Spec
  <1>2. Modes => TlvDeviceReadAsTlv
    <2> SUFFICES ASSUME Modes, "clash" \notin mishap, Cardinality(mishap) <= 1
                 PROVE  live.probed => (live.mode = "Tlv" <=> 0 \in dev["Status"])
      BY DEF TlvDeviceReadAsTlv
    <2>1. Few
      BY OneMishap DEF Modes, Replies, TypeInv, DataTypes
    <2> QED
      BY <2>1 DEF Modes, Settled
  <1> QED
    BY <1>1, <1>2, PTL
=============================================================================
