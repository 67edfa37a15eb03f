----------------------------- MODULE ModbusLink -----------------------------
(***************************************************************************)
(* Modbus over one encrypted session: the poll task, the user's register   *)
(* writes and an upgrade share one write channel, one queue of decoded     *)
(* replies and the Modbus gate (services/ble/poll.rs, poll_executor.rs,    *)
(* worker/session.rs, ota.rs).                                             *)
(*                                                                         *)
(* A transaction clears the replies that have come so far, sends one       *)
(* request and takes the first reply that comes within the deadline.  A    *)
(* reply says which function it answers and how many registers it carries, *)
(* not which: parse_read_holding compares those two only.  The gate is a   *)
(* fair lock; the distribution reads of an upgrade over BLE do without it. *)
(*                                                                         *)
(* A register block's contents are a set of bits: "on" is the bit 0 of Out *)
(* (2011-2012), and of Status (1-16) if the device reads TLV.              *)
(***************************************************************************)
EXTENDS Naturals, Sequences, FiniteSets

CONSTANTS
    Writer,     \* bound of the model: tasks for register writes, each used once
    BitWrites,  \* the bit writes the user may ask for
    OtaJobs,    \* the kinds of upgrade the user may start, once: "Ble", "Http"
    Mishaps     \* what may go wrong on the air, once: "lost", "late"

Bits == {0, 1}
Reg == {"Status", "Info", "Soc", "Out", "A", "B", "Dist", "Page"}

\* registers in a read of the block; Page is a combined TLV read
Count == [r \in Reg |-> CASE r = "Status" -> 16 [] r = "Info" -> 31
                          [] r = "Out" -> 2     [] r = "Dist" -> 49
                          [] r \in {"Soc", "A", "B"} -> 1 [] r = "Page" -> 0]

ASSUME ModbusLinkAssumption ==
    /\ {"Poll", "Ota"} \cap Writer = {}
    /\ BitWrites \subseteq [op : {"Bit"}, reg : {"A", "B"}, bit : Bits, on : BOOLEAN]
    /\ OtaJobs \subseteq {"Ble", "Http"}
    /\ Mishaps \subseteq {"lost", "late"}

VARIABLES
    cmds,       \* the worker's commands from the user interface
    busy,       \* ota_busy
    wake,       \* the stored permit of PollPolicy.wake
    outputBusy, \* output_busy: the output buttons are disabled
    gate,       \* who holds the Modbus gate, and who waits, in order
    task,       \* the poll task, the writers and the upgrade
    up,         \* requests on their way to the device
    down,       \* replies nobody has taken: on their way, then decoded
    live,       \* what ModbusLive says
    dev,        \* the device's registers
    mishap      \* what has gone wrong so far: "lost", "late", "clash", "cleared"

ui   == <<cmds, busy, wake, outputBusy>>
air  == <<up, down>>
vars == <<ui, gate, task, air, live, dev, mishap>>

-----------------------------------------------------------------------------
(* Requests and replies.                                                   *)

Frame(func, reg, word) == [func |-> func, reg |-> reg, word |-> word]
Read(reg)        == Frame(IF reg = "Page" THEN "TLV" ELSE "03", reg, {})
Write(reg, word) == Frame("06", reg, word)
None             == Frame("None", "Page", {})   \* no request, or no reply yet
Err              == Frame("Err", "Page", {})

Frames == [func : {"03", "06", "TLV", "None", "Err"}, reg : Reg, word : SUBSET Bits]

\* What the caller of modbus_transaction makes of the frame it was given.
Accepts(req, f) ==
    f.func = req.func /\ (req.func = "03" => Count[f.reg] = Count[req.reg])

Job(op, reg, bit, on) == [op |-> op, reg |-> reg, bit |-> bit, on |-> on]
NoJob        == Job("None", "Out", 0, FALSE)
ToggleTo(on) == Job("Toggle", "Out", 0, on)
OtaJob(kind) == Job(kind, "Dist", 0, FALSE)

With(word, bit, on) == IF on THEN word \cup {bit} ELSE word \ {bit}

-----------------------------------------------------------------------------
(* Tasks and the gate.                                                     *)

Task == Writer \cup {"Poll", "Ota"}

NewTask == [pc |-> "Idle", job |-> NoJob, req |-> None,
            tries |-> 0, word |-> {}, one |-> FALSE]

Open(t)  == task[t].req # None
Holds(t) == gate # <<>> /\ Head(gate) = t
At(t, pc) == task[t].pc = pc

Moved(t, pc) ==
    [(IF pc = "End" THEN [NewTask EXCEPT !.job = task[t].job] ELSE task[t])
        EXCEPT !.pc = pc, !.req = None]
Goes(t, pc) == task' = [task EXCEPT ![t] = Moved(t, pc)]

\* gate.lock().await, the next thing the task does; and the end of the guard.
Queues(t, pc)   == Goes(t, pc) /\ gate' = Append(gate, t)
Releases(t, pc) == Goes(t, pc) /\ gate' = Tail(gate)

\* Where poll_dashboard goes once it has the gate.
Here(t) == IF ~At(t, "Page") THEN task[t].pc
           ELSE IF live.mode # "Tlv" THEN "Soc"
           ELSE IF live.split THEN "TlvStatus" ELSE "TlvPage"

\* The request a task makes where it is.
Requests(t) ==
    CASE Here(t) = "Probe"    -> {Read("Status")}
      [] Here(t) = "Info"     -> {Read("Info")}
      [] Here(t) \in {"TlvPage", "TlvStatus"} -> {Read("Page")}
      [] Here(t) = "Soc"      -> {Read("Soc")}
      [] Here(t) \in {"Out", "ReadBack"} -> {Read("Out")}
      [] Here(t) = "Toggle"   -> {Write("Out", With({}, 0, task[t].job.on))}
      [] Here(t) = "Modify"   -> {Read(task[t].job.reg)}
      [] Here(t) = "Write"    -> {Write(task[t].job.reg, task[t].word)}
      [] Here(t) = "Dist"     -> {Read("Dist")}
      [] OTHER -> {}

\* A probe or a device-info read that somebody else has made in the meantime.
Needless(t) == \/ At(t, "Probe") /\ live.probed
               \/ At(t, "Info") /\ live.loaded

\* Mutant: the device information is read without the gate.
InfoUngated(t) == Holds(t) \/ task[t].pc \in {"Info", "Dist"}

\* wait_ota_distribution of a BLE upgrade reads without the gate.
MayUse(t) == Holds(t) \/ At(t, "Dist")

\* What is left of `down` when the replies that have been decoded by now,
\* none of them or some, are thrown away.
Cleared == {SubSeq(down, n, Len(down)) : n \in 1..Len(down) + 1}

\* modbus_transaction and modbus_tlv_read up to the write channel.
Send(t) ==
    /\ ~Open(t) /\ MayUse(t) /\ ~Needless(t)
    /\ \E req \in Requests(t) :
        /\ task' = [task EXCEPT ![t].pc = Here(t), ![t].req = req]
        /\ up' = Append(up, req)
    /\ down' \in Cleared
    /\ mishap' = IF \E u \in Task \ {t} : Open(u) /\ "Ota" \in {t, u}
                 THEN mishap \cup {"clash"} ELSE mishap
    /\ UNCHANGED <<ui, gate, live, dev>>

\* A TLV read passes over frames that are not of TLV.
PassOver(t) ==
    /\ Open(t) /\ task[t].req.func = "TLV"
    /\ down # <<>> /\ Head(down).func # "TLV"
    /\ down' = Tail(down)
    /\ UNCHANGED <<ui, gate, task, up, live, dev, mishap>>

\* One reply late or one request lost in a behaviour.
MayGoWrong(what) == what \in Mishaps /\ mishap \cap Mishaps = {}

\* An answer to the request is still to come.
StillToCome(req) ==
    \/ \E i \in DOMAIN up : up[i] = req
    \/ \E i \in DOMAIN down : down[i].func = req.func /\ down[i].reg = req.reg

\* pop_modbus_response: the first frame, whatever it answers.
Receives(t, res) ==
    /\ down # <<>> /\ down' = Tail(down) /\ UNCHANGED mishap
    /\ task[t].req.func = "TLV" => Head(down).func = "TLV"
    /\ res = IF Accepts(task[t].req, Head(down)) THEN Head(down) ELSE Err

\* The deadline, which an answer still to come has then missed.
TimesOut(t, res) ==
    /\ res = Err /\ UNCHANGED down
    /\ IF StillToCome(task[t].req)
       THEN MayGoWrong("late") /\ mishap' = mishap \cup {"late"}
       ELSE UNCHANGED mishap

\* The transaction t has open at pc ends with res.
Ends(t, pc, res) ==
    /\ At(t, pc) /\ Open(t)
    /\ Receives(t, res) \/ TimesOut(t, res)
    /\ UNCHANGED up

Results == {Err} \cup {down[i] : i \in DOMAIN down}

-----------------------------------------------------------------------------
(* The device, and a write that fails and is dropped.                      *)

Reply(req) == CASE req.func = "03"  -> Frame("03", req.reg, dev[req.reg])
                [] req.func = "TLV" -> Frame("TLV", "Page", dev["Out"])
                [] req.func = "06"  -> req

DeviceServes ==
    /\ up # <<>>
    /\ up' = Tail(up) /\ down' = Append(down, Reply(Head(up)))
    /\ dev' = IF Head(up).func = "06"
              THEN [dev EXCEPT ![Head(up).reg] = Head(up).word] ELSE dev
    /\ UNCHANGED <<ui, gate, task, live, mishap>>

WriteFails ==
    /\ up # <<>> /\ MayGoWrong("lost")
    /\ up' = Tail(up) /\ mishap' = mishap \cup {"lost"}
    /\ UNCHANGED <<ui, gate, task, down, live, dev>>

-----------------------------------------------------------------------------
(* poll_foreground_once, by the poll task or by a writer: capabilities,    *)
(* then device information and dashboard, each under the gate on its own.  *)

RoundBegins(t) ==
    /\ At(t, "Round")
    /\ IF busy THEN Goes(t, "End") /\ UNCHANGED gate ELSE Queues(t, "Probe")
    /\ UNCHANGED <<ui, air, live, dev, mishap>>

NeedlessRead(t) ==
    /\ Holds(t) /\ Needless(t) /\ ~Open(t)
    /\ Releases(t, CASE At(t, "Probe") -> "Choose"
                     [] At(t, "Info") -> IF task[t].one THEN "End" ELSE "Dash")
    /\ UNCHANGED <<ui, air, live, dev, mishap>>

Mode(res) == IF res # Err /\ 0 \in res.word THEN "Tlv" ELSE "Standard"

\* Mutant: the first failure settles the read mode.
ProbeOnce(t) ==
    /\ \E res \in Results :
        /\ Ends(t, "Probe", res)
        /\ live' = [live EXCEPT !.probed = TRUE, !.mode = Mode(res)]
    /\ Releases(t, "Choose")
    /\ UNCHANGED <<ui, dev>>

\* probe_modbus_capabilities: two attempts, then "Standard" for the session.
ProbeDone(t) ==
    /\ \E res \in Results :
        /\ Ends(t, "Probe", res)
        /\ IF res = Err /\ task[t].tries = 0
           THEN /\ task' = [task EXCEPT ![t].req = None, ![t].tries = 1]
                /\ UNCHANGED <<gate, live>>
           ELSE /\ Releases(t, "Choose")
                /\ live' = [live EXCEPT !.probed = TRUE, !.mode = Mode(res)]
    /\ UNCHANGED <<ui, dev>>

\* page_in_one_read is decided here and kept.
Choose(t) ==
    LET one == live.mode = "Tlv" /\ ~busy
    IN  /\ At(t, "Choose")
        /\ task' = [task EXCEPT ![t].pc = IF one THEN "Dash" ELSE "Info",
                                ![t].tries = 0, ![t].one = one]
        /\ gate' = IF one THEN gate ELSE Append(gate, t)
        /\ UNCHANGED <<ui, air, live, dev, mishap>>

InfoDone(t) ==
    /\ \E res \in Results : /\ Ends(t, "Info", res)
                            /\ live' = [live EXCEPT !.loaded = (res # Err)]
    /\ Releases(t, IF task[t].one THEN "End" ELSE "Dash")
    /\ UNCHANGED <<ui, dev>>

\* poll_foreground looks at ota_busy again.
Dash(t) ==
    /\ At(t, "Dash")
    /\ IF ~busy THEN Queues(t, "Page")
       ELSE IF task[t].one /\ ~live.loaded THEN Queues(t, "Info")
       ELSE Goes(t, "End") /\ UNCHANGED gate
    /\ UNCHANGED <<ui, air, live, dev, mishap>>

\* Mutant: the gate is asked for again by its holder.
LocksTwice(t, loaded) ==
    IF task[t].one /\ ~loaded
    THEN Queues(t, "Info")
    ELSE Releases(t, "End")

\* Mutant: the round is repeated until the device information has come.
RepeatsRound(t, loaded) ==
    Releases(t, IF task[t].one /\ ~loaded THEN "Round" ELSE "End")

\* The page is done; the device information may still be missing.
PageEnds(t, loaded) ==
    IF task[t].one /\ ~loaded
    THEN Goes(t, "Info") /\ gate' = Append(Tail(gate), t)
    ELSE Releases(t, "End")

Shows(word) == [live EXCEPT !.out = 0 \in word, !.valid = TRUE]

\* A page may come without the identity.  Once it failed, it is read without.
TlvPageDone(t) ==
    /\ \E res \in Results :
        /\ Ends(t, "TlvPage", res)
        /\ IF res # Err
           THEN \E loaded \in {live.loaded, TRUE} :
                    /\ live' = [Shows(res.word) EXCEPT !.loaded = loaded]
                    /\ PageEnds(t, loaded)
           ELSE /\ live' = [live EXCEPT !.split = TRUE]
                /\ Goes(t, "TlvStatus") /\ UNCHANGED gate
    /\ UNCHANGED <<ui, dev>>

TlvStatusDone(t) ==
    /\ \E res \in Results : /\ Ends(t, "TlvStatus", res)
                            /\ live' = IF res # Err THEN Shows(res.word) ELSE live
    /\ PageEnds(t, live.loaded)
    /\ UNCHANGED <<ui, dev>>

SocDone(t) ==
    /\ \E res \in Results :
        /\ Ends(t, "Soc", res)
        /\ IF res # Err THEN Goes(t, "Out") /\ UNCHANGED gate
           ELSE PageEnds(t, live.loaded)
    /\ UNCHANGED <<ui, live, dev>>

\* A page whose switches could not be read shows them off.
OutDone(t) ==
    /\ \E res \in Results : /\ Ends(t, "Out", res)
                            /\ live' = Shows(IF res # Err THEN res.word ELSE {})
    /\ PageEnds(t, live.loaded)
    /\ UNCHANGED <<ui, dev>>

RoundStep(t) ==
    \/ RoundBegins(t) \/ NeedlessRead(t) \/ ProbeDone(t) \/ Choose(t) \/ InfoDone(t)
    \/ Dash(t) \/ TlvPageDone(t) \/ TlvStatusDone(t) \/ SocDone(t) \/ OutDone(t)

-----------------------------------------------------------------------------
(* The poll task between two rounds.                                       *)

\* Mutant: an upgrade bars polling for as long as its result is shown.
ResumesAfterClear == Goes("Poll", IF At("Ota", "Idle") THEN "Round" ELSE "End")

Resumes == Goes("Poll", IF busy THEN "End" ELSE "Round")

\* The select! is entered with or without the timer, as ota_busy says now.
PollPauses ==
    /\ At("Poll", "End")
    /\ IF busy THEN Goes("Poll", "WakeOnly")
       ELSE IF live.probed THEN Goes("Poll", "Sleep") ELSE Resumes
    /\ UNCHANGED <<ui, gate, air, live, dev, mishap>>

PollTimer ==
    /\ At("Poll", "Sleep")
    /\ Resumes
    /\ UNCHANGED <<ui, gate, air, live, dev, mishap>>

PollNotified ==
    /\ At("Poll", "Sleep") \/ At("Poll", "WakeOnly")
    /\ wake /\ wake' = FALSE
    /\ Resumes
    /\ UNCHANGED <<cmds, busy, outputBusy, gate, air, live, dev, mishap>>

-----------------------------------------------------------------------------
(* The user and the worker.                                                *)

Fresh == {w \in Writer : At(w, "Idle")}
Writes == {i \in DOMAIN cmds : cmds[i].op \in {"Toggle", "Bit"}}
RoomForWrite == Cardinality(Writes) < Cardinality(Fresh)

UiToggle ==
    /\ RoomForWrite /\ live.valid /\ ~outputBusy
    /\ outputBusy' = TRUE
    /\ cmds' = Append(cmds, ToggleTo(~live.out))
    /\ UNCHANGED <<busy, wake, gate, task, air, live, dev, mishap>>

UiWriteBit ==
    /\ RoomForWrite
    /\ \E job \in BitWrites : cmds' = Append(cmds, job)
    /\ UNCHANGED <<busy, wake, outputBusy, gate, task, air, live, dev, mishap>>

\* start_ota and start_http_ota set ota_busy before the command is queued.
UiStartOta ==
    /\ At("Ota", "Idle") /\ \A i \in DOMAIN cmds : i \in Writes
    /\ \E kind \in OtaJobs : cmds' = Append(cmds, OtaJob(kind))
    /\ busy' = TRUE /\ wake' = TRUE
    /\ UNCHANGED <<outputBusy, gate, task, air, live, dev, mishap>>

\* A write is dropped while ota_busy; otherwise the session spawns a task.
WorkerTakesWrite ==
    /\ 1 \in Writes
    /\ cmds' = Tail(cmds)
    /\ IF busy THEN UNCHANGED <<task, outputBusy>>
       ELSE /\ \E w \in Fresh :
                task' = [task EXCEPT ![w].pc = "Start", ![w].job = Head(cmds)]
            /\ outputBusy' = (outputBusy \/ Head(cmds).op = "Toggle")
    /\ UNCHANGED <<busy, wake, gate, air, live, dev, mishap>>

WorkerTakesOta ==
    /\ cmds # <<>> /\ 1 \notin Writes
    /\ cmds' = Tail(cmds)
    /\ task' = [task EXCEPT !["Ota"].pc = "Start", !["Ota"].job = Head(cmds)]
    /\ busy' = TRUE /\ wake' = TRUE
    /\ UNCHANGED <<outputBusy, gate, air, live, dev, mishap>>

-----------------------------------------------------------------------------
(* write_control_register and write_holding_registers (one bit), each      *)
(* followed by a round of polling if it went well.                         *)

WriterStarts(w) ==
    /\ At(w, "Start")
    /\ Queues(w, IF task[w].job.op = "Toggle" THEN "Toggle" ELSE "Modify")
    /\ UNCHANGED <<ui, air, live, dev, mishap>>

\* Mutant: a toggle that failed leaves the buttons disabled.
FailureKeepsBusy(w, good) ==
    /\ Releases(w, IF good THEN "Round" ELSE "End")
    /\ outputBusy' = (outputBusy /\ ~(task[w].job.op = "Toggle" /\ good))

\* The write is over: the gate is free, and a toggle clears output_busy.
WriteEnds(w, good) ==
    /\ Releases(w, IF good THEN "Round" ELSE "End")
    /\ outputBusy' = (outputBusy /\ task[w].job.op # "Toggle")

ToggleDone(w) ==
    /\ \E res \in Results :
        /\ Ends(w, "Toggle", res)
        /\ IF res # Err THEN Goes(w, "ReadBack") /\ UNCHANGED <<gate, outputBusy>>
           ELSE WriteEnds(w, FALSE)
    /\ UNCHANGED <<cmds, busy, wake, live, dev>>

\* Mutant: what was read back is compared, and not shown.
ReadBackNotShown(w) ==
    /\ \E res \in Results :
        /\ Ends(w, "ReadBack", res)
        /\ WriteEnds(w, res = Err \/ (0 \in res.word) = task[w].job.on)
    /\ UNCHANGED <<cmds, busy, wake, live, dev>>

\* Without an answer the output is taken to be what was written.
ReadBackDone(w) ==
    /\ \E res \in Results :
        /\ Ends(w, "ReadBack", res)
        /\ live' = IF res # Err THEN Shows(res.word)
                   ELSE [live EXCEPT !.out = task[w].job.on]
        /\ WriteEnds(w, res = Err \/ (0 \in res.word) = task[w].job.on)
    /\ UNCHANGED <<cmds, busy, wake, dev>>

\* The word to write: the one read, with the bit set or cleared.
Modifies(w, word) ==
    task' = [task EXCEPT ![w].pc = "Write", ![w].req = None,
                ![w].word = With(word, task[w].job.bit, task[w].job.on)]

\* Mutant: read and write are two critical sections.
ModifyReleases(w) ==
    /\ \E res \in Results :
        /\ Ends(w, "Modify", res)
        /\ IF res # Err
           THEN Modifies(w, res.word) /\ gate' = Append(Tail(gate), w) /\ UNCHANGED outputBusy
           ELSE WriteEnds(w, FALSE)
    /\ UNCHANGED <<cmds, busy, wake, live, dev>>

ModifyDone(w) ==
    /\ \E res \in Results :
        /\ Ends(w, "Modify", res)
        /\ IF res # Err THEN Modifies(w, res.word) /\ UNCHANGED <<gate, outputBusy>>
           ELSE WriteEnds(w, FALSE)
    /\ UNCHANGED <<cmds, busy, wake, live, dev>>

WriteDone(w) ==
    /\ \E res \in Results : Ends(w, "Write", res) /\ WriteEnds(w, res # Err)
    /\ UNCHANGED <<cmds, busy, wake, live, dev>>

WriterStep(w) ==
    \/ WriterStarts(w) \/ ToggleDone(w) \/ ReadBackDone(w) \/ ModifyDone(w)
    \/ WriteDone(w)

-----------------------------------------------------------------------------
(* An upgrade, as far as the others notice it.                             *)

IsBle == task["Ota"].job.op = "Ble"

\* OtaRxGuard::enable comes before gate.lock(), and clears the replies of
\* whoever holds the gate.
OtaStarts ==
    /\ At("Ota", "Start")
    /\ Queues("Ota", "Transfer")
    /\ down' \in IF IsBle THEN Cleared ELSE {down}
    /\ mishap' = IF down' # down THEN mishap \cup {"cleared"} ELSE mishap
    /\ UNCHANGED <<ui, up, live, dev>>

\* The transfer takes every reply that comes, looking for control characters.
OtaTransfers ==
    /\ At("Ota", "Transfer") /\ Holds("Ota") /\ IsBle /\ down # <<>>
    /\ down' = Tail(down)
    /\ UNCHANGED <<ui, gate, task, up, live, dev, mishap>>

\* Over BLE the gate is dropped before the distribution is waited for.
OtaTransferEnds ==
    /\ At("Ota", "Transfer") /\ Holds("Ota")
    /\ \/ Releases("Ota", "Over")
       \/ IsBle /\ Releases("Ota", "Dist")
       \/ ~IsBle /\ Goes("Ota", "Dist") /\ UNCHANGED gate
    /\ UNCHANGED <<ui, air, live, dev, mishap>>

\* Whatever came of the read, the wait goes on ...
OtaReadsOn ==
    /\ \E res \in Results : Ends("Ota", "Dist", res)
    /\ Goes("Ota", "Dist")
    /\ UNCHANGED <<ui, gate, live, dev>>

\* ... until the distribution has ended, is stuck, or the user stops it.
OtaDistEnds ==
    /\ At("Ota", "Dist") /\ ~Open("Ota")
    /\ IF IsBle THEN Goes("Ota", "Over") /\ UNCHANGED gate ELSE Releases("Ota", "Over")
    /\ UNCHANGED <<ui, air, live, dev, mishap>>

\* finish_ota_session
OtaFinishes ==
    /\ At("Ota", "Over")
    /\ Goes("Ota", "End")
    /\ busy' = FALSE /\ wake' = TRUE
    /\ UNCHANGED <<cmds, outputBusy, gate, air, live, dev, mishap>>

OtaStep ==
    \/ OtaStarts \/ OtaTransfers \/ OtaTransferEnds \/ OtaDistEnds
    \/ OtaReadsOn \/ OtaFinishes

-----------------------------------------------------------------------------
Init ==
    /\ cmds = <<>> /\ busy = FALSE /\ wake = FALSE /\ outputBusy = FALSE
    /\ gate = <<>>
    /\ task = [t \in Task |-> IF t = "Poll" THEN [NewTask EXCEPT !.pc = "Round"]
                              ELSE NewTask]
    /\ up = <<>> /\ down = <<>>
    /\ live = [probed |-> FALSE, mode |-> "Unknown", loaded |-> FALSE,
               split |-> FALSE, out |-> FALSE, valid |-> FALSE]
    /\ \E status \in {{}, {0}} :
        dev = [r \in Reg |-> CASE r = "Status" -> status [] r = "B" -> {0} [] OTHER -> {}]
    /\ mishap = {}

UserStep == UiToggle \/ UiWriteBit \/ UiStartOta
WorkerStep == WorkerTakesWrite \/ WorkerTakesOta
PollStep == PollPauses \/ PollTimer \/ PollNotified

\* What the runtime does for a task.
TaskStep(t) ==
    \/ Send(t) \/ PassOver(t) \/ RoundStep(t)
    \/ t \in Writer /\ WriterStep(t)
    \/ t = "Ota" /\ OtaStep
    \/ t = "Poll" /\ PollStep

Next ==
    \/ UserStep \/ WorkerStep
    \/ DeviceServes \/ WriteFails
    \/ \E t \in Task : TaskStep(t)

Spec == Init /\ [][Next]_vars

\* The runtime is fair to every task, the distribution comes to an end (its
\* stall deadline), and a device that is sent something answers.
Fairness ==
    /\ WF_vars(WorkerStep) /\ WF_vars(DeviceServes)
    /\ \A t \in Task : WF_vars(TaskStep(t))
    /\ SF_vars(OtaDistEnds)

FairSpec == Spec /\ Fairness

-----------------------------------------------------------------------------
(* Correctness.                                                            *)

RoundPc  == {"Round", "Probe", "Choose", "Info", "Dash", "Page", "TlvPage",
             "TlvStatus", "Soc", "Out", "End"}
WriterPc == {"Idle", "Start", "Toggle", "ReadBack", "Modify", "Write"}
PollPc   == {"Sleep", "WakeOnly"}
OtaPc    == {"Idle", "Start", "Transfer", "Dist", "Over", "End"}

\* Every variable has its type, and nobody is twice in the queue of the gate.
TypeOK ==
    /\ {busy, wake, outputBusy} \subseteq BOOLEAN
    /\ \A t \in Task :
        /\ task[t].pc \in (IF t = "Poll" THEN RoundPc \cup PollPc
                           ELSE IF t = "Ota" THEN OtaPc ELSE RoundPc \cup WriterPc)
        /\ task[t].req \in Frames
        /\ task[t].word \subseteq Bits /\ task[t].tries \in 0..1
    /\ \A i, j \in DOMAIN gate : gate[i] \in Task /\ (gate[i] = gate[j] => i = j)
    /\ live.mode \in {"Unknown", "Standard", "Tlv"}
    /\ dev \in [Reg -> SUBSET Bits]
    /\ mishap \subseteq {"lost", "late", "clash", "cleared"}

\* While no reply has come after its deadline and no distribution read has run
\* beside another transaction, what a transaction returns is the answer to
\* its own request: one queue of replies is enough for all the tasks.
ReplyAnswersRequest ==
    [][mishap' \cap {"late", "clash"} = {} =>
        \A t \in Task :
            Open(t) /\ ~Open(t)' /\ down' # down /\ Accepts(task[t].req, Head(down))
                => Head(down).reg = task[t].req.reg]_vars

\* Someone asked for the bit to have the value it has changed to.
Asked(reg, bit, word) ==
    \E w \in Writer : task[w].job.reg = reg /\ task[w].job.bit = bit
                      /\ task[w].job.on = (bit \in word)

\* A bit write changes no other bit of its register, with any number of bit
\* writes at once, polling and an upgrade (poll.rs:1056: "read first, then
\* rewrite that bit").
BitWriteChangesOneBit ==
    [][\A reg \in {"A", "B"}, bit \in Bits :
        (bit \in dev[reg]) # (bit \in dev'[reg]) => Asked(reg, bit, dev'[reg])]_vars

\* ... as far as no reply is late and no distribution read interferes.
BitWritesAreAtomic ==
    [][mishap \cap {"late", "clash"} = {} =>
        \A reg \in {"A", "B"}, bit \in Bits :
        (bit \in dev[reg]) # (bit \in dev'[reg]) => Asked(reg, bit, dev'[reg])]_vars

\* The transfer of an upgrade over BLE has the link to itself: while it holds
\* the gate no other request is under way (poll_policy.rs:62).
TransferIsAlone ==
    At("Ota", "Transfer") /\ Holds("Ota") => \A t \in Task : ~Open(t)

\* As long as nothing went wrong, the switches on the screen are the device's
\* whenever nobody holds the gate: no page read before a write is shown after.
ShownOutputIsReal ==
    mishap = {} /\ gate = <<>> /\ live.valid => live.out = (0 \in dev["Out"])

\* One lost, late or cleared reply does not cost a device its TLV mode, which
\* is settled once for the session.
TlvDeviceReadAsTlv ==
    live.probed /\ "clash" \notin mishap /\ Cardinality(mishap) <= 1
        => (live.mode = "Tlv" <=> 0 \in dev["Status"])

\* Every register write that was started ends, with its round of polling, and
\* with the output buttons enabled again, whatever became of it (a toggle that
\* the worker drops for an upgrade leaves them disabled).
WritesEnd ==
    \A w \in Writer :
        (task[w].pc \notin {"Idle", "End"})
            ~> (At(w, "End") /\ (task[w].job.op = "Toggle" => ~outputBusy))

\* Polling goes on after an upgrade, however the poll task was waiting.
PollingResumes ==
    At("Ota", "End") ~> (At("Poll", "Round") /\ ~busy)
=============================================================================
