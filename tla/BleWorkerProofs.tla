-------------------------- MODULE BleWorkerProofs --------------------------
(***************************************************************************)
(* Proofs about BleWorker, for every set of operations and of slots, every *)
(* bound on the queues, every number of connection attempts, and any       *)
(* number of readers that outlive their session and of links that do not   *)
(* close when told to: its types, who owns the GATT link and the tasks of  *)
(* a session, what "connected" and "encrypted" there are worth, and that   *)
(* it implements AbstractLink.                                             *)
(*                                                                         *)
(* A leaf whose actions assign FALSE, or use UNCHANGED in a disjunct that  *)
(* does, is sent to Zenon: the SMT translation does not take them.         *)
(***************************************************************************)
EXTENDS BleWorker, TLAPS

-----------------------------------------------------------------------------
(* Types.                                                                  *)

\* An attempt is left whenever the worker waits to make another one.  Without
\* it the bound on tries is not inductive.
TriesLeft == wpc = "Backoff" => tries < ConnectAttempts
TypeInv == TypeOK /\ TriesLeft

\* Every update of OtaLive the code makes keeps it an OtaLive.
LEMMA OtaLiveUpdates ==
    ASSUME NEW live \in OtaLive
    PROVE  /\ OtaFail(live) \in OtaLive
           /\ TakeRequest(live) \in OtaLive
           /\ TakeRescan(live) \in OtaLive
           /\ \A b \in BOOLEAN : [live EXCEPT !.request_disconnect = b] \in OtaLive
           /\ [live EXCEPT !.cancel = TRUE] \in OtaLive
           /\ [live EXCEPT !.running = FALSE, !.phase = "Success"] \in OtaLive
           /\ [live EXCEPT !.request_disconnect = TRUE,
                           !.rescan_after_disconnect = TRUE] \in OtaLive
  BY DEF OtaLive, OtaFail, TakeRequest, TakeRescan

\* ... and so do the beginning of an upgrade and the correction of ble_only.
LEMMA OtaLiveBegins ==
    ASSUME NEW job
    PROVE  /\ DefaultOtaLive \in OtaLive
           /\ [DefaultOtaLive EXCEPT !.running = TRUE, !.phase = "Running",
                                     !.ble_only = job \in IotJobs] \in OtaLive
           /\ \A live \in OtaLive :
                [live EXCEPT !.ble_only = job \in IotJobs] \in OtaLive
  <1>1. /\ DefaultOtaLive \in OtaLive
        /\ \A b \in BOOLEAN :
             [DefaultOtaLive EXCEPT !.running = TRUE, !.phase = "Running",
                                    !.ble_only = b] \in OtaLive
    BY DEF OtaLive, DefaultOtaLive
  <1>2. \A b \in BOOLEAN, live \in OtaLive : [live EXCEPT !.ble_only = b] \in OtaLive
    BY DEF OtaLive
  <1>3. (job \in IotJobs) \in BOOLEAN
    OBVIOUS
  <1> QED
    BY <1>1, <1>2, <1>3, Zenon

\* The two channels stay queues of their commands, as sent and as received.
LEMMA QueueUpdates ==
    /\ <<>> \in Seq(OtaJob)
    /\ <<"StartScan">> \in Seq(BleCommand)
    /\ \A j \in OtaJob : sessq \in Seq(OtaJob) => Append(sessq, j) \in Seq(OtaJob)
    /\ \A c \in BleCommand :
         cmds \in Seq(BleCommand) /\ (Send(c) \/ Receive(c)) => cmds' \in Seq(BleCommand)
  BY DEF Send, Receive, BleCommand

\* An upgrade task that moves to another stage stays a task.
LEMMA JobMoves ==
    ASSUME NEW s \in Slot, jobs \in [Slot -> JobState], jobs[s].stage \in Stage,
           NEW stage \in Stage, Moves(s, stage)
    PROVE  jobs' \in [Slot -> JobState]
  <1>1. jobs[s] \in [job : OtaJob, stage : Stage]
    BY DEF JobState, NoJob, Stage, LiveStage
  <1>2. [jobs[s] EXCEPT !.stage = stage] \in JobState
    BY <1>1 DEF JobState
  <1> QED BY <1>2 DEF Moves

\* A session that ends leaves a worker and a session of their types.
LEMMA SessionEndTypes ==
    ASSUME WorkTypes, SessTypes, SessionEnds
    PROVE  WorkTypes' /\ TriesLeft' /\ SessTypes'
  <1>1. WorkTypes' /\ TriesLeft'
    BY DEF SessionEnds, WorkTypes, WorkerPc, TriesLeft
  <1>2. jobs' \in [Slot -> JobState]
    <2>1. jobs' = [s \in Slot |-> IF Live(s) THEN [jobs[s] EXCEPT !.stage = "Orphan"]
                                            ELSE jobs[s]]
      BY Zenon DEF SessionEnds
    <2>2. \A s \in Slot : Live(s) => [jobs[s] EXCEPT !.stage = "Orphan"] \in JobState
      BY DEF Live, SessTypes, JobState, NoJob, Stage, LiveStage
    <2> QED
      BY <2>1, <2>2 DEF SessTypes
  <1>3. SessTypes'
    BY <1>2, QueueUpdates, Zenon DEF SessionEnds, SessTypes
  <1> QED
    BY <1>1, <1>3

\* Whatever disconnect() does, no more links are left than may be.
LEMMA DisconnectTypes == AirTypes /\ Disconnect => AirTypes'
  BY BleWorkerAssumption DEF Disconnect, AirTypes

\* What a step does not touch keeps its type.
LEMMA Frames ==
    /\ UiTypes /\ UNCHANGED uiVars => UiTypes'
    /\ ChanTypes /\ UNCHANGED chanVars => ChanTypes'
    /\ LinkTypes /\ UNCHANGED linkVars => LinkTypes'
    /\ OtaTypes /\ UNCHANGED otaVars => OtaTypes'
    /\ WorkTypes /\ TriesLeft /\ UNCHANGED workVars => WorkTypes' /\ TriesLeft'
    /\ SessTypes /\ UNCHANGED sessVars => SessTypes'
    /\ ScanTypes /\ UNCHANGED scan => ScanTypes'
    /\ AirTypes /\ UNCHANGED airVars => AirTypes'
  BY DEF UiTypes, ChanTypes, LinkTypes, OtaTypes, WorkTypes, SessTypes, ScanTypes,
         AirTypes, TriesLeft, uiVars, chanVars, linkVars, otaVars, workVars, sessVars,
         airVars

\* The program starts well typed.
LEMMA TypeInit == Init => TypeInv
  <1> SUFFICES ASSUME Init PROVE TypeInv
    OBVIOUS
  <1>1. UiTypes /\ ChanTypes
    BY QueueUpdates, Zenon DEF Init, UiTypes, ChanTypes
  <1>2. LinkTypes /\ ScanTypes /\ AirTypes
    <2>1. LinkTypes /\ ScanTypes
      BY Zenon DEF Init, LinkTypes, ScanTypes, LinkPhase
    <2>2. NoReader \in LateReader
      BY QueueUpdates, Zenon DEF NoReader, LateReader
    <2>3. left = 0 /\ late = [o \in Old |-> NoReader] /\ gatt = "Closed"
      BY Zenon DEF Init
    <2> QED
      BY <2>1, <2>2, <2>3, BleWorkerAssumption DEF AirTypes
  <1>3. OtaTypes
    BY OtaLiveBegins, Zenon DEF Init, OtaTypes
  <1>4. SessTypes
    BY QueueUpdates, Zenon DEF Init, SessTypes, JobState
  <1>5. WorkTypes /\ TriesLeft
    <2>1. tries = 0 /\ wpc = "Open" /\ after = "None" /\ session \in BOOLEAN
      BY Zenon DEF Init
    <2> QED BY <2>1, BleWorkerAssumption DEF WorkTypes, TriesLeft, WorkerPc
  <1> QED
    BY <1>1, <1>2, <1>3, <1>4, <1>5 DEF TypeInv, TypeOK

\* No step of the UI, of the worker or of a session breaks a type: one step of
\* the proof per action, and under it one per group of variables it changes.
LEMMA TypeNext ==
    ASSUME TypeInv, [Next]_vars
    PROVE  TypeInv'
<1> /\ UiTypes /\ ChanTypes /\ LinkTypes /\ OtaTypes
    /\ WorkTypes /\ TriesLeft /\ ScanTypes /\ SessTypes /\ AirTypes
  BY DEF TypeInv, TypeOK
<1> USE DEF Show, shown, airVars
<1>1. CASE UiStartScan
  <2>1. ChanTypes'
    BY <1>1, QueueUpdates DEF UiStartScan, Clicks, ChanTypes, BleCommand
  <2> QED
    BY <2>1, <1>1, Frames DEF UiStartScan, TypeInv, TypeOK
<1>2. CASE UiStopScan
  <2>1. ChanTypes'
    BY <1>2, QueueUpdates DEF UiStopScan, Clicks, ChanTypes, BleCommand
  <2> QED
    BY <2>1, <1>2, Frames DEF UiStopScan, TypeInv, TypeOK
<1>3. CASE UiDisconnect
  <2>1. ChanTypes'
    BY <1>3, QueueUpdates DEF UiDisconnect, Clicks, ChanTypes, BleCommand
  <2> QED
    BY <2>1, <1>3, Frames DEF UiDisconnect, TypeInv, TypeOK
<1>4. CASE UiCancelConnect
  <2>1. ChanTypes'
    BY <1>4, QueueUpdates DEF UiCancelConnect, Clicks, ChanTypes, BleCommand
  <2>2. LinkTypes'
    BY <1>4 DEF UiCancelConnect, Clicks, LinkTypes, LinkPhase, Connected
  <2> QED
    BY <2>1, <2>2, <1>4, Frames DEF UiCancelConnect, TypeInv, TypeOK
<1>5. CASE UiConnect
  <2>1. ChanTypes'
    BY <1>5, QueueUpdates, Zenon DEF UiConnect, Clicks, ChanTypes, BleCommand
  <2> QED
    BY <2>1, <1>5, Frames DEF UiConnect, TypeInv, TypeOK
<1>6. ASSUME NEW j \in OtaJob, UiOtaCheck(j) PROVE TypeInv'
  <2>1. UiTypes'
    BY <1>6 DEF UiOtaCheck, Clicks, UiTypes, OtaJob, BleJobs, HttpJobs
  <2> QED
    BY <2>1, <1>6, Frames DEF UiOtaCheck, TypeInv, TypeOK
<1>7. CASE UiStopOta
  <2>1. OtaTypes'
    BY <1>7, OtaLiveUpdates DEF UiStopOta, Clicks, OtaTypes
  <2> QED
    BY <2>1, <1>7, Frames DEF UiStopOta, TypeInv, TypeOK
<1>8. CASE UiClearFile
  <2>1. OtaTypes'
    BY <1>8, OtaLiveBegins DEF UiClearFile, Clicks, OtaTypes
  <2> QED
    BY <2>1, <1>8, Frames DEF UiClearFile, TypeInv, TypeOK
<1>9. CASE UiOtaBegin
  <2>1. UiTypes'
    BY <1>9 DEF UiOtaBegin, UiTypes
  <2>2. OtaTypes'
    BY <1>9, OtaLiveBegins, Zenon DEF UiOtaBegin, OtaTypes
  <2> QED
    BY <2>1, <2>2, <1>9, Frames DEF UiOtaBegin, TypeInv, TypeOK
<1>10. CASE UiPrecheckFails
  <2>1. UiTypes'
    BY <1>10 DEF UiPrecheckFails, UiTypes
  <2>2. OtaTypes'
    BY <1>10, OtaLiveUpdates DEF UiPrecheckFails, OtaTypes
  <2> QED
    BY <2>1, <2>2, <1>10, Frames DEF UiPrecheckFails, TypeInv, TypeOK
<1>11. CASE UiOtaBusy
  <2>1. UiTypes'
    BY <1>11 DEF UiOtaBusy, UiTypes
  <2>2. OtaTypes'
    BY <1>11 DEF UiOtaBusy, OtaTypes
  <2> QED
    BY <2>1, <2>2, <1>11, Frames DEF UiOtaBusy, TypeInv, TypeOK
<1>12. CASE UiOtaSend
  <2>1. UiTypes'
    BY <1>12 DEF UiOtaSend, Send, UiTypes
  <2>2. ChanTypes'
    BY <1>12, QueueUpdates DEF UiOtaSend, ChanTypes, BleCommand, UiTypes
  <2> QED
    BY <2>1, <2>2, <1>12, Frames DEF UiOtaSend, TypeInv, TypeOK
<1>13. CASE UiSyncConnection
  <2>1. UiTypes'
    BY <1>13 DEF UiSyncConnection, UiTypes
  <2>2. OtaTypes'
    BY <1>13, OtaLiveBegins DEF UiSyncConnection, OtaTypes
  <2> QED
    BY <2>1, <2>2, <1>13, Frames DEF UiSyncConnection, TypeInv, TypeOK
<1>14. CASE WorkerOpenAdapter
  <2>1. LinkTypes'
    BY <1>14 DEF WorkerOpenAdapter, LinkTypes, LinkPhase, Connected
  <2>2. WorkTypes' /\ TriesLeft'
    BY <1>14, BleWorkerAssumption
       DEF WorkerOpenAdapter, WorkTypes, WorkerPc, TriesLeft
  <2> QED
    BY <2>1, <2>2, <1>14, Frames DEF WorkerOpenAdapter, TypeInv, TypeOK
<1>15. CASE WorkerNoAdapter
  <2>1. ChanTypes'
    BY <1>15, QueueUpdates DEF WorkerNoAdapter, ChanTypes, BleCommand
  <2>2. LinkTypes'
    BY <1>15 DEF WorkerNoAdapter, LinkTypes, LinkPhase, Connected
  <2>3. WorkTypes' /\ TriesLeft'
    BY <1>15, BleWorkerAssumption
       DEF WorkerNoAdapter, WorkTypes, WorkerPc, TriesLeft
  <2> QED
    BY <2>1, <2>2, <2>3, <1>15, Frames DEF WorkerNoAdapter, TypeInv, TypeOK
<1>16. CASE WorkerReap
  <2>1. WorkTypes' /\ TriesLeft'
    BY <1>16, BleWorkerAssumption
       DEF WorkerReap, TearDown, WorkTypes, WorkerPc, TriesLeft
  <2> QED
    BY <2>1, <1>16, Frames DEF WorkerReap, TypeInv, TypeOK
<1>17. CASE WorkerTop
  <2>1. OtaTypes'
    BY <1>17, OtaLiveUpdates DEF WorkerTop, BeginDisconnect, Requested, OtaTypes
  <2>2. WorkTypes' /\ TriesLeft'
    BY <1>17, BleWorkerAssumption
       DEF WorkerTop, BeginDisconnect, Requested, TakeRequest, WorkTypes,
           WorkerPc, TriesLeft
  <2> QED
    BY <2>1, <2>2, <1>17, Frames DEF WorkerTop, TypeInv, TypeOK
<1>18. CASE WorkerTick
  <2>1. LinkTypes'
    BY <1>18 DEF WorkerTick, EnterIdle, LinkTypes, LinkPhase, Connected, linkVars
  <2>2. WorkTypes' /\ TriesLeft'
    BY <1>18, BleWorkerAssumption
       DEF WorkerTick, EnterIdle, WorkTypes, WorkerPc, TriesLeft
  <2>3. ScanTypes'
    BY <1>18 DEF WorkerTick, EnterIdle, ScanTypes
  <2> QED
    BY <2>1, <2>2, <2>3, <1>18, Frames DEF WorkerTick, TypeInv, TypeOK
<1>19. CASE RecvStartScan
  <2>1. ChanTypes'
    BY <1>19, QueueUpdates
       DEF RecvStartScan, EnterIdle, RestartScan, TearDown, ChanTypes,
           BleCommand
  <2>2. LinkTypes'
    BY <1>19, Zenon
       DEF RecvStartScan, Receive, EnterIdle, RestartScan, TearDown, LinkTypes,
           LinkPhase, Connected, linkVars
  <2>3. WorkTypes' /\ TriesLeft'
    BY <1>19, BleWorkerAssumption
       DEF RecvStartScan, Receive, EnterIdle, RestartScan, TearDown, WorkTypes,
           WorkerPc, TriesLeft
  <2>4. ScanTypes'
    BY <1>19 DEF RecvStartScan, Receive, EnterIdle, RestartScan, TearDown, ScanTypes
  <2> QED
    BY <2>1, <2>2, <2>3, <2>4, <1>19, Frames DEF RecvStartScan, TypeInv, TypeOK
<1>20. CASE RecvStopScan
  <2>1. ChanTypes'
    BY <1>20, QueueUpdates DEF RecvStopScan, EnterIdle, ChanTypes, BleCommand
  <2>2. LinkTypes'
    BY <1>20 DEF RecvStopScan, Receive, EnterIdle, LinkTypes, LinkPhase, Connected
  <2>3. WorkTypes' /\ TriesLeft'
    BY <1>20, BleWorkerAssumption
       DEF RecvStopScan, Receive, EnterIdle, WorkTypes, WorkerPc, TriesLeft
  <2>4. ScanTypes'
    BY <1>20 DEF RecvStopScan, Receive, EnterIdle, ScanTypes
  <2> QED
    BY <2>1, <2>2, <2>3, <2>4, <1>20, Frames DEF RecvStopScan, TypeInv, TypeOK
<1>21. CASE RecvDisconnect
  <2>1. ChanTypes'
    BY <1>21, QueueUpdates
       DEF RecvDisconnect, BeginDisconnect, ChanTypes, BleCommand
  <2>2. OtaTypes'
    BY <1>21, OtaLiveUpdates DEF RecvDisconnect, Receive, BeginDisconnect, OtaTypes
  <2>3. WorkTypes' /\ TriesLeft'
    BY <1>21, BleWorkerAssumption
       DEF RecvDisconnect, Receive, BeginDisconnect, WorkTypes, WorkerPc,
           TriesLeft
  <2> QED
    BY <2>1, <2>2, <2>3, <1>21, Frames DEF RecvDisconnect, TypeInv, TypeOK
<1>22. CASE RecvConnect
  <2>1. ChanTypes'
    BY <1>22, QueueUpdates, Zenon DEF RecvConnect, TearDown, ChanTypes, BleCommand
  <2>2. LinkTypes'
    BY <1>22 DEF RecvConnect, Receive, TearDown, LinkTypes, LinkPhase, Connected
  <2>3. WorkTypes' /\ TriesLeft'
    BY <1>22, BleWorkerAssumption
       DEF RecvConnect, Receive, TearDown, WorkTypes, WorkerPc, TriesLeft
  <2> QED
    BY <2>1, <2>2, <2>3, <1>22, Frames DEF RecvConnect, TypeInv, TypeOK
<1>23. ASSUME NEW j \in OtaJob, RecvStartOta(j) PROVE TypeInv'
  <2>1. ChanTypes'
    BY <1>23, QueueUpdates DEF RecvStartOta, ChanTypes, BleCommand
  <2>2. OtaTypes'
    BY <1>23, OtaLiveUpdates, Zenon DEF RecvStartOta, Receive, OtaTypes
  <2>3. WorkTypes' /\ TriesLeft'
    BY <1>23, BleWorkerAssumption
       DEF RecvStartOta, Receive, WorkTypes, WorkerPc, TriesLeft
  <2>4. SessTypes'
    BY <1>23, QueueUpdates DEF RecvStartOta, SessTypes
  <2> QED
    BY <2>1, <2>2, <2>3, <2>4, <1>23, Frames DEF RecvStartOta, TypeInv, TypeOK
<1>24. CASE WorkerScanStopped
  <2>1. LinkTypes'
    BY <1>24 DEF WorkerScanStopped, LinkTypes, LinkPhase, Connected
  <2>2. WorkTypes' /\ TriesLeft'
    BY <1>24, BleWorkerAssumption
       DEF WorkerScanStopped, WorkTypes, WorkerPc, TriesLeft
  <2> QED
    BY <2>1, <2>2, <1>24, Frames DEF WorkerScanStopped, TypeInv, TypeOK
<1>25. CASE WorkerAbortJobs
  <2>1. WorkTypes' /\ TriesLeft'
    BY <1>25, BleWorkerAssumption
       DEF WorkerAbortJobs, Live, WorkTypes, WorkerPc, TriesLeft
  <2>2. SessTypes'
    BY <1>25 DEF WorkerAbortJobs, Live, SessTypes, JobState, Stage, LiveStage
  <2> QED
    BY <2>1, <2>2, <1>25, Frames DEF WorkerAbortJobs, TypeInv, TypeOK
<1>26. CASE WorkerJoinTasks
  <2>1. WorkTypes' /\ TriesLeft' /\ SessTypes'
    BY <1>26, SessionEndTypes DEF WorkerJoinTasks
  <2> QED
    BY <2>1, <1>26, Frames DEF WorkerJoinTasks, SessionEnds, TypeInv, TypeOK
<1>27. CASE WorkerCloseGatt
  <2>1. LinkTypes'
    BY <1>27, Zenon
       DEF WorkerCloseGatt, EnterIdle, RestartScan, ScanAfterOta, TakeRescan,
           TakeRequest, ReapedPhase, LinkTypes, LinkPhase, Connected, linkVars
  <2>2. OtaTypes'
    BY <1>27, OtaLiveUpdates
       DEF WorkerCloseGatt, EnterIdle, RestartScan, ScanAfterOta, ReapedPhase,
           OtaTypes
  <2>3. WorkTypes' /\ TriesLeft'
    BY <1>27, BleWorkerAssumption
       DEF WorkerCloseGatt, EnterIdle, RestartScan, ScanAfterOta, TakeRescan,
           TakeRequest, ReapedPhase, WorkTypes, WorkerPc, TriesLeft
  <2>4. ScanTypes'
    BY <1>27
       DEF WorkerCloseGatt, EnterIdle, RestartScan, ScanAfterOta, TakeRescan,
           TakeRequest, ReapedPhase, ScanTypes
  <2>5. AirTypes'
    BY <1>27, DisconnectTypes DEF WorkerCloseGatt
  <2> QED
    BY <2>1, <2>2, <2>3, <2>4, <2>5, <1>27, Frames
       DEF WorkerCloseGatt, TypeInv, TypeOK
<1>28. CASE WorkerSettle
  <2>1. LinkTypes'
    BY <1>28
       DEF WorkerSettle, GiveUp, EnterIdle, Goto, LinkTypes, LinkPhase,
           Connected
  <2>2. WorkTypes' /\ TriesLeft'
    BY <1>28, BleWorkerAssumption
       DEF WorkerSettle, GiveUp, EnterIdle, Goto, WorkTypes, WorkerPc, TriesLeft
  <2>3. ScanTypes'
    BY <1>28 DEF WorkerSettle, GiveUp, EnterIdle, Goto, ScanTypes
  <2> QED
    BY <2>1, <2>2, <2>3, <1>28, Frames
       DEF WorkerSettle, GiveUp, Goto, TypeInv, TypeOK
<1>29. CASE WorkerFind
  <2>1. LinkTypes'
    BY <1>29
       DEF WorkerFind, GiveUp, EnterIdle, Goto, LinkTypes, LinkPhase, Connected
  <2>2. WorkTypes' /\ TriesLeft'
    BY <1>29, BleWorkerAssumption
       DEF WorkerFind, GiveUp, EnterIdle, Goto, WorkTypes, WorkerPc, TriesLeft
  <2>3. ScanTypes'
    BY <1>29 DEF WorkerFind, GiveUp, EnterIdle, Goto, ScanTypes
  <2> QED
    BY <2>1, <2>2, <2>3, <1>29, Frames DEF WorkerFind, GiveUp, Goto, TypeInv, TypeOK
<1>30. CASE WorkerRediscover
  <2>1. LinkTypes'
    BY <1>30
       DEF WorkerRediscover, GiveUp, EnterIdle, Goto, LinkTypes, LinkPhase,
           Connected
  <2>2. WorkTypes' /\ TriesLeft'
    BY <1>30, BleWorkerAssumption
       DEF WorkerRediscover, GiveUp, EnterIdle, Goto, WorkTypes, WorkerPc,
           TriesLeft
  <2>3. ScanTypes'
    BY <1>30 DEF WorkerRediscover, GiveUp, EnterIdle, Goto, ScanTypes
  <2> QED
    BY <2>1, <2>2, <2>3, <1>30, Frames
       DEF WorkerRediscover, GiveUp, Goto, TypeInv, TypeOK
<1>31. CASE WorkerStopScanToDial
  <2>1. LinkTypes'
    BY <1>31
       DEF WorkerStopScanToDial, GiveUp, EnterIdle, Goto, LinkTypes, LinkPhase,
           Connected
  <2>2. WorkTypes' /\ TriesLeft'
    BY <1>31, BleWorkerAssumption
       DEF WorkerStopScanToDial, GiveUp, EnterIdle, Goto, WorkTypes, WorkerPc,
           TriesLeft
  <2>3. ScanTypes'
    BY <1>31 DEF WorkerStopScanToDial, GiveUp, EnterIdle, Goto, ScanTypes
  <2> QED
    BY <2>1, <2>2, <2>3, <1>31, Frames
       DEF WorkerStopScanToDial, GiveUp, Goto, TypeInv, TypeOK
<1>32. CASE WorkerDial
  <2>1. LinkTypes'
    BY <1>32
       DEF WorkerDial, GiveUp, EnterIdle, Goto, LinkTypes, LinkPhase, Connected
  <2>2. WorkTypes' /\ TriesLeft'
    BY <1>32, BleWorkerAssumption
       DEF WorkerDial, GiveUp, EnterIdle, Goto, WorkTypes, WorkerPc, TriesLeft
  <2>3. ScanTypes'
    BY <1>32 DEF WorkerDial, GiveUp, EnterIdle, Goto, ScanTypes
  <2> QED
    BY <2>1, <2>2, <2>3, <1>32, Frames DEF WorkerDial, GiveUp, Goto, TypeInv, TypeOK
<1>33. CASE WorkerGattConnected
  <2>1. LinkTypes'
    BY <1>33 DEF WorkerGattConnected, Goto, LinkTypes, LinkPhase, Connected
  <2>2. WorkTypes' /\ TriesLeft'
    BY <1>33, BleWorkerAssumption
       DEF WorkerGattConnected, Goto, WorkTypes, WorkerPc, TriesLeft
  <2>3. AirTypes'
    <3>1. UNCHANGED <<left, late>> \/ (left > 0 /\ left' = left - 1 /\ UNCHANGED late)
      BY <1>33, Zenon DEF WorkerGattConnected
    <3>2. gatt' = "Up"
      BY <1>33, Zenon DEF WorkerGattConnected
    <3> QED
      BY <3>1, <3>2, BleWorkerAssumption DEF AirTypes
  <2> QED
    BY <2>1, <2>2, <2>3, <1>33, Frames
       DEF WorkerGattConnected, Goto, TypeInv, TypeOK
<1>34. CASE WorkerGattFailed
  <2>1. LinkTypes'
    BY <1>34
       DEF WorkerGattFailed, GiveUp, EnterIdle, Goto, LinkTypes, LinkPhase,
           Connected
  <2>2. WorkTypes' /\ TriesLeft'
    BY <1>34, BleWorkerAssumption
       DEF WorkerGattFailed, GiveUp, EnterIdle, Goto, WorkTypes, WorkerPc,
           TriesLeft
  <2>3. ScanTypes'
    BY <1>34 DEF WorkerGattFailed, GiveUp, EnterIdle, Goto, ScanTypes
  <2> QED
    BY <2>1, <2>2, <2>3, <1>34, Frames
       DEF WorkerGattFailed, GiveUp, Goto, TypeInv, TypeOK
<1>35. CASE WorkerBackoff
  <2>1. LinkTypes'
    BY <1>35
       DEF WorkerBackoff, GiveUp, EnterIdle, Goto, LinkTypes, LinkPhase,
           Connected
  <2>2. WorkTypes' /\ TriesLeft'
    BY <1>35, BleWorkerAssumption
       DEF WorkerBackoff, GiveUp, EnterIdle, Goto, WorkTypes, WorkerPc,
           TriesLeft
  <2>3. ScanTypes'
    BY <1>35 DEF WorkerBackoff, GiveUp, EnterIdle, Goto, ScanTypes
  <2> QED
    BY <2>1, <2>2, <2>3, <1>35, Frames
       DEF WorkerBackoff, GiveUp, Goto, TypeInv, TypeOK
<1>36. CASE WorkerDiscover
  <2>1. WorkTypes' /\ TriesLeft'
    BY <1>36, BleWorkerAssumption
       DEF WorkerDiscover, Goto, WorkTypes, WorkerPc, TriesLeft
  <2> QED
    BY <2>1, <1>36, Frames DEF WorkerDiscover, Goto, linkVars, TypeInv, TypeOK
<1>37. CASE WorkerSubscribeFails
  <2>1. WorkTypes' /\ TriesLeft'
    BY <1>37, BleWorkerAssumption
       DEF WorkerSubscribeFails, Goto, WorkTypes, WorkerPc, TriesLeft
  <2> QED
    BY <2>1, <1>37, Frames DEF WorkerSubscribeFails, Goto, linkVars, TypeInv, TypeOK
<1>38. CASE WorkerSpawnSession
  <2>1. LinkTypes'
    BY <1>38 DEF WorkerSpawnSession, LinkTypes, LinkPhase, Connected
  <2>2. WorkTypes' /\ TriesLeft'
    BY <1>38, BleWorkerAssumption
       DEF WorkerSpawnSession, WorkTypes, WorkerPc, TriesLeft
  <2>3. SessTypes'
    BY <1>38, QueueUpdates, Zenon DEF WorkerSpawnSession, SessTypes
  <2> QED
    BY <2>1, <2>2, <2>3, <1>38, Frames DEF WorkerSpawnSession, TypeInv, TypeOK
<1>39. CASE WorkerSessionReady
  <2>1. WorkTypes' /\ TriesLeft'
    BY <1>39, BleWorkerAssumption
       DEF WorkerSessionReady, WorkTypes, WorkerPc, TriesLeft
  <2> QED
    BY <2>1, <1>39, Frames DEF WorkerSessionReady, TypeInv, TypeOK
<1>40. CASE WorkerConnectFailed
  <2>1. LinkTypes'
    BY <1>40 DEF WorkerConnectFailed, EnterIdle, LinkTypes, LinkPhase, Connected
  <2>2. WorkTypes' /\ TriesLeft'
    BY <1>40, BleWorkerAssumption
       DEF WorkerConnectFailed, EnterIdle, WorkTypes, WorkerPc, TriesLeft
  <2>3. ScanTypes'
    BY <1>40 DEF WorkerConnectFailed, EnterIdle, ScanTypes
  <2>4. AirTypes'
    BY <1>40, DisconnectTypes DEF WorkerConnectFailed
  <2> QED
    BY <2>1, <2>2, <2>3, <2>4, <1>40, Frames
       DEF WorkerConnectFailed, TypeInv, TypeOK
<1>41. CASE ScanStarts
  <2>1. LinkTypes'
    BY <1>41 DEF ScanStarts, LinkTypes, LinkPhase, Connected
  <2>2. ScanTypes'
    BY <1>41 DEF ScanStarts, ScanTypes
  <2> QED
    BY <2>1, <2>2, <1>41, Frames DEF ScanStarts, TypeInv, TypeOK
<1>42. CASE ScanEnds
  <2>1. LinkTypes'
    BY <1>42 DEF ScanEnds, LinkTypes, LinkPhase, Connected
  <2>2. ScanTypes'
    BY <1>42 DEF ScanEnds, ScanTypes
  <2> QED
    BY <2>1, <2>2, <1>42, Frames DEF ScanEnds, TypeInv, TypeOK
<1>43. CASE NotifyOpens
  <2>1. SessTypes'
    BY <1>43 DEF NotifyOpens, SessTypes
  <2> QED
    BY <2>1, <1>43, Frames DEF NotifyOpens, TypeInv, TypeOK
<1>44. ASSUME NEW s \in Slot, NotifyStartsOta(s) PROVE TypeInv'
  <2>1. OtaTypes'
    BY <1>44 DEF NotifyStartsOta, OtaTypes
  <2>2. SessTypes'
    BY <1>44 DEF NotifyStartsOta, SessTypes, JobState, Stage, LiveStage
  <2> QED
    BY <2>1, <2>2, <1>44, Frames DEF NotifyStartsOta, TypeInv, TypeOK
<1>45. CASE NotifyAuthRequest
  <2>1. SessTypes'
    BY <1>45 DEF NotifyAuthRequest, SessTypes
  <2> QED
    BY <2>1, <1>45, Frames DEF NotifyAuthRequest, TypeInv, TypeOK
<1>46. CASE NotifyAuthDone
  <2>1. LinkTypes'
    BY <1>46 DEF NotifyAuthDone, LinkTypes, LinkPhase, Connected
  <2>2. SessTypes'
    BY <1>46 DEF NotifyAuthDone, SessTypes
  <2> QED
    BY <2>1, <2>2, <1>46, Frames DEF NotifyAuthDone, TypeInv, TypeOK
<1>47. CASE NotifyKeyExchanged
  <2>1. LinkTypes'
    BY <1>47 DEF NotifyKeyExchanged, LinkTypes, LinkPhase, Connected
  <2>2. SessTypes'
    BY <1>47 DEF NotifyKeyExchanged, SessTypes
  <2> QED
    BY <2>1, <2>2, <1>47, Frames DEF NotifyKeyExchanged, TypeInv, TypeOK
<1>48. CASE NotifyPlaintext
  <2>1. LinkTypes'
    BY <1>48 DEF NotifyPlaintext, LinkTypes, LinkPhase, Connected
  <2>2. SessTypes'
    BY <1>48 DEF NotifyPlaintext, SessTypes
  <2> QED
    BY <2>1, <2>2, <1>48, Frames DEF NotifyPlaintext, TypeInv, TypeOK
<1>49. CASE NotifyPeerGone
  <2>1. LinkTypes'
    BY <1>49 DEF NotifyPeerGone, LinkTypes, LinkPhase, Connected
  <2>2. OtaTypes'
    BY <1>49, OtaLiveUpdates DEF NotifyPeerGone, OtaTypes
  <2>3. SessTypes'
    BY <1>49 DEF NotifyPeerGone, SessTypes
  <2> QED
    BY <2>1, <2>2, <2>3, <1>49, Frames DEF NotifyPeerGone, TypeInv, TypeOK
<1>50. ASSUME NEW s \in Slot, JobStarts(s) PROVE TypeInv'
  <2>1. OtaTypes'
    BY <1>50, OtaLiveBegins, Zenon DEF JobStarts, Moves, JobFrame, OtaTypes
  <2>2. SessTypes'
    BY <1>50, JobMoves DEF JobStarts, JobFrame, SessTypes, Stage, LiveStage
  <2> QED
    BY <2>1, <2>2, <1>50, Frames DEF JobStarts, JobFrame, TypeInv, TypeOK
<1>59. ASSUME NEW s \in Slot, JobEntersGate(s) PROVE TypeInv'
  <2>1. SessTypes'
    BY <1>59, JobMoves DEF JobEntersGate, JobFrame, SessTypes, Stage, LiveStage
  <2> QED
    BY <2>1, <1>59, Frames DEF JobEntersGate, JobFrame, otaVars, TypeInv, TypeOK
<1>51. ASSUME NEW s \in Slot, JobFails(s) PROVE TypeInv'
  <2>1. OtaTypes'
    BY <1>51, OtaLiveUpdates DEF JobFails, Moves, JobFrame, Active, OtaTypes
  <2>2. SessTypes'
    BY <1>51, JobMoves
       DEF JobFails, JobFrame, Active, OtaFail, SessTypes, Stage, LiveStage
  <2> QED
    BY <2>1, <2>2, <1>51, Frames DEF JobFails, JobFrame, TypeInv, TypeOK
<1>52. ASSUME NEW s \in Slot, JobStopped(s) PROVE TypeInv'
  <2>1. OtaTypes'
    BY <1>52, OtaLiveUpdates DEF JobStopped, Moves, JobFrame, OtaTypes
  <2>2. SessTypes'
    BY <1>52, JobMoves
       DEF JobStopped, JobFrame, OtaFail, SessTypes, Stage, LiveStage
  <2> QED
    BY <2>1, <2>2, <1>52, Frames DEF JobStopped, JobFrame, TypeInv, TypeOK
<1>53. ASSUME NEW s \in Slot, JobReady(s) PROVE TypeInv'
  <2>1. SessTypes'
    BY <1>53, JobMoves DEF JobReady, JobFrame, SessTypes, Stage, LiveStage
  <2> QED
    BY <2>1, <1>53, Frames DEF JobReady, JobFrame, otaVars, TypeInv, TypeOK
<1>54. ASSUME NEW s \in Slot, JobTransferred(s) PROVE TypeInv'
  <2>1. SessTypes'
    BY <1>54, JobMoves DEF JobTransferred, JobFrame, SessTypes, Stage, LiveStage
  <2> QED
    BY <2>1, <1>54, Frames DEF JobTransferred, JobFrame, otaVars, TypeInv, TypeOK
<1>55. ASSUME NEW s \in Slot, JobSucceeds(s) PROVE TypeInv'
  <2>1. OtaTypes'
    BY <1>55, OtaLiveUpdates DEF JobSucceeds, Moves, JobFrame, OtaTypes
  <2>2. SessTypes'
    BY <1>55, JobMoves DEF JobSucceeds, JobFrame, SessTypes, Stage, LiveStage
  <2> QED
    BY <2>1, <2>2, <1>55, Frames DEF JobSucceeds, JobFrame, TypeInv, TypeOK
<1>56. ASSUME NEW s \in Slot, JobFinishes(s) PROVE TypeInv'
  <2>1. OtaTypes'
    BY <1>56, OtaLiveUpdates DEF JobFinishes, OtaTypes
  <2>2. SessTypes'
    BY <1>56 DEF JobFinishes, SessTypes, JobState, Stage, LiveStage
  <2> QED
    BY <2>1, <2>2, <1>56, Frames DEF JobFinishes, TypeInv, TypeOK
<1>57. CASE LinkLost
  <2>1. AirTypes'
    BY <1>57 DEF LinkLost, AirTypes
  <2> QED
    BY <2>1, <1>57, Frames DEF LinkLost, TypeInv, TypeOK
<1>58. CASE UNCHANGED vars
  BY <1>58, Frames DEF vars, TypeInv, TypeOK
<1>60. ASSUME NEW o \in Old, WorkerJoinTimesOut(o) PROVE TypeInv'
  <2>1. WorkTypes' /\ TriesLeft' /\ SessTypes'
    BY <1>60, SessionEndTypes DEF WorkerJoinTimesOut
  <2>2. AirTypes'
    BY <1>60 DEF WorkerJoinTimesOut, SessionEnds, AirTypes, LateReader, SessTypes
  <2> QED
    BY <2>1, <2>2, <1>60, Frames
       DEF WorkerJoinTimesOut, SessionEnds, TypeInv, TypeOK
<1>61. ASSUME NEW o \in Old, LateShows(o) PROVE TypeInv'
  <2>1. LinkTypes'
    BY <1>61 DEF LateShows, LinkTypes, LinkPhase, Connected
  <2> QED
    BY <2>1, <1>61, Frames DEF LateShows, LateFrame, TypeInv, TypeOK
<1>62. ASSUME NEW o \in Old, NEW s \in Slot, LateStartsOta(o, s) PROVE TypeInv'
  <2>1. OtaTypes'
    BY <1>62 DEF LateStartsOta, OtaTypes
  <2>2. SessTypes'
    BY <1>62 DEF LateStartsOta, SessTypes, AirTypes, LateReader, JobState, Stage
  <2>3. AirTypes'
    <3>1. late[o] \in LateReader /\ late[o].sessq # <<>>
      BY <1>62 DEF LateStartsOta, AirTypes
    <3>2. [late[o] EXCEPT !.sessq = Tail(@)] \in LateReader
      BY <3>1 DEF LateReader
    <3> QED
      BY <1>62, <3>2 DEF LateStartsOta, AirTypes
  <2> QED
    BY <2>1, <2>2, <2>3, <1>62, Frames DEF LateStartsOta, TypeInv, TypeOK
<1>63. ASSUME NEW o \in Old, LatePeerGone(o) PROVE TypeInv'
  <2>1. LinkTypes'
    BY <1>63 DEF LatePeerGone, LinkTypes, LinkPhase
  <2>2. OtaTypes'
    BY <1>63, OtaLiveUpdates DEF LatePeerGone, OtaTypes
  <2>3. AirTypes'
    BY <1>63, QueueUpdates
       DEF LatePeerGone, LateFrame, AirTypes, LateReader, NoReader
  <2> QED
    BY <2>1, <2>2, <2>3, <1>63, Frames DEF LatePeerGone, LateFrame, TypeInv, TypeOK
<1>64. ASSUME NEW o \in Old, LateEnds(o) PROVE TypeInv'
  <2>1. AirTypes'
    BY <1>64, QueueUpdates DEF LateEnds, LateFrame, AirTypes, LateReader, NoReader
  <2> QED
    BY <2>1, <1>64, Frames DEF LateEnds, LateFrame, TypeInv, TypeOK
<1>65. CASE LeftCloses
  <2>1. AirTypes'
    BY <1>65, BleWorkerAssumption DEF LeftCloses, AirTypes
  <2> QED
    BY <2>1, <1>65, Frames DEF LeftCloses, TypeInv, TypeOK
<1> QED
  BY <1>1, <1>2, <1>3, <1>4, <1>5, <1>6, <1>7, <1>8, <1>9, <1>10, <1>11, <1>12,
         <1>13, <1>14, <1>15, <1>16, <1>17, <1>18, <1>19, <1>20, <1>21, <1>22,
         <1>23, <1>24, <1>25, <1>26, <1>27, <1>28, <1>29, <1>30, <1>31, <1>32,
         <1>33, <1>34, <1>35, <1>36, <1>37, <1>38, <1>39, <1>40, <1>41, <1>42,
         <1>43, <1>44, <1>45, <1>46, <1>47, <1>48, <1>49, <1>50, <1>51, <1>52,
         <1>53, <1>54, <1>55, <1>56, <1>57, <1>58, <1>59, <1>60, <1>61, <1>62, <1>63,
         <1>64, <1>65
     DEF Next, UiClick, UiRun, Worker, WorkerReceive, WorkerConnecting, Notify,
         LateStep, JobStep

\* Every variable keeps its type, whatever the user and the peer do and however
\* the threads interleave; connect_gatt_with_retry never exceeds its attempts.
THEOREM TypeCorrect == Spec => []TypeOK
  <1>1. TypeInv => TypeOK
    BY DEF TypeInv
  <1> QED
    BY <1>1, TypeInit, TypeNext, PTL DEF Spec

-----------------------------------------------------------------------------
(* Ownership.  None of the properties is inductive by itself.  What the     *)
(* screen shows depends on the reader being alive, the reader on the worker *)
(* holding its session, and the session on the await the worker stands at.  *)

\* The worker serves commands with a session or without; it dials without.
SessionIsHeld ==
    /\ session => wpc \in {"Top", "Wait", "Stop", "Abort", "Join"}
    /\ wpc \in {"Abort", "Join"} => session

\* "Connected" is on the screen only with a session, while one is being set
\* up, or while the worker is on its way from one to a new phase.
ShownConnected ==
    phase \in Connected /\ ~amiss =>
        \/ session
        \/ wpc \in {"Throughput", "Close"}
        \/ wpc \in {"Settle", "Find"} /\ after = "Connect"

\* Without a reader, or before an authentication, no keys; and a reader that
\* has read nothing does not find "encrypted" on the screen.
KeysAfterAuth == proto = "WaitingAuth" \/ notify = "None" => ~kex
FreshReader ==
    notify = "Opening" /\ ~amiss /\ wpc \notin {"Abort", "Join"}
        => phase # "Encrypted"

\* A session has a link, and so has the connect path once it is made.
LinkHeld ==
    session \/ wpc \in {"Discover", "Subscribe", "ConnFail", "Throughput"}
        => gatt # "Closed"

\* The scan stays stopped while the worker dials, and beside a link.
ScanStopped ==
    wpc \in {"Dial", "Gatt", "Backoff"} \/ gatt # "Closed" => scan = "None"

\* The inductive invariant.
Ownership ==
    /\ SessionIsHeld /\ NoGattLeak /\ TasksHaveSession /\ ShownConnected
    /\ KeysAfterAuth /\ FreshReader /\ LinkHeld /\ ScanStopped
    /\ FirmwareOnlyEncrypted /\ EncryptedIsReal

\* At the start nothing is connected and nobody owns anything.
LEMMA OwnershipInit == Init => Ownership
  <1> SUFFICES ASSUME Init PROVE Ownership
    OBVIOUS
  <1>1. /\ ~session /\ ~kex /\ wpc = "Open" /\ phase = "Idle" /\ gatt = "Closed"
        /\ notify = "None" /\ sessq = <<>> /\ scan = "None"
        /\ \A s \in Slot : jobs[s].stage = "None"
    BY Zenon DEF Init, NoJob
  <1> QED
    BY <1>1 DEF Ownership, SessionIsHeld, NoGattLeak, TasksHaveSession,
                ShownConnected, KeysAfterAuth, FreshReader, LinkHeld, ScanStopped,
                FirmwareOnlyEncrypted, EncryptedIsReal, Live, LiveStage, Connected

\* Every step of the UI, of the worker or of a session keeps the invariant.
LEMMA OwnershipNext ==
    ASSUME TypeInv, Ownership, [Next]_vars
    PROVE  Ownership'
<1> USE DEF TypeInv, TypeOK, SessTypes, JobState, NoJob, Stage, LiveStage, Live,
            Connected, Show, uiVars, chanVars, shown, linkVars, otaVars, workVars,
            sessVars, airVars
<1> USE DEF Ownership, SessionIsHeld, NoGattLeak, TasksHaveSession,
            ShownConnected, KeysAfterAuth, FreshReader, LinkHeld, ScanStopped,
            FirmwareOnlyEncrypted, EncryptedIsReal
<1>1. CASE UiStartScan
  BY <1>1 DEF UiStartScan, Clicks, Send
<1>2. CASE UiStopScan
  BY <1>2 DEF UiStopScan, Clicks, Send
<1>3. CASE UiDisconnect
  BY <1>3 DEF UiDisconnect, Clicks, Send
<1>4. CASE UiCancelConnect
  BY <1>4 DEF UiCancelConnect, Clicks
<1>5. CASE UiConnect
  BY <1>5 DEF UiConnect, Clicks, Send
<1>6. ASSUME NEW j \in OtaJob, UiOtaCheck(j) PROVE Ownership'
  BY <1>6 DEF UiOtaCheck, Clicks
<1>7. CASE UiStopOta
  BY <1>7 DEF UiStopOta, Clicks
<1>8. CASE UiClearFile
  BY <1>8 DEF UiClearFile, Clicks
<1>9. CASE UiOtaBegin
  BY <1>9 DEF UiOtaBegin
<1>10. CASE UiPrecheckFails
  BY <1>10 DEF UiPrecheckFails
<1>11. CASE UiOtaBusy
  BY <1>11 DEF UiOtaBusy
<1>12. CASE UiOtaSend
  BY <1>12 DEF UiOtaSend, Send
<1>13. CASE UiSyncConnection
  BY <1>13 DEF UiSyncConnection
<1>14. CASE WorkerOpenAdapter
  BY <1>14 DEF WorkerOpenAdapter
<1>15. CASE WorkerNoAdapter
  BY <1>15 DEF WorkerNoAdapter
<1>16. CASE WorkerReap
  BY <1>16 DEF WorkerReap, TearDown
<1>17. CASE WorkerTop
  BY <1>17 DEF WorkerTop, BeginDisconnect, Requested
<1>18. CASE WorkerTick
  BY <1>18 DEF WorkerTick, EnterIdle
<1>19. CASE RecvStartScan
  BY <1>19 DEF RecvStartScan, Receive, EnterIdle, RestartScan, TearDown
<1>20. CASE RecvStopScan
  BY <1>20 DEF RecvStopScan, Receive, EnterIdle
<1>21. CASE RecvDisconnect
  BY <1>21 DEF RecvDisconnect, Receive, BeginDisconnect
<1>22. CASE RecvConnect
  BY <1>22 DEF RecvConnect, Receive, TearDown
<1>23. ASSUME NEW j \in OtaJob, RecvStartOta(j) PROVE Ownership'
  BY <1>23 DEF RecvStartOta, Receive
<1>24. CASE WorkerScanStopped
  BY <1>24 DEF WorkerScanStopped
<1>25. CASE WorkerAbortJobs
  BY <1>25 DEF WorkerAbortJobs, Live
<1>26. CASE WorkerJoinTasks
  BY <1>26 DEF WorkerJoinTasks, SessionEnds
<1>27. CASE WorkerCloseGatt
  BY <1>27
     DEF WorkerCloseGatt, Disconnect, EnterIdle, RestartScan, ScanAfterOta, ReapedPhase
<1>28. CASE WorkerSettle
  BY <1>28 DEF WorkerSettle, GiveUp, EnterIdle, Goto
<1>29. CASE WorkerFind
  BY <1>29 DEF WorkerFind, GiveUp, EnterIdle, Goto
<1>30. CASE WorkerRediscover
  BY <1>30 DEF WorkerRediscover, GiveUp, EnterIdle, Goto
<1>31. CASE WorkerStopScanToDial
  BY <1>31 DEF WorkerStopScanToDial, GiveUp, EnterIdle, Goto
<1>32. CASE WorkerDial
  BY <1>32 DEF WorkerDial, GiveUp, EnterIdle, Goto
<1>33. CASE WorkerGattConnected
  BY <1>33 DEF WorkerGattConnected, Goto
<1>34. CASE WorkerGattFailed
  BY <1>34 DEF WorkerGattFailed, GiveUp, EnterIdle, Goto
<1>35. CASE WorkerBackoff
  BY <1>35 DEF WorkerBackoff, GiveUp, EnterIdle, Goto
<1>36. CASE WorkerDiscover
  BY <1>36 DEF WorkerDiscover, Goto
<1>37. CASE WorkerSubscribeFails
  BY <1>37 DEF WorkerSubscribeFails, Goto
<1>38. CASE WorkerSpawnSession
  BY <1>38 DEF WorkerSpawnSession
<1>39. CASE WorkerSessionReady
  BY <1>39 DEF WorkerSessionReady
<1>40. CASE WorkerConnectFailed
  BY <1>40 DEF WorkerConnectFailed, Disconnect, EnterIdle
<1>41. CASE ScanStarts
  BY <1>41 DEF ScanStarts
<1>42. CASE ScanEnds
  BY <1>42 DEF ScanEnds
<1>43. CASE NotifyOpens
  BY <1>43 DEF NotifyOpens
<1>44. ASSUME NEW s \in Slot, NotifyStartsOta(s) PROVE Ownership'
  BY <1>44 DEF NotifyStartsOta
<1>45. CASE NotifyAuthRequest
  BY <1>45 DEF NotifyAuthRequest
<1>46. CASE NotifyAuthDone
  BY <1>46 DEF NotifyAuthDone
<1>47. CASE NotifyKeyExchanged
  BY <1>47 DEF NotifyKeyExchanged
<1>48. CASE NotifyPlaintext
  BY <1>48 DEF NotifyPlaintext
<1>49. CASE NotifyPeerGone
  BY <1>49 DEF NotifyPeerGone
<1>50. ASSUME NEW s \in Slot, JobStarts(s) PROVE Ownership'
  BY <1>50 DEF JobStarts, Moves, JobFrame
<1>59. ASSUME NEW s \in Slot, JobEntersGate(s) PROVE Ownership'
  BY <1>59 DEF JobEntersGate, Moves, JobFrame
<1>51. ASSUME NEW s \in Slot, JobFails(s) PROVE Ownership'
  BY <1>51 DEF JobFails, Moves, JobFrame, Active
<1>52. ASSUME NEW s \in Slot, JobStopped(s) PROVE Ownership'
  BY <1>52 DEF JobStopped, Moves, JobFrame
<1>53. ASSUME NEW s \in Slot, JobReady(s) PROVE Ownership'
  BY <1>53 DEF JobReady, Moves, JobFrame
<1>54. ASSUME NEW s \in Slot, JobTransferred(s) PROVE Ownership'
  BY <1>54 DEF JobTransferred, Moves, JobFrame
<1>55. ASSUME NEW s \in Slot, JobSucceeds(s) PROVE Ownership'
  BY <1>55 DEF JobSucceeds, Moves, JobFrame
<1>56. ASSUME NEW s \in Slot, JobFinishes(s) PROVE Ownership'
  BY <1>56 DEF JobFinishes
<1>57. CASE LinkLost
  BY <1>57 DEF LinkLost
<1>58. CASE UNCHANGED vars
  BY <1>58 DEF vars
<1>60. ASSUME NEW o \in Old, WorkerJoinTimesOut(o) PROVE Ownership'
  BY <1>60 DEF WorkerJoinTimesOut, SessionEnds
<1>61. ASSUME NEW o \in Old, LateShows(o) PROVE Ownership'
  BY <1>61 DEF LateShows, LateFrame
<1>62. ASSUME NEW o \in Old, NEW s \in Slot, LateStartsOta(o, s) PROVE Ownership'
  BY <1>62 DEF LateStartsOta
<1>63. ASSUME NEW o \in Old, LatePeerGone(o) PROVE Ownership'
  BY <1>63 DEF LatePeerGone, LateFrame
<1>64. ASSUME NEW o \in Old, LateEnds(o) PROVE Ownership'
  BY <1>64 DEF LateEnds, LateFrame
<1>65. CASE LeftCloses
  BY <1>65 DEF LeftCloses
<1> QED
  BY <1>1, <1>2, <1>3, <1>4, <1>5, <1>6, <1>7, <1>8, <1>9, <1>10, <1>11, <1>12,
         <1>13, <1>14, <1>15, <1>16, <1>17, <1>18, <1>19, <1>20, <1>21, <1>22,
         <1>23, <1>24, <1>25, <1>26, <1>27, <1>28, <1>29, <1>30, <1>31, <1>32,
         <1>33, <1>34, <1>35, <1>36, <1>37, <1>38, <1>39, <1>40, <1>41, <1>42,
         <1>43, <1>44, <1>45, <1>46, <1>47, <1>48, <1>49, <1>50, <1>51, <1>52,
         <1>53, <1>54, <1>55, <1>56, <1>57, <1>58, <1>59, <1>60, <1>61, <1>62, <1>63,
         <1>64, <1>65
     DEF Next, UiClick, UiRun, Worker, WorkerReceive, WorkerConnecting, Notify,
         LateStep, JobStep

\* The invariant holds for ever.
LEMMA OwnershipCorrect == Spec => [](TypeInv /\ Ownership)
  <1>1. Init => TypeInv /\ Ownership
    BY TypeInit, OwnershipInit
  <1>2. TypeInv /\ Ownership /\ [Next]_vars => TypeInv' /\ Ownership'
    BY TypeNext, OwnershipNext
  <1> QED
    BY <1>1, <1>2, PTL DEF Spec

\* A GATT link is in the hands of a session, or of the connect path that will
\* make one or call disconnect(), until disconnect() is called: no failure,
\* cancellation or loss drops it without.  Whether disconnect() then closes it
\* is not said; what follows goes on beside it if it does not.
THEOREM NoGattLeakCorrect == Spec => []NoGattLeak
  <1>1. Ownership => NoGattLeak
    BY DEF Ownership
  <1> QED
    BY <1>1, OwnershipCorrect, PTL

\* No notify_task that the worker counts on, no queued upgrade and no upgrade
\* task that can still send outlives the session that end_session tears down,
\* with any number of readers it has stopped waiting for going on beside.
THEOREM TasksHaveSessionCorrect == Spec => []TasksHaveSession
  <1>1. Ownership => TasksHaveSession
    BY DEF Ownership
  <1> QED
    BY <1>1, OwnershipCorrect, PTL

\* Whenever the worker can take a command, "connected" on the screen is a
\* session it holds, or was written by a reader it had stopped waiting for.
THEOREM ShownConnectedCorrect == Spec => []ShownConnectedIsHeld
  <1>1. Ownership => ShownConnectedIsHeld
    BY DEF Ownership, ShownConnected, ShownConnectedIsHeld, AtLoop
  <1> QED
    BY <1>1, OwnershipCorrect, PTL

\* "Encrypted" on the screen of a living session means that this session has
\* made its keys and that the upgrade page knows, unless a reader that should
\* be gone has written it.
THEOREM EncryptedCorrect == Spec => []EncryptedIsReal
  <1>1. Ownership => EncryptedIsReal
    BY DEF Ownership
  <1> QED
    BY <1>1, OwnershipCorrect, PTL

\* Firmware is sent only over a link whose keys are made, whichever session the
\* queued upgrade ends up in.
THEOREM FirmwareCorrect == Spec => []FirmwareOnlyEncrypted
  <1>1. Ownership => FirmwareOnlyEncrypted
    BY DEF Ownership
  <1> QED
    BY <1>1, OwnershipCorrect, PTL

-----------------------------------------------------------------------------
(* The worker implements AbstractLink.  Ownership is what a step needs: a   *)
(* dialing worker holds no link and no scan, a session always holds a link, *)
(* a link no scan, and what has no reader has no keys.                      *)

Dialing == wpc \in {"Dial", "Gatt", "Backoff"}
Simulated == [L!Next]_(L!vars)

\* The end of a session, joined or not, is EndSession, or nothing if there was no
\* reader.
LEMMA EndSimulates ==
    ASSUME TypeInv, Ownership, wpc = "Join", SessionEnds,
           Straggler' = Straggler \/ (Reader = "Live" /\ Straggler' = TRUE)
    PROVE  Simulated
<1> USE DEF TypeInv, TypeOK, AirTypes, WorkTypes, SessTypes, Simulated
<1>1. session /\ gatt # "Closed" /\ (notify = "None" => kex = FALSE)
  BY DEF Ownership, SessionIsHeld, LinkHeld, KeysAfterAuth
<1>2. Reader' = "None" /\ kex' = FALSE
  BY DEF SessionEnds, Reader
<1>3. UNCHANGED <<scan # "None", Dialing, gatt, OldLink>>
  BY DEF SessionEnds, Dialing, OldLink
<1>4. notify # "None" => Reader # "None"
  BY DEF Reader
<1>5. CASE notify # "None"
  <2>1. Straggler' \in {Straggler, Straggler \/ Reader = "Live"}
    BY DEF Straggler
  <2>2. L!EndSession
    BY <1>1, <1>2, <1>3, <1>4, <1>5, <2>1 DEF L!EndSession, Dialing
  <2> QED
    BY <2>2 DEF L!Next
<1>6. CASE notify = "None"
  <2>1. Straggler' = Straggler /\ Reader = "None"
    BY <1>6 DEF Reader
  <2> QED
    BY <1>1, <1>2, <1>3, <1>6, <2>1 DEF L!vars, L!past, Dialing
<1> QED
  BY <1>5, <1>6

\* Each step of the UI, of the worker, of a session and of the peer is one step
\* of AbstractLink or none.
LEMMA StepSimulates ==
    ASSUME TypeInv, Ownership, [Next]_vars
    PROVE  Simulated
<1> USE DEF TypeInv, TypeOK, ScanTypes, AirTypes, WorkTypes, SessTypes, WorkerPc,
            uiVars, chanVars, linkVars, otaVars, workVars, sessVars, airVars
<1> USE DEF Ownership, SessionIsHeld, NoGattLeak, TasksHaveSession, LinkHeld,
            KeysAfterAuth, ScanStopped
<1> /\ UNCHANGED left => UNCHANGED OldLink
    /\ UNCHANGED late => UNCHANGED Straggler
  BY DEF OldLink, Straggler, Outlives
<1> /\ OldLink' = TRUE \/ OldLink' = FALSE
    /\ Straggler' = TRUE \/ Straggler' = FALSE
  BY DEF OldLink, Straggler
<1> USE DEF Simulated, L!Next, L!vars, L!past, Reader
<1>1. CASE UiStartScan
  BY <1>1 DEF UiStartScan, Clicks, Send
<1>2. CASE UiStopScan
  BY <1>2 DEF UiStopScan, Clicks, Send
<1>3. CASE UiDisconnect
  BY <1>3 DEF UiDisconnect, Clicks, Send
<1>4. CASE UiCancelConnect
  BY <1>4 DEF UiCancelConnect, Clicks
<1>5. CASE UiConnect
  BY <1>5 DEF UiConnect, Clicks, Send
<1>6. ASSUME NEW j \in OtaJob, UiOtaCheck(j) PROVE Simulated
  BY <1>6 DEF UiOtaCheck, Clicks
<1>7. CASE UiStopOta
  BY <1>7 DEF UiStopOta, Clicks
<1>8. CASE UiClearFile
  BY <1>8 DEF UiClearFile, Clicks
<1>9. CASE UiOtaBegin
  BY <1>9 DEF UiOtaBegin
<1>10. CASE UiPrecheckFails
  BY <1>10 DEF UiPrecheckFails
<1>11. CASE UiOtaBusy
  BY <1>11 DEF UiOtaBusy
<1>12. CASE UiOtaSend
  BY <1>12 DEF UiOtaSend, Send
<1>13. CASE UiSyncConnection
  BY <1>13 DEF UiSyncConnection
<1>14. CASE WorkerOpenAdapter
  BY <1>14 DEF WorkerOpenAdapter
<1>15. CASE WorkerNoAdapter
  BY <1>15 DEF WorkerNoAdapter
<1>16. CASE WorkerReap
  BY <1>16 DEF WorkerReap, TearDown
<1>17. CASE WorkerTop
  BY <1>17 DEF WorkerTop, BeginDisconnect, Requested
<1>18. CASE WorkerTick
  BY <1>18 DEF WorkerTick, EnterIdle,
     L!StopScan
<1>19. CASE RecvStartScan
  BY <1>19 DEF RecvStartScan, Receive, EnterIdle, RestartScan, TearDown,
     L!StopScan, L!StartScan
<1>20. CASE RecvStopScan
  BY <1>20 DEF RecvStopScan, Receive, EnterIdle,
     L!StopScan
<1>21. CASE RecvDisconnect
  BY <1>21 DEF RecvDisconnect, Receive, BeginDisconnect
<1>22. CASE RecvConnect
  BY <1>22 DEF RecvConnect, Receive, TearDown
<1>23. ASSUME NEW j \in OtaJob, RecvStartOta(j) PROVE Simulated
  BY <1>23 DEF RecvStartOta, Receive
<1>24. CASE WorkerScanStopped
  BY <1>24 DEF WorkerScanStopped
<1>25. CASE WorkerAbortJobs
  BY <1>25 DEF WorkerAbortJobs, Live
<1>26. CASE WorkerJoinTasks
  <2>1. Straggler' = Straggler
    BY <1>26 DEF WorkerJoinTasks
  <2> QED
    BY <1>26, <2>1, EndSimulates DEF WorkerJoinTasks
<1>27. CASE WorkerCloseGatt
  <2>1. gatt # "Closed" => OldLink' \in {OldLink, OldLink \/ gatt = "Up"}
    BY <1>27 DEF WorkerCloseGatt, Disconnect, OldLink
  <2>2. gatt = "Closed" => UNCHANGED OldLink
    BY <1>27 DEF WorkerCloseGatt, Disconnect, OldLink
  <2>3. gatt' = "Closed" /\ UNCHANGED Straggler
    BY <1>27 DEF WorkerCloseGatt, Disconnect
  <2> QED
    BY <1>27, <2>1, <2>2, <2>3
       DEF WorkerCloseGatt, EnterIdle, RestartScan, ScanAfterOta, ReapedPhase,
           L!Close, L!StartScan, L!StopScan
<1>28. CASE WorkerSettle
  BY <1>28 DEF WorkerSettle, GiveUp, EnterIdle, Goto,
     L!StopScan
<1>29. CASE WorkerFind
  BY <1>29 DEF WorkerFind, GiveUp, EnterIdle, Goto,
     L!StopScan
<1>30. CASE WorkerRediscover
  BY <1>30 DEF WorkerRediscover, GiveUp, EnterIdle, Goto,
     L!StopScan
<1>31. CASE WorkerStopScanToDial
  BY <1>31 DEF WorkerStopScanToDial, GiveUp, EnterIdle, Goto,
     L!Dial, L!StopScan
<1>32. CASE WorkerDial
  BY <1>32 DEF WorkerDial, GiveUp, EnterIdle, Goto,
     L!HangUp, L!StopScan
<1>33. CASE WorkerGattConnected
  <2>1. OldLink' = OldLink \/ OldLink' = FALSE
    BY <1>33 DEF WorkerGattConnected, OldLink
  <2>2. UNCHANGED Straggler
    BY <1>33 DEF WorkerGattConnected
  <2>3. gatt = "Closed" /\ notify = "None" /\ ~kex /\ scan = "None"
    BY <1>33 DEF WorkerGattConnected
  <2>4. /\ gatt' = "Up" /\ ~(wpc' \in {"Dial", "Gatt", "Backoff"})
        /\ UNCHANGED <<scan, notify, kex>>
    BY <1>33 DEF WorkerGattConnected, Goto
  <2> QED
    BY <1>33, <2>1, <2>2, <2>3, <2>4 DEF WorkerGattConnected, L!Connect
<1>34. CASE WorkerGattFailed
  BY <1>34 DEF WorkerGattFailed, GiveUp, EnterIdle, Goto,
     L!HangUp, L!StopScan
<1>35. CASE WorkerBackoff
  BY <1>35 DEF WorkerBackoff, GiveUp, EnterIdle, Goto,
     L!HangUp, L!StopScan
<1>36. CASE WorkerDiscover
  BY <1>36 DEF WorkerDiscover, Goto
<1>37. CASE WorkerSubscribeFails
  BY <1>37 DEF WorkerSubscribeFails, Goto
<1>38. CASE WorkerSpawnSession
  <2>1. ~session /\ notify = "None" /\ ~kex /\ gatt # "Closed"
    BY <1>38 DEF WorkerSpawnSession
  <2>2. Reader = "None" /\ Reader' = "Live" /\ kex' = kex
    BY <1>38, <2>1 DEF WorkerSpawnSession
  <2>3. UNCHANGED <<scan # "None", Dialing, gatt, OldLink, Straggler>>
    BY <1>38 DEF WorkerSpawnSession, Dialing
  <2> QED
    BY <2>1, <2>2, <2>3 DEF L!Listen, Dialing
<1>39. CASE WorkerSessionReady
  BY <1>39 DEF WorkerSessionReady
<1>40. CASE WorkerConnectFailed
  <2>1. OldLink' \in {OldLink, OldLink \/ gatt = "Up"}
    BY <1>40 DEF WorkerConnectFailed, Disconnect, OldLink
  <2>2. gatt' = "Closed" /\ UNCHANGED Straggler
    BY <1>40 DEF WorkerConnectFailed, Disconnect
  <2> QED
    BY <1>40, <2>1, <2>2 DEF WorkerConnectFailed, EnterIdle, L!Close
<1>41. CASE ScanStarts
  BY <1>41 DEF ScanStarts
<1>42. CASE ScanEnds
  BY <1>42 DEF ScanEnds
<1>43. CASE NotifyOpens
  BY <1>43 DEF NotifyOpens,
     L!ReaderEnds
<1>44. ASSUME NEW s \in Slot, NotifyStartsOta(s) PROVE Simulated
  BY <1>44 DEF NotifyStartsOta
<1>45. CASE NotifyAuthRequest
  BY <1>45 DEF NotifyAuthRequest
<1>46. CASE NotifyAuthDone
  BY <1>46 DEF NotifyAuthDone
<1>47. CASE NotifyKeyExchanged
  BY <1>47 DEF NotifyKeyExchanged,
     L!MakeKeys
<1>48. CASE NotifyPlaintext
  BY <1>48 DEF NotifyPlaintext
<1>49. CASE NotifyPeerGone
  BY <1>49 DEF NotifyPeerGone,
     L!ReaderEnds
<1>50. ASSUME NEW s \in Slot, JobStarts(s) PROVE Simulated
  BY <1>50 DEF JobStarts, Moves, JobFrame
<1>59. ASSUME NEW s \in Slot, JobEntersGate(s) PROVE Simulated
  BY <1>59 DEF JobEntersGate, Moves, JobFrame
<1>51. ASSUME NEW s \in Slot, JobFails(s) PROVE Simulated
  BY <1>51 DEF JobFails, Moves, JobFrame, Active
<1>52. ASSUME NEW s \in Slot, JobStopped(s) PROVE Simulated
  BY <1>52 DEF JobStopped, Moves, JobFrame
<1>53. ASSUME NEW s \in Slot, JobReady(s) PROVE Simulated
  BY <1>53 DEF JobReady, Moves, JobFrame
<1>54. ASSUME NEW s \in Slot, JobTransferred(s) PROVE Simulated
  BY <1>54 DEF JobTransferred, Moves, JobFrame
<1>55. ASSUME NEW s \in Slot, JobSucceeds(s) PROVE Simulated
  BY <1>55 DEF JobSucceeds, Moves, JobFrame
<1>56. ASSUME NEW s \in Slot, JobFinishes(s) PROVE Simulated
  BY <1>56 DEF JobFinishes
<1>57. CASE LinkLost
  BY <1>57 DEF LinkLost,
     L!Lose
<1>58. CASE UNCHANGED vars
  BY <1>58 DEF vars
<1>60. ASSUME NEW o \in Old, WorkerJoinTimesOut(o) PROVE Simulated
  <2>1. Reader = "Live"
    BY <1>60 DEF WorkerJoinTimesOut
  <2>2. late'[o].runs
    BY <1>60 DEF WorkerJoinTimesOut
  <2>3. Straggler' = TRUE
    BY <2>2 DEF Straggler, Outlives
  <2> QED
    BY <1>60, <2>1, <2>3, EndSimulates DEF WorkerJoinTimesOut
<1>61. ASSUME NEW o \in Old, LateShows(o) PROVE Simulated
  BY <1>61 DEF LateShows, LateFrame
<1>62. ASSUME NEW o \in Old, NEW s \in Slot, LateStartsOta(o, s) PROVE Simulated
  <2>1. \A q \in Old : late'[q].runs = late[q].runs
    BY <1>62 DEF LateStartsOta, LateReader
  <2>2. UNCHANGED Straggler
    BY <2>1 DEF Straggler, Outlives
  <2> QED
    BY <1>62, <2>2 DEF LateStartsOta
<1>63. ASSUME NEW o \in Old, LatePeerGone(o) PROVE Simulated
  <2>1. Straggler = TRUE /\ UNCHANGED OldLink
    BY <1>63 DEF LatePeerGone, LateFrame, Straggler
  <2>2. UNCHANGED Straggler \/ Straggler' = FALSE
    BY <2>1
  <2> QED
    BY <1>63, <2>1, <2>2 DEF LatePeerGone, LateFrame, L!StragglerEnds
<1>64. ASSUME NEW o \in Old, LateEnds(o) PROVE Simulated
  <2>1. Straggler = TRUE /\ UNCHANGED OldLink
    BY <1>64 DEF LateEnds, LateFrame, Straggler
  <2>2. UNCHANGED Straggler \/ Straggler' = FALSE
    BY <2>1
  <2> QED
    BY <1>64, <2>1, <2>2 DEF LateEnds, LateFrame, L!StragglerEnds
<1>65. CASE LeftCloses
  <2>1. OldLink = TRUE /\ UNCHANGED Straggler
    BY <1>65 DEF LeftCloses, OldLink
  <2>2. UNCHANGED OldLink \/ OldLink' = FALSE
    BY <2>1
  <2> QED
    BY <1>65, <2>1, <2>2 DEF LeftCloses, L!OldCloses
<1> QED
  BY <1>1, <1>2, <1>3, <1>4, <1>5, <1>6, <1>7, <1>8, <1>9, <1>10, <1>11, <1>12,
         <1>13, <1>14, <1>15, <1>16, <1>17, <1>18, <1>19, <1>20, <1>21, <1>22,
         <1>23, <1>24, <1>25, <1>26, <1>27, <1>28, <1>29, <1>30, <1>31, <1>32,
         <1>33, <1>34, <1>35, <1>36, <1>37, <1>38, <1>39, <1>40, <1>41, <1>42,
         <1>43, <1>44, <1>45, <1>46, <1>47, <1>48, <1>49, <1>50, <1>51, <1>52,
         <1>53, <1>54, <1>55, <1>56, <1>57, <1>58, <1>59, <1>60, <1>61, <1>62, <1>63,
         <1>64, <1>65
     DEF Next, UiClick, UiRun, Worker, WorkerReceive, WorkerConnecting, Notify,
         LateStep, JobStep

\* The radio and the link held are used in turn: no dialing on top of a session
\* or of a scan, no scan beside the link held, one reader to it, told to end
\* before the link is, and no session with the keys of another.  A link that
\* does not close and a reader that does not end in time may be there beside.
THEOREM UsesLinkInTurnCorrect == Spec => UsesLinkInTurn
  <1>1. Init => L!Init
    <2> SUFFICES ASSUME Init PROVE L!Init
      OBVIOUS
    <2>1. /\ scan = "None" /\ wpc = "Open" /\ gatt = "Closed" /\ notify = "None"
          /\ kex = FALSE /\ left = 0
      BY Zenon DEF Init
    <2>2. \A o \in Old : late[o].runs = FALSE
      BY DEF Init, NoReader
    <2>3. OldLink = FALSE /\ Straggler = FALSE
      BY <2>1, <2>2 DEF OldLink, Straggler, Outlives
    <2> QED
      BY <2>1, <2>3 DEF L!Init, Reader
  <1>2. TypeInv /\ Ownership /\ [Next]_vars => [L!Next]_(L!vars)
    BY StepSimulates DEF Simulated
  <1> QED
    BY <1>1, <1>2, OwnershipCorrect, PTL DEF Spec, UsesLinkInTurn, L!Spec
=============================================================================
