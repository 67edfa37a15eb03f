----------------------------- MODULE BleWorker -----------------------------
(***************************************************************************)
(* The Bluetooth side of the program: the UI thread that queues commands   *)
(* (services/ble/mod.rs, pages/), the one worker task that serves them     *)
(* (services/ble/worker/), the tasks of the session it owns, and the state *)
(* they share.  Three threads of control interleave here:                  *)
(*                                                                         *)
(*   - the UI thread: button handlers and the 50 ms timer.  A handler runs *)
(*     to its end before the next one, but the worker and the session run  *)
(*     between its lock acquisitions (uiPc);                               *)
(*   - the worker: wpc is the await at which it stands;                    *)
(*   - the session's tasks: notify_task, which also starts the firmware    *)
(*     upgrades, and one task per upgrade (jobs); the scan task.           *)
(*                                                                         *)
(* One step is the code between two awaits (or two lock acquisitions where *)
(* another thread can see the difference).  Modbus polling and register    *)
(* writes are not in this module: they keep no link or upgrade state.      *)
(***************************************************************************)
EXTENDS Naturals, Sequences

CONSTANTS
    UiOps,            \* the user's operations this instance has
    Slot,             \* identities for firmware upgrade tasks in flight
    Old,              \* bound of the model: readers that outlive their session at once
    MaxLeft,          \* bound of the model: links told to close that have not, at once
    MaxQueue,         \* bound of the model: commands waiting in a channel
    ConnectAttempts   \* CONNECT_RETRY_ATTEMPTS

ASSUME BleWorkerAssumption ==
    /\ MaxLeft \in Nat
    /\ MaxQueue \in Nat \ {0}
    /\ ConnectAttempts \in Nat \ {0}

VARIABLES
    uiPc,      \* where the UI thread is in a "start upgrade" handler
    uiJob,     \* the upgrade it is starting
    uiConn,    \* FirmwareService.ble_connected, what the last refresh saw
    cmds,      \* the BleCommand channel
    cancel,    \* the cancel_connect flag
    phase,     \* BleInner.phase
    encReady,  \* BleInner.encryption_ready
    busy,      \* PollPolicy.ota_busy
    otaLive,   \* OtaLive, the part that is not text or percentages
    wpc,       \* the await at which the worker stands
    after,     \* why the worker is tearing a session down
    tries,     \* attempts of connect_gatt_with_retry
    session,   \* worker_main's `session` is Some
    scan,      \* scan_task: none, or the state of the task it names
    notify,    \* notify_task
    sessq,     \* the SessionCommand channel
    proto,     \* ProtocolSession.phase, with what auth_started adds to it
    kex,       \* ProtocolSession.encryption_ready
    jobs,      \* the upgrade tasks in flight
    gatt,      \* the GATT link this program has opened and not told to close
    left,      \* how many links were told to close and have not
    late,      \* the readers that end_session did not wait for
    amiss      \* history: such a reader was the last to write `phase`

uiVars   == <<uiPc, uiJob, uiConn>>
chanVars == <<cmds, cancel>>
shown    == <<phase, amiss>>
linkVars == <<phase, encReady, amiss>>
otaVars  == <<busy, otaLive>>
workVars == <<wpc, after, tries, session>>
sessVars == <<notify, sessq, proto, kex, jobs>>
airVars  == <<gatt, left, late>>
vars == <<uiVars, chanVars, linkVars, otaVars, workVars, scan, sessVars, airVars>>

-----------------------------------------------------------------------------
(* Data.                                                                   *)

Connected == {"GattReady", "Handshake", "Encrypted"}
LinkPhase == {"Idle", "Scanning", "Connecting"} \cup Connected

BleJobs  == {"BleIot", "BlePart"}
HttpJobs == {"HttpIot", "HttpPart"}
IotJobs  == {"BleIot", "HttpIot"}
OtaJob   == BleJobs \cup HttpJobs

\* StartOta and StartHttpOta are represented by the job they carry.
BleCommand == {"StartScan", "StopScan", "Connect", "Disconnect"} \cup OtaJob

OtaLive == [running : BOOLEAN, cancel : BOOLEAN,
            phase : {"Idle", "Running", "Success", "Failed"},
            ble_only : BOOLEAN, request_disconnect : BOOLEAN,
            rescan_after_disconnect : BOOLEAN]

DefaultOtaLive ==
    [running |-> FALSE, cancel |-> FALSE, phase |-> "Idle", ble_only |-> FALSE,
     request_disconnect |-> FALSE, rescan_after_disconnect |-> FALSE]

\* The upgrade has failed: fail_precheck, fail and their likes.
OtaFail(live) == [live EXCEPT !.running = FALSE, !.phase = "Failed"]

\* Start: spawned, not yet past the encryption check.  Gate: waits for the
\* Modbus gate, with no eye for the cancel flag.
\* Ready, Xmodem, Dist: the three parts of run_ble_ota.  Http: run_http_ota.
\* Finish: the result is published, finish_ota_session is still to run.
\* Orphan: end_session has missed the task; nothing it writes is sent any more.
LiveStage == {"Start", "Gate", "Ready", "Xmodem", "Dist", "Http"}
Stage == LiveStage \cup {"Finish", "Orphan"}
GateStage == {"Ready", "Xmodem", "Http"}     \* these hold the Modbus gate
NoJob == [job |-> "None", stage |-> "None"]
JobState == [job : OtaJob, stage : Stage] \cup {NoJob}

WorkerPc ==
    {"Open", "NoAdapter", "Top", "Wait", "Stop", "Abort", "Join", "Close",
     "Settle", "Find", "Rediscover", "PreDial", "Dial", "Gatt", "Backoff",
     "Discover", "Subscribe", "ConnFail", "Throughput"}

\* A reader that outlives its session, with the rest of its channel.
NoReader == [runs |-> FALSE, sessq |-> <<>>]
LateReader == [runs : BOOLEAN, sessq : Seq(OtaJob)]

Outlives(o) == late[o].runs

Live(s)   == jobs[s].stage \in LiveStage
Active(s) == jobs[s].stage \in LiveStage \cup {"Orphan"}

\* The program scans at startup: the first command is already queued.
Init ==
    /\ uiPc = "Idle" /\ uiJob = "None" /\ uiConn = FALSE
    /\ cmds = <<"StartScan">> /\ cancel = FALSE
    /\ phase = "Idle" /\ encReady = FALSE
    /\ busy = FALSE /\ otaLive = DefaultOtaLive
    /\ wpc = "Open" /\ after = "None" /\ tries = 0
    /\ session = FALSE /\ scan = "None"
    /\ notify = "None" /\ sessq = <<>> /\ proto = "WaitingAuth" /\ kex = FALSE
    /\ jobs = [s \in Slot |-> NoJob]
    /\ gatt = "Closed" /\ left = 0
    /\ late = [o \in Old |-> NoReader] /\ amiss = FALSE

-----------------------------------------------------------------------------
(* The UI thread.                                                          *)

\* Everybody but a reader that should be gone.
Show(p) == phase' = p /\ amiss' = FALSE

Send(c) == Len(cmds) < MaxQueue /\ cmds' = Append(cmds, c)

Clicks(op) == op \in UiOps /\ uiPc = "Idle"

\* The action button: what it does depends on the phase shown.
UiStartScan ==
    /\ Clicks("scan")
    /\ phase = "Idle"
    /\ Send("StartScan")
    /\ UNCHANGED <<uiVars, cancel, linkVars, otaVars, workVars, scan, sessVars, airVars>>

UiStopScan ==
    /\ Clicks("stop")
    /\ phase = "Scanning"
    /\ Send("StopScan")
    /\ UNCHANGED <<uiVars, cancel, linkVars, otaVars, workVars, scan, sessVars, airVars>>

UiDisconnect ==
    /\ Clicks("disconnect")
    /\ phase \in Connected
    /\ Send("Disconnect")
    /\ UNCHANGED <<uiVars, cancel, linkVars, otaVars, workVars, scan, sessVars, airVars>>

\* Does not go through the queue.
UiCancelConnect ==
    /\ Clicks("cancel")
    /\ phase = "Connecting"
    /\ cancel' = TRUE
    /\ Show("Idle")
    /\ UNCHANGED <<uiVars, cmds, encReady, otaVars, workVars, scan, sessVars, airVars>>

\* While connected this is a click on another device.
UiConnect ==
    /\ Clicks("connect")
    /\ phase # "Connecting"
    /\ cancel' = FALSE
    /\ Send("Connect")
    /\ UNCHANGED <<uiVars, linkVars, otaVars, workVars, scan, sessVars, airVars>>

\* A "start upgrade" handler: the link snapshot and the checks on it (the
\* button is enabled by the last refresh) ...
UiOtaCheck(j) ==
    /\ Clicks(j) /\ uiConn
    /\ phase \in Connected /\ encReady
    /\ ~otaLive.running
    /\ uiPc' = "Checked" /\ uiJob' = j
    /\ UNCHANGED <<uiConn, chanVars, linkVars, otaVars, workVars, scan, sessVars, airVars>>

\* ... then OtaLive is replaced ...
UiOtaBegin ==
    /\ uiPc = "Checked"
    /\ otaLive' = [DefaultOtaLive EXCEPT !.running = TRUE, !.phase = "Running",
                                         !.ble_only = uiJob \in IotJobs]
    /\ uiPc' = "Begun"
    /\ UNCHANGED <<uiJob, uiConn, chanVars, linkVars, busy, workVars, scan, sessVars, airVars>>

\* ... fail_precheck refuses a version the device turns out to have, and, with
\* OtaLive begun, an HTTP upgrade with no model or no LAN address ...
UiPrecheckFails ==
    /\ uiPc = "Checked" \/ (uiPc = "Begun" /\ uiJob \in HttpJobs)
    /\ otaLive' = OtaFail(otaLive)
    /\ uiPc' = "Idle" /\ uiJob' = "None"
    /\ UNCHANGED <<uiConn, chanVars, linkVars, busy, workVars, scan, sessVars, airVars>>

\* ... then the poll policy is marked busy ...
UiOtaBusy ==
    /\ uiPc = "Begun"
    /\ busy' = TRUE
    /\ uiPc' = "Busy"
    /\ UNCHANGED <<uiJob, uiConn, chanVars, linkVars, otaLive, workVars, scan, sessVars, airVars>>

\* ... and the command is queued.
UiOtaSend ==
    /\ uiPc = "Busy"
    /\ Send(uiJob)
    /\ uiPc' = "Idle" /\ uiJob' = "None"
    /\ UNCHANGED <<uiConn, cancel, linkVars, otaVars, workVars, scan, sessVars, airVars>>

UiStopOta ==
    /\ Clicks("stopOta")
    /\ otaLive.running /\ ~otaLive.cancel
    /\ otaLive' = [otaLive EXCEPT !.cancel = TRUE]
    /\ UNCHANGED <<uiVars, chanVars, linkVars, busy, workVars, scan, sessVars, airVars>>

\* Clearing the chosen file, or choosing another one.
UiClearFile ==
    /\ Clicks("clearFile")
    /\ ~otaLive.running
    /\ otaLive' = DefaultOtaLive
    /\ UNCHANGED <<uiVars, chanVars, linkVars, busy, workVars, scan, sessVars, airVars>>

\* The refresh timer notices an edge of "connected".
UiSyncConnection ==
    /\ uiPc = "Idle"
    /\ uiConn # (phase \in Connected)
    /\ uiConn' = (phase \in Connected)
    /\ otaLive' = IF uiConn' /\ ~otaLive.running THEN DefaultOtaLive ELSE otaLive
    /\ UNCHANGED <<uiPc, uiJob, chanVars, linkVars, busy, workVars, scan, sessVars, airVars>>

UiClick ==
    \/ UiStartScan \/ UiStopScan \/ UiDisconnect \/ UiCancelConnect \/ UiConnect
    \/ \E j \in OtaJob : UiOtaCheck(j)
    \/ UiStopOta \/ UiClearFile

\* What the UI thread does without being asked: the rest of a handler.
UiRun ==
    \/ UiOtaBegin \/ UiPrecheckFails \/ UiOtaBusy \/ UiOtaSend
    \/ UiSyncConnection

-----------------------------------------------------------------------------
(* Helpers of the worker (support.rs, scan.rs).                            *)

EnterIdle ==
    /\ Show("Idle")
    /\ scan' = "None"
    /\ UNCHANGED encReady

RestartScan ==
    /\ Show("Scanning")
    /\ encReady' = FALSE
    /\ scan' = "Starting"

\* start_scan_after_ota found the rescan flag set: the radio may be off.
ScanAfterOta == RestartScan \/ EnterIdle

\* Mutant: the reaped session leaves the screen alone.
ReapedStillConnected == phase

\* A session found ended may have left "connected" on the screen.
ReapedPhase == IF phase \in Connected THEN "Idle" ELSE phase

TearDown(why) == wpc' = "Abort" /\ after' = why

Requested == otaLive.request_disconnect
TakeRequest(live) == [live EXCEPT !.request_disconnect = FALSE]
TakeRescan(live)  == [live EXCEPT !.rescan_after_disconnect = FALSE]

\* The head of BleCommand::Disconnect; `live` is OtaLive as it finds it.
BeginDisconnect(live) ==
    /\ otaLive' = IF live.running THEN [live EXCEPT !.cancel = TRUE] ELSE live
    /\ busy' = FALSE
    /\ after' = "Disconnect"
    /\ wpc' = IF session THEN "Abort" ELSE "Close"

-----------------------------------------------------------------------------
(* The worker: startup and the head of the loop.                           *)

WorkerOpenAdapter ==
    /\ wpc = "Open"
    /\ \/ wpc' = "Top" /\ UNCHANGED shown
       \/ wpc' = "NoAdapter" /\ Show("Idle")
    /\ UNCHANGED <<uiVars, chanVars, encReady, otaVars, after, tries, session,
                   scan, sessVars, airVars>>

\* Without an adapter only a new scan tries again; the rest is dropped.
WorkerNoAdapter ==
    /\ wpc = "NoAdapter" /\ cmds # <<>>
    /\ cmds' = Tail(cmds)
    /\ IF Head(cmds) = "StartScan"
         THEN wpc' = "Open" /\ UNCHANGED shown
         ELSE wpc' = wpc /\ Show("Idle")
    /\ UNCHANGED <<uiVars, cancel, encReady, otaVars, after, tries, session,
                   scan, sessVars, airVars>>

WorkerReap ==
    /\ wpc = "Top"
    /\ session /\ notify = "Done"
    /\ TearDown("Reap")
    /\ UNCHANGED <<uiVars, chanVars, linkVars, otaVars, tries, session, scan,
                   sessVars, airVars>>

\* A request to disconnect is taken whether or not there is a session.
WorkerTop ==
    /\ wpc = "Top"
    /\ ~(session /\ notify = "Done")
    /\ IF Requested /\ session
         THEN BeginDisconnect(TakeRequest(otaLive))
         ELSE /\ otaLive' = TakeRequest(otaLive)
              /\ wpc' = "Wait"
              /\ UNCHANGED <<busy, after>>
    /\ UNCHANGED <<uiVars, chanVars, linkVars, tries, session, scan, sessVars, airVars>>

\* The select! timed out; without a session the radio is looked at.
WorkerTick ==
    /\ wpc = "Wait"
    /\ wpc' = "Top"
    /\ \/ UNCHANGED <<linkVars, scan>>
       \/ ~session /\ phase \in {"Idle", "Scanning"} /\ EnterIdle
    /\ UNCHANGED <<uiVars, chanVars, otaVars, after, tries, session, sessVars, airVars>>

-----------------------------------------------------------------------------
(* The worker: commands.                                                   *)

Receive(c) ==
    /\ wpc = "Wait"
    /\ cmds # <<>> /\ Head(cmds) = c
    /\ cmds' = Tail(cmds)

RecvStartScan ==
    /\ Receive("StartScan")
    /\ \/ EnterIdle /\ wpc' = "Top" /\ UNCHANGED after        \* radio off
       \/ /\ phase = "Scanning" /\ scan # "None"
          /\ wpc' = "Top" /\ UNCHANGED <<linkVars, scan, after>>
       \/ /\ ~(phase = "Scanning" /\ scan # "None") /\ session
          /\ TearDown("Scan") /\ UNCHANGED <<linkVars, scan>>
       \/ /\ ~(phase = "Scanning" /\ scan # "None") /\ ~session
          /\ RestartScan /\ wpc' = "Top" /\ UNCHANGED after
    /\ UNCHANGED <<uiVars, cancel, otaVars, tries, session, sessVars, airVars>>

RecvStopScan ==
    /\ Receive("StopScan")
    /\ EnterIdle
    /\ wpc' = "Stop"
    /\ UNCHANGED <<uiVars, cancel, otaVars, after, tries, session, sessVars, airVars>>

\* The adapter has stopped and the list is synchronised.
WorkerScanStopped ==
    /\ wpc = "Stop"
    /\ Show("Idle")
    /\ wpc' = "Top"
    /\ UNCHANGED <<uiVars, chanVars, encReady, otaVars, after, tries, session,
                   scan, sessVars, airVars>>

RecvDisconnect ==
    /\ Receive("Disconnect")
    /\ BeginDisconnect(otaLive)
    /\ UNCHANGED <<uiVars, cancel, linkVars, tries, session, scan, sessVars, airVars>>

\* The result of the send is ignored: after the session's notify_task has
\* ended nobody will receive the job.
RecvStartOta(j) ==
    /\ Receive(j)
    /\ wpc' = "Top"
    /\ IF session
         THEN /\ UNCHANGED otaLive
              /\ \/ notify = "Done" /\ UNCHANGED sessq
                 \/ /\ notify # "Done" /\ Len(sessq) < MaxQueue
                    /\ sessq' = Append(sessq, j)
         ELSE /\ otaLive' = OtaFail(otaLive)
              /\ UNCHANGED sessq
    /\ UNCHANGED <<uiVars, cancel, linkVars, busy, after, tries, session, scan,
                   notify, proto, kex, jobs, airVars>>

RecvConnect ==
    /\ Receive("Connect")
    /\ cancel' = FALSE
    /\ Show("Connecting")
    /\ IF session
         THEN TearDown("Connect")
         ELSE wpc' = "Find" /\ after' = "None"
    /\ UNCHANGED <<uiVars, encReady, otaVars, tries, session, scan, sessVars, airVars>>

-----------------------------------------------------------------------------
(* The worker: end_session, and what follows it in each caller.            *)

\* The upgrade tasks this session has started are aborted first.  One past its
\* last await (Finish) runs to its end whatever happens to it.
WorkerAbortJobs ==
    /\ wpc = "Abort"
    /\ jobs' = [s \in Slot |-> IF Live(s) THEN NoJob ELSE jobs[s]]
    /\ wpc' = "Join"
    /\ UNCHANGED <<uiVars, chanVars, linkVars, otaVars, after, tries, session,
                   scan, notify, sessq, proto, kex, airVars>>

\* Mutant: notify_task is not aborted.
NotifyOutlives ==
    /\ wpc = "Join"
    /\ session' = FALSE
    /\ UNCHANGED <<notify, sessq>>
    /\ proto' = "WaitingAuth" /\ kex' = FALSE
    /\ jobs' = [s \in Slot |-> IF Live(s) THEN [jobs[s] EXCEPT !.stage = "Orphan"]
                                         ELSE jobs[s]]
    /\ wpc' = "Close"
    /\ UNCHANGED <<uiVars, chanVars, linkVars, otaVars, after, tries, scan, airVars>>

\* The session is nobody's any more; an upgrade it still runs is an orphan.
SessionEnds ==
    /\ session' = FALSE
    /\ notify' = "None" /\ sessq' = <<>>
    /\ proto' = "WaitingAuth" /\ kex' = FALSE
    /\ jobs' = [s \in Slot |-> IF Live(s) THEN [jobs[s] EXCEPT !.stage = "Orphan"]
                                         ELSE jobs[s]]
    /\ wpc' = "Close"
    /\ UNCHANGED <<uiVars, chanVars, linkVars, otaVars, after, tries, scan, gatt, left>>

\* Then notify_task, which may have started another one in between, and the
\* writer are aborted and joined ...
WorkerJoinTasks ==
    /\ wpc = "Join"
    /\ SessionEnds
    /\ UNCHANGED late

\* ... but not for longer than SESSION_TASK_JOIN_TIMEOUT.  An abort takes effect
\* at the task's next await: notify_task is still on its way there.
WorkerJoinTimesOut(o) ==
    /\ wpc = "Join"
    /\ notify \in {"Opening", "Run"} /\ ~Outlives(o)
    /\ SessionEnds
    /\ late' = [late EXCEPT ![o] = [runs |-> TRUE, sessq |-> sessq]]

\* disconnect_peripheral.  disconnect() may fail, or be given up after
\* GATT_DISCONNECT_TIMEOUT; either is logged and nobody calls it again.
Disconnect ==
    /\ gatt' = "Closed"
    /\ \/ UNCHANGED left
       \/ gatt = "Up" /\ left < MaxLeft /\ left' = left + 1
    /\ UNCHANGED late

\* Without a session (BeginDisconnect) there is nothing to close.
WorkerCloseGatt ==
    /\ wpc = "Close"
    /\ Disconnect
    /\ \/ /\ after = "Scan"
          /\ RestartScan /\ UNCHANGED otaLive
       \/ /\ after = "Connect"
          /\ UNCHANGED <<otaLive, linkVars, scan>>
       \/ /\ after = "Disconnect"
          /\ otaLive' = TakeRescan(otaLive)
          /\ IF otaLive.rescan_after_disconnect THEN ScanAfterOta ELSE EnterIdle
       \/ /\ after = "Reap"
          /\ otaLive' = TakeRescan(TakeRequest(otaLive))
          /\ IF otaLive.rescan_after_disconnect
               THEN ScanAfterOta
               ELSE Show(ReapedPhase) /\ UNCHANGED <<encReady, scan>>
    /\ IF after = "Connect"
         THEN wpc' = "Settle" /\ UNCHANGED after
         ELSE wpc' = "Top" /\ after' = "None"
    /\ UNCHANGED <<uiVars, chanVars, busy, tries, session, sessVars>>

-----------------------------------------------------------------------------
(* The worker: the rest of BleCommand::Connect.                            *)

\* Back to the loop with nothing connected.
GiveUp ==
    /\ EnterIdle
    /\ wpc' = "Top" /\ after' = "None" /\ tries' = 0
    /\ UNCHANGED <<uiVars, chanVars, otaVars, session, sessVars, airVars>>

\* One move of the connect path; most leave everything else alone.
Goto(pc) ==
    /\ wpc' = pc
    /\ UNCHANGED <<uiVars, chanVars, encReady, otaVars, after, session, sessVars>>

\* CONNECT_SETTLE_MS, cut short by a cancellation.
WorkerSettle ==
    /\ wpc = "Settle"
    /\ \/ cancel /\ GiveUp
       \/ ~cancel /\ Goto("Find") /\ UNCHANGED <<shown, tries, scan, airVars>>

\* A handle in the scan's cache is used only if no session was torn down.
WorkerFind ==
    /\ wpc = "Find"
    /\ \/ /\ after = "None" /\ scan # "None"
          /\ Goto("PreDial") /\ UNCHANGED <<shown, tries, scan, airVars>>
       \/ cancel /\ GiveUp
       \/ /\ ~cancel
          /\ Show("Connecting") /\ scan' = "None"
          /\ Goto("Rediscover") /\ UNCHANGED <<tries, airVars>>

\* The directed scan: found, or timed out, occupied or cancelled.
WorkerRediscover ==
    /\ wpc = "Rediscover"
    /\ \/ Goto("PreDial") /\ UNCHANGED <<shown, tries, scan, airVars>>
       \/ GiveUp

\* Mutant: the scan is left running.
DialWhileScanning ==
    /\ wpc = "PreDial"
    /\ \/ cancel /\ GiveUp
       \/ /\ ~cancel /\ UNCHANGED scan
          /\ Goto("Dial") /\ UNCHANGED <<shown, tries, airVars>>

WorkerStopScanToDial ==
    /\ wpc = "PreDial"
    /\ \/ cancel /\ GiveUp
       \/ /\ ~cancel /\ scan' = "None"
          /\ Goto("Dial") /\ UNCHANGED <<shown, tries, airVars>>

\* The advertisement says occupied, or connect_device starts.
WorkerDial ==
    /\ wpc = "Dial"
    /\ \/ GiveUp
       \/ /\ ~cancel
          /\ Show("Connecting") /\ tries' = 1
          /\ Goto("Gatt") /\ UNCHANGED <<scan, airVars>>

\* peripheral.connect() returns, or is not called: the device's old link is still
\* there.
WorkerGattConnected ==
    /\ wpc = "Gatt"
    /\ gatt' = "Up" /\ tries' = 0
    /\ UNCHANGED left \/ (left > 0 /\ left' = left - 1)
    /\ UNCHANGED late
    /\ IF cancel
         THEN Goto("ConnFail") /\ UNCHANGED shown
         ELSE Goto("Discover") /\ Show("Connecting")
    /\ UNCHANGED scan

\* Mutant: one attempt too many.
OneTryTooMany ==
    /\ wpc = "Gatt"
    /\ IF tries > ConnectAttempts
         THEN GiveUp
         ELSE /\ Show("Connecting")
              /\ Goto("Backoff") /\ UNCHANGED <<tries, scan, airVars>>

WorkerGattFailed ==
    /\ wpc = "Gatt"
    /\ IF tries >= ConnectAttempts
         THEN GiveUp
         ELSE /\ Show("Connecting")
              /\ Goto("Backoff") /\ UNCHANGED <<tries, scan, airVars>>

\* Mutant: the attempts are not counted.
BackoffForgetsTries ==
    /\ wpc = "Backoff"
    /\ \/ cancel /\ GiveUp
       \/ /\ ~cancel /\ UNCHANGED tries
          /\ Goto("Gatt") /\ UNCHANGED <<shown, scan, airVars>>

WorkerBackoff ==
    /\ wpc = "Backoff"
    /\ \/ cancel /\ GiveUp
       \/ /\ ~cancel /\ tries' = tries + 1
          /\ Goto("Gatt") /\ UNCHANGED <<shown, scan, airVars>>

\* discover_services_with_retry and the check after it.
WorkerDiscover ==
    /\ wpc = "Discover"
    /\ \/ ~cancel /\ Goto("Subscribe")
       \/ Goto("ConnFail")
    /\ UNCHANGED <<shown, tries, scan, airVars>>

WorkerSubscribeFails ==
    /\ wpc = "Subscribe"
    /\ Goto("ConnFail") /\ UNCHANGED <<shown, tries, scan, airVars>>

\* The subscriptions are made: the session's tasks start.
WorkerSpawnSession ==
    /\ wpc = "Subscribe"
    /\ Show("GattReady")
    /\ notify' = "Opening"
    /\ sessq' = <<>> /\ proto' = "WaitingAuth" /\ kex' = FALSE
    /\ wpc' = "Throughput"
    /\ UNCHANGED <<uiVars, chanVars, encReady, otaVars, after, tries, session,
                   scan, jobs, airVars>>

\* request_throughput returns and the session is the worker's.
WorkerSessionReady ==
    /\ wpc = "Throughput"
    /\ session' = TRUE
    /\ wpc' = "Top" /\ after' = "None"
    /\ UNCHANGED <<uiVars, chanVars, linkVars, otaVars, tries, scan, sessVars, airVars>>

\* Mutant: disconnect_peripheral is forgotten.
FailedStaysConnected ==
    /\ wpc = "ConnFail"
    /\ UNCHANGED airVars
    /\ EnterIdle
    /\ wpc' = "Top" /\ after' = "None"
    /\ UNCHANGED <<uiVars, chanVars, otaVars, tries, session, sessVars>>

\* connect_device after the link is up: disconnect, if it will, then report.
WorkerConnectFailed ==
    /\ wpc = "ConnFail"
    /\ Disconnect
    /\ EnterIdle
    /\ wpc' = "Top" /\ after' = "None"
    /\ UNCHANGED <<uiVars, chanVars, otaVars, tries, session, sessVars>>

WorkerReceive ==
    \/ RecvStartScan \/ RecvStopScan \/ RecvDisconnect \/ RecvConnect
    \/ \E j \in OtaJob : RecvStartOta(j)

WorkerConnecting ==
    \/ WorkerSettle \/ WorkerFind \/ WorkerRediscover \/ WorkerStopScanToDial
    \/ WorkerDial \/ WorkerGattConnected \/ WorkerGattFailed \/ WorkerBackoff
    \/ WorkerDiscover \/ WorkerSubscribeFails \/ WorkerSpawnSession
    \/ WorkerSessionReady \/ WorkerConnectFailed

Worker ==
    \/ WorkerOpenAdapter \/ WorkerNoAdapter
    \/ WorkerReap \/ WorkerTop \/ WorkerTick \/ WorkerReceive
    \/ WorkerScanStopped \/ WorkerAbortJobs
    \/ WorkerJoinTasks \/ (\E o \in Old : WorkerJoinTimesOut(o)) \/ WorkerCloseGatt
    \/ WorkerConnecting

-----------------------------------------------------------------------------
(* The scan task (run_scan_loop).                                          *)

ScanStarts ==
    /\ scan = "Starting"
    /\ \/ scan' = "Running" /\ UNCHANGED shown
       \/ scan' = "Ended" /\ Show("Idle")       \* whatever the phase was
    /\ UNCHANGED <<uiVars, chanVars, encReady, otaVars, workVars, sessVars, airVars>>

\* The phase has moved on, or the event stream ended.
ScanEnds ==
    /\ scan = "Running"
    /\ scan' = "Ended"
    /\ IF phase = "Scanning" THEN Show("Idle") ELSE UNCHANGED shown
    /\ UNCHANGED <<uiVars, chanVars, encReady, otaVars, workVars, sessVars, airVars>>

-----------------------------------------------------------------------------
(* notify_task.                                                            *)

\* When the stream cannot be opened the phase shown stays as it is.
NotifyOpens ==
    /\ notify = "Opening"
    /\ notify' \in {"Run", "Done"}
    /\ UNCHANGED <<uiVars, chanVars, linkVars, otaVars, workVars, scan, sessq,
                   proto, kex, jobs, airVars>>

NotifyStartsOta(s) ==
    /\ notify = "Run"
    /\ sessq # <<>> /\ jobs[s] = NoJob
    /\ busy' = TRUE
    /\ jobs' = [jobs EXCEPT ![s] = [job |-> Head(sessq), stage |-> "Start"]]
    /\ sessq' = Tail(sessq)
    /\ UNCHANGED <<uiVars, chanVars, linkVars, otaLive, workVars, scan, notify,
                   proto, kex, airVars>>

\* 2A2A01, at any time.
NotifyAuthRequest ==
    /\ notify = "Run"
    /\ proto' = "Authing"
    /\ UNCHANGED <<uiVars, chanVars, linkVars, otaVars, workVars, scan, notify,
                   sessq, kex, jobs, airVars>>

\* 2A2A03 with status 0, and any later notification before the keys are made.
\* Without a request before it there is nothing to make keys from (AuthEarly).
NotifyAuthDone ==
    /\ notify = "Run"
    /\ proto' = IF proto \in {"Authing", "AuthDone", "Encrypted"}
                  THEN "AuthDone" ELSE "AuthEarly"
    /\ Show("Handshake")
    /\ UNCHANGED <<uiVars, chanVars, encReady, otaVars, workVars, scan, notify,
                   sessq, kex, jobs, airVars>>

\* Mutant: the upgrade page is not told of the keys.
KeysWithoutFlag ==
    /\ notify = "Run"
    /\ proto \in {"Authing", "AuthDone"} /\ ~kex
    /\ proto' = "Encrypted" /\ kex' = TRUE
    /\ Show("Encrypted") /\ UNCHANGED encReady
    /\ UNCHANGED <<uiVars, chanVars, otaVars, workVars, scan, notify, sessq,
                   jobs, airVars>>

\* 0007: only the first key exchange of a session counts.
NotifyKeyExchanged ==
    /\ notify = "Run"
    /\ proto \in {"Authing", "AuthDone"} /\ ~kex
    /\ proto' = "Encrypted" /\ kex' = TRUE
    /\ Show("Encrypted") /\ encReady' = TRUE
    /\ UNCHANGED <<uiVars, chanVars, otaVars, workVars, scan, notify, sessq,
                   jobs, airVars>>

\* Six seconds without an authentication request.
NotifyPlaintext ==
    /\ notify = "Run"
    /\ proto = "WaitingAuth"
    /\ proto' = "Plaintext" /\ kex' = FALSE
    /\ Show("GattReady")
    /\ UNCHANGED <<uiVars, chanVars, encReady, otaVars, workVars, scan, notify,
                   sessq, jobs, airVars>>

\* Mutant: notify_task does not break out of its loop.
PeerGoneStays ==
    /\ notify = "Run"
    /\ busy' = FALSE
    /\ otaLive' = IF otaLive.running THEN OtaFail(otaLive) ELSE otaLive
    /\ Show("Idle") /\ encReady' = FALSE
    /\ UNCHANGED notify
    /\ sessq' = <<>>
    /\ UNCHANGED <<uiVars, chanVars, workVars, scan, proto, kex, jobs, airVars>>

\* on_peer_disconnect.  The upgrade tasks live on until end_session.
NotifyPeerGone ==
    /\ notify = "Run"
    /\ busy' = FALSE
    /\ otaLive' = IF otaLive.running THEN OtaFail(otaLive) ELSE otaLive
    /\ Show("Idle") /\ encReady' = FALSE
    /\ notify' = "Done"
    /\ sessq' = <<>>
    /\ UNCHANGED <<uiVars, chanVars, workVars, scan, proto, kex, jobs, airVars>>

-----------------------------------------------------------------------------
(* A notify_task that end_session has aborted and not waited for.  Until its *)
(* next await it goes on with its own session, of which nothing is kept here *)
(* but the channel: it writes the state all sessions share, and starts       *)
(* upgrades that have nobody to send for them.                               *)

LateFrame == UNCHANGED <<uiVars, chanVars, workVars, scan, sessVars, gatt, left>>

\* Authenticated, the keys made, or plaintext, as far as its session had come.
LateShows(o) ==
    /\ Outlives(o)
    /\ phase' \in Connected /\ amiss' = TRUE
    /\ encReady' = (phase' = "Encrypted" \/ encReady)
    /\ UNCHANGED <<otaVars, late>> /\ LateFrame

LateStartsOta(o, s) ==
    /\ Outlives(o) /\ late[o].sessq # <<>> /\ jobs[s] = NoJob
    /\ late' = [late EXCEPT ![o].sessq = Tail(@)]
    /\ jobs' = [jobs EXCEPT ![s] = [job |-> Head(late[o].sessq), stage |-> "Orphan"]]
    /\ busy' = TRUE
    /\ UNCHANGED <<uiVars, chanVars, linkVars, otaLive, workVars, scan, notify,
                   sessq, proto, kex, gatt, left>>

\* It may be a later session's upgrade that it reports as failed.
LatePeerGone(o) ==
    /\ Outlives(o)
    /\ late' = [late EXCEPT ![o] = NoReader]
    /\ busy' = FALSE
    /\ otaLive' = IF otaLive.running THEN OtaFail(otaLive) ELSE otaLive
    /\ phase' = "Idle" /\ encReady' = FALSE /\ amiss' = TRUE
    /\ LateFrame

\* The next await.
LateEnds(o) ==
    /\ Outlives(o)
    /\ late' = [late EXCEPT ![o] = NoReader]
    /\ UNCHANGED <<linkVars, otaVars>> /\ LateFrame

LateStep(o) ==
    \/ LateShows(o) \/ (\E s \in Slot : LateStartsOta(o, s))
    \/ LatePeerGone(o) \/ LateEnds(o)

-----------------------------------------------------------------------------
(* The upgrade tasks (ota.rs, http_ota.rs), as far as the link sees them.   *)

Moves(s, stage) == jobs' = [jobs EXCEPT ![s].stage = stage]

\* Everything of an upgrade task's step that is not otaLive or jobs.
JobFrame == UNCHANGED <<uiVars, chanVars, linkVars, busy, workVars, scan,
                        notify, sessq, proto, kex, airVars>>

GateFree == \A s \in Slot : jobs[s].stage \notin GateStage

\* Mutant: the encryption check is dropped.
UpgradeWithoutKeys(s) ==
    /\ jobs[s].stage = "Start"
    /\ otaLive' = [otaLive EXCEPT !.ble_only = jobs[s].job \in IotJobs]
    /\ Moves(s, "Gate")
    /\ JobFrame

JobStarts(s) ==
    /\ jobs[s].stage = "Start"
    /\ kex
    /\ otaLive' = [otaLive EXCEPT !.ble_only = jobs[s].job \in IotJobs]
    /\ Moves(s, "Gate")
    /\ JobFrame

\* gate.lock(): one upgrade of a session at a time.
JobEntersGate(s) ==
    /\ jobs[s].stage = "Gate"
    /\ GateFree
    /\ Moves(s, IF jobs[s].job \in BleJobs THEN "Ready" ELSE "Http")
    /\ UNCHANGED otaLive
    /\ JobFrame

\* Encryption missing; no answer, CAN, a missing ACK, a distribution error; the
\* write channel closed.
JobFails(s) ==
    /\ \/ jobs[s].stage = "Start" /\ ~kex
       \/ jobs[s].stage \in {"Ready", "Xmodem", "Dist", "Http", "Orphan"}
    /\ otaLive' = OtaFail(otaLive)
    /\ Moves(s, "Finish")
    /\ JobFrame

\* Mutant: the loop that awaits the distribution does not look at the cancel flag.
DistIgnoresStop(s) ==
    /\ jobs[s].stage \in {"Ready", "Xmodem", "Http", "Orphan"}
    /\ otaLive.cancel
    /\ \E drop \in CASE jobs[s].stage = "Ready"            -> {TRUE}
                     [] jobs[s].stage \in {"Dist", "Http"} -> {FALSE}
                     [] jobs[s].stage = "Orphan" -> {jobs[s].job \in BleJobs}
                     [] OTHER                              -> BOOLEAN :
         otaLive' = OtaFail([otaLive EXCEPT !.request_disconnect = @ \/ drop])
    /\ Moves(s, "Finish")
    /\ JobFrame

\* finish_user_stop: while waiting for C the link is given up; during XMODEM
\* only if the ETX was not acknowledged; afterwards it is kept.
JobStopped(s) ==
    /\ jobs[s].stage \in {"Ready", "Xmodem", "Dist", "Http", "Orphan"}
    /\ otaLive.cancel
    /\ \E drop \in CASE jobs[s].stage = "Ready"            -> {TRUE}
                     [] jobs[s].stage \in {"Dist", "Http"} -> {FALSE}
                     [] jobs[s].stage = "Orphan" -> {jobs[s].job \in BleJobs}
                     [] OTHER                              -> BOOLEAN :
         otaLive' = OtaFail([otaLive EXCEPT !.request_disconnect = @ \/ drop])
    /\ Moves(s, "Finish")
    /\ JobFrame

JobReady(s) ==
    /\ jobs[s].stage = "Ready"
    /\ Moves(s, "Xmodem")
    /\ UNCHANGED otaLive
    /\ JobFrame

\* The transfer is over; the IOT image needs no distribution.
JobTransferred(s) ==
    /\ jobs[s].stage = "Xmodem"
    /\ jobs[s].job \notin IotJobs
    /\ Moves(s, "Dist")
    /\ UNCHANGED otaLive
    /\ JobFrame

JobSucceeds(s) ==
    /\ \/ jobs[s].stage \in {"Dist", "Http"}
       \/ jobs[s].stage = "Xmodem" /\ jobs[s].job \in IotJobs
    /\ otaLive' = [otaLive EXCEPT !.running = FALSE, !.phase = "Success"]
    /\ Moves(s, "Finish")
    /\ JobFrame

\* finish_ota_session.
JobFinishes(s) ==
    /\ jobs[s].stage = "Finish"
    /\ busy' = FALSE
    /\ otaLive' = IF otaLive.phase = "Success" /\ otaLive.ble_only
                    THEN [otaLive EXCEPT !.request_disconnect = TRUE,
                                         !.rescan_after_disconnect = TRUE]
                    ELSE otaLive
    /\ jobs' = [jobs EXCEPT ![s] = NoJob]
    /\ UNCHANGED <<uiVars, chanVars, linkVars, workVars, scan, notify, sessq,
                   proto, kex, airVars>>

JobStep(s) ==
    \/ JobStarts(s) \/ JobEntersGate(s) \/ JobFails(s)
    \/ JobStopped(s) \/ JobReady(s) \/ JobTransferred(s) \/ JobSucceeds(s) \/ JobFinishes(s)

-----------------------------------------------------------------------------
(* The peer.                                                               *)

LinkLost ==
    /\ gatt = "Up"
    /\ gatt' = "Lost"
    /\ UNCHANGED <<left, late, uiVars, chanVars, linkVars, otaVars, workVars, scan, sessVars>>

\* A link that did not close does so after all, or the peer drops it.
LeftCloses ==
    /\ left > 0 /\ left' = left - 1
    /\ UNCHANGED <<uiVars, chanVars, linkVars, otaVars, workVars, scan, sessVars,
                   gatt, late>>

-----------------------------------------------------------------------------

Notify ==
    \/ NotifyOpens
    \/ \E s \in Slot : NotifyStartsOta(s)
    \/ NotifyAuthRequest \/ NotifyAuthDone \/ NotifyKeyExchanged
    \/ NotifyPlaintext \/ NotifyPeerGone

Next ==
    \/ UiClick \/ UiRun
    \/ Worker
    \/ ScanStarts \/ ScanEnds
    \/ Notify
    \/ \E o \in Old : LateStep(o)
    \/ \E s \in Slot : JobStep(s)
    \/ LinkLost \/ LeftCloses

Spec == Init /\ [][Next]_vars

(***************************************************************************)
(* Fairness.  The worker and the tasks run on a multi-threaded runtime.    *)
(* The joins, unsubscribe() and disconnect() have time limits.  connect(), *)
(* the discovery of services, subscribe() and notifications() have none in *)
(* the program: that they return or fail is assumed of the operating       *)
(* system.  A select! may take its timer branch although a command is      *)
(* waiting, but not for ever: it polls its branches in random order.       *)
(* link_tick looks at the link every 500 ms.  An upgrade task gets to its  *)
(* first await, and looks at the cancel flag in every loop it has.  The UI *)
(* thread ends its handlers.  Nothing is assumed of the user, of the peer, *)
(* of the progress an upgrade makes, or of a link told to close.           *)
(***************************************************************************)
Fairness ==
    /\ WF_vars(Worker)
    /\ SF_vars(WorkerReceive)
    /\ WF_vars(ScanStarts)
    /\ WF_vars(NotifyOpens)
    /\ WF_vars(gatt = "Lost" /\ NotifyPeerGone)
    /\ \A s \in Slot : /\ WF_vars(jobs[s].stage = "Start" /\ JobStep(s))
                       /\ WF_vars(JobEntersGate(s))
                       /\ WF_vars(JobStopped(s))
                       /\ WF_vars(JobFinishes(s))
    /\ \A s \in Slot : WF_vars(NotifyStartsOta(s))
    /\ WF_vars(UiRun)

FairSpec == Spec /\ Fairness

-----------------------------------------------------------------------------
(* Correctness.                                                            *)

UiTypes ==
    /\ uiPc \in {"Idle", "Checked", "Begun", "Busy"}
    /\ uiJob \in OtaJob \cup {"None"}
    /\ (uiPc = "Idle") <=> (uiJob = "None")
    /\ uiConn \in BOOLEAN
ChanTypes == cmds \in Seq(BleCommand) /\ cancel \in BOOLEAN
LinkTypes == phase \in LinkPhase /\ encReady \in BOOLEAN /\ amiss \in BOOLEAN
OtaTypes  == busy \in BOOLEAN /\ otaLive \in OtaLive
WorkTypes ==
    /\ wpc \in WorkerPc
    /\ after \in {"None", "Scan", "Connect", "Disconnect", "Reap"}
    /\ tries \in 0..ConnectAttempts
    /\ session \in BOOLEAN
ScanTypes == scan \in {"None", "Starting", "Running", "Ended"}
SessTypes ==
    /\ notify \in {"None", "Opening", "Run", "Done"}
    /\ sessq \in Seq(OtaJob)
    /\ proto \in {"WaitingAuth", "Authing", "AuthEarly", "AuthDone", "Encrypted",
                  "Plaintext"}
    /\ kex \in BOOLEAN
    /\ jobs \in [Slot -> JobState]
AirTypes ==
    /\ gatt \in {"Closed", "Up", "Lost"}
    /\ left \in 0..MaxLeft
    /\ late \in [Old -> LateReader]

\* Every variable has its type; in particular connect_gatt_with_retry never
\* makes more attempts than it is allowed, and a "start upgrade" handler has a
\* job exactly while it runs.
TypeOK ==
    /\ UiTypes /\ ChanTypes /\ LinkTypes /\ OtaTypes
    /\ WorkTypes /\ ScanTypes /\ SessTypes /\ AirTypes

\* The worker is at the head of its loop or in its select!.
AtLoop == wpc \in {"Top", "Wait", "Stop"}

\* Until disconnect() is called for it, a GATT link the program opened is in
\* somebody's hands: the session's, or the connect path's on its way to a session
\* or to disconnect_peripheral ("otherwise the link stays occupied", session.rs,
\* connect_device).  That disconnect() closes it is not the program's to promise.
NoGattLeak ==
    gatt # "Closed" =>
        \/ session
        \/ wpc \in {"Discover", "Subscribe", "ConnFail", "Throughput", "Close"}

\* Whenever the worker can take a command, a screen that shows "connected" is
\* backed by a session that the worker holds and can disconnect, unless it is a
\* reader end_session did not wait for that has written it.
ShownConnectedIsHeld == AtLoop /\ phase \in Connected /\ ~amiss => session

\* What a session runs is gone, or has nobody to send for it, when the worker has
\* let go of it: no notify_task is in place, no job waits in the channel of the
\* next session, and no upgrade task can still send anything, be it one started
\* behind the back of end_session or by a reader it did not wait for.  That such
\* a reader itself may still run (`late`) is what end_session accepts.
TasksHaveSession ==
    \/ session
    \/ wpc = "Throughput" /\ sessq = <<>> /\ \A s \in Slot : ~Live(s)
    \/ notify = "None" /\ sessq = <<>> /\ \A s \in Slot : ~Live(s)

\* "Encrypted" on the screen, with the session's reader alive, means that this
\* session (not one before it) has made its keys, and that the upgrade page's
\* own flag agrees.  A reader end_session did not wait for may write it too
\* (amiss), until this session or the worker writes the phase again.
EncryptedIsReal ==
    phase = "Encrypted" /\ ~amiss /\ notify = "Run" /\ wpc \notin {"Abort", "Join"}
        => kex /\ encReady

\* Firmware is sent only over a link whose keys are made, whichever session
\* the queued upgrade ends up in and whatever the peer restarts.
FirmwareOnlyEncrypted ==
    \A s \in Slot : jobs[s].stage \in LiveStage \ {"Start"} => kex

\* The reader of the session's notifications, as AbstractLink knows it.
Reader == CASE notify = "None" -> "None"
            [] notify = "Done" -> "Ended"
            [] OTHER           -> "Live"

\* ... and what was told to close, or to end, and has not.
OldLink   == left > 0
Straggler == \E o \in Old : Outlives(o)

\* The worker uses the radio and the link it holds as AbstractLink says, whatever
\* is queued, cancelled, retried, lost, or does not close or end in time:
\* connect() is never called on top of a session or of a scan, no scan starts
\* beside a session's link, that link has one reader at a time, which is told to
\* end before the link is, and no session inherits keys (dashboard.rs,
\* start_connect; worker/mod.rs, Connect; support.rs, end_session).
L == INSTANCE AbstractLink WITH
       scanning <- scan # "None", dialing <- wpc \in {"Dial", "Gatt", "Backoff"},
       link <- gatt, reader <- Reader, keys <- kex,
       old <- OldLink, straggler <- Straggler
UsesLinkInTurn == L!Spec

\* No handler holds the worker for ever, however the retries fall, and
\* "Connecting" is never the end: time and again the worker is ready for a
\* command with the attempt made, failed or cancelled.
WorkerReturns == []<>(wpc \in {"Wait", "NoAdapter"} /\ phase # "Connecting")

\* A link the peer has dropped is noticed and disconnect() is called for it, at
\* whatever point of connecting, of the session or of its end it was dropped.
LostLinkIsLetGo == (gatt = "Lost") ~> (gatt # "Lost")

\* "Stop" ends the upgrade, in whatever part of it the user pressed it, even
\* with the link lost or torn down meanwhile; only what resets the flag once the
\* upgrade is shown as over (another one begun, the file cleared, a new
\* connection) may keep an older task going.
StopIsHonoured ==
    (otaLive.cancel /\ \E s \in Slot : Active(s))
        ~> (~otaLive.cancel \/ \A s \in Slot : ~Active(s))
=============================================================================
