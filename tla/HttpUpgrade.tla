---------------------------- MODULE HttpUpgrade -----------------------------
(***************************************************************************)
(* One firmware upgrade over HTTP, from the moment its task holds the      *)
(* Modbus gate (services/ble/http_ota.rs), and the device that downloads   *)
(* the file (http_client.c).                                               *)
(*                                                                         *)
(* The client opens a server, sends its address over Bluetooth, and counts *)
(* what the server has handed out: that is how it knows of the download.   *)
(* Then register 720 is to tell what becomes of the image, unless it is    *)
(* the IOT's own, after which the device restarts.                         *)
(*                                                                         *)
(* A read of register 720 is one step here: what a late answer does to the *)
(* next request is ModbusLink's subject.  Its values before and after that *)
(* step differ all the same from what was sampled of the server before it. *)
(***************************************************************************)
EXTENDS Naturals

CONSTANTS
    Chunks,     \* chunks of the file (32 KB in the code)
    Peers       \* who may connect to the server: "Device", "Other"

ASSUME HttpAssumption ==
    Chunks \in Nat \ {0} /\ {"Device"} \subseteq Peers

VARIABLES
    iot,        \* the image is the IOT's own
    client,     \* the task run_http_ota
    cancel,     \* OtaLive.cancel: the user has pressed stop
    result,     \* OtaLive.phase once running is FALSE, "None" before
    linked,     \* there is a GATT link
    server,     \* HttpServeState and the accept loop
    conn,       \* handle_client: one connection for each peer
    fetch,      \* the device's HTTP client
    reg,        \* the group of register 720 that stands for this upgrade
    dist        \* what becomes of the image in the device

device == <<fetch, reg, dist>>
vars   == <<iot, client, cancel, result, linked, server, conn, device>>

\* A group of register 720: whether its file type is this upgrade's, where the
\* image is (3 server to IOT, 1 IOT to device), how much of it, an error code.
Group(mine, where, pct, err) ==
    [mine |-> mine, where |-> where, pct |-> pct, err |-> err]
Groups  == [mine : BOOLEAN, where : {0, 1, 3}, pct : {0, 50, 100}, err : BOOLEAN]
\* Cleared groups have type 0, which is the type of an IOT image.
Cleared == Group(iot, 0, 0, FALSE)

\* "Watch" and "Watched": before and after a read during the download; "Asked":
\* about to read, the server sampled; "After" and "Rested": the same for an IOT
\* image that has been downloaded; "Closing": the server is waited for.
Clients == [pc : {"Lan", "Watch", "Asked", "Watched", "After", "Rested", "Dist",
                  "Closing", "End", "Aborted"},
            seen : 0..Chunks, started : BOOLEAN,
            verdict : {"None", "Success", "Failed"}]
Over    == client.pc \in {"End", "Aborted"}

Stages == {"None", "Open", "Headers", "Body", "Done"}

TypeOK ==
    /\ iot \in BOOLEAN /\ client \in Clients
    /\ cancel \in BOOLEAN /\ result \in {"None", "Success", "Failed"}
    /\ linked \in BOOLEAN
    /\ server \in [open : BOOLEAN, stop : BOOLEAN, got : BOOLEAN,
                   completed : BOOLEAN, sent : 0..Chunks]
    /\ conn \in [Peers -> [at : Stages, sent : 0..Chunks]]
    /\ fetch \in [at : {"Idle", "Asked", "Reading", "Ended"}, got : 0..Chunks]
    /\ reg \in Groups
    /\ dist \in {"None", "Ready", "Running", "Done", "Failed"}

\* Register 720 may still show an earlier upgrade.
Init ==
    /\ iot \in BOOLEAN
    /\ client = [pc |-> "Lan", seen |-> 0, started |-> FALSE, verdict |-> "None"]
    /\ cancel = FALSE /\ result = "None" /\ linked = TRUE
    /\ server = [open |-> FALSE, stop |-> FALSE, got |-> FALSE,
                 completed |-> FALSE, sent |-> 0]
    /\ conn = [p \in Peers |-> [at |-> "None", sent |-> 0]]
    /\ fetch = [at |-> "Idle", got |-> 0]
    /\ reg \in {Cleared, Group(TRUE, 1, 100, FALSE), Group(TRUE, 1, 50, TRUE)}
    /\ dist = "None"

-----------------------------------------------------------------------------
(* run_http_ota.                                                           *)

\* fail or succeed, and finish_ota_session
Finish(verdict) ==
    client' = [client EXCEPT !.pc = "End"] /\ result' = verdict

\* request_stop, and the server is waited for before the result is shown.
Conclude(verdict) ==
    /\ client' = [client EXCEPT !.pc = "Closing", !.verdict = verdict]
    /\ server' = [server EXCEPT !.stop = TRUE]

Goto(pc) == client' = [client EXCEPT !.pc = pc] /\ UNCHANGED server

\* resolve_http_lan, or the listener, fails.
LanFails ==
    /\ client.pc = "Lan" /\ Finish("Failed")
    /\ UNCHANGED <<iot, cancel, linked, server, conn, device>>

Alone == UNCHANGED <<iot, cancel, result, linked, conn, device>>

\* The command 00 09 reaches a device that takes it, or has no effect: it is
\* lost, or the device is updating, or does not know it.
Serve ==
    /\ client.pc = "Lan"
    /\ client' = [client EXCEPT !.pc = "Watch"]
    /\ server' = [server EXCEPT !.open = TRUE]
    /\ UNCHANGED fetch \/ fetch' = [fetch EXCEPT !.at = "Asked"]
    /\ UNCHANGED <<iot, cancel, result, linked, conn, reg, dist>>

Stopped ==
    /\ client.pc \in {"Watch", "After", "Dist"} /\ cancel
    /\ Conclude("Failed") /\ Alone

\* What the server has handed out is looked at before register 720 is read.
WatchLooks ==
    /\ client.pc = "Watch" /\ ~cancel
    /\ client' = [client EXCEPT !.pc = "Asked", !.seen = server.sent,
                       !.started = @ \/ server.got \/ server.completed]
    /\ UNCHANGED server /\ Alone

\* dist_started
Started(g) == g.mine /\ (g.where = 3 \/ g.pct > 0 \/ g.err)

WatchReads ==
    /\ client.pc = "Asked" /\ linked
    /\ IF reg.mine /\ reg.err
       THEN Conclude("Failed")
       ELSE /\ client' = [client EXCEPT !.pc = "Watched",
                                        !.started = @ \/ Started(reg)]
            /\ UNCHANGED server
    /\ Alone

WatchMisses == client.pc = "Asked" /\ Goto("Watched") /\ Alone

Downloaded == client.started /\ (server.completed \/ client.seen = Chunks)

WatchEnds ==
    /\ client.pc = "Watched" /\ Downloaded
    /\ Goto(IF iot THEN "After" ELSE "Dist") /\ Alone

\* GET_WAIT is over, and the device is not known to have begun.
WatchGivesUp ==
    /\ client.pc = "Watched" /\ ~client.started
    /\ Conclude("Failed") /\ Alone

WatchAgain == client.pc = "Watched" /\ ~Downloaded /\ Goto("Watch") /\ Alone

\* finish_iot_after_download
AfterReads ==
    /\ client.pc = "After" /\ ~cancel /\ linked
    /\ IF reg.mine /\ (reg.err \/ reg.pct = 100)
       THEN Conclude(IF reg.err THEN "Failed" ELSE "Success")
       ELSE Goto("Rested")
    /\ Alone

\* A device that does not answer has restarted.
AfterMisses ==
    /\ client.pc = "After" /\ ~cancel /\ Conclude("Success") /\ Alone

\* IOT_AFTER_DL is over: it is taken for a success.
AfterEnds  == client.pc = "Rested" /\ Conclude("Success") /\ Alone
AfterAgain == client.pc = "Rested" /\ Goto("After") /\ Alone

\* wait_ota_distribution.  A read that fails is repeated: nothing changes.
DistReads ==
    /\ client.pc = "Dist" /\ ~cancel /\ linked
    /\ reg.mine /\ (reg.err \/ reg.pct = 100)
    /\ Conclude(IF reg.err THEN "Failed" ELSE "Success") /\ Alone

DistStalls ==
    /\ client.pc = "Dist" /\ ~cancel /\ Conclude("Failed") /\ Alone

Close ==
    /\ client.pc = "Closing" /\ ~server.open
    /\ Finish(client.verdict)
    /\ UNCHANGED <<iot, cancel, linked, server, conn, device>>

-----------------------------------------------------------------------------
(* The server: accept_loop and handle_client.                              *)

Serving      == UNCHANGED <<iot, client, cancel, result, linked, device>>
ConnAt(p, at) == conn' = [conn EXCEPT ![p].at = at]

Connect(p) ==
    /\ server.open /\ ~server.stop /\ conn[p].at = "None"
    /\ p = "Device" => fetch.at = "Reading"
    /\ ConnAt(p, "Open") /\ UNCHANGED server /\ Serving

\* The request has been read; the headers are sent.
Requested(p) ==
    /\ conn[p].at = "Open" /\ ConnAt(p, "Headers")
    /\ server' = [server EXCEPT !.got = TRUE] /\ Serving

Body(p) ==
    /\ conn[p].at = "Headers" /\ ConnAt(p, "Body")
    /\ server' = [server EXCEPT !.sent = 0] /\ Serving

\* Mutant: one chunk too many.
ChunkTooMany(p) ==
    /\ conn[p].at = "Body" /\ ~server.stop /\ conn[p].sent <= Chunks
    /\ conn' = [conn EXCEPT ![p].sent = @ + 1]
    /\ server' = [server EXCEPT !.sent = conn[p].sent + 1]
    /\ Serving

\* Mutant: bytes_sent counts what all connections have been sent.
ChunkAddsUp(p) ==
    /\ conn[p].at = "Body" /\ ~server.stop /\ conn[p].sent < Chunks
    /\ conn' = [conn EXCEPT ![p].sent = @ + 1]
    /\ server' = [server EXCEPT !.sent = IF @ = Chunks THEN @ ELSE @ + 1]
    /\ Serving

Chunk(p) ==
    /\ conn[p].at = "Body" /\ ~server.stop /\ conn[p].sent < Chunks
    /\ conn' = [conn EXCEPT ![p].sent = @ + 1]
    /\ server' = [server EXCEPT !.sent = conn[p].sent + 1]
    /\ Serving

Completed(p) ==
    /\ conn[p].at = "Body" /\ conn[p].sent = Chunks /\ ConnAt(p, "Done")
    /\ server' = [server EXCEPT !.completed = TRUE] /\ Serving

HandlerStops(p) ==
    /\ server.stop /\ ConnAt(p, "Done") /\ UNCHANGED server /\ Serving
    /\ conn[p].at = "Open" \/ (conn[p].at = "Body" /\ conn[p].sent < Chunks)

\* A HEAD request, another path or method, or a client that goes away.
OtherLeaves(p) ==
    /\ p = "Other" /\ conn[p].at \in {"Open", "Headers", "Body"}
    /\ ConnAt(p, "Done") /\ UNCHANGED server /\ Serving

\* Mutant: the server waits for its connections.
AcceptEndsLast ==
    /\ server.open /\ server.stop
    /\ \A p \in Peers : conn[p].at \in {"None", "Done"}
    /\ server' = [server EXCEPT !.open = FALSE]
    /\ UNCHANGED conn /\ Serving

AcceptEnds ==
    /\ server.open /\ server.stop
    /\ server' = [server EXCEPT !.open = FALSE]
    /\ UNCHANGED conn /\ Serving

-----------------------------------------------------------------------------
(* The device: https_ota_task and https_ota_handle_func.                   *)

Fetching == UNCHANGED <<iot, client, cancel, result, linked, server>>

\* https_ota_cmd_verify: the image may not be for this device.
FetchBegins ==
    /\ fetch.at = "Asked" /\ UNCHANGED conn /\ Fetching
    /\ \/ /\ fetch' = [fetch EXCEPT !.at = "Reading"]
          /\ reg' = Group(TRUE, 3, 0, FALSE) /\ UNCHANGED dist
       \/ /\ fetch' = [fetch EXCEPT !.at = "Ended"]
          /\ reg' = Group(TRUE, 3, 0, TRUE) /\ dist' = "Failed"

FetchReads ==
    /\ fetch.at = "Reading" /\ fetch.got < conn["Device"].sent
    /\ fetch' = [fetch EXCEPT !.got = @ + 1]
    /\ reg' = Group(TRUE, 3, IF fetch.got + 1 = Chunks THEN 100 ELSE 50, FALSE)
    /\ UNCHANGED <<dist, conn>> /\ Fetching

FetchEnds ==
    /\ fetch.at = "Reading" /\ fetch.got = Chunks
    /\ fetch' = [fetch EXCEPT !.at = "Ended"]
    /\ IF iot
       THEN dist' = "Done" /\ reg' = Group(TRUE, 1, 100, FALSE)
       ELSE dist' = "Ready" /\ UNCHANGED reg
    /\ UNCHANGED conn /\ Fetching

Hangs == conn' = [conn EXCEPT !["Device"].at = IF @ = "None" THEN @ ELSE "Done"]

\* https_ota_start fails: no connection, or no answer to the request.  That is
\* logged, and register 720 goes on showing a download that has begun.
FetchUnanswered ==
    /\ fetch.at = "Reading" /\ conn["Device"].at \in {"None", "Open"}
    /\ fetch' = [fetch EXCEPT !.at = "Ended"] /\ dist' = "Failed"
    /\ UNCHANGED reg /\ Hangs /\ Fetching

\* A connection that ends early, a file that is refused.
FetchFails ==
    /\ fetch.at = "Reading" /\ conn["Device"].at \in {"Body", "Done"}
    /\ fetch' = [fetch EXCEPT !.at = "Ended"] /\ dist' = "Failed"
    /\ reg' = [reg EXCEPT !.where = 3, !.err = TRUE]
    /\ Hangs /\ Fetching

\* The image has come: its check, then can_ota_begin, whose failure is logged.
PassOn ==
    /\ dist = "Ready" /\ UNCHANGED <<fetch, conn>> /\ Fetching
    /\ \/ dist' \in {"Running", "Failed"} /\ UNCHANGED reg
       \/ dist' = "Failed" /\ reg' = Group(TRUE, 1, 0, TRUE)

\* The other parts of the device take the image over CAN.
CanProgress ==
    /\ dist = "Running" /\ UNCHANGED <<fetch, conn>> /\ Fetching
    /\ \/ reg' = Group(TRUE, 1, 50, FALSE) /\ UNCHANGED dist
       \/ reg' = Group(TRUE, 1, 100, FALSE) /\ dist' = "Done"
       \/ reg' = Group(TRUE, 1, 50, TRUE) /\ dist' = "Failed"

-----------------------------------------------------------------------------

PressStop ==
    /\ ~Over /\ ~cancel /\ cancel' = TRUE
    /\ UNCHANGED <<iot, client, result, linked, server, conn, device>>

\* The link is lost, the device restarts, or the user disconnects: the task is
\* aborted where it stands.  Its JoinHandle is dropped, and the server runs on.
PeerLost ==
    /\ linked /\ linked' = FALSE
    /\ client' = IF Over THEN client ELSE [client EXCEPT !.pc = "Aborted"]
    /\ UNCHANGED <<iot, cancel, result, server, conn, device>>

ClientNext ==
    \/ LanFails \/ Serve \/ Stopped
    \/ WatchLooks \/ WatchReads \/ WatchMisses
    \/ WatchEnds \/ WatchGivesUp \/ WatchAgain
    \/ AfterReads \/ AfterMisses \/ AfterEnds \/ AfterAgain
    \/ DistReads \/ DistStalls \/ Close

Answer(p)     == Requested(p) \/ Body(p) \/ Chunk(p) \/ Completed(p)
                 \/ HandlerStops(p)
ServerNext(p) == Connect(p) \/ Answer(p) \/ OtherLeaves(p)

Next ==
    \/ ClientNext \/ (\E p \in Peers : ServerNext(p)) \/ AcceptEnds
    \/ FetchBegins \/ FetchReads \/ FetchEnds
    \/ FetchUnanswered \/ FetchFails \/ PassOn \/ CanProgress
    \/ PressStop \/ PeerLost

Spec == Init /\ [][Next]_vars

\* The task and the server go on.  A read of register 720 succeeds now and
\* then, and a deadline that is not put off passes.  Nothing is asked of the
\* device, nor of a connection: it need not take what it is sent.
Fairness == /\ WF_vars(ClientNext) /\ WF_vars(AcceptEnds)
            /\ SF_vars(WatchReads) /\ SF_vars(WatchGivesUp)
            /\ SF_vars(AfterEnds)  /\ WF_vars(DistStalls)
            /\ \A p \in Peers : WF_vars(Completed(p))

FairSpec == Spec /\ Fairness

-----------------------------------------------------------------------------
(* Properties.                                                             *)

\* An upgrade is shown as a success only after one connection has been handed
\* the whole file, however many there were and whatever register 720 has kept of
\* an earlier upgrade (http_ota.rs:255, 533).
SuccessWasServed ==
    result = "Success" => \E p \in Peers : conn[p].sent = Chunks

\* No deadline bounds a download that has begun, but once the device has the
\* whole file the upgrade ends; and the stop button ends it whatever it is
\* waiting for, connections whose peers take nothing included.
UpgradeEnds == cancel \/ (fetch.at = "Ended" /\ fetch.got = Chunks) ~> Over
=============================================================================
