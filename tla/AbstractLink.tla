---------------------------- MODULE AbstractLink ----------------------------
(***************************************************************************)
(* What the worker promises of the one radio and the link it holds         *)
(* (services/ble/worker/mod.rs, session.rs, support.rs): scanning, dialing *)
(* and a link exclude each other; a link comes from dialing only, has one  *)
(* reader at a time, and is told to close only after its reader was told   *)
(* to end; keys belong to one reader's session.  It does not promise that  *)
(* what is told to end does so in time: an old link and old readers may be *)
(* there beside what follows.  Commands, retries, cancellations, limits    *)
(* and what the screen shows are BleWorker.                                *)
(***************************************************************************)

VARIABLES
    scanning,   \* a scan task is held
    dialing,    \* connect() is under way or being retried
    link,       \* the link held: "Closed", "Up", or "Lost": dropped by the peer
    reader,     \* of its notifications: "None", "Live", "Ended"
    keys,       \* the session has made its keys
    old,        \* a link was told to close and is open
    straggler   \* a reader was told to end and runs

past == <<old, straggler>>
vars == <<scanning, dialing, link, reader, keys, past>>

Init ==
    /\ scanning = FALSE /\ dialing = FALSE
    /\ link = "Closed" /\ reader = "None" /\ keys = FALSE
    /\ old = FALSE /\ straggler = FALSE

StartScan ==
    /\ ~scanning /\ ~dialing /\ link = "Closed"
    /\ scanning' = TRUE
    /\ UNCHANGED <<dialing, link, reader, keys, past>>

StopScan ==
    /\ scanning /\ scanning' = FALSE
    /\ UNCHANGED <<dialing, link, reader, keys, past>>

\* A scan is stopped before the device is dialed.
Dial ==
    /\ ~dialing /\ link = "Closed" /\ reader = "None"
    /\ dialing' = TRUE /\ scanning' = FALSE
    /\ UNCHANGED <<link, reader, keys, past>>

HangUp ==
    /\ dialing /\ dialing' = FALSE
    /\ UNCHANGED <<scanning, link, reader, keys, past>>

\* The device may be one whose old link is still there: then it is the new one.
Connect ==
    /\ dialing /\ ~scanning /\ link = "Closed" /\ reader = "None"
    /\ dialing' = FALSE /\ link' = "Up"
    /\ old' = old \/ old' = FALSE
    /\ UNCHANGED <<scanning, reader, keys, straggler>>

Lose ==
    /\ link = "Up" /\ link' = "Lost"
    /\ UNCHANGED <<scanning, dialing, reader, keys, past>>

Listen ==
    /\ link # "Closed" /\ reader = "None" /\ ~keys
    /\ reader' = "Live"
    /\ UNCHANGED <<scanning, dialing, link, keys, past>>

ReaderEnds ==
    /\ reader = "Live" /\ reader' = "Ended"
    /\ UNCHANGED <<scanning, dialing, link, keys, past>>

MakeKeys ==
    /\ link # "Closed" /\ reader = "Live" /\ ~keys
    /\ keys' = TRUE
    /\ UNCHANGED <<scanning, dialing, link, reader, past>>

\* The link is still open: the device is told last.
EndSession ==
    /\ link # "Closed" /\ reader # "None"
    /\ reader' = "None" /\ keys' = FALSE
    /\ straggler' \in {straggler, straggler \/ reader = "Live"}
    /\ UNCHANGED <<scanning, dialing, link, old>>

\* A new scan may follow at once.  Only a link that is up can stay so.
Close ==
    /\ link # "Closed" /\ reader = "None" /\ ~scanning
    /\ link' = "Closed" /\ scanning' \in BOOLEAN
    /\ old' \in {old, old \/ link = "Up"}
    /\ UNCHANGED <<dialing, reader, keys, straggler>>

OldCloses ==
    /\ old /\ old' = FALSE
    /\ UNCHANGED <<scanning, dialing, link, reader, keys, straggler>>

StragglerEnds ==
    /\ straggler /\ straggler' = FALSE
    /\ UNCHANGED <<scanning, dialing, link, reader, keys, old>>

Next ==
    \/ StartScan \/ StopScan \/ Dial \/ HangUp \/ Connect \/ Lose
    \/ Listen \/ ReaderEnds \/ MakeKeys \/ EndSession \/ Close
    \/ OldCloses \/ StragglerEnds

Spec == Init /\ [][Next]_vars
=============================================================================
