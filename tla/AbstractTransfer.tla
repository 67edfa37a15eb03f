-------------------------- MODULE AbstractTransfer --------------------------
(***************************************************************************)
(* What an upgrade over Bluetooth promises (services/ble/ota.rs:1-7): the  *)
(* device's image grows packet by packet in the order of the file; it is   *)
(* accepted only when it is the whole file; and the user is told once how  *)
(* it ended, and of a success only if it was accepted.  How packets are    *)
(* sent, answered, repeated and lost is Upgrade.                           *)
(***************************************************************************)
EXTENDS Naturals, Sequences

CONSTANT Packets    \* number of packets of the file

VARIABLES
    stored,     \* the packets the device has stored, in order
    accepted,   \* the device has taken the image
    told        \* what the user was told: "None", "Success", "Failed"

vars == <<stored, accepted, told>>

Init == stored = <<>> /\ accepted = FALSE /\ told = "None"

\* Packets are numbered from 0, as the client's packet_index.
Store ==
    /\ ~accepted /\ Len(stored) < Packets
    /\ stored' = Append(stored, Len(stored))
    /\ UNCHANGED <<accepted, told>>

Accept ==
    /\ Len(stored) = Packets
    /\ accepted' = TRUE
    /\ UNCHANGED <<stored, told>>

Tell(verdict) ==
    /\ told = "None" /\ told' = verdict
    /\ verdict = "Success" => accepted
    /\ UNCHANGED <<stored, accepted>>

Next == Store \/ Accept \/ Tell("Success") \/ Tell("Failed")

Spec == Init /\ [][Next]_vars
=============================================================================
