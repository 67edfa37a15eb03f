------------------------------ MODULE Upgrade -------------------------------
(***************************************************************************)
(* One firmware upgrade over Bluetooth, from the moment its task holds the *)
(* Modbus gate (services/ble/ota.rs), and the device it upgrades           *)
(* (xmodem_client.c, app_ble.c).                                           *)
(*                                                                         *)
(* The client writes register 700, waits for "C", sends the packets one by *)
(* one, each until it is acknowledged, and an end mark.  An image for      *)
(* another part of the device is then passed on over CAN, and register 720 *)
(* shows how far that is.                                                  *)
(*                                                                         *)
(* The air is two FIFO channels on which MaxLost messages may be lost;     *)
(* deadlines may pass at any time, so every answer may be late.  A message *)
(* in "down" is in the queue of decoded replies or still on its way there: *)
(* who clears that queue drops a prefix.                                   *)
(***************************************************************************)
EXTENDS Naturals, Sequences

CONSTANTS
    Packets,        \* packets of the file
    SeqModulus,     \* sequence numbers wrap at this (256 in the code)
    StartAttempts, PacketAttempts,
    MaxLost,        \* bounds of the model: messages lost on the air,
    MaxSent,        \* sent and not yet taken by the device,
    MaxLate         \* on their way back while the client clears its replies

ASSUME UpgradeAssumption ==
    /\ Packets \in Nat \ {0} /\ SeqModulus \in Nat \ {0, 1}
    /\ StartAttempts \in Nat /\ PacketAttempts \in Nat
    /\ MaxLost \in Nat /\ MaxSent \in Nat /\ MaxLate \in Nat

VARIABLES
    iot,        \* the image is the IOT's own: no distribution, a restart
    client,     \* the task run_ble_ota
    cancel,     \* OtaLive.cancel: the user has pressed stop
    result,     \* OtaLive.phase once running is FALSE, "None" before
    reqDisc,    \* OtaLive.request_disconnect
    linked,     \* there is a GATT link
    up, down,   \* the air: to the device, to the client
    lost,       \* messages lost so far
    rx,         \* the device's XMODEM receiver
    reg,        \* the group of register 720 that stands for this upgrade
    dist        \* what becomes of the image in the device

live   == <<cancel, result, reqDisc>>
air    == <<up, down, lost>>
device == <<rx, reg, dist>>
vars   == <<iot, client, live, linked, air, device>>

-----------------------------------------------------------------------------
(* Messages and records.                                                   *)

Msg(kind)  == [kind |-> kind]
\* build_xmodem_1k_packet: packets count from 0, sequence numbers from 1
Packet(i)  == [kind |-> "Packet", seq |-> (i + 1) % SeqModulus, data |-> i]
Value(g)   == [kind |-> "Value", group |-> g]

\* A group of register 720: whether its file type is this upgrade's, how much
\* of the image has been passed on, and whether it carries an error code.
Group(mine, pct, err) == [mine |-> mine, pct |-> pct, err |-> err]
Groups  == [mine : BOOLEAN, pct : {0, 50, 100}, err : BOOLEAN]
\* Cleared groups have type 0, which is the type of an IOT image.
Cleared == Group(iot, 0, FALSE)

Index    == 0..(Packets - 1)
Requests == {Msg(k) : k \in {"Start", "Eot", "Etx", "Read"}}
            \cup {Packet(i) : i \in Index}
Replies  == {Msg(k) : k \in {"C", "ACK", "NAK", "CAN"}}
            \cup {Value(g) : g \in Groups}

\* Where the task is.  In the steps of Transfer and in "Dist" it is about to
\* send, or, if "waiting", waits for the answer.
Transfer == {"Start", "Packet", "Eot"}
Verdicts == {"None", "Success", "Failed"}
Clients  == [pc : Transfer \cup {"Dist", "Etx", "End", "Aborted"},
             waiting : BOOLEAN, tries : Nat, index : 0..Packets,
             abort : {"None", "AwaitingReady", "Xmodem", "AfterXmodem"}]
At(pc, waiting) == client.pc = pc /\ client.waiting = waiting
Over            == client.pc \in {"End", "Aborted"}

Receivers == [on : BOOLEAN, step : {0, 1}, image : Seq(Index),
              exit : {"No", "Plain", "Can", "Boot"}]
Accepted  == rx.exit \in {"Can", "Boot"}
\* iot_wifi_close at the start of a transfer, iot_wifi_open in
\* vXmodemClientExit: the device has no Wi-Fi while its receiver is on.
WifiOff == rx.on
Whole   == [i \in 1..Packets |-> i - 1]

TypeOK ==
    /\ iot \in BOOLEAN /\ client \in Clients
    /\ cancel \in BOOLEAN /\ result \in Verdicts /\ reqDisc \in BOOLEAN
    /\ linked \in BOOLEAN
    /\ up \in Seq(Requests) /\ down \in Seq(Replies) /\ lost \in 0..MaxLost
    /\ rx \in Receivers /\ reg \in Groups
    /\ dist \in {"None", "Running", "Done", "Failed"}

\* Register 720 may still show an earlier upgrade.
Init ==
    /\ iot \in BOOLEAN
    /\ client = [pc |-> "Start", waiting |-> FALSE, tries |-> 0, index |-> 0,
                 abort |-> "None"]
    /\ cancel = FALSE /\ result = "None" /\ reqDisc = FALSE /\ linked = TRUE
    /\ up = <<>> /\ down = <<>> /\ lost = 0
    /\ rx = [on |-> FALSE, step |-> 0, image |-> <<>>, exit |-> "No"]
    /\ reg \in {Cleared, Group(TRUE, 100, FALSE), Group(TRUE, 50, TRUE)}
    /\ dist = "None"

-----------------------------------------------------------------------------
(* The air.                                                                *)

Send(m) ==
    \/ Len(up) < MaxSent /\ up' = Append(up, m) /\ UNCHANGED lost
    \/ lost < MaxLost /\ lost' = lost + 1 /\ UNCHANGED up

\* clear_modbus_responses, then send_air
ClearAndSend(m) ==
    /\ \E n \in 0..Len(down) : /\ Len(down) - n <= MaxLate
                              /\ down' = SubSeq(down, n + 1, Len(down))
    /\ Send(m)

Hears(kind) == down # <<>> /\ Head(down).kind = kind
Take        == down' = Tail(down) /\ UNCHANGED <<up, lost>>

\* The device takes a message and answers it.
Answer(replies) ==
    /\ up' = Tail(up)
    /\ \/ down' = down \o replies /\ UNCHANGED lost
       \/ /\ replies # <<>> /\ lost < MaxLost
          /\ lost' = lost + 1 /\ UNCHANGED down

-----------------------------------------------------------------------------
(* How the task ends: fail or succeed, and finish_ota_session, which after  *)
(* an IOT image has the link dropped: the device restarts.                 *)

Finish(verdict) ==
    /\ client' = [client EXCEPT !.pc = "End", !.waiting = FALSE]
    /\ result' = verdict
    /\ reqDisc' = (reqDisc \/ (iot /\ verdict = "Success"))
    /\ UNCHANGED cancel

-----------------------------------------------------------------------------
(* run_ble_ota: the three loops of attempts.                               *)

Attempts == IF client.pc = "Start" THEN StartAttempts ELSE PacketAttempts
Expected == IF client.pc = "Start" THEN "C" ELSE "ACK"
Message  == IF client.pc = "Packet" THEN Packet(client.index)
            ELSE Msg(client.pc)

Sending == client.pc \in Transfer /\ ~client.waiting /\ ~cancel
Waiting == client.pc \in Transfer /\ client.waiting /\ ~cancel

Attempt ==
    /\ Sending /\ client.tries < Attempts
    /\ ClearAndSend(Message)
    /\ client' = [client EXCEPT !.waiting = TRUE, !.tries = @ + 1]
    /\ UNCHANGED <<iot, live, linked, device>>

GiveUp ==
    /\ Sending /\ client.tries = Attempts
    /\ Finish("Failed")
    /\ UNCHANGED <<iot, linked, air, device>>

\* The step after the one whose answer has come.
NextStep(pc, index) ==
    client' = [client EXCEPT !.pc = pc, !.index = index,
                             !.waiting = FALSE, !.tries = 0]

GotReady ==
    /\ Waiting /\ client.pc = "Start" /\ Hears("C") /\ Take
    /\ NextStep("Packet", 0)
    /\ UNCHANGED <<iot, live, linked, device>>

\* Mutant: one packet too many.
GotPacketAckRunsOn ==
    /\ Waiting /\ client.pc = "Packet" /\ Hears("ACK") /\ Take
    /\ NextStep(IF client.index = Packets THEN "Eot" ELSE "Packet",
                client.index + 1)
    /\ UNCHANGED <<iot, live, linked, device>>

GotPacketAck ==
    /\ Waiting /\ client.pc = "Packet" /\ Hears("ACK") /\ Take
    /\ NextStep(IF client.index + 1 = Packets THEN "Eot" ELSE "Packet",
                client.index + 1)
    /\ UNCHANGED <<iot, live, linked, device>>

GotEotAck ==
    /\ Waiting /\ client.pc = "Eot" /\ Hears("ACK") /\ Take
    /\ IF iot
       THEN Finish("Success")
       ELSE NextStep("Dist", client.index) /\ UNCHANGED live
    /\ UNCHANGED <<iot, linked, device>>

\* A refusal, or no answer in time: the attempt has failed.
AttemptFails ==
    /\ Waiting
    /\ (Hears("NAK") /\ Take) \/ UNCHANGED air
    /\ client' = [client EXCEPT !.waiting = FALSE]
    /\ UNCHANGED <<iot, live, linked, device>>

DeviceCancels ==
    /\ Waiting /\ Hears("CAN") /\ Take
    /\ Finish("Failed")
    /\ UNCHANGED <<iot, linked, device>>

\* match_ota_control passes over everything else.
Ignored ==
    /\ down # <<>> /\ Take
    /\ \/ Waiting /\ Head(down).kind \notin {Expected, "NAK", "CAN"}
       \/ client.pc = "Etx" /\ Head(down).kind \notin {"ACK", "NAK", "CAN"}
    /\ UNCHANGED <<iot, client, live, linked, device>>

-----------------------------------------------------------------------------
(* finish_user_stop, by the phase the transfer has reached.                *)

StopBeforeReady ==
    /\ cancel /\ client.pc = "Start"
    /\ client' = [client EXCEPT !.pc = "End", !.waiting = FALSE,
                                !.abort = "AwaitingReady"]
    /\ result' = "Failed" /\ reqDisc' = TRUE
    /\ UNCHANGED <<iot, cancel, linked, air, device>>

\* notify_device_xmodem_abort, up to its wait, which no cancel ends
StopTransfer ==
    /\ cancel /\ client.pc \in {"Packet", "Eot"}
    /\ ClearAndSend(Msg("Etx"))
    /\ client' = [client EXCEPT !.pc = "Etx", !.waiting = TRUE,
                                !.abort = "Xmodem"]
    /\ UNCHANGED <<iot, live, linked, device>>

\* Mutant: no answer will do.
StopAnsweredAnyhow ==
    /\ client.pc = "Etx"
    /\ \/ UNCHANGED down /\ UNCHANGED reqDisc
       \/ /\ \E k \in {"ACK", "NAK", "CAN"} :
                Hears(k) /\ reqDisc' = (reqDisc \/ k # "ACK")
          /\ down' = Tail(down)
    /\ Send(Msg("Etx"))
    /\ client' = [client EXCEPT !.pc = "End", !.waiting = FALSE]
    /\ result' = "Failed"
    /\ UNCHANGED <<iot, cancel, linked, device>>

\* One more byte, to make the device leave, whatever has been answered.
StopAnswered ==
    /\ client.pc = "Etx"
    /\ \/ UNCHANGED down /\ reqDisc' = TRUE
       \/ /\ \E k \in {"ACK", "NAK", "CAN"} :
                Hears(k) /\ reqDisc' = (reqDisc \/ k # "ACK")
          /\ down' = Tail(down)
    /\ Send(Msg("Etx"))
    /\ client' = [client EXCEPT !.pc = "End", !.waiting = FALSE]
    /\ result' = "Failed"
    /\ UNCHANGED <<iot, cancel, linked, device>>

-----------------------------------------------------------------------------
(* wait_ota_distribution: register 720 is read until the image has been    *)
(* passed on, has failed, or has not moved for DIST_STALL.                 *)

\* The receiver is believed to have left already, and nothing is sent.
DistStops ==
    /\ At("Dist", FALSE) /\ cancel
    /\ client' = [client EXCEPT !.pc = "End", !.abort = "AfterXmodem"]
    /\ result' = "Failed"
    /\ UNCHANGED <<iot, cancel, reqDisc, linked, air, device>>

DistStalls ==
    /\ At("Dist", FALSE) /\ ~cancel
    /\ Finish("Failed")
    /\ UNCHANGED <<iot, linked, air, device>>

DistAsks ==
    /\ At("Dist", FALSE) /\ ~cancel
    /\ ClearAndSend(Msg("Read"))
    /\ client' = [client EXCEPT !.waiting = TRUE]
    /\ UNCHANGED <<iot, live, linked, device>>

DistHears ==
    /\ At("Dist", TRUE) /\ Hears("Value") /\ Take
    /\ LET g == Head(down).group
       IN IF g.mine /\ (g.err \/ g.pct = 100)
          THEN Finish(IF g.err THEN "Failed" ELSE "Success")
          ELSE /\ client' = [client EXCEPT !.waiting = FALSE]
               /\ UNCHANGED live
    /\ UNCHANGED <<iot, linked, device>>

\* No answer in time, or something that is not the answer.
DistMisses ==
    /\ At("Dist", TRUE)
    /\ UNCHANGED air \/ (down # <<>> /\ ~Hears("Value") /\ Take)
    /\ client' = [client EXCEPT !.waiting = FALSE]
    /\ UNCHANGED <<iot, live, linked, device>>

-----------------------------------------------------------------------------
(* The device: ble_rx_process, vXmodemCmdCheck and Xmodem_Client_top.      *)
(* Modbus replies are sent before the receiver's.  resend_count is left    *)
(* out: with so few attempts it stays below 20.                            *)

Received(kind) == /\ linked /\ up # <<>> /\ Head(up).kind = kind
                  /\ UNCHANGED <<iot, client, live, linked>>

\* The register block 700 is written: register 720 is cleared, and unless the
\* image does not fit this device its receiver starts anew.
\* Mutant: register 720 keeps what the last upgrade left.
ReceiveStartKeepsReg ==
    /\ Received("Start")
    /\ rx' = [on |-> TRUE, step |-> 0, image |-> <<>>, exit |-> "No"]
    /\ Answer(<<Msg("C")>>) /\ UNCHANGED <<reg, dist>>

ReceiveStart ==
    /\ Received("Start")
    /\ reg' = Cleared
    /\ \/ /\ rx' = [on |-> TRUE, step |-> 0, image |-> <<>>, exit |-> "No"]
          /\ Answer(<<Msg("C")>>)
       \/ ~rx.on /\ Answer(<<>>) /\ UNCHANGED rx
    /\ UNCHANGED dist

\* The receiver is in use, and not about to leave.
InXmodem == rx.on /\ rx.exit = "No"

\* Mutant: the sequence number is not looked at.
ExpectsAny(p) == p.seq \in 0..SeqModulus

Expects(p) == p.seq = (Len(rx.image) + 1) % SeqModulus

\* xmodem_unpack.
\* Mutant: a packet that has been stored already is acknowledged again.
ReceivePacketReAck ==
    /\ Received("Packet") /\ InXmodem
    /\ LET p == Head(up)
       IN IF Expects(p)
          THEN /\ rx' = [rx EXCEPT !.step = 1, !.image = Append(@, p.data)]
               /\ Answer(<<Msg("ACK")>>)
          ELSE /\ rx' = [rx EXCEPT !.step = 1]
               /\ Answer(<<Msg("ACK")>>)
    /\ UNCHANGED <<reg, dist>>

ReceivePacket ==
    /\ Received("Packet") /\ InXmodem
    /\ LET p == Head(up)
       IN IF Expects(p)
          THEN /\ rx' = [rx EXCEPT !.step = 1, !.image = Append(@, p.data)]
               /\ Answer(<<Msg("ACK")>>)
          ELSE /\ rx' = [rx EXCEPT !.step = 1]
               /\ Answer(<<Msg("NAK")>>)
    /\ UNCHANGED <<reg, dist>>

\* Whether the image passes its check is left open: that it is whole when the
\* end mark comes must not depend on the check.
ReceiveEot ==
    /\ Received("Eot") /\ InXmodem
    /\ \/ /\ rx' = [rx EXCEPT !.step = 1,
                              !.exit = IF iot THEN "Boot" ELSE "Can"]
          /\ Answer(<<Msg("ACK")>>)
       \/ /\ rx' = [rx EXCEPT !.step = 1, !.exit = "Plain"]
          /\ Answer(<<Msg("CAN")>>)
    /\ UNCHANGED <<reg, dist>>

\* Before the first packet the receiver looks for a register address behind
\* the only byte of this message, and what it finds there is anybody's guess.
ReceiveEtx ==
    /\ Received("Etx") /\ InXmodem
    /\ \/ /\ rx' = [rx EXCEPT !.step = 1, !.exit = "Plain"]
          /\ \E k \in {"ACK", "CAN"} :
                (k = "CAN" => iot) /\ Answer(<<Msg(k)>>)
       \/ rx.step = 0 /\ Answer(<<>>) /\ UNCHANGED rx
    /\ UNCHANGED <<reg, dist>>

\* The first byte of a Modbus request is taken for SOH, and the length is wrong.
ReceiveRead ==
    /\ Received("Read")
    /\ InXmodem
    /\ rx' = [rx EXCEPT !.step = 1]
    /\ Answer(<<Value(reg), Msg("NAK")>>)
    /\ UNCHANGED <<reg, dist>>

\* What the receiver does not take part in: it is not in use.
ReceiveIdle ==
    /\ \E k \in {"Packet", "Eot", "Etx", "Read"} : Received(k)
    /\ ~rx.on
    /\ Answer(IF Head(up).kind = "Read" THEN <<Value(reg)>> ELSE <<>>)
    /\ UNCHANGED device

\* Any message makes a receiver that has done its work leave: only then is
\* Wi-Fi back, and only then can_ota_begin is called, which may fail.
Leave ==
    /\ \E k \in {"Packet", "Eot", "Etx", "Read"} : Received(k)
    /\ rx.on /\ rx.exit # "No"
    /\ rx' = [rx EXCEPT !.on = FALSE]
    /\ LET value == IF Head(up).kind = "Read" THEN <<Value(reg)>> ELSE <<>>
       IN \/ rx.exit # "Can" /\ Answer(value) /\ UNCHANGED <<reg, dist>>
          \/ /\ rx.exit = "Can" /\ dist' = "Running"
             /\ Answer(value) /\ UNCHANGED reg
          \/ /\ rx.exit = "Can" /\ dist' = "Failed"
             /\ Answer(value \o <<Msg("CAN")>>)
             /\ reg' = Group(TRUE, 0, TRUE)      \* ota_status_err_set

\* The other parts of the device take the image over CAN.
CanProgress ==
    /\ dist = "Running"
    /\ \/ reg' = Group(TRUE, 50, FALSE) /\ UNCHANGED dist
       \/ reg' = Group(TRUE, 100, FALSE) /\ dist' = "Done"
       \/ reg' = Group(TRUE, 50, TRUE) /\ dist' = "Failed"
    /\ UNCHANGED <<iot, client, live, linked, air, rx>>

-----------------------------------------------------------------------------
(* The user, the worker and the link.                                      *)

PressStop ==
    /\ ~Over /\ ~cancel /\ cancel' = TRUE
    /\ UNCHANGED <<iot, client, result, reqDisc, linked, air, device>>

\* vXmodemClientExit is called when the device's link is gone.
LinkEnds ==
    /\ linked /\ linked' = FALSE
    /\ up' = <<>> /\ down' = <<>> /\ UNCHANGED lost
    /\ rx' = [rx EXCEPT !.on = FALSE]
    /\ UNCHANGED <<iot, reg, dist>>

Disconnect ==
    /\ reqDisc /\ LinkEnds /\ reqDisc' = FALSE
    /\ UNCHANGED <<client, cancel, result>>

\* The peer is lost, restarts, or the user disconnects: the task is aborted
\* where it stands, and no more of it is run.
PeerLost ==
    /\ LinkEnds /\ UNCHANGED live
    /\ client' = IF Over THEN client
                 ELSE [client EXCEPT !.pc = "Aborted", !.waiting = FALSE]

\* Another page polls the device, once the upgrade is over.
Poll ==
    /\ Over /\ linked /\ up = <<>> /\ up' = <<Msg("Read")>> /\ down' = <<>>
    /\ UNCHANGED <<iot, client, live, linked, lost, device>>

-----------------------------------------------------------------------------

ClientNext ==
    \/ Attempt \/ GiveUp \/ GotReady \/ GotPacketAck \/ GotEotAck
    \/ AttemptFails \/ DeviceCancels \/ Ignored
    \/ StopBeforeReady \/ StopTransfer \/ StopAnswered
    \/ DistStops \/ DistStalls \/ DistAsks \/ DistHears \/ DistMisses

Receive == ReceiveStart \/ ReceivePacket \/ ReceiveEot \/ ReceiveEtx
           \/ ReceiveRead \/ ReceiveIdle \/ Leave

Next == ClientNext \/ Receive \/ CanProgress
        \/ PressStop \/ Disconnect \/ PeerLost \/ Poll

Spec == Init /\ [][Next]_vars

\* Deadlines pass, the device takes what it is sent, and the worker looks at
\* OtaLive every 100 ms.  A distribution that does not move is given up after
\* 90 s, however often register 720 has been read till then.
Fairness == /\ WF_vars(ClientNext) /\ SF_vars(DistStalls)
            /\ WF_vars(Receive) /\ WF_vars(Disconnect)

FairSpec == Spec /\ Fairness

-----------------------------------------------------------------------------
(* Properties.                                                             *)

\* The transfer promises what AbstractTransfer says: the device stores the
\* packets in the order of the file and each once, accepts only the whole file,
\* and success is shown only then.
T == INSTANCE AbstractTransfer WITH
        stored <- rx.image, accepted <- Accepted, told <- result
Delivers == T!Spec

\* An upgrade shown as a success has put the whole image into the device, and
\* the device has taken it: it restarts with it, or has passed it on.  Nothing
\* an earlier upgrade has left in register 720 can pass for this (ota.rs:487).
SuccessIsReal ==
    result = "Success" =>
        rx.image = Whole /\ (IF iot THEN rx.exit = "Boot" ELSE dist = "Done")

\* While packets are exchanged, those the client has counted are stored, and at
\* most one more: whatever is lost, late or repeated (ota.rs:825, with
\* xmodem_unpack, which acknowledges no packet it has stored already).
CountedIsStored ==
    client.pc \in {"Packet", "Eot"} /\ linked =>
        client.index <= Len(rx.image) /\ Len(rx.image) <= client.index + 1

\* The distribution is waited for, and a stop in it keeps the link and sends
\* nothing (ota.rs:56, "XMODEM is over"), only when the receiver has taken the
\* end mark and will leave at the next message: no acknowledgement of something
\* else has passed for the end mark's (ota.rs:947).
ReceiverIsDone ==
    linked /\ (client.pc = "Dist" \/ client.abort = "AfterXmodem") => ~InXmodem

\* What the client goes on with has been acknowledged: neither for a packet nor
\* for the end mark is the acknowledgement of something else taken.
AcksAreReal == CountedIsStored /\ ReceiverIsDone

\* No upgrade runs or waits for the device forever, and one that the stop button
\* ends in the middle of a transfer leaves the device with Wi-Fi: the abort has
\* reached it, or the link is dropped (ota.rs:239, abort_should_disconnect).  The
\* latter on an air that loses nothing; an abort that is lost while a late
\* acknowledgement passes for its own leaves the receiver on.
UpgradeEnds ==
    /\ <>Over
    /\ (client.pc = "End" /\ client.abort = "Xmodem" /\ lost = 0) ~> ~WifiOff
=============================================================================
