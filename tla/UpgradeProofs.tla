--------------------------- MODULE UpgradeProofs ---------------------------
(***************************************************************************)
(* Proofs about Upgrade, for a file of any length, any number of attempts, *)
(* any modulus of the sequence numbers that tells neighbours apart, and    *)
(* any number of messages lost or late: its types, that the device has     *)
(* stored what the client has counted, that it implements                  *)
(* AbstractTransfer, that a success shown is one, and that the distribution *)
(* begins with a receiver that has done its work.                          *)
(***************************************************************************)
EXTENDS Upgrade, SequenceTheorems, TLAPS

-----------------------------------------------------------------------------
(* Types.                                                                  *)

\* What can be said of a message by its kind.
LEMMA Requested ==
    /\ \A k \in {"Start", "Eot", "Etx", "Read"} :
         Msg(k) \in Requests /\ Msg(k).kind = k
    /\ \A i \in Index : /\ Packet(i) \in Requests /\ Packet(i).kind = "Packet"
                        /\ Packet(i).data = i /\ Packet(i).seq = (i + 1) % SeqModulus
    /\ \A m \in Requests :
         /\ m.kind \in {"Start", "Eot", "Etx", "Read", "Packet"}
         /\ m.kind = "Packet" => /\ m.data \in Index
                                 /\ m.seq = (m.data + 1) % SeqModulus
  <1>1. \A k \in {"Start", "Eot", "Etx", "Read"} :
          Msg(k) \in Requests /\ Msg(k).kind = k
    BY DEF Requests, Msg
  <1>2. \A i \in Index : /\ Packet(i) \in Requests /\ Packet(i).kind = "Packet"
                         /\ Packet(i).data = i /\ Packet(i).seq = (i + 1) % SeqModulus
    BY DEF Requests, Packet
  <1>3. ASSUME NEW m \in Requests
        PROVE  (\E k \in {"Start", "Eot", "Etx", "Read"} : m = Msg(k))
               \/ (\E i \in Index : m = Packet(i))
    BY DEF Requests
  <1> QED
    BY <1>1, <1>2, <1>3

LEMMA Replied ==
    /\ \A k \in {"C", "ACK", "NAK", "CAN"} : Msg(k) \in Replies /\ Msg(k).kind = k
    /\ \A g \in Groups : Value(g) \in Replies /\ Value(g).kind = "Value"
    /\ \A m \in Replies : m.kind = "Value" => m.group \in Groups
  <1>1. \A k \in {"C", "ACK", "NAK", "CAN"} : Msg(k) \in Replies /\ Msg(k).kind = k
    BY DEF Replies, Msg
  <1>2. \A g \in Groups : /\ Value(g) \in Replies /\ Value(g).kind = "Value"
                          /\ Value(g).group = g
    BY DEF Replies, Value
  <1>3. ASSUME NEW m \in Replies
        PROVE  (\E k \in {"C", "ACK", "NAK", "CAN"} : m = Msg(k))
               \/ (\E g \in Groups : m = Value(g))
    BY DEF Replies
  <1> QED
    BY <1>1, <1>2, <1>3

\* What the steps of the air do to it.
LEMMA Sends ==
    ASSUME TypeOK, NEW m \in Requests, Send(m)
    PROVE  /\ up' \in Seq(Requests) /\ lost' \in 0..MaxLost
           /\ up' = up \/ up' = Append(up, m)
  BY UpgradeAssumption DEF TypeOK, Send

LEMMA Clears ==
    ASSUME TypeOK, NEW m \in Requests, ClearAndSend(m)
    PROVE  /\ up' \in Seq(Requests) /\ lost' \in 0..MaxLost
           /\ up' = up \/ up' = Append(up, m)
           /\ down' \in Seq(Replies)
           /\ \E n \in 0..Len(down) :
                /\ Len(down') = Len(down) - n
                /\ \A j \in DOMAIN down' : j + n \in DOMAIN down /\ down'[j] = down[j + n]
  <1>1. Send(m)
    BY DEF ClearAndSend
  <1>2. PICK n \in 0..Len(down) : down' = SubSeq(down, n + 1, Len(down))
    BY DEF ClearAndSend
  <1>3. down \in Seq(Replies)
    BY DEF TypeOK
  <1>4. /\ down' \in Seq(Replies) /\ Len(down') = Len(down) - n
        /\ \A j \in 1..(Len(down) - n) : down'[j] = down[j + n]
    BY <1>2, <1>3
  <1> QED
    BY <1>1, <1>3, <1>4, Sends

LEMMA Takes ==
    ASSUME TypeOK, down # <<>>, Take
    PROVE  /\ up' = up /\ lost' = lost /\ down' \in Seq(Replies)
           /\ Head(down) \in Replies /\ Head(down) = down[1] /\ 1 \in DOMAIN down
           /\ Len(down') = Len(down) - 1
           /\ \A j \in DOMAIN down' : j + 1 \in DOMAIN down /\ down'[j] = down[j + 1]
  BY DEF TypeOK, Take

LEMMA Answers ==
    ASSUME TypeOK, up # <<>>, NEW replies \in Seq(Replies), Answer(replies)
    PROVE  /\ up' \in Seq(Requests) /\ lost' \in 0..MaxLost
           /\ Head(up) \in Requests /\ Head(up) = up[1] /\ 1 \in DOMAIN up
           /\ \A j \in DOMAIN up' : j + 1 \in DOMAIN up /\ up'[j] = up[j + 1]
           /\ down' \in Seq(Replies)
           /\ down' = down \/ down' = down \o replies
  <1>1. /\ up \in Seq(Requests) /\ up' = Tail(up) /\ down \in Seq(Replies)
        /\ lost \in 0..MaxLost /\ MaxLost \in Nat
    BY UpgradeAssumption DEF TypeOK, Answer
  <1>2. \/ down' = down \o replies /\ lost' = lost
        \/ down' = down /\ lost < MaxLost /\ lost' = lost + 1
    BY DEF Answer
  <1>3. lost' \in 0..MaxLost
    BY <1>1, <1>2
  <1>4. down' \in Seq(Replies) /\ (down' = down \/ down' = down \o replies)
    <2>1. down \o replies \in Seq(Replies)
      BY <1>1
    <2> QED
      BY <1>1, <1>2, <2>1
  <1>5. /\ up' \in Seq(Requests) /\ Head(up) \in Requests /\ Head(up) = up[1]
        /\ 1 \in DOMAIN up
        /\ \A j \in DOMAIN up' : j + 1 \in DOMAIN up /\ up'[j] = up[j + 1]
    BY <1>1
  <1> QED
    BY <1>3, <1>4, <1>5

\* A packet that is sent is one of the file.  Without it the types of the
\* messages are not inductive.
PacketInFile == client.pc = "Packet" => client.index \in Index
TypeInv == TypeOK /\ PacketInFile

LEMMA MessageType ==
    ASSUME TypeInv, client.pc \in Transfer
    PROVE  Message \in Requests
  BY Requested DEF TypeInv, PacketInFile, Message, Transfer

\* The steps of the client, in the order of Next; Finish and NextStep first.
LEMMA FinishType ==
    ASSUME TypeOK, NEW v \in Verdicts, Finish(v)
    PROVE  /\ client' \in Clients /\ result' \in Verdicts /\ reqDisc' \in BOOLEAN
           /\ cancel' \in BOOLEAN /\ client'.pc = "End"
  BY DEF TypeOK, Finish, Clients

LEMMA NextStepType ==
    ASSUME TypeOK, NEW pc \in Transfer \cup {"Dist"}, NEW i \in 0..Packets,
           NextStep(pc, i)
    PROVE  client' \in Clients /\ client'.pc = pc /\ client'.index = i
  BY DEF TypeOK, NextStep, Clients

LEMMA TypeClient ==
    ASSUME TypeInv, ClientNext
    PROVE  TypeInv'
<1> USE DEF TypeInv, PacketInFile
<1>a. TypeOK /\ client \in Clients /\ Packets \in Nat \ {0}
  BY UpgradeAssumption DEF TypeOK
<1>1. CASE Attempt
  <2>1. Message \in Requests
    BY <1>1, MessageType DEF Attempt, Sending
  <2>2. /\ client' \in Clients /\ client'.pc = client.pc
        /\ client'.index = client.index
    <3>1. client' = [client EXCEPT !.waiting = TRUE, !.tries = client.tries + 1]
      BY <1>1 DEF Attempt
    <3>2. client.tries + 1 \in Nat
      BY <1>a DEF Clients
    <3> QED
      BY <3>1, <3>2, <1>a DEF Clients
  <2>3. ClearAndSend(Message) /\ UNCHANGED <<iot, live, linked, device>>
    BY <1>1 DEF Attempt
  <2>4. up' \in Seq(Requests) /\ lost' \in 0..MaxLost /\ down' \in Seq(Replies)
    BY <2>1, <2>3, <1>a, Clears
  <2> QED
    BY <2>2, <2>3, <2>4 DEF TypeOK, live, device
<1>2. CASE GiveUp
  BY <1>2, FinishType DEF GiveUp, TypeOK, Verdicts, air, device
<1>3. CASE GotReady
  BY <1>3, <1>a, Takes, NextStepType
  DEF GotReady, Hears, Transfer, TypeOK, Index, live, device
<1>4. CASE GotPacketAck
  <2>1. client.index \in Index
    BY <1>4 DEF GotPacketAck
  <2> QED
    BY <1>4, <2>1, <1>a, Takes, NextStepType
    DEF GotPacketAck, Hears, Transfer, TypeOK, Index, live, device
<1>5. CASE GotEotAck
  <2>1. /\ client' \in Clients /\ result' \in Verdicts /\ reqDisc' \in BOOLEAN
        /\ cancel' \in BOOLEAN /\ client'.pc # "Packet"
    BY <1>5, <1>a, FinishType, NextStepType
    DEF GotEotAck, TypeOK, Clients, Verdicts, live
  <2> QED
    BY <1>5, <2>1, Takes DEF GotEotAck, Hears, TypeOK, device
<1>6. CASE AttemptFails
  <2>1. client' \in Clients /\ client'.pc = client.pc /\ client'.index = client.index
    BY <1>6, <1>a DEF AttemptFails, Clients
  <2> QED
    BY <1>6, <2>1, Takes DEF AttemptFails, Hears, TypeOK, air, live, device
<1>7. CASE DeviceCancels
  BY <1>7, FinishType, Takes DEF DeviceCancels, Hears, TypeOK, Verdicts, device
<1>8. CASE Ignored
  BY <1>8, Takes DEF Ignored, TypeOK, live, device
<1>9. CASE StopBeforeReady
  <2>1. client' \in Clients /\ client'.pc = "End"
    BY <1>9, <1>a DEF StopBeforeReady, Clients
  <2> QED
    BY <1>9, <2>1 DEF StopBeforeReady, TypeOK, Verdicts, air, device
<1>10. CASE StopTransfer
  <2>1. client' \in Clients /\ client'.pc = "Etx"
    BY <1>10, <1>a DEF StopTransfer, Clients
  <2> QED
    BY <1>10, <2>1, Clears, Requested DEF StopTransfer, TypeOK, live, device
<1>11. CASE StopAnswered
  <2>1. client' \in Clients /\ client'.pc = "End"
    BY <1>11, <1>a DEF StopAnswered, Clients
  <2>2. down' = down \/ (down # <<>> /\ down' = Tail(down))
    BY <1>11 DEF StopAnswered, Hears
  <2>3. reqDisc' \in BOOLEAN
    <3>1. \/ reqDisc' = TRUE
          \/ \E k \in {"ACK", "NAK", "CAN"} : reqDisc' = (reqDisc \/ k # "ACK")
      BY <1>11, Zenon DEF StopAnswered
    <3> QED
      BY <3>1
  <2>4. /\ Send(Msg("Etx")) /\ result' = "Failed"
        /\ UNCHANGED <<iot, cancel, linked, device>>
    BY <1>11, Zenon DEF StopAnswered
  <2>5. up' \in Seq(Requests) /\ lost' \in 0..MaxLost
    BY <2>4, <1>a, Sends, Requested
  <2> QED
    BY <2>1, <2>2, <2>3, <2>4, <2>5 DEF TypeOK, Verdicts, device
<1>12. CASE DistStops
  <2>1. client' \in Clients /\ client'.pc = "End"
    BY <1>12, <1>a DEF DistStops, Clients
  <2> QED
    BY <1>12, <2>1 DEF DistStops, TypeOK, Verdicts, air, device
<1>13. CASE DistStalls
  BY <1>13, FinishType DEF DistStalls, TypeOK, Verdicts, air, device
<1>14. CASE DistAsks
  <2>1. client' \in Clients /\ client'.pc = "Dist"
    BY <1>14, <1>a DEF DistAsks, At, Clients
  <2> QED
    BY <1>14, <2>1, Clears, Requested DEF DistAsks, TypeOK, live, device
<1>15. CASE DistHears
  <2>1. /\ client' \in Clients /\ result' \in Verdicts /\ reqDisc' \in BOOLEAN
        /\ cancel' \in BOOLEAN /\ client'.pc # "Packet"
    BY <1>15, <1>a, FinishType
    DEF DistHears, At, TypeOK, Clients, Verdicts, live
  <2> QED
    BY <1>15, <2>1, Takes DEF DistHears, Hears, TypeOK, device
<1>16. CASE DistMisses
  <2>1. client' \in Clients /\ client'.pc = "Dist"
    BY <1>16, <1>a DEF DistMisses, At, Clients
  <2> QED
    BY <1>16, <2>1, Takes DEF DistMisses, TypeOK, air, live, device
<1> QED
  BY <1>1, <1>2, <1>3, <1>4, <1>5, <1>6, <1>7, <1>8, <1>9, <1>10, <1>11, <1>12,
     <1>13, <1>14, <1>15, <1>16 DEF ClientNext

\* The steps of the device.
LEMMA DeviceRecords ==
    ASSUME TypeOK
    PROVE  /\ \A on \in BOOLEAN : [rx EXCEPT !.on = on] \in Receivers
           /\ \A e \in {"No", "Plain", "Can", "Boot"} :
                [rx EXCEPT !.step = 1, !.exit = e] \in Receivers
           /\ [rx EXCEPT !.step = 1] \in Receivers
           /\ \A i \in Index :
                [rx EXCEPT !.step = 1, !.image = Append(@, i)] \in Receivers
           /\ [on |-> TRUE, step |-> 0, image |-> <<>>, exit |-> "No"] \in Receivers
  <1>1. rx \in Receivers
    BY DEF TypeOK
  <1>2. \A i \in Index : Append(rx.image, i) \in Seq(Index)
    BY <1>1 DEF Receivers
  <1>3. \A on \in BOOLEAN : [rx EXCEPT !.on = on] \in Receivers
    BY <1>1 DEF Receivers
  <1>4. \A e \in {"No", "Plain", "Can", "Boot"} :
          [rx EXCEPT !.step = 1, !.exit = e] \in Receivers
    BY <1>1 DEF Receivers
  <1>5. [rx EXCEPT !.step = 1] \in Receivers
    BY <1>1 DEF Receivers
  <1>6. \A i \in Index : [rx EXCEPT !.step = 1, !.image = Append(@, i)] \in Receivers
    BY <1>1, <1>2 DEF Receivers
  <1>7. [on |-> TRUE, step |-> 0, image |-> <<>>, exit |-> "No"] \in Receivers
    BY DEF Receivers
  <1> QED
    BY <1>3, <1>4, <1>5, <1>6, <1>7

LEMMA GroupType ==
    /\ \A mine, err \in BOOLEAN, pct \in {0, 50, 100} : Group(mine, pct, err) \in Groups
    /\ iot \in BOOLEAN => Cleared \in Groups
  BY DEF Group, Groups, Cleared

\* What the device may answer.
LEMMA AnswerType ==
    ASSUME TypeOK
    PROVE  /\ <<>> \in Seq(Replies) /\ <<Value(reg)>> \in Seq(Replies)
           /\ \A k \in {"C", "ACK", "NAK", "CAN"} :
                /\ <<Msg(k)>> \in Seq(Replies)
                /\ <<Value(reg), Msg(k)>> \in Seq(Replies)
                /\ <<>> \o <<Msg(k)>> \in Seq(Replies)
                /\ <<Value(reg)>> \o <<Msg(k)>> \in Seq(Replies)
  <1>1. Value(reg) \in Replies /\ \A k \in {"C", "ACK", "NAK", "CAN"} : Msg(k) \in Replies
    BY Replied DEF TypeOK
  <1> QED
    BY <1>1

LEMMA TypeReceive ==
    ASSUME TypeInv, Receive
    PROVE  TypeInv'
<1> USE DEF TypeInv, PacketInFile
<1>a. TypeOK /\ iot \in BOOLEAN
  BY DEF TypeOK
<1>b. up # <<>> /\ UNCHANGED <<iot, client, live, linked>>
  BY Zenon DEF Receive, ReceiveStart, ReceivePacket, ReceiveEot, ReceiveEtx,
               ReceiveRead, ReceiveIdle, Leave, Received
<1>c. ASSUME NEW replies \in Seq(Replies), Answer(replies),
             rx' \in Receivers, reg' \in Groups,
             dist' \in {"None", "Running", "Done", "Failed"}
      PROVE  TypeInv'
  <2>1. up' \in Seq(Requests) /\ down' \in Seq(Replies) /\ lost' \in 0..MaxLost
    BY <1>a, <1>b, <1>c, Answers
  <2> QED
    BY <1>a, <1>b, <1>c, <2>1 DEF TypeOK, live
<1>d. rx \in Receivers /\ reg \in Groups /\ dist \in {"None", "Running", "Done", "Failed"}
  BY DEF TypeOK
<1>1. CASE ReceiveStart
  <2>1. rx' \in Receivers /\ reg' \in Groups /\ dist' = dist
    BY <1>1, <1>a, <1>d, DeviceRecords, GroupType, Zenon DEF ReceiveStart
  <2>2. Answer(<<Msg("C")>>) \/ Answer(<<>>)
    BY <1>1, Zenon DEF ReceiveStart
  <2> QED
    BY <2>1, <2>2, <1>a, <1>c, <1>d, AnswerType
<1>2. CASE ReceivePacket
  <2>1. Head(up).data \in Index
    BY <1>2, <1>a, Requested DEF ReceivePacket, Received, TypeOK
  <2>2. rx' \in Receivers /\ UNCHANGED <<reg, dist>>
    BY <1>2, <2>1, <1>a, DeviceRecords DEF ReceivePacket
  <2>3. Answer(<<Msg("ACK")>>) \/ Answer(<<Msg("NAK")>>)
    BY <1>2, Zenon DEF ReceivePacket
  <2> QED
    BY <2>2, <2>3, <1>a, <1>c, <1>d, AnswerType
<1>3. CASE ReceiveEot
  <2>1. rx' \in Receivers /\ UNCHANGED <<reg, dist>>
    BY <1>3, <1>a, DeviceRecords DEF ReceiveEot
  <2>2. Answer(<<Msg("ACK")>>) \/ Answer(<<Msg("CAN")>>)
    BY <1>3, Zenon DEF ReceiveEot
  <2> QED
    BY <2>1, <2>2, <1>a, <1>c, <1>d, AnswerType
<1>4. CASE ReceiveEtx
  <2>1. rx' \in Receivers /\ UNCHANGED <<reg, dist>>
    BY <1>4, <1>a, <1>d, DeviceRecords DEF ReceiveEtx
  <2>2. Answer(<<>>) \/ \E k \in {"ACK", "CAN"} : Answer(<<Msg(k)>>)
    BY <1>4, Zenon DEF ReceiveEtx
  <2> QED
    BY <2>1, <2>2, <1>a, <1>c, <1>d, AnswerType
<1>5. CASE ReceiveRead
  <2>1. rx' \in Receivers /\ UNCHANGED <<reg, dist>> /\ Answer(<<Value(reg), Msg("NAK")>>)
    BY <1>5, <1>a, DeviceRecords DEF ReceiveRead
  <2> QED
    BY <2>1, <1>a, <1>c, <1>d, AnswerType
<1>6. CASE ReceiveIdle
  <2>1. Answer(<<Value(reg)>>) \/ Answer(<<>>)
    BY <1>6, Zenon DEF ReceiveIdle
  <2> QED
    BY <1>6, <2>1, <1>a, <1>c, <1>d, AnswerType DEF ReceiveIdle, device
<1>7. CASE Leave
  <2>1. rx' \in Receivers
    <3>1. \E on \in BOOLEAN : rx' = [rx EXCEPT !.on = on]
      BY <1>7, Zenon DEF Leave
    <3> QED BY <3>1, <1>a, DeviceRecords
  <2>2. /\ reg' = reg \/ reg' = Group(TRUE, 0, TRUE)
        /\ dist' = dist \/ dist' \in {"Running", "Failed"}
    BY <1>7 DEF Leave
  <2>3. \E value \in {<<>>, <<Value(reg)>>} :
           Answer(value) \/ Answer(value \o <<Msg("CAN")>>)
    BY <1>7, Zenon DEF Leave
  <2>4. reg' \in Groups /\ dist' \in {"None", "Running", "Done", "Failed"}
    BY <2>2, <1>d, GroupType
  <2>5. \A value \in {<<>>, <<Value(reg)>>} :
           value \in Seq(Replies) /\ value \o <<Msg("CAN")>> \in Seq(Replies)
    BY <1>a, AnswerType
  <2>6. \E replies \in Seq(Replies) : Answer(replies)
    BY <2>3, <2>5, Zenon
  <2> QED
    BY <2>1, <2>4, <2>6, <1>c
<1> QED
  BY <1>1, <1>2, <1>3, <1>4, <1>5, <1>6, <1>7 DEF Receive

LEMMA TypeNext ==
    ASSUME TypeInv, [Next]_vars
    PROVE  TypeInv'
<1>a. TypeOK /\ rx \in Receivers /\ client \in Clients
  BY DEF TypeInv, TypeOK
<1>1. CASE ClientNext
  BY <1>1, TypeClient
<1>2. CASE Receive
  BY <1>2, TypeReceive
<1>3. CASE CanProgress
  BY <1>3, <1>a, GroupType
  DEF CanProgress, TypeInv, PacketInFile, TypeOK, live, air
<1>4. CASE PressStop
  BY <1>4 DEF PressStop, TypeInv, PacketInFile, TypeOK, air, device
<1>5. ASSUME LinkEnds
      PROVE  /\ linked' \in BOOLEAN /\ up' \in Seq(Requests) /\ down' \in Seq(Replies)
             /\ lost' = lost /\ rx' \in Receivers /\ UNCHANGED <<iot, reg, dist>>
  <2>1. /\ linked' = FALSE /\ up' = <<>> /\ down' = <<>> /\ lost' = lost
        /\ UNCHANGED <<iot, reg, dist>>
        /\ \E on \in BOOLEAN : rx' = [rx EXCEPT !.on = on]
    BY <1>5, Zenon DEF LinkEnds
  <2>2. rx' \in Receivers
    BY <2>1, <1>a, DeviceRecords
  <2>3. linked' \in BOOLEAN
    BY <2>1, Zenon
  <2> QED
    BY <2>1, <2>2, <2>3
<1>6. CASE Disconnect
  BY <1>6, <1>5 DEF Disconnect, TypeInv, PacketInFile, TypeOK
<1>7. CASE PeerLost
  <2>1. client' \in Clients /\ (client'.pc = "Packet" => client' = client)
    BY <1>7, <1>a DEF PeerLost, Clients
  <2> QED
    BY <1>7, <1>5, <2>1 DEF PeerLost, TypeInv, PacketInFile, TypeOK, live
<1>8. CASE Poll
  <2>1. up' \in Seq(Requests) /\ down' \in Seq(Replies)
    BY <1>8, Requested DEF Poll
  <2> QED
    BY <1>8, <2>1 DEF Poll, TypeInv, PacketInFile, TypeOK, live, device
<1>9. CASE UNCHANGED vars
  BY <1>9 DEF vars, live, air, device, TypeInv, PacketInFile, TypeOK
<1> QED
  BY <1>1, <1>2, <1>3, <1>4, <1>6, <1>7, <1>8, <1>9 DEF Next

LEMMA TypeInit == Init => TypeInv
  <1> SUFFICES ASSUME Init PROVE TypeInv
    OBVIOUS
  <1>1. client \in Clients /\ client.pc = "Start"
    BY UpgradeAssumption DEF Init, Clients, Transfer
  <1>2. rx \in Receivers
    <2>1. \A on \in BOOLEAN :
            [on |-> on, step |-> 0, image |-> <<>>, exit |-> "No"] \in Receivers
      BY DEF Receivers
    <2> QED
      BY <2>1, Zenon DEF Init
  <1>3. reg \in Groups
    <2>1. \E mine, err \in BOOLEAN, pct \in {0, 50, 100} :
             reg = Cleared \/ reg = Group(mine, pct, err)
      BY Zenon DEF Init
    <2>2. iot \in BOOLEAN
      BY DEF Init
    <2> QED
      BY <2>1, <2>2, GroupType
  <1>4. /\ iot \in BOOLEAN /\ cancel \in BOOLEAN /\ result = "None"
        /\ reqDisc \in BOOLEAN /\ linked \in BOOLEAN
        /\ up = <<>> /\ down = <<>> /\ lost = 0 /\ dist = "None"
    BY Zenon DEF Init
  <1> QED
    BY <1>1, <1>2, <1>3, <1>4, UpgradeAssumption
    DEF TypeInv, PacketInFile, TypeOK, Verdicts

\* Every variable keeps its type, whatever is sent, lost, late or stopped; in
\* particular every packet sent is one of the file.
THEOREM TypeCorrect == Spec => []TypeOK
  <1>1. Spec => []TypeInv
    BY TypeInit, TypeNext, PTL DEF Spec
  <1> QED
    BY <1>1, PTL DEF TypeInv

-----------------------------------------------------------------------------
(* The transfer.                                                           *)

Stored    == Len(rx.image)
AckInDown == \E j \in DOMAIN down : down[j].kind = "ACK"
OneAck    == \A j, k \in DOMAIN down :
                down[j].kind = "ACK" /\ down[k].kind = "ACK" => j = k

\* What is on its way to the device: requests to start come first, and while
\* there is one nothing has been stored; the packets are the next one or the
\* one before, in order; an end mark follows the whole file.
StartsFirst ==
    \A j, k \in DOMAIN up : j < k /\ up[k].kind = "Start" => up[j].kind = "Start"
StartsAreEarly ==
    \A j \in DOMAIN up : up[j].kind = "Start" =>
        rx.image = <<>> /\ client.index = 0 /\ ~AckInDown
PacketsAreCurrent ==
    \A j \in DOMAIN up : up[j].kind = "Packet" =>
        /\ up[j].data = Stored \/ up[j].data + 1 = Stored
        /\ up[j].data <= client.index
PacketsInOrder ==
    \A j, k \in DOMAIN up :
        j < k /\ up[j].kind = "Packet" /\ up[k].kind = "Packet" =>
            up[j].data <= up[k].data
EotIsLast == \A j \in DOMAIN up : up[j].kind = "Eot" => Stored = Packets
AirInv == /\ StartsFirst /\ StartsAreEarly /\ PacketsAreCurrent
          /\ PacketsInOrder /\ EotIsLast

\* What the device has.
ImageIsPrefix   == Stored <= Packets /\ \A k \in 1..Stored : rx.image[k] = k - 1
AcceptedIsWhole == Accepted => Stored = Packets
ImageInv == ImageIsPrefix /\ AcceptedIsWhole

\* What the client may conclude from an acknowledgement.
StartInv == client.pc = "Start" =>
    /\ \A j \in DOMAIN up : up[j].kind = "Start"
    /\ rx.image = <<>> /\ client.index = 0 /\ ~AckInDown
PacketInv == client.pc = "Packet" =>
    /\ \A j \in DOMAIN up : up[j].kind \in {"Start", "Packet"}
    /\ Stored = client.index \/ Stored = client.index + 1
    /\ AckInDown => Stored = client.index + 1
    /\ OneAck
EotInv == client.pc = "Eot" =>
    /\ \A j \in DOMAIN up : up[j].kind \in {"Start", "Packet", "Eot"}
    /\ client.index = Packets /\ Stored = Packets
    /\ AckInDown => Accepted
DistInv   == client.pc = "Dist" => Accepted
OverInv   == ~Over => result = "None" /\ linked /\ ~reqDisc
ClientInv == StartInv /\ PacketInv /\ EotInv /\ DistInv /\ OverInv

IInv == TypeInv /\ AirInv /\ ImageInv /\ ClientInv

\* Replies that are thrown away or taken leave fewer acknowledgements, and
\* taking the only one leaves none.
LEMMA FewerAcks ==
    ASSUME NEW n \in Nat, Len(down) \in Nat, DOMAIN down = 1..Len(down),
           \A j \in DOMAIN down' : j + n \in DOMAIN down /\ down'[j] = down[j + n],
           DOMAIN down' \subseteq Nat
    PROVE  (AckInDown' => AckInDown) /\ (OneAck => OneAck')
  BY DEF AckInDown, OneAck

LEMMA TakingAck ==
    ASSUME TypeOK, down # <<>>, Take
    PROVE  /\ AckInDown' => AckInDown
           /\ OneAck => OneAck'
           /\ OneAck /\ Head(down).kind = "ACK" => ~AckInDown'
           /\ Head(down).kind = "ACK" => AckInDown
  <1>1. /\ down \in Seq(Replies) /\ down' \in Seq(Replies) /\ Len(down) \in Nat
        /\ DOMAIN down = 1..Len(down) /\ DOMAIN down' = 1..Len(down') /\ Len(down') \in Nat
    BY Takes DEF TypeOK
  <1>2. /\ \A j \in DOMAIN down' : j + 1 \in DOMAIN down /\ down'[j] = down[j + 1]
        /\ Head(down) = down[1] /\ 1 \in DOMAIN down
    BY Takes
  <1>3. (AckInDown' => AckInDown) /\ (OneAck => OneAck')
    BY <1>1, <1>2, FewerAcks
  <1>4. Head(down).kind = "ACK" => AckInDown
    BY <1>2 DEF AckInDown
  <1>5. ASSUME OneAck, Head(down).kind = "ACK", AckInDown' PROVE FALSE
    <2>1. PICK j \in DOMAIN down' : down'[j].kind = "ACK"
      BY <1>5 DEF AckInDown
    <2>2. j + 1 \in DOMAIN down /\ down[j + 1].kind = "ACK" /\ j \in 1..Len(down')
      BY <1>1, <1>2, <2>1
    <2> QED
      BY <1>1, <1>2, <1>5, <2>2 DEF OneAck
  <1> QED
    BY <1>3, <1>4, <1>5

LEMMA ClearingAck ==
    ASSUME TypeOK, NEW m \in Requests, ClearAndSend(m)
    PROVE  (AckInDown' => AckInDown) /\ (OneAck => OneAck')
  <1>1. PICK n \in 0..Len(down) :
           \A j \in DOMAIN down' : j + n \in DOMAIN down /\ down'[j] = down[j + n]
    BY Clears
  <1>2. /\ down \in Seq(Replies) /\ down' \in Seq(Replies) /\ Len(down) \in Nat
        /\ DOMAIN down = 1..Len(down) /\ DOMAIN down' = 1..Len(down') /\ Len(down') \in Nat
    BY Clears DEF TypeOK
  <1> QED
    BY <1>1, <1>2, FewerAcks

\* Nothing new is sent, and nothing is stored.
LEMMA AirAsBefore ==
    ASSUME AirInv, ImageInv, UNCHANGED <<up, rx>>, AckInDown' => AckInDown,
           client.index \in Nat, client'.index \in Nat, TypeOK,
           client'.index >= client.index,
           (\E j \in DOMAIN up : up[j].kind = "Start") => client'.index = client.index
    PROVE  AirInv' /\ ImageInv'
  <1>1. ImageInv'
    BY DEF ImageInv, ImageIsPrefix, AcceptedIsWhole, Accepted, Stored
  <1>2. StartsFirst' /\ EotIsLast' /\ PacketsInOrder'
    BY DEF AirInv, StartsFirst, EotIsLast, PacketsInOrder, Stored
  <1>3. StartsAreEarly'
    BY DEF AirInv, StartsAreEarly
  <1>4. PacketsAreCurrent'
    <2>1. \A j \in DOMAIN up : up[j].kind = "Packet" => up[j].data \in Nat
      BY Requested DEF TypeOK, Index
    <2> QED
      BY <2>1 DEF AirInv, PacketsAreCurrent, Stored
  <1> QED
    BY <1>1, <1>2, <1>3, <1>4 DEF AirInv

\* A message is sent that fits what has been stored, or is lost at once.
LEMMA AirAfterSend ==
    ASSUME TypeOK, AirInv, ImageInv, NEW m \in Requests,
           up' = up \/ up' = Append(up, m), UNCHANGED rx, AckInDown' => AckInDown,
           client'.index = client.index,
           m.kind = "Start" => /\ \A j \in DOMAIN up : up[j].kind = "Start"
                               /\ rx.image = <<>> /\ client.index = 0 /\ ~AckInDown,
           m.kind = "Packet" => /\ m.data = client.index
                                /\ Stored = client.index \/ Stored = client.index + 1,
           m.kind = "Eot" => Stored = Packets
    PROVE  AirInv' /\ ImageInv'
<1>1. CASE up' = up
  <2>1. client.index \in Nat
    BY DEF TypeOK, Clients
  <2> QED
    BY <1>1, <2>1, AirAsBefore
<1>2. CASE up' = Append(up, m)
  <2>1. /\ up \in Seq(Requests) /\ Len(up) \in Nat /\ DOMAIN up = 1..Len(up)
        /\ DOMAIN up' = 1..(Len(up) + 1)
        /\ \A j \in DOMAIN up : up'[j] = up[j]
        /\ up'[Len(up) + 1] = m
    BY <1>2 DEF TypeOK
  <2>2. \A j \in DOMAIN up' : j \in DOMAIN up \/ (j = Len(up) + 1 /\ up'[j] = m)
    BY <2>1
  <2>3. StartsFirst'
    BY <2>1, <2>2 DEF AirInv, StartsFirst
  <2>4. StartsAreEarly'
    BY <2>1, <2>2 DEF AirInv, StartsAreEarly
  <2>5. PacketsAreCurrent'
    <3>1. client.index \in Nat
      BY DEF TypeOK, Clients
    <3> QED
      BY <2>1, <2>2, <3>1 DEF AirInv, PacketsAreCurrent, Stored
  <2>6. PacketsInOrder'
    <3>1. \A j \in DOMAIN up : up[j].kind = "Packet" => up[j].data <= client.index
      BY DEF AirInv, PacketsAreCurrent
    <3> QED
      BY <2>1, <2>2, <3>1 DEF AirInv, PacketsInOrder
  <2>7. EotIsLast'
    BY <2>1, <2>2 DEF AirInv, EotIsLast, Stored
  <2>8. ImageInv'
    BY DEF ImageInv, ImageIsPrefix, AcceptedIsWhole, Accepted, Stored
  <2> QED
    BY <2>3, <2>4, <2>5, <2>6, <2>7, <2>8 DEF AirInv
<1> QED
  BY <1>1, <1>2

\* A step that ends the task, or leaves it with nothing to wait for.
LEMMA EndsInv ==
    ASSUME client'.pc \in {"Etx", "End"},
           client'.pc = "Etx" => UNCHANGED <<result, reqDisc, linked>>,
           OverInv, client.pc \notin {"End", "Aborted"}
    PROVE  ClientInv'
  BY DEF ClientInv, StartInv, PacketInv, EotInv, DistInv, OverInv, Over

LEMMA FinishInv ==
    ASSUME NEW v, Finish(v), TypeOK, UNCHANGED <<up, rx>>, AckInDown' => AckInDown,
           AirInv, ImageInv, OverInv, client.pc \notin {"End", "Aborted"}
    PROVE  AirInv' /\ ImageInv' /\ ClientInv'
  <1>1. client'.pc = "End" /\ client'.index = client.index /\ client.index \in Nat
    BY DEF Finish, TypeOK, Clients
  <1> QED
    BY <1>1, AirAsBefore, EndsInv

LEMMA InvClient ==
    ASSUME IInv, ClientNext
    PROVE  AirInv' /\ ImageInv' /\ ClientInv'
<1>a. /\ TypeInv /\ TypeOK /\ AirInv /\ ImageInv /\ ClientInv /\ OverInv
      /\ client \in Clients /\ client.index \in Nat
  BY DEF IInv, ClientInv, TypeInv, TypeOK, Clients
<1>1. CASE Attempt
  <2>1. /\ Message \in Requests /\ ClearAndSend(Message) /\ client.pc \in Transfer
        /\ UNCHANGED <<rx, result, reqDisc, linked>>
    BY <1>1, <1>a, MessageType DEF Attempt, Sending, live, device
  <2>2. client'.pc = client.pc /\ client'.index = client.index
    BY <1>1, <1>a DEF Attempt, Clients
  <2>3. (up' = up \/ up' = Append(up, Message)) /\ (AckInDown' => AckInDown)
        /\ (OneAck => OneAck')
    BY <1>a, <2>1, Clears, ClearingAck
  <2>4. /\ client.pc # "Packet" => Message.kind = client.pc
        /\ client.pc = "Packet" => /\ Message.kind = "Packet"
                                   /\ Message.data = client.index
    BY <1>a, <2>1, Requested DEF Message, TypeInv, PacketInFile, Transfer
  <2>5. AirInv' /\ ImageInv'
    BY <1>a, <2>1, <2>2, <2>3, <2>4, AirAfterSend
    DEF ClientInv, StartInv, PacketInv, EotInv, Transfer
  <2>6. \A j \in DOMAIN up' : \/ j \in DOMAIN up /\ up'[j] = up[j]
                              \/ up'[j].kind = Message.kind
    <3>1. up \in Seq(Requests)
      BY <1>a DEF TypeOK
    <3> QED
      BY <2>1, <2>3, <3>1
  <2>7. StartInv' /\ PacketInv' /\ EotInv'
    BY <1>a, <2>1, <2>2, <2>3, <2>4, <2>6
    DEF ClientInv, StartInv, PacketInv, EotInv, Stored, Accepted, Transfer
  <2>8. DistInv' /\ OverInv'
    BY <1>a, <2>1, <2>2 DEF DistInv, OverInv, Over, Transfer
  <2> QED
    BY <2>5, <2>7, <2>8 DEF ClientInv
<1>2. CASE GiveUp
  BY <1>2, <1>a, FinishInv DEF GiveUp, Sending, Transfer, air, device, AckInDown
<1>3. CASE GotReady
  <2>1. /\ client.pc = "Start" /\ client'.pc = "Packet" /\ client'.index = 0
        /\ down # <<>> /\ Take /\ UNCHANGED <<rx, result, reqDisc, linked>>
    <3>1. NextStep("Packet", 0) /\ 0 \in 0..Packets
      BY <1>3, UpgradeAssumption DEF GotReady
    <3>2. client'.pc = "Packet" /\ client'.index = 0
      BY <1>a, <3>1, NextStepType DEF Transfer
    <3> QED
      BY <1>3, <3>2 DEF GotReady, Hears, live, device
  <2>2. up' = up /\ ~AckInDown'
    BY <1>a, <2>1, Takes, TakingAck DEF ClientInv, StartInv
  <2>3. AirInv' /\ ImageInv'
    BY <1>a, <2>1, <2>2, AirAsBefore DEF ClientInv, StartInv
  <2>4. PacketInv'
    BY <1>a, <2>1, <2>2
    DEF ClientInv, StartInv, PacketInv, Stored, OneAck, AckInDown
  <2> QED
    BY <1>a, <2>1, <2>3, <2>4
    DEF ClientInv, StartInv, EotInv, DistInv, OverInv, Over
<1>4. CASE GotPacketAck
  <2>1. /\ client.pc = "Packet" /\ client'.index = client.index + 1
        /\ client'.pc = IF client.index + 1 = Packets THEN "Eot" ELSE "Packet"
        /\ down # <<>> /\ Head(down).kind = "ACK" /\ Take
        /\ UNCHANGED <<rx, result, reqDisc, linked>>
    <3>1. client.index + 1 \in 0..Packets
      BY <1>4, <1>a, UpgradeAssumption
      DEF GotPacketAck, TypeInv, PacketInFile, Index
    <3> QED
      BY <1>4, <1>a, <3>1, NextStepType
      DEF GotPacketAck, Hears, Transfer, live, device
  <2>2. up' = up /\ ~AckInDown' /\ AckInDown /\ Stored = client.index + 1
    BY <1>a, <2>1, Takes, TakingAck DEF ClientInv, PacketInv
  <2>3. \A j \in DOMAIN up : up[j].kind # "Start"
    BY <1>a, <2>2 DEF AirInv, StartsAreEarly
  <2>4. AirInv' /\ ImageInv'
    BY <1>a, <2>1, <2>2, <2>3, AirAsBefore
  <2>5. PacketInv' /\ EotInv'
    BY <1>a, <2>1, <2>2
    DEF ClientInv, PacketInv, EotInv, Stored, OneAck, AckInDown
  <2> QED
    BY <1>a, <2>1, <2>4, <2>5 DEF ClientInv, StartInv, DistInv, OverInv, Over
<1>5. CASE GotEotAck
  <2>1. /\ client.pc = "Eot" /\ down # <<>> /\ Head(down).kind = "ACK" /\ Take
        /\ UNCHANGED <<rx, linked>>
    BY <1>5 DEF GotEotAck, Hears, device
  <2>2. up' = up /\ (AckInDown' => AckInDown) /\ Accepted
    BY <1>a, <2>1, Takes, TakingAck DEF ClientInv, EotInv
  <2>3. CASE iot
    <3>1. Finish("Success")
      BY <1>5, <2>3 DEF GotEotAck
    <3> QED
      BY <1>a, <2>1, <2>2, <3>1, FinishInv
  <2>4. CASE ~iot
    <3>1. NextStep("Dist", client.index) /\ UNCHANGED <<result, reqDisc>>
      BY <1>5, <2>4 DEF GotEotAck, live
    <3>2. client'.pc = "Dist" /\ client'.index = client.index
      BY <1>a, <3>1, NextStepType DEF Clients
    <3>3. AirInv' /\ ImageInv'
      BY <1>a, <2>1, <2>2, <3>2, AirAsBefore
    <3> QED
      BY <1>a, <2>1, <2>2, <3>1, <3>2, <3>3
      DEF ClientInv, StartInv, PacketInv, EotInv, DistInv, OverInv, Over, Accepted
  <2> QED
    BY <2>3, <2>4
<1>6. CASE AttemptFails
  <2>1. /\ client.pc \in Transfer /\ client'.pc = client.pc /\ client'.index = client.index
        /\ UNCHANGED <<rx, result, reqDisc, linked>>
        /\ (down # <<>> /\ Take) \/ UNCHANGED <<up, down>>
    BY <1>6, <1>a DEF AttemptFails, Waiting, Clients, Hears, air, live, device
  <2>2. up' = up /\ (AckInDown' => AckInDown) /\ (OneAck => OneAck')
    BY <1>a, <2>1, Takes, TakingAck DEF AckInDown, OneAck
  <2>3. AirInv' /\ ImageInv'
    BY <1>a, <2>1, <2>2, AirAsBefore
  <2> QED
    BY <1>a, <2>1, <2>2, <2>3
    DEF ClientInv, StartInv, PacketInv, EotInv, DistInv, OverInv, Over, Transfer,
        Stored, Accepted
<1>7. CASE DeviceCancels
  <2>1. /\ down # <<>> /\ Take /\ Finish("Failed") /\ UNCHANGED <<rx>>
        /\ client.pc \in Transfer
    BY <1>7 DEF DeviceCancels, Waiting, Hears, device
  <2>2. up' = up /\ (AckInDown' => AckInDown)
    BY <1>a, <2>1, Takes, TakingAck
  <2> QED
    BY <1>a, <2>1, <2>2, FinishInv DEF Transfer
<1>8. CASE Ignored
  <2>1. /\ down # <<>> /\ Take /\ UNCHANGED <<client, rx, result, reqDisc, linked>>
    BY <1>8 DEF Ignored, live, device
  <2>2. up' = up /\ (AckInDown' => AckInDown) /\ (OneAck => OneAck')
    BY <1>a, <2>1, Takes, TakingAck
  <2>3. AirInv' /\ ImageInv'
    BY <1>a, <2>1, <2>2, AirAsBefore
  <2> QED
    BY <1>a, <2>1, <2>2, <2>3
    DEF ClientInv, StartInv, PacketInv, EotInv, DistInv, OverInv, Over, Stored, Accepted
<1>9. CASE StopBeforeReady
  <2>1. /\ client'.pc = "End" /\ client'.index = client.index /\ client.pc = "Start"
        /\ UNCHANGED <<up, down, rx>>
    BY <1>9, <1>a DEF StopBeforeReady, Clients, air, device
  <2> QED
    BY <1>a, <2>1, AirAsBefore, EndsInv DEF AckInDown
<1>10. CASE StopTransfer
  <2>1. /\ client'.pc = "Etx" /\ client'.index = client.index
        /\ client.pc \in {"Packet", "Eot"} /\ ClearAndSend(Msg("Etx"))
        /\ UNCHANGED <<rx, result, reqDisc, linked>>
    BY <1>10, <1>a DEF StopTransfer, Clients, live, device
  <2>2. Msg("Etx") \in Requests /\ Msg("Etx").kind = "Etx"
    BY Requested
  <2>3. (up' = up \/ up' = Append(up, Msg("Etx"))) /\ (AckInDown' => AckInDown)
    BY <1>a, <2>1, <2>2, Clears, ClearingAck
  <2> QED
    BY <1>a, <2>1, <2>2, <2>3, AirAfterSend, EndsInv
<1>11. CASE StopAnswered
  <2>1. /\ client'.pc = "End" /\ client'.index = client.index
        /\ client.pc = "Etx" /\ UNCHANGED rx
    BY <1>11, <1>a DEF StopAnswered, Clients, device
  <2>2. Send(Msg("Etx")) /\ (down' = down \/ (down # <<>> /\ down' = Tail(down)))
    BY <1>11 DEF StopAnswered, Hears
  <2>3. Msg("Etx") \in Requests /\ Msg("Etx").kind = "Etx"
    BY Requested
  <2>4. up' = up \/ up' = Append(up, Msg("Etx"))
    BY <1>a, <2>2, <2>3, Sends
  <2>5. AckInDown' => AckInDown
    <3>1. CASE down # <<>> /\ down' = Tail(down)
      <4>1. \A j \in DOMAIN down' : j + 1 \in DOMAIN down /\ down'[j] = down[j + 1]
        BY <1>a, <3>1 DEF TypeOK
      <4> QED
        BY <4>1 DEF AckInDown
    <3> QED
      BY <2>2, <3>1 DEF AckInDown
  <2> QED
    BY <1>a, <2>1, <2>3, <2>4, <2>5, AirAfterSend, EndsInv
<1>12. CASE DistStops
  <2>1. /\ client'.pc = "End" /\ client'.index = client.index /\ client.pc = "Dist"
        /\ UNCHANGED <<up, down, rx>>
    BY <1>12, <1>a DEF DistStops, At, Clients, air, device
  <2> QED
    BY <1>a, <2>1, AirAsBefore, EndsInv DEF AckInDown
<1>13. CASE DistStalls
  BY <1>13, <1>a, FinishInv DEF DistStalls, At, air, device, AckInDown
<1>14. CASE DistAsks
  <2>1. /\ client.pc = "Dist" /\ client'.pc = "Dist" /\ client'.index = client.index
        /\ ClearAndSend(Msg("Read")) /\ UNCHANGED <<rx, result, reqDisc, linked>>
    BY <1>14, <1>a DEF DistAsks, At, Clients, live, device
  <2>2. Msg("Read") \in Requests /\ Msg("Read").kind = "Read"
    BY Requested
  <2>3. (up' = up \/ up' = Append(up, Msg("Read"))) /\ (AckInDown' => AckInDown)
    BY <1>a, <2>1, <2>2, Clears, ClearingAck
  <2>4. AirInv' /\ ImageInv'
    BY <1>a, <2>1, <2>2, <2>3, AirAfterSend
  <2> QED
    BY <1>a, <2>1, <2>4
    DEF ClientInv, StartInv, PacketInv, EotInv, DistInv, OverInv, Over, Accepted
<1>b. ASSUME client.pc = "Dist", client'.pc = "Dist", client'.index = client.index,
             UNCHANGED <<up, rx, result, reqDisc, linked>>, AckInDown' => AckInDown
      PROVE  AirInv' /\ ImageInv' /\ ClientInv'
  <2>1. AirInv' /\ ImageInv'
    BY <1>a, <1>b, AirAsBefore
  <2> QED
    BY <1>a, <1>b, <2>1
    DEF ClientInv, StartInv, PacketInv, EotInv, DistInv, OverInv, Over, Accepted
<1>15. CASE DistHears
  <2>1. /\ client.pc = "Dist" /\ down # <<>> /\ Take /\ UNCHANGED <<rx, linked>>
        /\ \/ Finish("Success") \/ Finish("Failed")
           \/ /\ client' = [client EXCEPT !.waiting = FALSE]
              /\ UNCHANGED <<result, reqDisc>>
    BY <1>15 DEF DistHears, At, Hears, live, device
  <2>2. up' = up /\ (AckInDown' => AckInDown)
    BY <1>a, <2>1, Takes, TakingAck
  <2>3. client' = [client EXCEPT !.waiting = FALSE] =>
           client'.pc = "Dist" /\ client'.index = client.index
    BY <1>a, <2>1 DEF Clients
  <2> QED
    BY <1>a, <1>b, <2>1, <2>2, <2>3, FinishInv
<1>16. CASE DistMisses
  <2>1. /\ client.pc = "Dist" /\ client'.pc = "Dist" /\ client'.index = client.index
        /\ (down # <<>> /\ Take) \/ UNCHANGED <<up, down>>
        /\ UNCHANGED <<rx, result, reqDisc, linked>>
    BY <1>16, <1>a DEF DistMisses, At, Clients, air, live, device
  <2>2. up' = up /\ (AckInDown' => AckInDown)
    BY <1>a, <2>1, Takes, TakingAck DEF AckInDown
  <2> QED
    BY <1>b, <2>1, <2>2
<1> QED
  BY <1>1, <1>2, <1>3, <1>4, <1>5, <1>6, <1>7, <1>8, <1>9, <1>10, <1>11, <1>12,
     <1>13, <1>14, <1>15, <1>16 DEF ClientNext

-----------------------------------------------------------------------------
(* The device: what a message does to the image, and whether it is          *)
(* acknowledged.                                                           *)

\* Sequence numbers tell neighbours apart.
LEMMA Neighbours ==
    ASSUME NEW n \in Nat
    PROVE  (n + 1) % SeqModulus # n % SeqModulus
  <1> DEFINE m == SeqModulus
  <1>0. m \in Nat \ {0, 1}
    BY UpgradeAssumption
  <1> HIDE DEF m
  <1>1. /\ n = m * (n \div m) + (n % m)
        /\ n + 1 = m * ((n + 1) \div m) + ((n + 1) % m)
        /\ n \div m \in Nat /\ (n + 1) \div m \in Nat
    BY <1>0
  <1>2. ASSUME NEW a \in Nat, NEW b \in Nat
        PROVE  m * a # m * b + 1
    <2>1. CASE a <= b
      <3>1. m * a <= m * b
        BY <1>0, <2>1
      <3> QED
        BY <1>0, <3>1
    <2>2. CASE a >= b + 1
      <3>1. m * a >= m * (b + 1)
        BY <1>0, <2>2
      <3>2. m * (b + 1) = m * b + m
        BY <1>0
      <3> QED
        BY <1>0, <3>1, <3>2
    <2> QED
      BY <2>1, <2>2
  <1>3. (n + 1) % m # n % m
    <2> SUFFICES ASSUME (n + 1) % m = n % m PROVE FALSE
      OBVIOUS
    <2> DEFINE a == (n + 1) \div m
               b == n \div m
               r == n % m
    <2>1. /\ n = m * b + r /\ n + 1 = m * a + r
          /\ a \in Nat /\ b \in Nat /\ r \in Nat
      BY <1>0, <1>1
    <2> HIDE DEF a, b, r
    <2>2. m * a \in Nat /\ m * b \in Nat
      BY <1>0, <2>1
    <2>3. m * a = m * b + 1
      BY <2>1, <2>2
    <2> QED
      BY <1>2, <2>1, <2>3
  <1> QED
    BY <1>3 DEF m

\* What a step of the device comes to.
Heard == Head(up).kind
NoNewAck == (AckInDown' => AckInDown) /\ (OneAck => OneAck')
Restarts == /\ Heard = "Start" /\ rx'.image = <<>> /\ NoNewAck
            /\ rx'.exit \in {"No", rx.exit}
Stores   == /\ Heard = "Packet" /\ Head(up).data = Stored
            /\ rx'.image = Append(rx.image, Stored)
            /\ rx.exit = "No" /\ rx'.exit = "No"
            /\ down' = down \/ down' = down \o <<Msg("ACK")>>
Accepts  == /\ Heard = "Eot" /\ rx'.image = rx.image /\ Accepted'
Others   == /\ Heard # "Start" /\ rx'.image = rx.image /\ (Accepted' <=> Accepted)
            /\ Heard = "Etx" \/ NoNewAck

LEMMA NewAck ==
    ASSUME TypeOK, NEW replies \in Seq(Replies),
           down' = down \/ down' = down \o replies,
           \A j \in DOMAIN replies : replies[j].kind # "ACK"
    PROVE  NoNewAck
  <1>1. CASE down' = down \o replies
    <2>1. down \in Seq(Replies)
      BY DEF TypeOK
    <2>2. \A j \in DOMAIN down' :
            \/ j \in DOMAIN down /\ down'[j] = down[j]
            \/ j - Len(down) \in DOMAIN replies /\ down'[j] = replies[j - Len(down)]
      BY <1>1, <2>1
    <2>3. \A j \in DOMAIN down' :
            down'[j].kind = "ACK" => j \in DOMAIN down /\ down[j].kind = "ACK"
      BY <2>2
    <2> QED
      BY <2>3 DEF NoNewAck, AckInDown, OneAck
  <1>2. CASE down' = down
    BY <1>2 DEF NoNewAck, AckInDown, OneAck
  <1> QED
    BY <1>1, <1>2

LEMMA DeviceSteps ==
    ASSUME IInv, Receive
    PROVE  /\ Restarts \/ Stores \/ Accepts \/ Others
           /\ up # <<>> /\ UNCHANGED <<client, result, reqDisc, linked>>
<1>a. /\ TypeOK /\ AirInv /\ ImageInv /\ rx \in Receivers /\ rx.image \in Seq(Index)
      /\ Stored \in Nat
  BY DEF IInv, TypeInv, TypeOK, Receivers, Stored
<1>b. up # <<>> /\ UNCHANGED <<client, result, reqDisc, linked>>
  <2>1. up # <<>> /\ UNCHANGED <<iot, client, live, linked>>
    BY Zenon DEF Receive, ReceiveStart, ReceivePacket, ReceiveEot, ReceiveEtx,
                 ReceiveRead, ReceiveIdle, Leave, Received
  <2> QED
    BY <2>1 DEF live
<1>c. ASSUME NEW replies \in Seq(Replies), Answer(replies)
      PROVE  down' = down \/ down' = down \o replies
  BY <1>a, <1>b, <1>c, Answers
<1>d. \A k \in {"C", "NAK", "CAN"} : Answer(<<Msg(k)>>) => NoNewAck
  <2> SUFFICES ASSUME NEW k \in {"C", "NAK", "CAN"}, Answer(<<Msg(k)>>)
               PROVE  NoNewAck
    OBVIOUS
  <2>1. /\ <<Msg(k)>> \in Seq(Replies)
        /\ \A j \in DOMAIN <<Msg(k)>> : <<Msg(k)>>[j].kind # "ACK"
    BY <1>a, AnswerType, Replied
  <2> QED
    BY <1>a, <1>c, <2>1, NewAck
<1>e. ASSUME NEW value \in {<<>>, <<Value(reg)>>},
             NEW rest \in {<<>>, <<Msg("NAK")>>, <<Msg("CAN")>>},
             Answer(value \o rest)
      PROVE  NoNewAck
  <2>1. /\ value \in Seq(Replies) /\ rest \in Seq(Replies)
        /\ \A j \in DOMAIN value : value[j].kind # "ACK"
        /\ \A j \in DOMAIN rest : rest[j].kind # "ACK"
    <3>1. Value(reg).kind = "Value"
      BY <1>a, Replied DEF TypeOK
    <3>2. Msg("NAK").kind = "NAK" /\ Msg("CAN").kind = "CAN"
      BY Replied
    <3>3. /\ <<Value(reg)>> \in Seq(Replies) /\ <<>> \in Seq(Replies)
          /\ <<Msg("NAK")>> \in Seq(Replies) /\ <<Msg("CAN")>> \in Seq(Replies)
      BY <1>a, AnswerType
    <3>4. value \in Seq(Replies) /\ rest \in Seq(Replies)
      BY <3>3
    <3>5. \A j \in DOMAIN value : value[j].kind # "ACK"
      <4>1. CASE value = <<>>
        BY <4>1
      <4>2. CASE value = <<Value(reg)>>
        BY <3>1, <4>2
      <4> QED
        BY <4>1, <4>2
    <3>6. \A j \in DOMAIN rest : rest[j].kind # "ACK"
      <4>1. CASE rest = <<>>
        BY <4>1
      <4>2. CASE rest = <<Msg("NAK")>> \/ rest = <<Msg("CAN")>>
        BY <3>2, <4>2
      <4> QED
        BY <4>1, <4>2
    <3> QED
      BY <3>4, <3>5, <3>6
  <2>2. /\ value \o rest \in Seq(Replies)
        /\ \A j \in DOMAIN (value \o rest) : (value \o rest)[j].kind # "ACK"
    BY <2>1
  <2> QED
    BY <1>a, <1>c, <1>e, <2>2, NewAck
<1>1. CASE ReceiveStart
  <2>1. Heard = "Start"
    BY <1>1 DEF ReceiveStart, Received, Heard
  <2>2. rx.image = <<>>
    BY <1>a, <1>b, <2>1 DEF AirInv, StartsAreEarly, Heard, TypeOK
  <2>3. /\ Answer(<<Msg("C")>>) \/ Answer(<<>> \o <<>>)
        /\ rx' = rx \/ \E on \in BOOLEAN :
               rx' = [on |-> on, step |-> 0, image |-> <<>>, exit |-> "No"]
    <3>1. <<>> \o <<>> = <<>>
      OBVIOUS
    <3> QED
      BY <1>1, <3>1, Zenon DEF ReceiveStart
  <2>4. rx'.image = <<>> /\ rx'.exit \in {"No", rx.exit}
    BY <2>2, <2>3
  <2> QED
    BY <1>b, <1>d, <1>e, <2>1, <2>3, <2>4 DEF Restarts
<1>2. CASE ReceivePacket
  <2>1. /\ Heard = "Packet" /\ rx.exit = "No" /\ Head(up) \in Requests
        /\ Head(up) = up[1] /\ 1 \in DOMAIN up
    BY <1>a, <1>2 DEF ReceivePacket, Received, InXmodem, Heard, TypeOK
  <2>2. /\ Head(up).data \in Nat
        /\ Head(up).data = Stored \/ Head(up).data + 1 = Stored
        /\ Head(up).seq = (Head(up).data + 1) % SeqModulus
    BY <1>a, <2>1, Requested DEF AirInv, PacketsAreCurrent, Heard, Index
  <2>3. CASE Expects(Head(up))
    <3>1. Head(up).seq = (Stored + 1) % SeqModulus
      BY <2>3 DEF Expects, Stored
    <3>2. Head(up).data = Stored
      BY <1>a, <2>2, <3>1, Neighbours
    <3>3. /\ rx' = [rx EXCEPT !.step = 1, !.image = Append(@, Head(up).data)]
          /\ Answer(<<Msg("ACK")>>)
      BY <1>2, <2>3 DEF ReceivePacket
    <3>4. down' = down \/ down' = down \o <<Msg("ACK")>>
      BY <1>a, <1>c, <3>3, AnswerType
    <3>5. rx'.image = Append(rx.image, Stored) /\ rx'.exit = "No"
      BY <1>a, <2>1, <3>2, <3>3 DEF Receivers
    <3> QED
      BY <1>b, <2>1, <3>2, <3>4, <3>5 DEF Stores
  <2>4. CASE ~Expects(Head(up))
    <3>1. rx' = [rx EXCEPT !.step = 1] /\ Answer(<<Msg("NAK")>>)
      BY <1>2, <2>4 DEF ReceivePacket
    <3>2. rx'.image = rx.image /\ rx'.exit = rx.exit
      BY <1>a, <3>1 DEF Receivers
    <3> QED
      BY <1>b, <1>d, <2>1, <3>1, <3>2 DEF Others, Accepted
  <2> QED
    BY <2>3, <2>4
<1>3. CASE ReceiveEot
  <2>1. Heard = "Eot" /\ rx.exit = "No"
    BY <1>3 DEF ReceiveEot, Received, InXmodem, Heard
  <2>2. \/ rx' = [rx EXCEPT !.step = 1, !.exit = IF iot THEN "Boot" ELSE "Can"]
        \/ /\ rx' = [rx EXCEPT !.step = 1, !.exit = "Plain"]
           /\ Answer(<<Msg("CAN")>>)
    BY <1>3, Zenon DEF ReceiveEot
  <2>3. CASE rx' = [rx EXCEPT !.step = 1, !.exit = IF iot THEN "Boot" ELSE "Can"]
    <3>1. rx'.image = rx.image /\ rx'.exit \in {"Boot", "Can"}
      BY <1>a, <2>3 DEF Receivers
    <3> QED
      BY <1>b, <2>1, <3>1 DEF Accepts, Accepted
  <2>4. CASE rx' = [rx EXCEPT !.step = 1, !.exit = "Plain"] /\ Answer(<<Msg("CAN")>>)
    <3>1. rx'.image = rx.image /\ rx'.exit = "Plain"
      BY <1>a, <2>4 DEF Receivers
    <3> QED
      BY <1>b, <1>d, <2>1, <2>4, <3>1 DEF Others, Accepted
  <2> QED
    BY <2>2, <2>3, <2>4
<1>4. CASE ReceiveEtx
  <2>1. /\ Heard = "Etx" /\ rx.exit = "No"
        /\ rx' = rx \/ rx' = [rx EXCEPT !.step = 1, !.exit = "Plain"]
    BY <1>4 DEF ReceiveEtx, Received, InXmodem, Heard
  <2>2. rx'.image = rx.image /\ rx'.exit \in {"No", "Plain"}
    BY <1>a, <2>1 DEF Receivers
  <2> QED
    BY <1>b, <2>1, <2>2 DEF Others, Accepted
<1>5. CASE ReceiveRead
  <2>1. /\ Heard = "Read" /\ rx' = [rx EXCEPT !.step = 1]
        /\ Answer(<<Value(reg), Msg("NAK")>>)
    BY <1>5 DEF ReceiveRead, Received, Heard
  <2>2. Answer(<<Value(reg)>> \o <<Msg("NAK")>>)
    <3>1. <<Value(reg), Msg("NAK")>> = <<Value(reg)>> \o <<Msg("NAK")>>
      OBVIOUS
    <3> QED
      BY <2>1, <3>1
  <2>3. rx'.image = rx.image /\ rx'.exit = rx.exit
    BY <1>a, <2>1 DEF Receivers
  <2> QED
    BY <1>b, <1>e, <2>1, <2>2, <2>3 DEF Others, Accepted
<1>6. CASE ReceiveIdle
  <2>1. \E k \in {"Packet", "Eot", "Etx", "Read"} : Heard = k
    BY <1>6 DEF ReceiveIdle, Received, Heard
  <2>2. Answer(<<Value(reg)>> \o <<>>) \/ Answer(<<>> \o <<>>)
    <3>1. <<Value(reg)>> \o <<>> = <<Value(reg)>> /\ <<>> \o <<>> = <<>>
      OBVIOUS
    <3> QED
      BY <1>6, <3>1, Zenon DEF ReceiveIdle
  <2> QED
    BY <1>6, <1>b, <1>e, <2>1, <2>2 DEF ReceiveIdle, Others, Accepted, device
<1>7. CASE Leave
  <2>1. \E k \in {"Packet", "Eot", "Etx", "Read"} : Heard = k
    BY <1>7 DEF Leave, Received, Heard
  <2>2. \E on \in BOOLEAN : rx' = [rx EXCEPT !.on = on]
    BY <1>7, Zenon DEF Leave
  <2>3. rx'.image = rx.image /\ rx'.exit = rx.exit
    BY <1>a, <2>2 DEF Receivers
  <2>4. \E value \in {<<>>, <<Value(reg)>>}, rest \in {<<>>, <<Msg("CAN")>>} :
           Answer(value \o rest)
    <3>1. \E value \in {<<>>, <<Value(reg)>>} :
             Answer(value) \/ Answer(value \o <<Msg("CAN")>>)
      BY <1>7, Zenon DEF Leave
    <3>2. \A value \in {<<>>, <<Value(reg)>>} : value \o <<>> = value
      OBVIOUS
    <3> QED
      BY <3>1, <3>2
  <2> QED
    BY <1>b, <1>e, <2>1, <2>3, <2>4 DEF Others, Accepted
<1> QED
  BY <1>1, <1>2, <1>3, <1>4, <1>5, <1>6, <1>7 DEF Receive

LEMMA InvReceive ==
    ASSUME IInv, Receive
    PROVE  AirInv' /\ ImageInv' /\ ClientInv'
<1>a. /\ TypeOK /\ AirInv /\ ImageInv /\ ClientInv /\ OverInv
      /\ rx.image \in Seq(Index) /\ Stored \in Nat
      /\ client.index \in Nat /\ Packets \in Nat \ {0}
  BY UpgradeAssumption
  DEF IInv, ClientInv, TypeInv, TypeOK, Clients, Receivers, Stored
<1>b. /\ Restarts \/ Stores \/ Accepts \/ Others
      /\ up # <<>> /\ UNCHANGED <<client, result, reqDisc, linked>>
  BY DeviceSteps
<1>c. /\ 1 \in DOMAIN up /\ Head(up) = up[1]
      /\ DOMAIN up \subseteq Nat \ {0} /\ DOMAIN up' \subseteq Nat \ {0}
      /\ \A j \in DOMAIN up' : j + 1 \in DOMAIN up /\ up'[j] = up[j + 1]
  <2>1. up \in Seq(Requests)
    BY <1>a DEF TypeOK
  <2>2. up' = Tail(up)
    BY Zenon DEF Receive, ReceiveStart, ReceivePacket, ReceiveEot, ReceiveEtx,
                 ReceiveRead, ReceiveIdle, Leave, Answer
  <2> QED
    BY <1>b, <2>1, <2>2
<1>d. \A j \in DOMAIN up : up[j].kind = "Packet" => up[j].data \in Index
  BY <1>a, Requested DEF TypeOK
<1>e. StartsFirst' /\ PacketsInOrder'
  <2>1. StartsFirst'
    BY <1>a, <1>c DEF AirInv, StartsFirst
  <2>2. PacketsInOrder'
    BY <1>a, <1>c DEF AirInv, PacketsInOrder
  <2> QED
    BY <2>1, <2>2
\* Behind a message that is no request to start there is none.
<1>f. Heard # "Start" => StartsAreEarly'
  <2>1. ASSUME Heard # "Start", NEW j \in DOMAIN up'
        PROVE  up'[j].kind # "Start"
    BY <1>a, <1>c, <2>1 DEF Heard, AirInv, StartsFirst
  <2> QED
    BY <2>1 DEF StartsAreEarly
<1>1. CASE Restarts
  <2>1. /\ rx.image = <<>> /\ client.index = 0 /\ ~AckInDown
        /\ Stored = 0 /\ Heard = "Start"
    BY <1>1, <1>a, <1>c DEF Restarts, Heard, AirInv, StartsAreEarly, Stored
  <2>2. rx'.image = rx.image /\ ~AckInDown' /\ (Accepted' => Accepted)
    BY <1>1, <2>1 DEF Restarts, NoNewAck, Accepted
  <2>3. Stored' = Stored /\ ~Accepted
    BY <1>a, <2>1, <2>2 DEF Stored, ImageInv, AcceptedIsWhole
  <2>4. AirInv'
    BY <1>a, <1>b, <1>c, <1>e, <2>1, <2>2, <2>3
    DEF AirInv, StartsAreEarly, PacketsAreCurrent, EotIsLast
  <2>5. ImageInv'
    BY <1>a, <2>2, <2>3 DEF ImageInv, ImageIsPrefix, AcceptedIsWhole
  <2>6. StartInv' /\ PacketInv' /\ EotInv'
    BY <1>a, <1>b, <1>c, <2>1, <2>2, <2>3
    DEF ClientInv, StartInv, PacketInv, EotInv, OneAck, AckInDown
  <2> QED
    BY <1>a, <1>b, <2>3, <2>4, <2>5, <2>6 DEF ClientInv, DistInv, OverInv, Over
<1>2. CASE Stores
  <2>1. /\ up[1].kind = "Packet" /\ up[1].data = Stored /\ Heard # "Start"
        /\ Stored < Packets /\ Stored <= client.index
    BY <1>2, <1>a, <1>c, <1>d
    DEF Stores, Heard, AirInv, PacketsAreCurrent, Index
  <2>2. /\ rx'.image = Append(rx.image, Stored) /\ ~Accepted /\ ~Accepted'
        /\ Stored' = Stored + 1
    BY <1>2, <1>a DEF Stores, Accepted, Stored
  <2>3. PacketsAreCurrent'
    <3>1. ASSUME NEW j \in DOMAIN up', up'[j].kind = "Packet"
          PROVE  up'[j].data = Stored /\ up'[j].data <= client.index
      <4>1. /\ j + 1 \in DOMAIN up /\ up[j + 1] = up'[j] /\ 1 < j + 1
            /\ up[j + 1].data \in Nat
        BY <1>c, <1>d, <3>1 DEF Index
      <4>2. up[1].data <= up[j + 1].data
        BY <1>a, <1>c, <2>1, <3>1, <4>1 DEF AirInv, PacketsInOrder
      <4>3. /\ up[j + 1].data = Stored \/ up[j + 1].data + 1 = Stored
            /\ up[j + 1].data <= client.index
        BY <1>a, <3>1, <4>1 DEF AirInv, PacketsAreCurrent
      <4> QED
        BY <1>a, <2>1, <4>1, <4>2, <4>3
    <3> QED
      BY <1>b, <2>2, <3>1 DEF PacketsAreCurrent
  <2>4. EotIsLast'
    BY <1>a, <1>c, <2>1 DEF AirInv, EotIsLast
  <2>5. ImageInv'
    <3>1. \A k \in 1..(Stored + 1) : rx'.image[k] = k - 1
      BY <1>a, <2>2 DEF ImageInv, ImageIsPrefix, Stored
    <3> QED
      BY <1>a, <2>1, <2>2, <3>1 DEF ImageInv, ImageIsPrefix, AcceptedIsWhole
  <2>6. StartInv' /\ EotInv' /\ DistInv'
    BY <1>a, <1>b, <1>c, <2>1, <2>2 DEF ClientInv, StartInv, EotInv, DistInv
  <2>7. PacketInv'
    <3> SUFFICES ASSUME client.pc = "Packet"
                 PROVE  PacketInv'
      BY <1>b DEF PacketInv
    <3>1. Stored = client.index /\ ~AckInDown
      BY <1>a, <2>1 DEF ClientInv, PacketInv
    <3>2. OneAck'
      <4>1. down \in Seq(Replies)
        BY <1>a DEF TypeOK
      <4>2. CASE down' = down
        BY <3>1, <4>2 DEF OneAck, AckInDown
      <4>3. CASE down' = down \o <<Msg("ACK")>>
        <5>1. \A j \in DOMAIN down' :
                 j = Len(down) + 1 \/ (j \in DOMAIN down /\ down'[j] = down[j])
          BY <4>1, <4>3
        <5> QED
          BY <3>1, <5>1 DEF OneAck, AckInDown
      <4> QED
        BY <1>2, <4>2, <4>3 DEF Stores
    <3>3. \A j \in DOMAIN up' : up'[j].kind \in {"Start", "Packet"}
      BY <1>a, <1>c DEF ClientInv, PacketInv
    <3> QED
      BY <1>b, <2>2, <3>1, <3>2, <3>3 DEF PacketInv
  <2> QED
    BY <1>a, <1>b, <1>e, <1>f, <2>1, <2>3, <2>4, <2>5, <2>6, <2>7
    DEF AirInv, ClientInv, OverInv, Over
<1>3. CASE Accepts
  <2>1. /\ up[1].kind = "Eot" /\ Heard # "Start" /\ Stored = Packets
        /\ rx'.image = rx.image /\ Accepted'
    BY <1>3, <1>a, <1>c DEF Accepts, Heard, AirInv, EotIsLast
  <2>2. Stored' = Stored
    BY <2>1 DEF Stored
  <2>3. PacketsAreCurrent' /\ EotIsLast'
    BY <1>a, <1>b, <1>c, <2>1, <2>2 DEF AirInv, PacketsAreCurrent, EotIsLast
  <2>4. ImageInv'
    BY <1>a, <2>1, <2>2 DEF ImageInv, ImageIsPrefix, AcceptedIsWhole
  <2>5. StartInv' /\ PacketInv' /\ EotInv' /\ DistInv'
    BY <1>a, <1>b, <1>c, <2>1, <2>2
    DEF ClientInv, StartInv, PacketInv, EotInv, DistInv
  <2> QED
    BY <1>a, <1>b, <1>e, <1>f, <2>1, <2>3, <2>4, <2>5
    DEF AirInv, ClientInv, OverInv, Over
<1>4. CASE Others
  <2>1. /\ Heard # "Start" /\ rx'.image = rx.image /\ (Accepted' <=> Accepted)
        /\ up[1].kind = "Etx" \/ NoNewAck
        /\ up[1].kind # "Start"
    BY <1>4, <1>c DEF Others, Heard
  <2>2. Stored' = Stored
    BY <2>1 DEF Stored
  <2>3. PacketsAreCurrent' /\ EotIsLast'
    BY <1>a, <1>b, <1>c, <2>2 DEF AirInv, PacketsAreCurrent, EotIsLast
  <2>4. ImageInv'
    BY <1>a, <2>1, <2>2 DEF ImageInv, ImageIsPrefix, AcceptedIsWhole
  <2>5. StartInv' /\ PacketInv' /\ EotInv' /\ DistInv'
    BY <1>a, <1>b, <1>c, <2>1, <2>2
    DEF ClientInv, StartInv, PacketInv, EotInv, DistInv, NoNewAck
  <2> QED
    BY <1>a, <1>b, <1>e, <1>f, <2>1, <2>3, <2>4, <2>5
    DEF AirInv, ClientInv, OverInv, Over
<1> QED
  BY <1>b, <1>1, <1>2, <1>3, <1>4

-----------------------------------------------------------------------------
(* Every step.                                                             *)

\* The invariant reads only these variables.
LEMMA Untouched ==
    ASSUME IInv, UNCHANGED <<client, up, down, rx, result, reqDisc, linked>>
    PROVE  AirInv' /\ ImageInv' /\ ClientInv'
  <1>1. AirInv'
    BY DEF IInv, AirInv, StartsFirst, StartsAreEarly, PacketsAreCurrent,
       PacketsInOrder,
           EotIsLast, Stored, AckInDown
  <1>2. ImageInv'
    BY DEF IInv, ImageInv, ImageIsPrefix, AcceptedIsWhole, Accepted, Stored
  <1>3. ClientInv'
    BY DEF IInv, ClientInv, StartInv, PacketInv, EotInv, DistInv, OverInv, Over,
           OneAck, AckInDown, Accepted, Stored
  <1> QED
    BY <1>1, <1>2, <1>3

\* The link takes the air with it; what is stored stays.
LEMMA InvLinkEnds ==
    ASSUME IInv, LinkEnds, client'.pc \in {"End", "Aborted"}
    PROVE  AirInv' /\ ImageInv' /\ ClientInv'
  <1>1. up' = <<>> /\ down' = <<>> /\ rx' = [rx EXCEPT !.on = FALSE]
    BY Zenon DEF LinkEnds
  <1>2. rx'.image = rx.image /\ rx'.exit = rx.exit
    <2>1. \E on \in BOOLEAN : rx' = [rx EXCEPT !.on = on]
      BY <1>1, Zenon
    <2> QED
      BY <2>1 DEF IInv, TypeInv, TypeOK, Receivers
  <1>3. AirInv'
    BY <1>1 DEF AirInv, StartsFirst, StartsAreEarly, PacketsAreCurrent,
       PacketsInOrder,
                EotIsLast
  <1>4. ImageInv'
    BY <1>2 DEF IInv, ImageInv, ImageIsPrefix, AcceptedIsWhole, Accepted, Stored
  <1>5. ClientInv'
    BY DEF ClientInv, StartInv, PacketInv, EotInv, DistInv, OverInv, Over
  <1> QED
    BY <1>3, <1>4, <1>5

LEMMA InvNext ==
    ASSUME IInv, [Next]_vars
    PROVE  IInv'
<1>a. TypeInv /\ TypeInv'
  BY TypeNext DEF IInv
<1> SUFFICES AirInv' /\ ImageInv' /\ ClientInv'
  BY <1>a DEF IInv
<1>1. CASE ClientNext
  BY <1>1, InvClient
<1>2. CASE Receive
  BY <1>2, InvReceive
<1>3. CASE CanProgress
  BY <1>3, Untouched DEF CanProgress, live, air
<1>4. CASE PressStop
  BY <1>4, Untouched DEF PressStop, air, device
<1>5. CASE Disconnect
  <2>1. LinkEnds /\ client' = client /\ reqDisc
    BY <1>5, Zenon DEF Disconnect
  <2>2. client.pc \in {"End", "Aborted"}
    BY <2>1 DEF IInv, ClientInv, OverInv, Over
  <2> QED
    BY <2>1, <2>2, InvLinkEnds
<1>6. CASE PeerLost
  <2>1. LinkEnds
    BY <1>6, Zenon DEF PeerLost
  <2>2. client'.pc \in {"End", "Aborted"}
    BY <1>6, <1>a DEF PeerLost, Over, TypeInv, TypeOK, Clients
  <2> QED
    BY <2>1, <2>2, InvLinkEnds
<1>7. CASE Poll
  <2>1. /\ client' = client /\ client.pc \in {"End", "Aborted"} /\ UNCHANGED rx
        /\ up' = <<Msg("Read")>> /\ down' = <<>>
    BY <1>7 DEF Poll, Over, device
  <2>2. \A j \in DOMAIN up' : up'[j].kind = "Read"
    BY <2>1, Requested
  <2>3. AirInv' /\ ImageInv'
    BY <2>1, <2>2
    DEF IInv, AirInv, StartsFirst, StartsAreEarly, PacketsAreCurrent, PacketsInOrder,
        EotIsLast, ImageInv, ImageIsPrefix, AcceptedIsWhole, Accepted, Stored
  <2> QED
    BY <2>1, <2>3 DEF ClientInv, StartInv, PacketInv, EotInv, DistInv, OverInv,
       Over
<1>8. CASE UNCHANGED vars
  BY <1>8, Untouched DEF vars, live, air, device
<1> QED
  BY <1>1, <1>2, <1>3, <1>4, <1>5, <1>6, <1>7, <1>8 DEF Next

LEMMA InvInit == Init => IInv
  <1> SUFFICES ASSUME Init
               PROVE  AirInv /\ ImageInv /\ ClientInv
    BY TypeInit DEF IInv
  <1>1. /\ up = <<>> /\ down = <<>> /\ rx.image = <<>> /\ rx.exit = "No"
        /\ client.pc = "Start" /\ client.index = 0
    BY DEF Init
  <1>2. AirInv
    BY <1>1 DEF AirInv, StartsFirst, StartsAreEarly, PacketsAreCurrent,
       PacketsInOrder,
                EotIsLast
  <1>3. ImageInv
    BY <1>1, UpgradeAssumption
    DEF ImageInv, ImageIsPrefix, AcceptedIsWhole, Accepted, Stored
  <1>4. OverInv
    BY Zenon DEF Init, OverInv
  <1> QED
    BY <1>1, <1>2, <1>3, <1>4
    DEF ClientInv, StartInv, PacketInv, EotInv, DistInv, AckInDown

LEMMA Invariance == Spec => []IInv
  BY InvInit, InvNext, PTL DEF Spec

\* While packets are exchanged the device has stored those the client has
\* counted and at most one more, whatever is lost, late or repeated: an
\* acknowledgement that comes late is never taken for the next packet's.
THEOREM CountedCorrect == Spec => []CountedIsStored
  <1>1. IInv => CountedIsStored
    BY DEF IInv, TypeInv, TypeOK, Clients, ClientInv, PacketInv, EotInv,
       CountedIsStored, Stored
  <1> QED
    BY <1>1, Invariance, PTL

-----------------------------------------------------------------------------
(* The transfer implements AbstractTransfer.                               *)

\* The client stores nothing; it tells the user once how the upgrade ended, and
\* of a success only if the device has accepted the image.
LEMMA ClientTells ==
    ASSUME IInv, ClientNext
    PROVE  /\ UNCHANGED rx
           /\ \/ result' = result
              \/ result = "None" /\ result' = "Failed"
              \/ result = "None" /\ result' = "Success" /\ Accepted
<1>a. /\ ~Over => result = "None"
      /\ client.pc = "Dist" => Accepted
      /\ client.pc = "Eot" /\ AckInDown => Accepted
      /\ TypeOK
  BY DEF IInv, TypeInv, ClientInv, OverInv, DistInv, EotInv
<1>b. UNCHANGED rx
  BY Zenon DEF ClientNext, Attempt, GiveUp, GotReady, GotPacketAck, GotEotAck,
     AttemptFails,
     DeviceCancels, Ignored, StopBeforeReady, StopTransfer, StopAnswered, DistStops,
     DistStalls, DistAsks, DistHears, DistMisses, device
<1>c. CASE UNCHANGED live
  BY <1>b, <1>c DEF live
<1>1. CASE Attempt \/ GotReady \/ GotPacketAck \/ AttemptFails \/ Ignored
           \/ StopTransfer \/ DistAsks \/ DistMisses
  BY <1>1, <1>c DEF Attempt, GotReady, GotPacketAck, AttemptFails, Ignored,
     StopTransfer, DistAsks, DistMisses
<1>2. CASE GiveUp \/ DeviceCancels \/ StopBeforeReady \/ StopAnswered \/ DistStops
           \/ DistStalls
  <2>1. result' = "Failed"
    BY <1>2, Zenon DEF GiveUp, DeviceCancels, StopBeforeReady, StopAnswered,
       DistStops,
       DistStalls, Finish
  <2>2. ~Over
    BY <1>2 DEF GiveUp, DeviceCancels, StopBeforeReady, StopAnswered, DistStops,
       DistStalls, Sending, Waiting, At, Transfer, Over
  <2> QED
    BY <1>a, <1>b, <2>1, <2>2
<1>3. CASE GotEotAck
  <2>1. /\ client.pc = "Eot" /\ down # <<>> /\ Head(down).kind = "ACK" /\ Take
        /\ UNCHANGED live \/ result' = "Success"
    BY <1>3, Zenon DEF GotEotAck, Hears, Finish
  <2>2. Accepted
    BY <1>a, <2>1, TakingAck
  <2> QED
    BY <1>a, <1>b, <1>c, <2>1, <2>2 DEF Over
<1>4. CASE DistHears
  <2>1. /\ client.pc = "Dist"
        /\ UNCHANGED live \/ result' \in {"Success", "Failed"}
    BY <1>4 DEF DistHears, At, Finish
  <2> QED
    BY <1>a, <1>b, <1>c, <2>1 DEF Over
<1> QED
  BY <1>1, <1>2, <1>3, <1>4 DEF ClientNext

LEMMA StepSimulates ==
    ASSUME IInv, [Next]_vars
    PROVE  [T!Next]_(T!vars)
<1>a. /\ ImageInv /\ AirInv /\ TypeOK /\ Packets \in Nat \ {0} /\ Stored \in Nat
  BY UpgradeAssumption DEF IInv, TypeInv, TypeOK, Receivers, Stored
<1>b. ASSUME UNCHANGED <<rx.image, result>>, Accepted' = Accepted
      PROVE  UNCHANGED T!vars
  BY <1>b DEF T!vars
<1>c. Accepted \in BOOLEAN /\ Accepted' \in BOOLEAN
  BY DEF Accepted
<1>1. CASE ClientNext
  <2>1. UNCHANGED rx /\ (Accepted' = Accepted)
    BY <1>1, ClientTells DEF Accepted
  <2>2. \/ result' = result
        \/ result = "None" /\ result' = "Failed"
        \/ result = "None" /\ result' = "Success" /\ Accepted
    BY <1>1, ClientTells
  <2> QED
    BY <2>1, <2>2, <1>b DEF T!Next, T!Tell, T!vars
<1>2. CASE Receive
  <2>1. /\ Restarts \/ Stores \/ Accepts \/ Others
        /\ up # <<>> /\ UNCHANGED result
    BY <1>2, DeviceSteps
  <2>2. up[1].kind = Heard /\ up[1] = Head(up) /\ 1 \in DOMAIN up
    BY <1>a, <2>1 DEF Heard, TypeOK
  <2>3. CASE Restarts
    <3>1. rx.image = <<>> /\ rx'.image = <<>>
      BY <1>a, <2>2, <2>3 DEF Restarts, AirInv, StartsAreEarly
    <3>2. ~Accepted
      BY <1>a, <3>1 DEF ImageInv, AcceptedIsWhole, Stored
    <3>3. ~Accepted'
      BY <2>3, <3>2 DEF Restarts, Accepted
    <3> QED
      <4>1. Accepted' = Accepted
        BY <1>c, <3>2, <3>3
      <4> QED
        BY <1>b, <2>1, <3>1, <4>1
  <2>4. CASE Stores
    <3>1. Stored < Packets
      BY <1>a, <2>2, <2>4, Requested DEF Stores, TypeOK, Index
    <3>2. rx'.image = Append(rx.image, Len(rx.image)) /\ ~Accepted /\ ~Accepted'
      BY <2>4 DEF Stores, Accepted, Stored
    <3> QED
      BY <1>c, <2>1, <3>1, <3>2 DEF T!Next, T!Store, Stored
  <2>5. CASE Accepts
    <3>1. Stored = Packets
      BY <1>a, <2>2, <2>5 DEF Accepts, AirInv, EotIsLast
    <3> QED
      BY <1>c, <2>1, <2>5, <3>1 DEF Accepts, T!Next, T!Accept, Stored
  <2>6. CASE Others
    BY <1>b, <1>c, <2>1, <2>6 DEF Others
  <2> QED
    BY <2>1, <2>3, <2>4, <2>5, <2>6
<1>3. CASE CanProgress
  BY <1>3, <1>b DEF CanProgress, live, Accepted
<1>4. CASE PressStop
  BY <1>4, <1>b DEF PressStop, device, Accepted
<1>5. CASE Disconnect \/ PeerLost
  <2>1. LinkEnds /\ result' = result
    BY <1>5, Zenon DEF Disconnect, PeerLost, live
  <2>2. \E on \in BOOLEAN : rx' = [rx EXCEPT !.on = on]
    BY <2>1, Zenon DEF LinkEnds
  <2>3. rx'.image = rx.image /\ rx'.exit = rx.exit
    BY <1>a, <2>2 DEF TypeOK, Receivers
  <2> QED
    BY <1>b, <2>1, <2>3 DEF Accepted
<1>6. CASE Poll
  BY <1>6, <1>b DEF Poll, live, device, Accepted
<1>7. CASE UNCHANGED vars
  BY <1>7, <1>b DEF vars, live, device, Accepted
<1> QED
  BY <1>1, <1>2, <1>3, <1>4, <1>5, <1>6, <1>7 DEF Next

\* The transfer implements AbstractTransfer: the device's image only grows, by
\* the next packet of the file; it is accepted only when it is the whole file;
\* and a success is shown once, and only then.
THEOREM DeliversCorrect == Spec => Delivers
  <1>1. Init => T!Init
    <2> SUFFICES ASSUME Init PROVE T!Init
      OBVIOUS
    <2>1. rx.image = <<>> /\ rx.exit = "No" /\ result = "None"
      BY DEF Init
    <2> QED
      BY <2>1 DEF T!Init, Accepted
  <1>2. IInv /\ [Next]_vars => [T!Next]_(T!vars)
    BY StepSimulates
  <1> QED
    BY <1>1, <1>2, Invariance, PTL DEF Spec, Delivers, T!Spec

-----------------------------------------------------------------------------
(* What register 720 tells.                                                *)

\* A group that would be taken for a success is one: the image has been passed on.
Clean(g) == g.mine /\ g.pct = 100 /\ ~g.err => dist = "Done"
COrLater == (\E j \in DOMAIN down : down[j].kind = "C")
            \/ client.pc \in {"Packet", "Eot", "Dist"}

\* The device has cleared the register before it says "C"; no value of it is on
\* its way before the distribution is asked for; what has been passed on is past
\* the receiver, and stays passed on.
ExitInv    == (rx.exit = "Boot" => iot) /\ (rx.exit = "Can" => ~iot)
PassedOn   == dist # "None" => ~rx.on /\ rx.exit = "Can"
RegInv     == COrLater => Clean(reg)
NoneAsked  == client.pc \in Transfer => /\ \A j \in DOMAIN up : up[j].kind # "Read"
                                        /\ \A j \in DOMAIN down : down[j].kind # "Value"
ValuesInv  == client.pc = "Dist" =>
    /\ ~iot
    /\ \A j \in DOMAIN down : down[j].kind = "Value" => Clean(down[j].group)
SuccessInv == result = "Success" => Accepted /\ (~iot => dist = "Done")
RealInv    == ExitInv /\ PassedOn /\ RegInv /\ NoneAsked /\ ValuesInv /\ SuccessInv

\* The client hears nothing that was not on its way, and touches no device.
LEMMA NothingNew ==
    ASSUME TypeInv, ClientNext
    PROVE  /\ UNCHANGED <<iot, rx, reg, dist>>
           /\ \A j \in DOMAIN down' : \E k \in DOMAIN down : down'[j] = down[k]
<1>a. TypeOK
  BY DEF TypeInv
<1>b. UNCHANGED <<iot, device>>
  BY Zenon DEF ClientNext, Attempt, GiveUp, GotReady, GotPacketAck, GotEotAck,
     AttemptFails,
     DeviceCancels, Ignored, StopBeforeReady, StopTransfer, StopAnswered, DistStops,
     DistStalls, DistAsks, DistHears, DistMisses
<1>c. \A m \in Requests : ClearAndSend(m) =>
         \A j \in DOMAIN down' : \E k \in DOMAIN down : down'[j] = down[k]
  <2> SUFFICES ASSUME NEW m \in Requests, ClearAndSend(m)
               PROVE  \A j \in DOMAIN down' : \E k \in DOMAIN down : down'[j] = down[k]
    OBVIOUS
  <2>1. PICK n \in 0..Len(down) :
           \A j \in DOMAIN down' : j + n \in DOMAIN down /\ down'[j] = down[j + n]
    BY <1>a, Clears
  <2> QED
    BY <2>1
<1>d. down # <<>> /\ down' = Tail(down) =>
         \A j \in DOMAIN down' : \E k \in DOMAIN down : down'[j] = down[k]
  <2> SUFFICES ASSUME down # <<>>, down' = Tail(down)
               PROVE  \A j \in DOMAIN down' : \E k \in DOMAIN down : down'[j] = down[k]
    OBVIOUS
  <2>1. \A j \in DOMAIN down' : j + 1 \in DOMAIN down /\ down'[j] = down[j + 1]
    BY <1>a DEF TypeOK
  <2> QED
    BY <2>1
<1>1. CASE Attempt
  BY <1>1, <1>b, <1>c, MessageType DEF Attempt, Sending, device
<1>2. CASE StopTransfer \/ DistAsks
  <2>1. ClearAndSend(Msg("Etx")) \/ ClearAndSend(Msg("Read"))
    BY <1>2, Zenon DEF StopTransfer, DistAsks
  <2> QED
    BY <2>1, <1>b, <1>c, Requested DEF device
<1>3. CASE GotReady \/ GotPacketAck \/ GotEotAck \/ DeviceCancels \/ Ignored \/ DistHears
  <2>1. down # <<>> /\ Take
    BY <1>3, Zenon DEF GotReady, GotPacketAck, GotEotAck, DeviceCancels,
       Ignored, DistHears,
       Hears
  <2> QED
    BY <2>1, <1>b, <1>d DEF Take, device
<1>4. CASE AttemptFails \/ DistMisses \/ StopAnswered
  <2>1. down' = down \/ (down # <<>> /\ down' = Tail(down))
    BY <1>4 DEF AttemptFails, DistMisses, StopAnswered, Hears, Take, air
  <2> QED
    BY <2>1, <1>b, <1>d DEF device
<1>5. CASE GiveUp \/ StopBeforeReady \/ DistStops \/ DistStalls
  <2>1. down' = down
    BY <1>5, Zenon DEF GiveUp, StopBeforeReady, DistStops, DistStalls, air
  <2> QED
    BY <2>1, <1>b DEF device
<1> QED
  BY <1>1, <1>2, <1>3, <1>4, <1>5 DEF ClientNext

\* Where the client may go, what it asks meanwhile, and what it takes for a
\* success.
CWasHeard == \E j \in DOMAIN down : down[j].kind = "C"
Goes ==
    /\ client'.pc \in Transfer =>
         /\ client.pc \in Transfer
         /\ \A j \in DOMAIN up' : \/ \E k \in DOMAIN up : up'[j] = up[k]
                                  \/ up'[j].kind # "Read"
    /\ client'.pc \in {"Packet", "Eot", "Dist"} =>
         client.pc \in {"Packet", "Eot", "Dist"} \/ CWasHeard
    /\ client'.pc = "Dist" => client.pc = "Dist" \/ (client.pc = "Eot" /\ ~iot)
    /\ result' = "Success" => \/ result = "Success"
                              \/ client.pc = "Eot" /\ AckInDown /\ iot
                              \/ /\ client.pc = "Dist"
                                 /\ \E j \in DOMAIN down :
                                      LET g == down[j].group
                                      IN down[j].kind = "Value" /\ g.mine /\ ~g.err /\ g.pct = 100

LEMMA ClientGoes ==
    ASSUME IInv, ClientNext
    PROVE  Goes
<1>a. TypeInv /\ TypeOK /\ client \in Clients /\ down \in Seq(Replies) /\ up \in Seq(Requests)
  BY DEF IInv, TypeInv, TypeOK
<1>b. ASSUME client'.pc \in {"Etx", "End"}, result' = result \/ result' = "Failed"
      PROVE  Goes
  BY <1>b DEF Goes, Transfer
<1>c. ASSUME client.pc \in Transfer, client'.pc \in Transfer \cup {"Dist"}, result' = result,
             up' = up,
             client.pc = "Start" => client'.pc = "Start" \/ CWasHeard,
             client'.pc = "Dist" => client.pc = "Eot" /\ ~iot
      PROVE  Goes
  BY <1>c DEF Goes, Transfer
<1>d. ASSUME client.pc = "Dist", client'.pc = "Dist", result' = result
      PROVE  Goes
  BY <1>d DEF Goes, Transfer
<1>e. down # <<>> => Head(down) = down[1] /\ 1 \in DOMAIN down
  BY <1>a
<1>1. CASE Attempt
  <2>1. /\ Message \in Requests /\ client.pc \in Transfer /\ Send(Message)
        /\ result' = result
    BY <1>1, <1>a, MessageType DEF Attempt, Sending, ClearAndSend, live
  <2>2. client'.pc = client.pc
    BY <1>1, <1>a DEF Attempt, Clients
  <2>3. Message.kind # "Read"
    BY <1>a, <2>1, Requested DEF Message, Transfer, TypeInv, PacketInFile
  <2>4. up' = up \/ up' = Append(up, Message)
    BY <1>a, <2>1, Sends
  <2>5. \A j \in DOMAIN up' : (\E k \in DOMAIN up : up'[j] = up[k]) \/ up'[j].kind # "Read"
    <3>1. CASE up' = Append(up, Message)
      <4>1. \A j \in DOMAIN up' : \/ j \in DOMAIN up /\ up'[j] = up[j]
                                  \/ up'[j] = Message
        BY <1>a, <3>1
      <4> QED
        BY <2>3, <4>1
    <3> QED
      BY <2>4, <3>1
  <2> QED
    BY <2>1, <2>2, <2>5 DEF Goes, Transfer
<1>2. CASE GiveUp \/ DeviceCancels \/ DistStalls
  <2>1. Finish("Failed")
    BY <1>2, Zenon DEF GiveUp, DeviceCancels, DistStalls
  <2> QED
    BY <1>a, <1>b, <2>1, FinishType DEF Finish, Verdicts
<1>3. CASE StopBeforeReady \/ StopAnswered \/ DistStops
  <2>1. client'.pc = "End"
    BY <1>3, <1>a DEF StopBeforeReady, StopAnswered, DistStops, Clients
  <2>2. result' = "Failed"
    BY <1>3, Zenon DEF StopBeforeReady, StopAnswered, DistStops
  <2> QED
    BY <1>b, <2>1, <2>2
<1>4. CASE StopTransfer
  <2>1. client'.pc = "Etx" /\ result' = result
    BY <1>4, <1>a DEF StopTransfer, Clients, live
  <2> QED
    BY <1>b, <2>1
<1>5. CASE GotReady
  <2>1. /\ client.pc = "Start" /\ down # <<>> /\ Head(down).kind = "C" /\ Take
        /\ NextStep("Packet", 0) /\ result' = result
    BY <1>5 DEF GotReady, Hears, live
  <2>2. client'.pc = "Packet"
    BY <1>a, <2>1 DEF NextStep, Clients
  <2> QED
    BY <1>c, <1>e, <2>1, <2>2 DEF Take, CWasHeard, Transfer
<1>6. CASE GotPacketAck
  <2>1. client.pc = "Packet" /\ Take /\ result' = result
    BY <1>6 DEF GotPacketAck, live
  <2>2. client'.pc \in {"Packet", "Eot"}
    BY <1>6, <1>a DEF GotPacketAck, NextStep, Clients
  <2> QED
    BY <1>c, <2>1, <2>2 DEF Take, Transfer
<1>7. CASE GotEotAck
  <2>1. client.pc = "Eot" /\ down # <<>> /\ Head(down).kind = "ACK" /\ Take
    BY <1>7 DEF GotEotAck, Hears
  <2>2. CASE iot
    <3>1. client'.pc = "End" /\ client.pc = "Eot" /\ AckInDown
      BY <1>7, <1>a, <1>e, <2>1, <2>2, FinishType
      DEF GotEotAck, Verdicts, AckInDown
    <3> QED
      BY <2>2, <3>1 DEF Goes, Transfer
  <2>3. CASE ~iot
    <3>1. NextStep("Dist", client.index) /\ result' = result
      BY <1>7, <2>3 DEF GotEotAck, live
    <3>2. client'.pc = "Dist"
      BY <1>a, <3>1 DEF NextStep, Clients
    <3> QED
      BY <1>c, <2>1, <2>3, <3>1, <3>2 DEF Take, Transfer
  <2> QED
    BY <2>2, <2>3
<1>8. CASE AttemptFails
  <2>1. client.pc \in Transfer /\ result' = result /\ up' = up
    BY <1>8 DEF AttemptFails, Waiting, live, air, Take
  <2>2. client'.pc = client.pc
    BY <1>8, <1>a DEF AttemptFails, Clients
  <2> QED
    BY <1>c, <2>1, <2>2 DEF Transfer
<1>9. CASE Ignored
  <2>1. /\ client' = client /\ result' = result /\ up' = up
        /\ client.pc \in Transfer \cup {"Etx"}
    BY <1>9 DEF Ignored, Waiting, live, Take
  <2> QED
    BY <1>b, <1>c, <2>1 DEF Transfer
<1>10. CASE DistAsks \/ DistMisses
  <2>1. client.pc = "Dist" /\ result' = result
    BY <1>10 DEF DistAsks, DistMisses, At, live
  <2>2. client'.pc = "Dist"
    BY <1>10, <1>a, <2>1 DEF DistAsks, DistMisses, Clients
  <2> QED
    BY <1>d, <2>1, <2>2
<1>11. CASE DistHears
  <2> DEFINE g == Head(down).group
  <2>1. /\ client.pc = "Dist" /\ down # <<>> /\ Head(down).kind = "Value"
    BY <1>11 DEF DistHears, At, Hears
  <2>2. CASE g.mine /\ (g.err \/ g.pct = 100)
    <3>1. /\ g.err => Finish("Failed")
          /\ ~g.err => Finish("Success")
      BY <1>11, <2>2 DEF DistHears
    <3>2. client'.pc = "End"
      BY <1>a, <3>1, FinishType DEF Verdicts
    <3>3. result' = "Success" => ~g.err
      BY <3>1 DEF Finish
    <3> QED
      BY <1>e, <2>1, <2>2, <3>2, <3>3 DEF Goes, Transfer
  <2>3. CASE ~(g.mine /\ (g.err \/ g.pct = 100))
    <3>1. client' = [client EXCEPT !.waiting = FALSE] /\ result' = result
      BY <1>11, <2>3 DEF DistHears, live
    <3>2. client'.pc = "Dist"
      BY <1>a, <2>1, <3>1 DEF Clients
    <3> QED
      BY <1>d, <2>1, <3>1, <3>2
  <2> QED
    BY <2>2, <2>3
<1> QED
  BY <1>1, <1>2, <1>3, <1>4, <1>5, <1>6, <1>7, <1>8, <1>9, <1>10, <1>11
  DEF ClientNext

LEMMA RealClient ==
    ASSUME IInv, RealInv, ClientNext
    PROVE  RealInv'
<1>1. /\ UNCHANGED <<iot, rx, reg, dist>>
      /\ \A j \in DOMAIN down' : \E k \in DOMAIN down : down'[j] = down[k]
      /\ Goes
  BY NothingNew, ClientGoes DEF IInv
<1>2. ExitInv' /\ PassedOn'
  BY <1>1 DEF RealInv, ExitInv, PassedOn
<1>3. RegInv'
  BY <1>1 DEF RealInv, RegInv, COrLater, CWasHeard, Goes, Clean
<1>4. NoneAsked'
  BY <1>1 DEF RealInv, NoneAsked, Goes
<1>5. ValuesInv'
  BY <1>1 DEF RealInv, ValuesInv, NoneAsked, Goes, Clean, Transfer
<1>6. SuccessInv'
  <2> SUFFICES ASSUME result' = "Success"
               PROVE  Accepted /\ (~iot => dist = "Done")
    BY <1>1 DEF SuccessInv, Accepted
  <2>1. CASE result = "Success"
    BY <2>1 DEF RealInv, SuccessInv
  <2>2. CASE client.pc = "Eot" /\ AckInDown /\ iot
    BY <2>2 DEF IInv, ClientInv, EotInv
  <2>3. CASE /\ client.pc = "Dist"
             /\ \E j \in DOMAIN down :
                  LET g == down[j].group
                  IN down[j].kind = "Value" /\ g.mine /\ ~g.err /\ g.pct = 100
    BY <2>3 DEF IInv, ClientInv, DistInv, RealInv, ValuesInv, Clean
  <2> QED
    BY <1>1, <2>1, <2>2, <2>3 DEF Goes
<1> QED
  BY <1>2, <1>3, <1>4, <1>5, <1>6 DEF RealInv

\* What the device says and does about it.
News(m) == \/ \E k \in DOMAIN down : m = down[k]
           \/ m.kind = "C" /\ Heard = "Start"
           \/ m = Value(reg) /\ m.kind = "Value" /\ Heard = "Read"
           \/ m.kind \in {"ACK", "NAK", "CAN"}
Says ==
    /\ \A j \in DOMAIN down' : News(down'[j])
    /\ Heard = "Start" => reg' = Cleared
    /\ reg' \in {reg, Cleared, Group(TRUE, 0, TRUE)}
    /\ dist' = dist \/ (dist' \in {"Running", "Failed"} /\ rx.on)
    /\ dist' # dist => ~rx'.on /\ rx'.exit = "Can"
    /\ \/ rx'.exit = rx.exit
       \/ rx'.exit = "No" /\ Heard = "Start"
       \/ rx.exit = "No" /\ rx'.exit \in {"Plain", IF iot THEN "Boot" ELSE "Can"}
    /\ rx'.on => rx.on \/ Heard = "Start"

LEMMA DeviceSays ==
    ASSUME TypeInv, Receive
    PROVE  Says
<1>a. TypeOK /\ rx \in Receivers /\ down \in Seq(Replies)
  BY DEF TypeInv, TypeOK
<1>b. up # <<>>
  BY Zenon DEF Receive, ReceiveStart, ReceivePacket, ReceiveEot, ReceiveEtx,
               ReceiveRead, ReceiveIdle, Leave, Received
<1>c. ASSUME NEW value \in {<<>>, <<Value(reg)>>}, NEW rest \in Seq(Replies),
             Answer(value) \/ Answer(value \o rest),
             value # <<>> => Heard = "Read",
             \A j \in DOMAIN rest : \/ rest[j].kind \in {"ACK", "NAK", "CAN"}
                                    \/ rest[j].kind = "C" /\ Heard = "Start"
      PROVE  \A j \in DOMAIN down' : News(down'[j])
  <2>1. value \in Seq(Replies) /\ value \o rest \in Seq(Replies)
    <3>1. value \in Seq(Replies)
      BY <1>a, AnswerType
    <3> QED
      BY <3>1
  <2>2. down' = down \/ down' = down \o value \/ down' = down \o (value \o rest)
    BY <1>a, <1>b, <1>c, <2>1, Answers
  <2>3. \A j \in DOMAIN value : value[j] = Value(reg) /\ Heard = "Read"
    <3>1. CASE value = <<>>
      BY <3>1
    <3>2. CASE value = <<Value(reg)>>
      BY <1>c, <3>2
    <3> QED
      BY <3>1, <3>2
  <2>4. \A j \in DOMAIN (value \o rest) :
           (\E k \in DOMAIN value : (value \o rest)[j] = value[k])
           \/ \E k \in DOMAIN rest : (value \o rest)[j] = rest[k]
    <3>1. \A j \in DOMAIN (value \o rest) :
             \/ j \in DOMAIN value /\ (value \o rest)[j] = value[j]
             \/ /\ j - Len(value) \in DOMAIN rest
                /\ (value \o rest)[j] = rest[j - Len(value)]
      BY <2>1
    <3> QED
      BY <3>1
  <2>5. ASSUME NEW said \in Seq(Replies), down' = down \o said
        PROVE  \A j \in DOMAIN down' : (\E k \in DOMAIN down : down'[j] = down[k])
                                       \/ \E k \in DOMAIN said : down'[j] = said[k]
    <3>1. \A j \in DOMAIN down' :
             \/ j \in DOMAIN down /\ down'[j] = down[j]
             \/ j - Len(down) \in DOMAIN said /\ down'[j] = said[j - Len(down)]
      BY <1>a, <2>5
    <3> QED
      BY <3>1
  <2>6. Value(reg).kind = "Value"
    BY <1>a, Replied DEF TypeOK
  <2>7. CASE down' = down
    BY <2>7 DEF News
  <2>8. CASE down' = down \o value
    BY <2>1, <2>3, <2>5, <2>6, <2>8 DEF News
  <2>9. CASE down' = down \o (value \o rest)
    BY <1>c, <2>1, <2>3, <2>4, <2>5, <2>6, <2>9 DEF News
  <2> QED
    BY <2>2, <2>7, <2>8, <2>9
<1>d. ASSUME NEW k \in {"C", "ACK", "NAK", "CAN"}, Answer(<<Msg(k)>>) \/ Answer(<<>>),
             k = "C" => Heard = "Start"
      PROVE  \A j \in DOMAIN down' : News(down'[j])
  <2>1. <<Msg(k)>> \in Seq(Replies) /\ Msg(k).kind = k
    BY <1>a, AnswerType, Replied
  <2>2. \A j \in DOMAIN <<Msg(k)>> : <<Msg(k)>>[j].kind = k
    BY <2>1
  <2>3. <<>> \o <<Msg(k)>> = <<Msg(k)>>
    BY <2>1
  <2> QED
    BY <1>c, <1>d, <2>1, <2>2, <2>3
<1>1. CASE ReceiveStart
  <2>1. Heard = "Start" /\ reg' = Cleared /\ dist' = dist
    BY <1>1 DEF ReceiveStart, Received, Heard
  <2>2. /\ Answer(<<Msg("C")>>) \/ Answer(<<>>)
        /\ rx' = rx \/ \E on \in BOOLEAN :
               rx' = [on |-> on, step |-> 0, image |-> <<>>, exit |-> "No"]
    BY <1>1, Zenon DEF ReceiveStart
  <2>3. rx'.exit \in {"No", rx.exit}
    BY <2>2
  <2> QED
    BY <1>d, <2>1, <2>2, <2>3 DEF Says
<1>2. CASE ReceivePacket
  <2>1. /\ Answer(<<Msg("ACK")>>) \/ Answer(<<Msg("NAK")>>)
        /\ reg' = reg /\ dist' = dist /\ Heard = "Packet"
    BY <1>2, Zenon DEF ReceivePacket, Received, Heard
  <2>2. rx'.on = rx.on /\ rx'.exit = rx.exit
    BY <1>2, <1>a DEF ReceivePacket, Receivers
  <2> QED
    BY <1>d, <2>1, <2>2 DEF Says
<1>3. CASE ReceiveEot
  <2>1. /\ Answer(<<Msg("ACK")>>) \/ Answer(<<Msg("CAN")>>)
        /\ reg' = reg /\ dist' = dist /\ Heard = "Eot"
    BY <1>3, Zenon DEF ReceiveEot, Received, Heard
  <2>2. /\ rx'.on = rx.on /\ rx.exit = "No"
        /\ rx'.exit \in {"Plain", IF iot THEN "Boot" ELSE "Can"}
    BY <1>3, <1>a DEF ReceiveEot, InXmodem, Receivers
  <2> QED
    BY <1>d, <2>1, <2>2 DEF Says
<1>4. CASE ReceiveEtx
  <2>1. /\ Answer(<<>>) \/ \E k \in {"ACK", "CAN"} : Answer(<<Msg(k)>>)
        /\ reg' = reg /\ dist' = dist /\ Heard = "Etx"
    BY <1>4, Zenon DEF ReceiveEtx, Received, Heard
  <2>2. rx'.on = rx.on /\ rx.exit = "No" /\ rx'.exit \in {"Plain", "No"}
    BY <1>4, <1>a DEF ReceiveEtx, InXmodem, Receivers
  <2> QED
    BY <1>d, <2>1, <2>2 DEF Says
<1>5. CASE ReceiveRead
  <2>1. /\ Heard = "Read" /\ rx' = [rx EXCEPT !.step = 1]
        /\ Answer(<<Value(reg), Msg("NAK")>>) /\ reg' = reg /\ dist' = dist
    BY <1>5 DEF ReceiveRead, Received, Heard
  <2>2. /\ <<Value(reg), Msg("NAK")>> = <<Value(reg)>> \o <<Msg("NAK")>>
        /\ <<Msg("NAK")>> \in Seq(Replies)
        /\ \A j \in DOMAIN <<Msg("NAK")>> : <<Msg("NAK")>>[j].kind = "NAK"
    BY <1>a, AnswerType, Replied
  <2>3. \A j \in DOMAIN down' : News(down'[j])
    <3> DEFINE value == <<Value(reg)>>
               rest  == <<Msg("NAK")>>
    <3>1. value \in {<<>>, <<Value(reg)>>} /\ Answer(value \o rest)
      BY <2>1, <2>2
    <3> HIDE DEF value
    <3> QED
      BY <1>c, <2>1, <2>2, <3>1
  <2>4. rx'.on = rx.on /\ rx'.exit = rx.exit
    BY <1>a, <2>1 DEF Receivers
  <2> QED
    BY <2>1, <2>3, <2>4 DEF Says
<1>6. CASE ReceiveIdle
  <2>1. /\ \E k \in {"Packet", "Eot", "Etx", "Read"} : Heard = k
        /\ UNCHANGED <<rx, reg, dist>>
        /\ (Heard = "Read" /\ Answer(<<Value(reg)>>)) \/ Answer(<<>>)
    BY <1>6 DEF ReceiveIdle, Received, Heard, device
  <2>2. \A j \in DOMAIN down' : News(down'[j])
    <3>1. <<>> \in Seq(Replies) /\ \A j \in DOMAIN <<>> : FALSE
      BY <1>a, AnswerType
    <3>2. \E value \in {<<>>, <<Value(reg)>>} :
             Answer(value) /\ (value # <<>> => Heard = "Read")
      BY <2>1
    <3> QED
      BY <1>c, <3>1, <3>2
  <2> QED
    BY <2>1, <2>2 DEF Says
<1>7. CASE Leave
  <2>1. /\ \E k \in {"Packet", "Eot", "Etx", "Read"} : Heard = k
        /\ rx.on /\ rx' = [rx EXCEPT !.on = FALSE]
        /\ \/ UNCHANGED <<reg, dist>>
           \/ rx.exit = "Can" /\ dist' = "Running" /\ UNCHANGED reg
           \/ rx.exit = "Can" /\ dist' = "Failed" /\ reg' = Group(TRUE, 0, TRUE)
    BY <1>7, Zenon DEF Leave, Received, Heard
  <2>2. \E value \in {<<>>, <<Value(reg)>>} :
           /\ value # <<>> => Heard = "Read"
           /\ Answer(value) \/ Answer(value \o <<Msg("CAN")>>)
    <3> DEFINE value == IF Head(up).kind = "Read" THEN <<Value(reg)>> ELSE <<>>
    <3>1. Answer(value) \/ Answer(value \o <<Msg("CAN")>>)
      BY <1>7, Zenon DEF Leave
    <3>2. value \in {<<>>, <<Value(reg)>>} /\ (value # <<>> => Heard = "Read")
      BY DEF Heard
    <3> QED
      BY <3>1, <3>2
  <2>3. \A j \in DOMAIN down' : News(down'[j])
    <3>1. /\ <<Msg("CAN")>> \in Seq(Replies)
          /\ \A j \in DOMAIN <<Msg("CAN")>> : <<Msg("CAN")>>[j].kind = "CAN"
      BY <1>a, AnswerType, Replied
    <3> QED
      BY <1>c, <2>2, <3>1
  <2>4. ~rx'.on /\ rx'.exit = rx.exit
    <3>1. \E on \in BOOLEAN : ~on /\ rx' = [rx EXCEPT !.on = on]
      BY <2>1
    <3> QED
      BY <1>a, <3>1 DEF Receivers
  <2> QED
    BY <2>1, <2>3, <2>4 DEF Says
<1> QED
  BY <1>1, <1>2, <1>3, <1>4, <1>5, <1>6, <1>7 DEF Receive

LEMMA RealReceive ==
    ASSUME IInv, RealInv, Receive
    PROVE  RealInv'
<1>a. /\ Says /\ TypeOK /\ UNCHANGED <<iot, client, result>>
      /\ reg \in Groups /\ up # <<>> /\ dist \in {"None", "Running", "Done", "Failed"}
  <2>1. UNCHANGED iot
    BY Zenon DEF Receive, ReceiveStart, ReceivePacket, ReceiveEot, ReceiveEtx,
                 ReceiveRead, ReceiveIdle, Leave, Received
  <2> QED
    BY <2>1, DeviceSays, DeviceSteps DEF IInv, TypeInv, TypeOK
<1>b. /\ 1 \in DOMAIN up /\ up[1].kind = Heard
      /\ \A j \in DOMAIN up' : j + 1 \in DOMAIN up /\ up'[j] = up[j + 1]
  <2>1. up \in Seq(Requests)
    BY <1>a DEF TypeOK
  <2>2. up' = Tail(up)
    BY Zenon DEF Receive, ReceiveStart, ReceivePacket, ReceiveEot, ReceiveEtx,
                 ReceiveRead, ReceiveIdle, Leave, Answer
  <2> QED
    BY <1>a, <2>1, <2>2 DEF Heard
\* A request to start comes before anything has been stored.
<1>c. Heard = "Start" => rx.exit \notin {"Boot", "Can"} /\ dist = "None"
  <2> SUFFICES ASSUME Heard = "Start"
               PROVE  rx.exit \notin {"Boot", "Can"} /\ dist = "None"
    OBVIOUS
  <2>1. Stored = 0
    BY <1>b DEF IInv, AirInv, StartsAreEarly, Stored
  <2>2. rx.exit \notin {"Boot", "Can"}
    BY <2>1, UpgradeAssumption DEF IInv, ImageInv, AcceptedIsWhole, Accepted
  <2> QED
    BY <2>2 DEF RealInv, PassedOn
<1>d. dist = "Done" => dist' = "Done"
  BY <1>a DEF Says, RealInv, PassedOn
<1>e. \A g : Clean(g) => Clean(g)'
  BY <1>d DEF Clean
<1>f. Clean(reg) => Clean(reg)'
  BY <1>a, <1>d DEF Says, Clean, Cleared, Group
<1>g. Heard = "Start" => Clean(reg)'
  BY <1>a DEF Says, Clean, Cleared, Group
<1>1. ExitInv'
  BY <1>a DEF Says, RealInv, ExitInv
<1>2. PassedOn'
  BY <1>a, <1>c DEF Says, RealInv, PassedOn
<1>3. RegInv'
  <2> SUFFICES ASSUME COrLater'
               PROVE  Clean(reg)'
    BY DEF RegInv
  <2>1. COrLater \/ Heard = "Start"
    <3>1. ASSUME NEW j \in DOMAIN down', down'[j].kind = "C"
          PROVE  (\E k \in DOMAIN down : down[k].kind = "C") \/ Heard = "Start"
      BY <1>a, <3>1 DEF Says, News
    <3> QED
      BY <1>a, <3>1 DEF COrLater
  <2> QED
    BY <1>f, <1>g, <2>1 DEF RealInv, RegInv
<1>4. NoneAsked'
  <2> SUFFICES ASSUME client.pc \in Transfer
               PROVE  /\ \A j \in DOMAIN up' : up'[j].kind # "Read"
                      /\ \A j \in DOMAIN down' : down'[j].kind # "Value"
    BY <1>a DEF NoneAsked
  <2>1. Heard # "Read" /\ \A j \in DOMAIN up' : up'[j].kind # "Read"
    BY <1>b DEF RealInv, NoneAsked
  <2>2. \A j \in DOMAIN down' : down'[j].kind # "Value"
    BY <1>a, <2>1 DEF Says, News, RealInv, NoneAsked
  <2> QED
    BY <2>1, <2>2
<1>5. ValuesInv'
  <2> SUFFICES ASSUME client.pc = "Dist",
                      NEW j \in DOMAIN down', down'[j].kind = "Value"
               PROVE  LET g == down'[j].group
                      IN g.mine /\ g.pct = 100 /\ ~g.err => dist' = "Done"
    <3>1. client.pc = "Dist" => ~iot
      BY DEF RealInv, ValuesInv
    <3> QED
      BY <1>a, <3>1 DEF ValuesInv, Clean
  <2>1. \/ \E k \in DOMAIN down : down'[j] = down[k]
        \/ down'[j] = Value(reg)
    BY <1>a DEF Says, News
  <2>2. Value(reg).group = reg
    BY DEF Value
  <2>3. Clean(reg)
    BY DEF RealInv, RegInv, COrLater
  <2>4. Clean(down'[j].group)
    BY <2>1, <2>2, <2>3 DEF RealInv, ValuesInv
  <2> QED
    BY <1>d, <2>4 DEF Clean
<1>6. SuccessInv'
  <2> SUFFICES ASSUME result = "Success"
               PROVE  Accepted' /\ (~iot => dist' = "Done")
    BY <1>a DEF SuccessInv
  <2>1. Accepted /\ (~iot => dist = "Done")
    BY DEF RealInv, SuccessInv
  <2>2. rx'.exit = rx.exit
    BY <1>a, <1>c, <2>1 DEF Says, Accepted
  <2> QED
    BY <1>d, <2>1, <2>2 DEF Accepted
<1> QED
  BY <1>1, <1>2, <1>3, <1>4, <1>5, <1>6 DEF RealInv

LEMMA RealNext ==
    ASSUME IInv, RealInv, [Next]_vars
    PROVE  RealInv'
<1>a. TypeOK /\ rx \in Receivers
  BY DEF IInv, TypeInv, TypeOK
<1>b. ASSUME UNCHANGED <<iot, client, result, up, down, rx, reg, dist>>
      PROVE  RealInv'
  BY <1>b DEF RealInv, ExitInv, PassedOn, RegInv, COrLater, Clean, NoneAsked,
     ValuesInv,
              SuccessInv, Accepted
<1>1. CASE ClientNext
  BY <1>1, RealClient
<1>2. CASE Receive
  BY <1>2, RealReceive
<1>3. CASE CanProgress
  <2>1. /\ UNCHANGED <<iot, client, result, up, down, rx>>
        /\ dist = "Running" /\ dist' \in {"Running", "Done", "Failed"}
        /\ dist' = "Done" \/ \E err \in BOOLEAN : reg' = Group(TRUE, 50, err)
    BY <1>3 DEF CanProgress, live, air
  <2>2. Clean(reg)'
    BY <2>1 DEF Clean, Group
  <2> QED
    BY <2>1, <2>2
    DEF RealInv, ExitInv, PassedOn, RegInv, COrLater, Clean, NoneAsked, ValuesInv,
        SuccessInv, Accepted
<1>4. CASE PressStop
  BY <1>4, <1>b DEF PressStop, air, device
<1>5. CASE Disconnect \/ PeerLost
  <2>1. /\ up' = <<>> /\ down' = <<>> /\ UNCHANGED <<iot, reg, dist, result>>
        /\ client' = client \/ client'.pc = "Aborted"
    BY <1>5, <1>a DEF Disconnect, PeerLost, LinkEnds, live, TypeOK, Clients
  <2>2. rx'.exit = rx.exit /\ ~rx'.on
    <3>1. \E on \in BOOLEAN : ~on /\ rx' = [rx EXCEPT !.on = on]
      BY <1>5 DEF Disconnect, PeerLost, LinkEnds
    <3> QED
      BY <1>a, <3>1 DEF Receivers
  <2>3. (COrLater' => COrLater) /\ (client'.pc = "Dist" => client.pc = "Dist")
    BY <2>1 DEF COrLater
  <2> QED
    BY <2>1, <2>2, <2>3
    DEF RealInv, ExitInv, PassedOn, RegInv, Clean, NoneAsked, ValuesInv, SuccessInv, Accepted
<1>6. CASE Poll
  <2>1. /\ down' = <<>> /\ UNCHANGED <<iot, client, result, rx, reg, dist>>
        /\ client.pc \in {"End", "Aborted"}
    BY <1>6 DEF Poll, Over, live, device
  <2> QED
    BY <2>1
    DEF RealInv, ExitInv, PassedOn, RegInv, COrLater, Clean, NoneAsked, ValuesInv,
        SuccessInv, Accepted, Transfer
<1>7. CASE UNCHANGED vars
  BY <1>7, <1>b DEF vars, live, air, device
<1> QED
  BY <1>1, <1>2, <1>3, <1>4, <1>5, <1>6, <1>7 DEF Next

LEMMA RealInit == Init => RealInv
  <1> SUFFICES ASSUME Init PROVE RealInv
    OBVIOUS
  <1>1. /\ up = <<>> /\ down = <<>> /\ rx.exit = "No" /\ client.pc = "Start"
        /\ dist = "None" /\ result = "None"
    BY DEF Init
  <1> QED
    BY <1>1 DEF RealInv, ExitInv, PassedOn, RegInv, COrLater, NoneAsked,
       ValuesInv, SuccessInv

\* A success that is shown has put the whole image into the device, and the
\* device restarts with it or has passed it on: no late acknowledgement and
\* nothing an earlier upgrade has left in register 720 passes for that.
THEOREM SuccessCorrect == Spec => []SuccessIsReal
  <1>1. IInv /\ RealInv => SuccessIsReal
    <2> SUFFICES ASSUME IInv, RealInv, result = "Success"
                 PROVE  /\ rx.image = Whole
                        /\ IF iot THEN rx.exit = "Boot" ELSE dist = "Done"
      BY DEF SuccessIsReal
    <2>1. Accepted /\ (~iot => dist = "Done") /\ (rx.exit = "Can" => ~iot) /\ iot \in BOOLEAN
      BY DEF RealInv, SuccessInv, ExitInv, IInv, TypeInv, TypeOK
    <2>2. IF iot THEN rx.exit = "Boot" ELSE dist = "Done"
      BY <2>1 DEF Accepted
    <2>3. /\ rx.image \in Seq(Index) /\ Len(rx.image) = Packets
          /\ \A k \in 1..Packets : rx.image[k] = k - 1
      BY <2>1 DEF IInv, TypeInv, TypeOK, Receivers, ImageInv, ImageIsPrefix,
         AcceptedIsWhole,
                  Stored
    <2>4. rx.image = Whole
      BY <2>3, UpgradeAssumption DEF Whole
    <2> QED
      BY <2>2, <2>4
  <1>2. Spec => []RealInv
    <2>1. IInv /\ RealInv /\ [Next]_vars => RealInv'
      BY RealNext
    <2> QED
      BY <2>1, RealInit, Invariance, PTL DEF Spec
  <1> QED
    BY <1>1, <1>2, Invariance, PTL

-----------------------------------------------------------------------------
(* The distribution, and a stop in it.                                     *)

AfterInv == client.abort = "AfterXmodem" => Over /\ Accepted

\* A receiver that has accepted the file has nothing more to do but leave: the
\* requests to start are all behind it.
LEMMA StaysAccepted ==
    ASSUME IInv, Receive, Accepted
    PROVE  Accepted' /\ client' = client
  <1>1. /\ Restarts \/ Stores \/ Accepts \/ Others
        /\ up # <<>> /\ client' = client
    BY DeviceSteps
  <1>2. rx.image # <<>>
    <2>1. Len(rx.image) # 0
      BY UpgradeAssumption DEF IInv, ImageInv, AcceptedIsWhole, Stored
    <2> QED
      BY <2>1
  <1>3. ~Restarts
    <2>1. up \in Seq(Requests)
      BY DEF IInv, TypeInv, TypeOK
    <2>2. Head(up) = up[1] /\ 1 \in DOMAIN up
      BY <1>1, <2>1
    <2> QED
      BY <1>2, <2>2 DEF Restarts, Heard, IInv, AirInv, StartsAreEarly
  <1> QED
    BY <1>1, <1>3 DEF Stores, Accepts, Others, Accepted

\* The client stops there only from the distribution, and does no more then.
LEMMA AfterClient ==
    ASSUME IInv, AfterInv, ClientNext
    PROVE  AfterInv'
<1>a. client \in Clients /\ DistInv
  BY DEF IInv, TypeInv, TypeOK, ClientInv
<1>1. CASE DistStops
  <2>1. client'.pc = "End" /\ client.pc = "Dist" /\ rx' = rx
    BY <1>1, <1>a DEF DistStops, At, Clients, device
  <2> QED
    BY <1>a, <2>1 DEF AfterInv, DistInv, Over, Accepted
<1>2. CASE ~DistStops
  <2>1. ~Over
    BY <1>2 DEF ClientNext, Attempt, GiveUp, GotReady, GotPacketAck, GotEotAck,
       AttemptFails, DeviceCancels, Ignored, StopBeforeReady, StopTransfer,
       StopAnswered, DistStalls, DistAsks, DistHears, DistMisses, Sending,
       Waiting, At, Over, Transfer
  <2>2. client.abort # "AfterXmodem"
    BY <2>1 DEF AfterInv
  <2>3. client'.abort \in {client.abort, "AwaitingReady", "Xmodem"}
    BY <1>2, <1>a DEF ClientNext, Attempt, GiveUp, GotReady, GotPacketAck,
       GotEotAck, AttemptFails, DeviceCancels, Ignored, StopBeforeReady,
       StopTransfer, StopAnswered, DistStalls, DistAsks, DistHears, DistMisses,
       Finish, NextStep, Clients
  <2> QED
    BY <2>2, <2>3 DEF AfterInv
<1> QED
  BY <1>1, <1>2

LEMMA AfterNext ==
    ASSUME IInv, AfterInv, [Next]_vars
    PROVE  AfterInv'
<1>a. rx \in Receivers /\ client \in Clients
  BY DEF IInv, TypeInv, TypeOK
<1>b. ASSUME UNCHANGED <<client, rx>>
      PROVE  AfterInv'
  BY <1>b DEF AfterInv, Over, Accepted
<1>1. CASE ClientNext
  BY <1>1, AfterClient
<1>2. CASE Receive
  <2>1. client' = client
    BY <1>2, DeviceSteps
  <2> QED
    BY <1>2, <2>1, StaysAccepted DEF AfterInv, Over
<1>3. CASE CanProgress
  BY <1>3, <1>b DEF CanProgress
<1>4. CASE PressStop
  BY <1>4, <1>b DEF PressStop, device
<1>5. CASE Disconnect \/ PeerLost
  <2>1. \E on \in BOOLEAN : rx' = [rx EXCEPT !.on = on]
    BY <1>5, Zenon DEF Disconnect, PeerLost, LinkEnds
  <2>2. rx'.exit = rx.exit
    BY <1>a, <2>1 DEF Receivers
  <2>3. client'.abort = client.abort /\ (Over => client' = client)
    BY <1>5, <1>a DEF Disconnect, PeerLost, Clients
  <2> QED
    BY <2>2, <2>3 DEF AfterInv, Over, Accepted
<1>6. CASE Poll
  BY <1>6, <1>b DEF Poll, device
<1>7. CASE UNCHANGED vars
  BY <1>7, <1>b DEF vars, device
<1> QED
  BY <1>1, <1>2, <1>3, <1>4, <1>5, <1>6, <1>7 DEF Next

\* What the client has counted is stored, and the distribution is waited for, and
\* a stop in it keeps the link, only when the receiver has taken the end mark:
\* for a file of any length, however many messages are lost, late or sent again.
THEOREM AcksCorrect == Spec => []AcksAreReal
  <1>1. Init => AfterInv
    BY DEF Init, AfterInv
  <1>2. IInv /\ AfterInv /\ [Next]_vars => AfterInv'
    BY AfterNext
  <1>3. IInv /\ AfterInv => ReceiverIsDone
    BY DEF IInv, ClientInv, DistInv, AfterInv, ReceiverIsDone, InXmodem, Accepted
  <1>4. Spec => []ReceiverIsDone
    BY <1>1, <1>2, <1>3, Invariance, PTL DEF Spec
  <1> QED
    BY <1>4, CountedCorrect, PTL DEF AcksAreReal
=============================================================================
