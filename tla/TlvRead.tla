------------------------------ MODULE TlvRead ------------------------------
(***************************************************************************)
(* A combined read (modbus_tlv_read): one request names all registers of a *)
(* page, and the device answers with several packets, each numbered "i of  *)
(* n" and encrypted for itself.  A long packet takes two notifications,    *)
(* which the client puts together again (ModbusRxAssembler), and the       *)
(* packets are put together in turn (TlvPacketCollector).                  *)
(*                                                                         *)
(* Requests and notifications may be lost, and an answer may come after    *)
(* its read has given up, in the middle of the next.  Nothing in a packet  *)
(* says which request it answers.                                          *)
(*                                                                         *)
(* Lengths are counted in words of two bytes, and positions in the stream  *)
(* of notifications in chunks: how many bytes of a chunk are left when a   *)
(* packet ends within it is left open.                                     *)
(***************************************************************************)
EXTENDS Naturals, Sequences, FiniteSets, SequencesExt

CONSTANTS
    Pages,          \* the lists of registers that are read
    Layouts,        \* for each page, the words its registers take
    HeaderLen,      \* MODBUS_TL_LEN: register address and length
    Room,           \* MODBUS_TLV_DATA_LEN_MAX: words of a packet
    MaxClaim,       \* chunks a length field may claim
    MaxLost,        \* bounds of the model: chunks and requests lost,
    MaxLate         \* reads begun or given up with something under way

ASSUME TlvReadAssumption ==
    /\ Pages # {} /\ Layouts \subseteq [Pages -> Seq(Nat) \ {<<>>}]
    /\ HeaderLen \in Nat \ {0} /\ Room \in Nat /\ HeaderLen <= Room
    /\ MaxClaim \in Nat \ {0} /\ MaxLost \in Nat /\ MaxLate \in Nat

VARIABLES
    layout,         \* how long the registers of each page are
    up, air,        \* requests on their way, notifications on their way
    buffer,         \* ModbusRxAssembler.buffer, in chunks
    need,           \* chunks its first packet takes, 0 if not yet looked at
    parsing,        \* push_encrypted is in its loop, under the protocol lock
    responses,      \* decoded packets
    read,           \* the read under way, or the last one
    lost, late      \* what the bounds have been used up for

client == <<buffer, need, parsing, responses, read>>
vars   == <<layout, up, air, client, lost, late>>

-----------------------------------------------------------------------------
(* The device: what a page looks like, and how it is cut into packets.     *)

\* A word of register r, which is n words long: of its header, or its k-th.
Word(r, n, k) == [reg |-> r, len |-> n, at |-> k]
Header(r, n)  == [k \in 1..HeaderLen |-> Word(r, n, 0)]

\* framing_and_send: a header is not divided, the words of a value are.
Blocks(lens) ==
    FlattenSeq([r \in DOMAIN lens |->
                  <<Header(r, lens[r])>> \o
                  [k \in 1..lens[r] |-> <<Word(r, lens[r], k)>>]])

Put(frames, block) ==
    LET last == frames[Len(frames)]
    IN IF Len(last) + Len(block) > Room
       THEN Append(frames, block)
       ELSE [frames EXCEPT ![Len(frames)] = last \o block]

Cut(lens) ==
    LET blocks == Blocks(lens)
        frames[k \in 0..Len(blocks)] ==
            IF k = 0 THEN <<<<>>>> ELSE Put(frames[k - 1], blocks[k])
    IN frames[Len(blocks)]

\* calc_total_index counts the packets beforehand, from the lengths alone.
Fill(used, total, len) ==
    LET fill[s \in [left : Nat, used : Nat, total : Nat]] ==
            LET free == Room - s.used
            IN IF s.left > free
               THEN fill[[left |-> s.left - free, used |-> 0, total |-> s.total + 1]]
               ELSE [used |-> s.used + s.left, total |-> s.total]
    IN fill[[left |-> len, used |-> used, total |-> total]]

Count(lens) ==
    LET sum[k \in 0..Len(lens)] ==
            IF k = 0 THEN [used |-> 0, total |-> 0]
            ELSE IF sum[k - 1].used > Room - HeaderLen
            THEN Fill(HeaderLen, sum[k - 1].total + 1, lens[k])
            ELSE Fill(sum[k - 1].used + HeaderLen, sum[k - 1].total, lens[k])
        all == sum[Len(lens)]
    IN IF all.used > 0 \/ all.total = 0 THEN all.total + 1 ELSE all.total

Shapes   == UNION {{l[p] : p \in Pages} : l \in Layouts}
FramesOf == [lens \in Shapes |-> Cut(lens)]
TotalOf  == [lens \in Shapes |-> Count(lens)]

Frames(page) == FramesOf[layout[page]]
Total(page)  == TotalOf[layout[page]]

\* A full packet is longer than a notification.  Packet 0 stands for the
\* answer to the write as such.
Parts(page, index) ==
    IF index > 0 /\ Len(Frames(page)[index]) = Room THEN 2 ELSE 1

Chunk(page, index, part) == [page |-> page, index |-> index, part |-> part]
Chunks(page, index) ==
    [k \in 1..Parts(page, index) |-> Chunk(page, index, k)]
\* What a packet that ends within a chunk has left of it.
Rest == [part |-> 0]

\* Mutant: the packets are numbered from 2.
AnswerFrom2(page) ==
    FlattenSeq([i \in DOMAIN Frames(page) |->
                  [k \in 1..Parts(page, i) |-> Chunk(page, i + 1, k)]])

Answer(page) == FlattenSeq([i \in DOMAIN Frames(page) |-> Chunks(page, i)])

-----------------------------------------------------------------------------
(* The client: what it has of a page, and what it makes of it.             *)

\* parse_tlv_read_units; a unit whose value is cut short ends the list.
Units(data) ==
    LET parse[words \in Seq([reg : Nat, len : Nat, at : Nat])] ==
            LET n == words[1].len
                value == SubSeq(words, HeaderLen + 1, HeaderLen + n)
            IN IF Len(words) < HeaderLen \/ Len(words) < HeaderLen + n THEN <<>>
               ELSE <<[reg |-> words[1].reg, value |-> value]>> \o
                    parse[SubSeq(words, HeaderLen + n + 1, Len(words))]
    IN parse[data]

\* TlvPacketCollector.assembled
Assembled == FlattenSeq([i \in 1..read.total |->
                           IF i \in DOMAIN read.got
                           THEN Frames(read.got[i])[i] ELSE <<>>])

\* What the device has of a page.
Registers(page) ==
    [r \in DOMAIN layout[page] |->
       [reg |-> r,
        value |-> [k \in 1..layout[page][r] |-> Word(r, layout[page][r], k)]]]

Numbered == UNION {{p} \X (0..Total(p)) : p \in Pages}
InAir    == {Chunk(p[1], p[2], k) : p \in Numbered, k \in 1..2}

TypeOK ==
    /\ layout \in Layouts
    /\ up \in Seq(Pages) /\ air \in Seq(InAir)
    /\ buffer \in Seq(InAir \cup {Rest}) /\ need \in 0..(MaxClaim + 1)
    /\ parsing \in BOOLEAN /\ responses \in Seq(Numbered)
    /\ read.page \in Pages /\ read.quiet \in BOOLEAN /\ read.total \in Nat
    /\ DOMAIN read.got \subseteq 1..read.total
    /\ \A i \in DOMAIN read.got : read.got[i] \in Pages
    /\ read.result \in {"None", "Ok", "Failed"}
    /\ lost \in 0..MaxLost /\ late \in 0..MaxLate

Init ==
    /\ layout \in Layouts
    /\ up = <<>> /\ air = <<>> /\ buffer = <<>> /\ need = 0
    /\ parsing = FALSE /\ responses = <<>>
    /\ \E p \in Pages : read = [page |-> p, quiet |-> TRUE, total |-> 0,
                                got |-> <<>>, result |-> "Failed"]
    /\ lost = 0 /\ late = 0

-----------------------------------------------------------------------------
(* The air.  The reader and the assembler share the protocol lock.         *)

Reading == read.result = "None" /\ ~parsing
Quiet   == up = <<>> /\ air = <<>> /\ buffer = <<>> /\ ~parsing

\* The bound on answers that are late.  Rounds of reads are 2 s apart, and a
\* deadline is 1 s after the last packet.
MayBeLate == IF up = <<>> /\ air = <<>> THEN UNCHANGED late
             ELSE late < MaxLate /\ late' = late + 1

\* Replies of earlier reads are thrown away, what is half assembled is not.
Begin(page) ==
    /\ read.result # "None" /\ ~parsing /\ MayBeLate
    /\ read' = [page |-> page, quiet |-> Quiet, total |-> 0, got |-> <<>>,
                result |-> "None"]
    /\ responses' = <<>>
    /\ \/ up' = Append(up, page) /\ UNCHANGED lost
       \/ lost < MaxLost /\ lost' = lost + 1 /\ UNCHANGED up
    /\ UNCHANGED <<layout, air, buffer, need, parsing>>

\* The write is answered by another task than the one that sends the packets.
Serve ==
    /\ up # <<>> /\ up' = Tail(up)
    /\ LET page == Head(up)
           ack  == Chunks(page, 0)
       IN \/ air' = air \o ack \o Answer(page)
          \/ air' = air \o Answer(page) \o ack
    /\ UNCHANGED <<layout, client, lost, late>>

Lose ==
    /\ air # <<>> /\ air' = Tail(air)
    /\ lost < MaxLost /\ lost' = lost + 1
    /\ UNCHANGED <<layout, up, client, late>>

Notify ==
    /\ air # <<>> /\ ~parsing /\ air' = Tail(air)
    /\ buffer' = Append(buffer, Head(air)) /\ parsing' = TRUE
    /\ UNCHANGED <<layout, up, need, responses, read, lost, late>>

-----------------------------------------------------------------------------
(* push_encrypted.                                                         *)

First   == buffer[1]
Aligned == First.part = 1
Looking == parsing /\ need = 0 /\ buffer # <<>>

\* The length is where it belongs, or two bytes of a ciphertext are taken for it.
ReadLength ==
    /\ Looking
    /\ IF Aligned THEN need' = Parts(First.page, First.index)
                  ELSE need' \in 1..MaxClaim
    /\ UNCHANGED <<layout, up, air, buffer, parsing, responses, read, lost, late>>

\* Mutant: a length that cannot be is waited for.
BadLengthWaits ==
    /\ Looking /\ ~Aligned
    /\ need' = MaxClaim + 1 /\ parsing' = FALSE
    /\ UNCHANGED <<layout, up, air, buffer, responses, read, lost, late>>

\* Everything that has been received is thrown away.
BadLength ==
    /\ Looking /\ ~Aligned
    /\ buffer' = <<>> /\ parsing' = FALSE
    /\ UNCHANGED <<layout, up, air, need, responses, read, lost, late>>

\* Nothing is left, too little for a length, or less than the length says.
WaitMore ==
    /\ parsing /\ parsing' = FALSE
    /\ \/ buffer = <<>> \/ need > Len(buffer)
       \/ need = 0 /\ buffer = <<Rest>>
    /\ UNCHANGED <<layout, up, air, buffer, need, responses, read, lost, late>>

Taken == SubSeq(buffer, 1, need)
Whole == Aligned /\ Taken = Chunks(First.page, First.index)

\* A packet that is not made of its own bytes is rubbish once decrypted: no
\* check sum fits.  It may end within a chunk, or not have enough yet.
Assemble ==
    /\ parsing /\ need > 0 /\ need <= Len(buffer)
    /\ LET behind == SubSeq(buffer, need + 1, Len(buffer))
       IN IF Whole
          THEN /\ responses' = Append(responses, <<First.page, First.index>>)
               /\ buffer' = behind /\ need' = 0
          ELSE /\ UNCHANGED responses
               /\ \/ buffer' = behind /\ need' = 0
                  \/ /\ buffer[need] # Rest
                     /\ buffer' = <<Rest>> \o behind /\ need' = 0
                  \/ need <= MaxClaim /\ need' = need + 1 /\ UNCHANGED buffer
    /\ UNCHANGED <<layout, up, air, parsing, read, lost, late>>

-----------------------------------------------------------------------------
(* modbus_tlv_read: the replies are taken until there is none, and then it  *)
(* is looked whether the page is complete.                                 *)

With(got, index, page) ==
    [i \in DOMAIN got \cup {index} |-> IF i = index THEN page ELSE got[i]]

\* Mutant: the announced number of packets is not compared.
InsertAnyTotal(page, index) ==
    read' = [read EXCEPT
               !.total = IF read.total = 0 THEN Total(page) ELSE @,
               !.got = With(@, index, page)]

\* TlvPacketCollector.insert
Insert(page, index) ==
    IF read.total \in {0, Total(page)}
    THEN read' = [read EXCEPT !.total = Total(page),
                              !.got = With(@, index, page)]
    ELSE read' = [read EXCEPT !.result = "Failed"]

Pop ==
    /\ Reading /\ responses # <<>> /\ responses' = Tail(responses)
    /\ LET r == Head(responses)
       IN IF r[2] = 0 THEN UNCHANGED read ELSE Insert(r[1], r[2])
    /\ UNCHANGED <<layout, up, air, buffer, need, parsing, lost, late>>

Complete == read.total > 0 /\ Cardinality(DOMAIN read.got) = read.total

ReturnOk ==
    /\ Reading /\ responses = <<>> /\ Complete
    /\ read' = [read EXCEPT !.result = "Ok"]
    /\ UNCHANGED <<layout, up, air, buffer, need, parsing, responses, lost, late>>

TimesOut ==
    /\ Reading /\ responses = <<>> /\ ~Complete
    /\ MayBeLate
    /\ read' = [read EXCEPT !.result = "Failed"]
    /\ UNCHANGED <<layout, up, air, buffer, need, parsing, responses, lost>>

-----------------------------------------------------------------------------

Parse == ReadLength \/ BadLength \/ WaitMore \/ Assemble
Reader == (\E p \in Pages : Begin(p)) \/ Pop \/ ReturnOk \/ TimesOut

Next == Serve \/ Lose \/ Notify \/ Parse \/ Reader

Spec == Init /\ [][Next]_vars

\* Two bytes of a ciphertext are as good as random, and only one in sixteen
\* such pairs is a possible length: again and again there is one that is not.
BadLengthOf(k) == BadLength /\ Len(buffer) = 1 /\ First.part = k

Fairness ==
    /\ WF_vars(Serve) /\ WF_vars(Notify) /\ WF_vars(Parse) /\ WF_vars(Reader)
    /\ SF_vars(BadLengthOf(0)) /\ SF_vars(BadLengthOf(2))

FairSpec == Spec /\ Fairness

-----------------------------------------------------------------------------
(* Properties.                                                             *)

Succeeded == read.result = "Ok"

\* A read that begins with nothing under way, and succeeds, gives every
\* register of the page asked for, with its own words: what is lost on the way
\* can make it fail, never give less or something else (tlv.rs:246).  Late
\* packets of another page never get between those of this one, if the pages
\* differ in how many packets they take: a read that succeeds then gives all
\* registers of one page (poll.rs:462, tlv.rs:252).
ReadIsOnePage ==
    Succeeded =>
        /\ read.quiet => Units(Assembled) = Registers(read.page)
        /\ (\A p, q \in Pages : p # q => Total(p) # Total(q)) =>
               \E p \in Pages : Units(Assembled) = Registers(p)

\* Whatever has been lost, and wherever the stream of notifications has been
\* cut, sooner or later a read succeeds again: the assembler finds back to the
\* beginning of a packet (transport/mod.rs:182), which clear_modbus_responses
\* does not do for it.
ReadsRecover == []<>Succeeded
=============================================================================
