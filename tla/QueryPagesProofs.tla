-------------------------- MODULE QueryPagesProofs --------------------------
(***************************************************************************)
(* Proofs about QueryPages, for any registers, pages, lists and bounds:    *)
(* its types, and that a list which keeps its place shows nothing that was *)
(* read for another one.                                                   *)
(***************************************************************************)
EXTENDS QueryPages, SequenceTheorems, TLAPS

-----------------------------------------------------------------------------
(* Sequences.                                                               *)

\* A function on the first n numbers is a sequence.
LEMMA FunctionIsSeq ==
    ASSUME NEW S, NEW n \in Nat, NEW f \in [1..n -> S]
    PROVE  f \in Seq(S) /\ Len(f) = n
  OBVIOUS

\* What removing an element leaves.
LEMMA WithoutProperties ==
    ASSUME NEW S, NEW s \in Seq(S), NEW i \in 1..Len(s)
    PROVE  /\ Without(s, i) \in Seq(S)
           /\ Len(Without(s, i)) = Len(s) - 1
           /\ \A j \in 1..(i - 1) : Without(s, i)[j] = s[j]
  <1> DEFINE front == SubSeq(s, 1, i - 1)
             back  == SubSeq(s, i + 1, Len(s))
  <1>1. /\ Len(s) \in Nat /\ i \in Int /\ i - 1 \in Int /\ i + 1 \in Int
        /\ i >= 1 /\ i <= Len(s)
    BY LenProperties
  <1>2. \A j \in 1..Len(s) : s[j] \in S
    BY ElementOfSeq
  <1>3. /\ front \in Seq(S) /\ Len(front) = i - 1
        /\ \A j \in 1..(i - 1) : front[j] = s[j]
    <2>1. \A j \in 1..(i - 1) : s[j] \in S
      BY <1>1, <1>2
    <2>2. /\ front \in Seq(S)
          /\ Len(front) = IF 1 <= i - 1 THEN i - 1 - 1 + 1 ELSE 0
          /\ \A j \in 1..(i - 1 - 1 + 1) : front[j] = s[1 + j - 1]
      BY <1>1, <2>1, SubSeqProperties
    <2> QED
      <3> HIDE DEF front
      <3> QED
        BY <1>1, <2>2
  <1>4. back \in Seq(S) /\ Len(back) = Len(s) - i
    <2>1. \A j \in (i + 1)..Len(s) : s[j] \in S
      BY <1>1, <1>2
    <2>2. /\ back \in Seq(S)
          /\ Len(back) = IF i + 1 <= Len(s) THEN Len(s) - (i + 1) + 1 ELSE 0
      BY <1>1, <2>1, SubSeqProperties
    <2> QED
      <3> HIDE DEF back
      <3> QED
        BY <1>1, <2>2
  <1>5. Without(s, i) = front \o back
    BY DEF Without
  <1> HIDE DEF front, back
  <1>6. /\ front \o back \in Seq(S)
        /\ Len(front \o back) = Len(front) + Len(back)
        /\ \A j \in 1..(Len(front) + Len(back)) : (front \o back)[j] =
                IF j <= Len(front) THEN front[j] ELSE back[j - Len(front)]
    BY <1>3, <1>4, ConcatProperties
  <1> QED
    BY <1>1, <1>3, <1>4, <1>5, <1>6

\* Removing an element and putting it back elsewhere.
LEMMA MovedProperties ==
    ASSUME NEW S, NEW s \in Seq(S), NEW i \in 1..Len(s), NEW to \in 1..Len(s)
    PROVE  LET rest == Without(s, i)
           IN  SubSeq(rest, 1, to - 1) \o <<s[i]>> \o SubSeq(rest, to, Len(rest))
                    \in Seq(S)
  <1> DEFINE rest == Without(s, i)
             front == SubSeq(rest, 1, to - 1)
             back  == SubSeq(rest, to, Len(rest))
  <1>1. /\ Len(s) \in Nat /\ to \in Int /\ to - 1 \in Int
        /\ to >= 1 /\ to <= Len(s)
    BY LenProperties
  <1>2. rest \in Seq(S) /\ Len(rest) = Len(s) - 1
    BY WithoutProperties
  <1> HIDE DEF rest
  <1>3. \A j \in 1..Len(rest) : rest[j] \in S
    BY <1>2, ElementOfSeq
  <1>4. front \in Seq(S)
    <2>1. \A j \in 1..(to - 1) : rest[j] \in S
      BY <1>1, <1>2, <1>3
    <2> QED
      BY <1>1, <2>1, SubSeqProperties
  <1>5. back \in Seq(S)
    <2>1. \A j \in to..Len(rest) : rest[j] \in S
      BY <1>1, <1>2, <1>3
    <2> QED
      BY <1>1, <1>2, <2>1, SubSeqProperties
  <1>6. <<s[i]>> \in Seq(S)
    BY ElementOfSeq
  <1> HIDE DEF front, back
  <1>7. front \o <<s[i]>> \in Seq(S)
    BY <1>4, <1>6, ConcatProperties
  <1>8. front \o <<s[i]>> \o back \in Seq(S)
    BY <1>5, <1>7, ConcatProperties
  <1> QED
    BY <1>8 DEF front, back, rest

\* The registers of a list of cards.
LEMMA RegistersType ==
    ASSUME NEW R, NEW T, NEW list \in Seq([reg : R, shown : T])
    PROVE  Registers(list) \in Seq(R)
  <1>1. /\ Len(list) \in Nat /\ DOMAIN list = 1..Len(list)
        /\ \A i \in 1..Len(list) : list[i] \in [reg : R, shown : T]
    BY LenProperties, ElementOfSeq
  <1>2. Registers(list) \in [1..Len(list) -> R]
    BY <1>1 DEF Registers
  <1> QED
    BY <1>1, <1>2, FunctionIsSeq

-----------------------------------------------------------------------------
(* The invariant.  A list which keeps its place has only cards of its own,  *)
(* and whatever is said of it (to be polled, being polled, polled) is about *)
(* registers of its own.                                                    *)

Cards      == [reg : Register, shown : Result \cup Blank]
Targets    == (Page \cup {"None"}) \X Nat
Results(p, k)  == {Failed} \cup UNION {Holds[r] : r \in Own(p, k)}
OwnCards(p, k) == [reg : Own(p, k), shown : Results(p, k) \cup Blank]

ItemsFit(places, target, items) ==
    \A p \in Page : \A k \in 1..places[p] :
        target = <<p, k>> => items \in Seq(Own(p, k))

ResultFits(places, target, result) ==
    \A p \in Page : \A k \in 1..places[p] :
        target = <<p, k>> => result \in Results(p, k)

Pages ==
    /\ page \in Page
    /\ lists \in [Page -> Seq(Seq(Cards))]
    /\ active \in [Page -> Nat] /\ kept \in [Page -> Nat]
    /\ \A p \in Page :
        /\ active[p] \in 1..Len(lists[p])
        /\ kept[p] <= Len(lists[p]) /\ kept[p] <= Len(FirstLists[p])
        /\ \A k \in 1..kept[p] : lists[p][k] \in Seq(OwnCards(p, k))

Policy ==
    /\ policy \in [target : Targets, items : Seq(Register)]
    /\ ItemsFit(kept, policy.target, policy.items)

Snapshot ==
    /\ live \in [target : Targets, items : UNION {[d -> Result] : d \in SUBSET Nat}]
    /\ \A i \in DOMAIN live.items : ResultFits(kept, live.target, live.items[i])

Steps == {"Off", "Write", "Begin", "Gate", "Read", "Last"}

RoundType == [pc : Steps, target : Targets, items : Seq(Register), next : Nat]

RoundFits(places, p) ==
    /\ p.pc = "Write" => p.items # <<>>
    /\ p.pc = "Gate" => p.items # <<>> /\ p.next = 1
    /\ p.pc \in {"Read", "Last"} => p.next \in 1..Len(p.items)
    /\ ItemsFit(places, p.target, p.items)

Rounds ==
    /\ poll \in [Poller -> RoundType]
    /\ \A t \in Poller : RoundFits(kept, poll[t])

Others ==
    /\ dev \in [Register -> Value] /\ \A r \in Register : dev[r] \in Holds[r]
    /\ {fresh, seen, linkUp, was} \subseteq BOOLEAN
    /\ ui \in {"Idle", "Merge"} /\ edits \in 0..MaxEdits /\ faults \in 0..MaxFaults

IInv == Pages /\ Policy /\ Snapshot /\ Rounds /\ Others

LEMMA OwnType ==
    ASSUME NEW p \in Page, NEW k \in 1..Len(FirstLists[p])
    PROVE  Own(p, k) \subseteq Register /\ Results(p, k) \subseteq Result
  <1>1. FirstLists[p] \in Seq(Seq(Register)) /\ Menu[p] \in Seq(SUBSET Register)
    BY QueryPagesAssumption
  <1>2. k \in DOMAIN FirstLists[p] /\ FirstLists[p][k] \in Seq(Register)
    BY <1>1, LenProperties, ElementOfSeq
  <1>3. k \in 1..Len(Menu[p])
    BY <1>1, <1>2, QueryPagesAssumption, LenProperties
  <1>4. Menu[p][k] \subseteq Register
    BY <1>1, <1>3, ElementOfSeq
  <1>5. Range(FirstLists[p][k]) \subseteq Register
    BY <1>2, LenProperties, ElementOfSeq DEF Range
  <1>6. Own(p, k) \subseteq Register
    BY <1>4, <1>5 DEF Own
  <1> QED
    BY <1>6, QueryPagesAssumption DEF Results, Result

\* With fewer lists in place there is less to fit.
LEMMA FewerPlaces ==
    ASSUME NEW a \in [Page -> Nat], NEW b \in [Page -> Nat],
           \A p \in Page : b[p] <= a[p], NEW target, NEW x
    PROVE  /\ ItemsFit(a, target, x) => ItemsFit(b, target, x)
           /\ ResultFits(a, target, x) => ResultFits(b, target, x)
  <1>1. \A p \in Page : 1..b[p] \subseteq 1..a[p]
    <2> TAKE p \in Page
    <2>1. a[p] \in Nat /\ b[p] \in Nat /\ b[p] <= a[p]
      OBVIOUS
    <2> QED
      BY <2>1
  <1> QED
    BY <1>1 DEF ItemsFit, ResultFits

LEMMA NothingFits ==
    ASSUME NEW a, NEW x
    PROVE  /\ ItemsFit(a, NoPoll.target, x)
           /\ ResultFits(a, NoPoll.target, x)
  BY DEF ItemsFit, ResultFits, NoPoll, Page

\* The list in front.
Mine == IF active[page] \in 1..kept[page] THEN Own(page, active[page]) ELSE Register
MineShown == IF active[page] \in 1..kept[page] THEN Results(page, active[page]) ELSE Result
MyCards == [reg : Mine, shown : MineShown \cup Blank]

LEMMA ShownType ==
    ASSUME Pages
    PROVE  /\ Shown \in Seq(MyCards) /\ Shown \in Seq(Cards)
           /\ Mine \subseteq Register /\ MineShown \subseteq Result
           /\ Len(Shown) \in Nat /\ DOMAIN Shown = 1..Len(Shown)
           /\ MyCards \subseteq Cards
  <1>1. /\ page \in Page /\ lists[page] \in Seq(Seq(Cards))
        /\ active[page] \in 1..Len(lists[page])
        /\ kept[page] \in Nat /\ kept[page] <= Len(FirstLists[page])
    BY DEF Pages
  <1>2. Shown \in Seq(Cards)
    BY <1>1, ElementOfSeq DEF Shown
  <1>3. Mine \subseteq Register /\ MineShown \subseteq Result
    <2>1. CASE active[page] \in 1..kept[page]
      <3>1. active[page] \in 1..Len(FirstLists[page])
        <4>1. FirstLists[page] \in Seq(Seq(Register))
          BY <1>1, QueryPagesAssumption
        <4>2. Len(FirstLists[page]) \in Nat
          BY <4>1, LenProperties
        <4> QED
          BY <1>1, <2>1, <4>2
      <3> QED
        BY <1>1, <2>1, <3>1, OwnType DEF Mine, MineShown
    <2> QED
      BY <2>1 DEF Mine, MineShown
  <1>4. Shown \in Seq(MyCards)
    <2>1. CASE active[page] \in 1..kept[page]
      BY <1>1, <2>1 DEF Pages, Shown, MyCards, Mine, MineShown, OwnCards
    <2>2. CASE active[page] \notin 1..kept[page]
      BY <1>2, <2>2 DEF MyCards, Mine, MineShown, Cards
    <2> QED
      BY <2>1, <2>2
  <1> QED
    BY <1>2, <1>3, <1>4, LenProperties DEF MyCards, Cards

-----------------------------------------------------------------------------
(* What the steps have in common.                                           *)

\* The policy follows pages that are as they should be.
LEMMA PolicyFollows ==
    ASSUME Pages', SyncPollPolicy
    PROVE  Policy'
  <1> DEFINE list == lists'[page'][active'[page']]
  <1>1. CASE ~linkUp'
    <2>1. policy' = NoPoll
      BY <1>1 DEF SyncPollPolicy, Foreground
    <2>2. NoPoll \in [target : Targets, items : Seq(Register)]
      BY DEF NoPoll, Targets
    <2>3. ItemsFit(kept', policy'.target, policy'.items)
      BY <2>1, NothingFits
    <2> QED
      BY <2>1, <2>2, <2>3 DEF Policy
  <1>2. CASE linkUp'
    <2>1. /\ page' \in Page /\ lists'[page'] \in Seq(Seq(Cards))
          /\ active'[page'] \in 1..Len(lists'[page']) /\ active'[page'] \in Nat
      BY DEF Pages
    <2>2. list \in Seq(Cards)
      BY <2>1, ElementOfSeq
    <2>3. /\ policy'.target = <<page', active'[page']>>
          /\ policy'.items = Registers(list)
          /\ policy' = [target |-> <<page', active'[page']>>, items |-> Registers(list)]
      BY <1>2 DEF SyncPollPolicy, Foreground
    <2>4. Registers(list) \in Seq(Register)
      BY <2>2, RegistersType DEF Cards
    <2>5. ItemsFit(kept', policy'.target, policy'.items)
      <3>1. ASSUME NEW p \in Page, NEW k \in 1..kept'[p], policy'.target = <<p, k>>
            PROVE  policy'.items \in Seq(Own(p, k))
        <4>1. list \in Seq(OwnCards(p, k))
          BY <2>3, <3>1 DEF Pages
        <4> QED
          BY <2>3, <4>1, RegistersType DEF OwnCards
      <3> QED
        BY <3>1 DEF ItemsFit
    <2> QED
      BY <2>1, <2>3, <2>4, <2>5 DEF Policy, Targets
  <1> QED
    BY <1>1, <1>2

\* The list in front becomes another list of cards that may be on it.
LEMMA ListChanges ==
    ASSUME Pages, NEW list \in Seq(MyCards), SetShown(list),
           UNCHANGED <<page, active, kept>>
    PROVE  Pages'
  <1> DEFINE mine == lists[page]
             a == active[page]
  <1>1. /\ page \in Page /\ mine \in Seq(Seq(Cards)) /\ a \in 1..Len(mine)
        /\ lists' = [lists EXCEPT ![page][active[page]] = list]
        /\ lists \in [Page -> Seq(Seq(Cards))]
    BY DEF Pages, SetShown
  <1>2. list \in Seq(Cards)
    BY ShownType, SeqMonotonic
  <1>3. /\ [mine EXCEPT ![a] = list] \in Seq(Seq(Cards))
        /\ Len([mine EXCEPT ![a] = list]) = Len(mine)
        /\ \A j \in 1..Len(mine) :
                [mine EXCEPT ![a] = list][j] = IF j = a THEN list ELSE mine[j]
    BY <1>1, <1>2, ExceptSeq
  <1>4. /\ lists' \in [Page -> Seq(Seq(Cards))]
        /\ lists'[page] = [mine EXCEPT ![a] = list]
        /\ \A p \in Page : p # page => lists'[p] = lists[p]
    BY <1>1, <1>3
  <1> HIDE DEF mine, a
  <1>5. ASSUME NEW p \in Page, NEW k \in 1..kept[p]
        PROVE  lists'[p][k] \in Seq(OwnCards(p, k))
    <2>1. /\ lists[p][k] \in Seq(OwnCards(p, k)) /\ k \in 1..Len(lists[p])
      <3>1. /\ kept[p] \in Nat /\ kept[p] <= Len(lists[p])
            /\ lists[p] \in Seq(Seq(Cards))
        BY DEF Pages
      <3>2. Len(lists[p]) \in Nat
        BY <3>1, LenProperties
      <3> QED
        BY <3>1, <3>2 DEF Pages
    <2>2. CASE p = page /\ k = a
      <3>1. lists'[p][k] = list
        BY <1>3, <1>4, <2>1, <2>2 DEF mine
      <3>2. MyCards = OwnCards(p, k)
        BY <2>2 DEF MyCards, OwnCards, Mine, MineShown, a
      <3> QED
        BY <3>1, <3>2
    <2>3. CASE p = page /\ k # a
      BY <1>3, <1>4, <2>1, <2>3 DEF mine
    <2>4. CASE p # page
      BY <1>4, <2>1, <2>4
    <2> QED
      BY <2>2, <2>3, <2>4
  <1> QED
    <2>1. \A p \in Page : Len(lists'[p]) = Len(lists[p])
      BY <1>3, <1>4 DEF mine
    <2> QED
      BY <1>4, <1>5, <2>1 DEF Pages

\* A removed list leaves those before it where they are.
LEMMA ListGoes ==
    ASSUME Pages, NEW k \in DOMAIN lists[page], Len(lists[page]) > 1, Moved(k),
           lists' = [lists EXCEPT ![page] = Without(@, k)],
           active' = [active EXCEPT ![page] =
                IF @ > Len(lists[page]) - 1 THEN Len(lists[page]) - 1 ELSE @],
           page' = page
    PROVE  /\ Pages' /\ kept \in [Page -> Nat] /\ kept' \in [Page -> Nat]
           /\ \A p \in Page : kept'[p] <= kept[p]
  <1> DEFINE mine == lists[page]
  <1>1. /\ page \in Page /\ mine \in Seq(Seq(Cards)) /\ k \in 1..Len(mine)
        /\ Len(mine) \in Nat /\ active[page] \in 1..Len(mine)
        /\ kept[page] \in Nat /\ kept[page] <= Len(mine)
        /\ kept[page] <= Len(FirstLists[page])
    BY LenProperties DEF Pages
  <1>2. Len(FirstLists[page]) \in Nat
    <2>1. FirstLists[page] \in Seq(Seq(Register))
      BY <1>1, QueryPagesAssumption
    <2> QED
      BY <2>1, LenProperties
  <1>3. /\ Without(mine, k) \in Seq(Seq(Cards))
        /\ Len(Without(mine, k)) = Len(mine) - 1
        /\ \A j \in 1..(k - 1) : Without(mine, k)[j] = mine[j]
    BY <1>1, WithoutProperties
  <1>4. /\ lists' \in [Page -> Seq(Seq(Cards))] /\ lists'[page] = Without(mine, k)
        /\ \A p \in Page : p # page => lists'[p] = lists[p]
    BY <1>1, <1>3 DEF Pages
  <1>5. /\ kept' \in [Page -> Nat]
        /\ kept'[page] = IF k <= kept[page] THEN k - 1 ELSE kept[page]
        /\ \A p \in Page : p # page => kept'[p] = kept[p]
    <2>1. kept \in [Page -> Nat] /\ k - 1 \in Nat
      BY <1>1 DEF Pages
    <2> QED
      BY <1>1, <2>1 DEF Moved
  <1>6. /\ active' \in [Page -> Nat] /\ active'[page] \in 1..(Len(mine) - 1)
        /\ \A p \in Page : p # page => active'[p] = active[p]
    <2>1. active \in [Page -> Nat] /\ Len(mine) - 1 \in Nat
      BY <1>1 DEF Pages
    <2> QED
      BY <1>1, <2>1
  <1> HIDE DEF mine
  <1>7. \A p \in Page : kept'[p] <= kept[p]
    <2>1. k \in Nat /\ kept'[page] <= kept[page]
      BY <1>1, <1>5
    <2>2. \A p \in Page : kept[p] \in Nat /\ (p # page => kept'[p] = kept[p])
      BY <1>5 DEF Pages
    <2> QED
      BY <2>1, <2>2
  <1>8. kept'[page] <= Len(mine) - 1 /\ kept'[page] <= Len(FirstLists[page])
    BY <1>1, <1>2, <1>5
  <1>9. ASSUME NEW j \in 1..kept'[page]
        PROVE  lists'[page][j] \in Seq(OwnCards(page, j))
    <2>1. j \in 1..(k - 1) /\ j \in 1..kept[page]
      BY <1>1, <1>5
    <2>2. lists'[page][j] = lists[page][j]
      BY <1>3, <1>4, <2>1 DEF mine
    <2> QED
      BY <1>1, <2>1, <2>2 DEF Pages
  <1>10. ASSUME NEW p \in Page
         PROVE  /\ active'[p] \in 1..Len(lists'[p])
                /\ kept'[p] <= Len(lists'[p]) /\ kept'[p] <= Len(FirstLists[p])
                /\ \A j \in 1..kept'[p] : lists'[p][j] \in Seq(OwnCards(p, j))
    <2>1. CASE p = page
      BY <1>3, <1>4, <1>6, <1>8, <1>9, <2>1
    <2>2. CASE p # page
      BY <1>4, <1>5, <1>6, <2>2 DEF Pages
    <2> QED
      BY <2>1, <2>2
  <1> QED
    BY <1>1, <1>4, <1>5, <1>6, <1>7, <1>10 DEF Pages

\* A new list comes behind all others.
LEMMA ListComes ==
    ASSUME Pages, lists' = [lists EXCEPT ![page] = Append(@, <<>>)],
           active' = [active EXCEPT ![page] = Len(lists[page]) + 1],
           UNCHANGED <<page, kept>>
    PROVE  Pages'
  <1> DEFINE mine == lists[page]
  <1>1. /\ page \in Page /\ mine \in Seq(Seq(Cards)) /\ Len(mine) \in Nat
        /\ kept[page] \in Nat /\ kept[page] <= Len(mine)
    BY LenProperties DEF Pages
  <1>2. <<>> \in Seq(Cards)
    BY EmptySeq
  <1>3. /\ Append(mine, <<>>) \in Seq(Seq(Cards))
        /\ Len(Append(mine, <<>>)) = Len(mine) + 1
        /\ \A j \in 1..Len(mine) : Append(mine, <<>>)[j] = mine[j]
    BY <1>1, <1>2, AppendProperties
  <1>4. /\ lists' \in [Page -> Seq(Seq(Cards))] /\ lists'[page] = Append(mine, <<>>)
        /\ \A p \in Page : p # page => lists'[p] = lists[p]
    BY <1>1, <1>3 DEF Pages
  <1>5. /\ active' \in [Page -> Nat] /\ active'[page] = Len(mine) + 1
        /\ \A p \in Page : p # page => active'[p] = active[p]
    BY <1>1 DEF Pages
  <1> HIDE DEF mine
  <1>6. ASSUME NEW p \in Page
        PROVE  /\ active'[p] \in 1..Len(lists'[p]) /\ kept[p] <= Len(lists'[p])
               /\ \A j \in 1..kept[p] : lists'[p][j] \in Seq(OwnCards(p, j))
    <2>1. CASE p = page
      <3>1. \A j \in 1..kept[p] : j \in 1..Len(mine)
        BY <1>1, <2>1
      <3>2. \A j \in 1..kept[p] : lists'[p][j] = lists[p][j]
        BY <1>3, <1>4, <2>1, <3>1 DEF mine
      <3>3. \A j \in 1..kept[p] : lists'[p][j] \in Seq(OwnCards(p, j))
        BY <3>2 DEF Pages
      <3>4. active'[p] \in 1..Len(lists'[p]) /\ kept[p] <= Len(lists'[p])
        BY <1>1, <1>3, <1>4, <1>5, <2>1
      <3> QED
        BY <3>3, <3>4
    <2>2. CASE p # page
      BY <1>4, <1>5, <2>2 DEF Pages
    <2> QED
      BY <2>1, <2>2
  <1> QED
    BY <1>4, <1>5, <1>6 DEF Pages

\* A user's handler that leaves the pages as they should be.
LEMMA UserKeeps ==
    ASSUME IInv, Pages', User, UNCHANGED <<poll, dev, faults>>,
           edits' \in 0..MaxEdits,
           kept \in [Page -> Nat], kept' \in [Page -> Nat],
           \A p \in Page : kept'[p] <= kept[p]
    PROVE  IInv'
  <1>1. Policy'
    BY PolicyFollows DEF User
  <1>2. UNCHANGED <<live, fresh, seen, was, ui, linkUp>> /\ ui = "Idle"
    BY DEF User, timer
  <1>3. Snapshot'
    BY <1>2, FewerPlaces DEF IInv, Snapshot
  <1>4. Rounds'
    <2>1. \A t \in Poller : RoundFits(kept', poll[t])
      BY FewerPlaces DEF IInv, Rounds, RoundFits
    <2> QED
      BY <2>1 DEF IInv, Rounds
  <1>5. Others'
    BY <1>2 DEF IInv, Others
  <1> QED
    BY <1>1, <1>3, <1>4, <1>5 DEF IInv

\* The user changes the list in front.
LEMMA EditKeeps ==
    ASSUME IInv, Edits, User, NEW list \in Seq(MyCards), SetShown(list),
           UNCHANGED <<page, active, kept, poll, dev>>
    PROVE  IInv'
  <1>1. Pages'
    BY ListChanges DEF IInv
  <1>2. edits' \in 0..MaxEdits /\ faults' = faults
    BY QueryPagesAssumption DEF IInv, Others, Edits
  <1>3. kept \in [Page -> Nat] /\ \A p \in Page : kept[p] <= kept[p]
    BY DEF IInv, Pages
  <1> QED
    BY <1>1, <1>2, <1>3, UserKeeps

\* One task takes a step that fits.
LEMMA RoundStep ==
    ASSUME Rounds, NEW t \in Poller, NEW p \in RoundType, RoundFits(kept, p),
           poll' = [poll EXCEPT ![t] = p], kept' = kept
    PROVE  Rounds'
  BY DEF Rounds

LEMMA PollerType ==
    ASSUME Rounds, NEW t \in Poller
    PROVE  poll[t] \in RoundType /\ RoundFits(kept, poll[t])
  BY DEF Rounds

LEMMA NoRoundType ==
    ASSUME NEW pc \in {"Off", "Begin"}
    PROVE  /\ [NoRound EXCEPT !.pc = pc] \in RoundType
           /\ RoundFits(kept, [NoRound EXCEPT !.pc = pc])
           /\ NoRound = [NoRound EXCEPT !.pc = "Off"]
           /\ NoRound = [pc |-> "Off", target |-> NoPoll.target, items |-> <<>>, next |-> 1]
  <1>1. NoRound \in RoundType
    BY DEF NoRound, NoPoll, RoundType, Steps, Targets
  <1>2. ItemsFit(kept, NoPoll.target, <<>>)
    BY NothingFits
  <1> QED
    BY <1>1, <1>2 DEF NoRound, RoundType, RoundFits, Steps

\* The task of a register write, as it is started.
LEMMA WriteType ==
    ASSUME NEW r \in Register
    PROVE  LET w == [NoRound EXCEPT !.pc = "Write", !.items = <<r>>]
           IN  w \in RoundType /\ RoundFits(kept, w)
  <1> DEFINE w == [NoRound EXCEPT !.pc = "Write", !.items = <<r>>]
  <1>1. <<r>> \in Seq(Register) /\ <<r>> # <<>>
    OBVIOUS
  <1>2. NoRound \in RoundType /\ NoRound.target = NoPoll.target
    BY NoRoundType DEF NoRound
  <1>3. w \in RoundType /\ w.pc = "Write" /\ w.items = <<r>> /\ w.target = NoPoll.target
    BY <1>1, <1>2 DEF RoundType, Steps
  <1> HIDE DEF w
  <1>4. RoundFits(kept, w)
    BY <1>1, <1>3, NothingFits DEF RoundFits
  <1> QED
    BY <1>3, <1>4 DEF w

LEMMA NoLiveType ==
    /\ NoLive \in [target : Targets, items : UNION {[d -> Result] : d \in SUBSET Nat}]
    /\ DOMAIN NoLive.items = {}
  <1>1. [i \in {} |-> Failed] \in [{} -> Result] /\ {} \in SUBSET Nat
    OBVIOUS
  <1>2. [i \in {} |-> Failed] \in UNION {[d -> Result] : d \in SUBSET Nat}
    BY <1>1
  <1> QED
    BY <1>2 DEF NoLive, Targets

\* What the snapshot says of its results.
LEMMA SnapshotType ==
    ASSUME Snapshot
    PROVE  /\ DOMAIN live.items \subseteq Nat
           /\ \A i \in DOMAIN live.items : live.items[i] \in Result
  <1>1. PICK d \in SUBSET Nat : live.items \in [d -> Result]
    BY DEF Snapshot
  <1> QED
    BY <1>1

LEMMA PublishedFits ==
    ASSUME Snapshot, NEW target \in Targets, NEW i \in Nat, NEW result \in Result,
           ResultFits(kept, target, result), kept' = kept,
           live' = Published(target, i, result)
    PROVE  Snapshot'
  <1>1. CASE live.target # target
    <2>1. live' = [target |-> target, items |-> [j \in {i} |-> result]]
      BY <1>1 DEF Published
    <2>2. [j \in {i} |-> result] \in [{i} -> Result] /\ {i} \in SUBSET Nat
      OBVIOUS
    <2>3. [j \in {i} |-> result] \in UNION {[d -> Result] : d \in SUBSET Nat}
      BY <2>2
    <2> QED
      BY <2>1, <2>3 DEF Snapshot
  <1>2. CASE live.target = target
    <2> DEFINE D == DOMAIN live.items \cup {i}
               F == [j \in D |-> IF j = i THEN result ELSE live.items[j]]
    <2>1. D \in SUBSET Nat /\ F \in [D -> Result]
      BY SnapshotType
    <2>2. F \in UNION {[d -> Result] : d \in SUBSET Nat}
      BY <2>1
    <2>3. \A j \in DOMAIN F : ResultFits(kept, target, F[j])
      BY <1>2 DEF Snapshot
    <2>4. live' = [live EXCEPT !.items = F]
      BY <1>2 DEF Published
    <2> HIDE DEF D, F
    <2>5. /\ live' \in [target : Targets, items : UNION {[d -> Result] : d \in SUBSET Nat}]
          /\ live'.target = target /\ live'.items = F
      BY <1>2, <2>2, <2>4 DEF Snapshot
    <2> QED
      BY <2>3, <2>5 DEF Snapshot
  <1> QED
    BY <1>1, <1>2

\* Merging puts on a list only what fits it.
LEMMA MergedType ==
    ASSUME IInv, NEW p \in Page, NEW k \in 1..Len(lists[p]), NEW R, NEW T,
           R \subseteq Register, lists[p][k] \in Seq([reg : R, shown : T \cup Blank]),
           live.target = <<p, k>> => \A i \in DOMAIN live.items : live.items[i] \in T
    PROVE  Merged(p, k) \in Seq([reg : R, shown : T \cup Blank])
  <1> DEFINE C == [reg : R, shown : T \cup Blank]
             cards == lists[p][k]
  <1>1. /\ cards \in Seq(C) /\ DOMAIN cards = 1..Len(cards) /\ Len(cards) \in Nat
        /\ \A i \in 1..Len(cards) : cards[i] \in C
    BY LenProperties, ElementOfSeq
  <1>2. ASSUME NEW F \in [1..Len(cards) -> C]
        PROVE  F \in Seq(C)
    BY <1>1, <1>2, FunctionIsSeq
  <1>3. [i \in DOMAIN cards |-> Card(cards[i].reg, "Waiting")] \in Seq(C)
    <2>1. \A i \in 1..Len(cards) : Card(cards[i].reg, "Waiting") \in C
      BY <1>1 DEF Card, Blank
    <2> HIDE DEF C, cards
    <2> QED
      BY <1>1, <1>2, <2>1
  <1>4. ASSUME live.target = <<p, k>>
        PROVE  [i \in DOMAIN cards |->
                    IF i \in DOMAIN live.items THEN Card(cards[i].reg, live.items[i])
                                               ELSE cards[i]] \in Seq(C)
    <2> DEFINE e(i) == IF i \in DOMAIN live.items THEN Card(cards[i].reg, live.items[i])
                                                  ELSE cards[i]
    <2>1. \A i \in 1..Len(cards) : e(i) \in C
      BY <1>1, <1>4 DEF Card
    <2>2. [i \in 1..Len(cards) |-> e(i)] \in [1..Len(cards) -> C]
      <3> HIDE DEF e, C, cards
      <3> QED
        BY <2>1
    <2>3. [i \in 1..Len(cards) |-> e(i)] \in Seq(C)
      <3> HIDE DEF e, C, cards
      <3> QED
        BY <2>2, <1>2
    <2> QED
      BY <1>1, <2>3
  <1> QED
    BY <1>1, <1>3, <1>4 DEF Merged

LEMMA TimerMergesKeeps ==
    ASSUME IInv, TimerMerges
    PROVE  IInv'
  <1>1. /\ UNCHANGED <<page, active, kept, policy, live, was, linkUp, poll, dev, spent>>
        /\ ui' = "Idle" /\ fresh' = FALSE /\ seen' \in BOOLEAN
    BY DEF TimerMerges, IInv, Others
  <1>2. Pages'
    <2>1. CASE ~fresh
      BY <1>1, <2>1 DEF TimerMerges, IInv, Pages
    <2>2. CASE fresh
      <3>1. /\ lists' = [p \in Page |-> [k \in DOMAIN lists[p] |-> Merged(p, k)]]
            /\ lists \in [Page -> Seq(Seq(Cards))] /\ kept \in [Page -> Nat]
        BY <2>2 DEF TimerMerges, IInv, Pages
      <3>2. ASSUME NEW p \in Page
            PROVE  /\ lists'[p] \in Seq(Seq(Cards)) /\ Len(lists'[p]) = Len(lists[p])
                   /\ \A k \in 1..kept[p] : lists'[p][k] \in Seq(OwnCards(p, k))
        <4>1. /\ Len(lists[p]) \in Nat /\ DOMAIN lists[p] = 1..Len(lists[p])
              /\ \A k \in 1..Len(lists[p]) : lists[p][k] \in Seq(Cards)
          BY <3>1, LenProperties, ElementOfSeq
        <4>2. lists'[p] = [k \in 1..Len(lists[p]) |-> Merged(p, k)]
          BY <3>1, <4>1
        <4>3. ASSUME NEW k \in 1..Len(lists[p])
              PROVE  Merged(p, k) \in Seq(Cards)
          <5>1. \A i \in DOMAIN live.items : live.items[i] \in Result
            BY SnapshotType DEF IInv
          <5>2. lists[p][k] \in Seq([reg : Register, shown : Result \cup Blank])
            BY <4>1 DEF Cards
          <5>3. Merged(p, k) \in Seq([reg : Register, shown : Result \cup Blank])
            BY <5>1, <5>2, MergedType
          <5> QED
            BY <5>3 DEF Cards
        <4>4. [k \in 1..Len(lists[p]) |-> Merged(p, k)] \in [1..Len(lists[p]) -> Seq(Cards)]
          BY <4>3
        <4>5. lists'[p] \in Seq(Seq(Cards)) /\ Len(lists'[p]) = Len(lists[p])
          BY <4>1, <4>2, <4>4, FunctionIsSeq
        <4>6. ASSUME NEW k \in 1..kept[p]
              PROVE  lists'[p][k] \in Seq(OwnCards(p, k))
          <5>1. /\ kept[p] \in Nat /\ kept[p] <= Len(lists[p])
                /\ kept[p] <= Len(FirstLists[p])
                /\ lists[p][k] \in Seq(OwnCards(p, k))
            BY DEF IInv, Pages
          <5>2. FirstLists[p] \in Seq(Seq(Register))
            BY QueryPagesAssumption
          <5>3. k \in 1..Len(lists[p]) /\ k \in 1..Len(FirstLists[p])
            BY <4>1, <5>1, <5>2, LenProperties
          <5>4. Own(p, k) \subseteq Register
            BY <5>3, OwnType
          <5>5. live.target = <<p, k>> =>
                    \A i \in DOMAIN live.items : live.items[i] \in Results(p, k)
            BY DEF IInv, Snapshot, ResultFits
          <5>6. lists[p][k] \in Seq([reg : Own(p, k), shown : Results(p, k) \cup Blank])
            BY <5>1 DEF OwnCards
          <5>7. Merged(p, k) \in Seq([reg : Own(p, k), shown : Results(p, k) \cup Blank])
            BY <5>3, <5>4, <5>5, <5>6, MergedType
          <5> QED
            BY <4>2, <5>3, <5>7 DEF OwnCards
        <4> QED
          BY <4>5, <4>6
      <3>3. lists' \in [Page -> Seq(Seq(Cards))]
        BY <3>1, <3>2
      <3> QED
        BY <1>1, <3>2, <3>3 DEF IInv, Pages
    <2> QED
      BY <2>1, <2>2
  <1> QED
    BY <1>1, <1>2 DEF IInv, Policy, Snapshot, Rounds, Others, spent

-----------------------------------------------------------------------------
(* The user's steps.                                                        *)

LEMMA EditKeepsInv ==
    ASSUME IInv, Edit
    PROVE  IInv'
  <1>1. /\ Shown \in Seq(MyCards) /\ Shown \in Seq(Cards)
        /\ Mine \subseteq Register /\ MineShown \subseteq Result
        /\ Len(Shown) \in Nat /\ DOMAIN Shown = 1..Len(Shown)
        /\ \A i \in DOMAIN Shown : Shown[i] \in MyCards
    BY ShownType, ElementOfSeq DEF IInv
  <1>2. ASSUME active[page] \in DOMAIN Menu[page], NEW r \in Menu[page][active[page]]
        PROVE  r \in Mine
    <2>1. Menu[page] \in Seq(SUBSET Register)
      BY QueryPagesAssumption DEF IInv, Pages
    <2>2. r \in Register
      BY <1>2, <2>1, LenProperties, ElementOfSeq
    <2> QED
      BY <1>2, <2>2 DEF Mine, Own
  <1>3. ASSUME active[page] \in DOMAIN Menu[page], NEW r \in Menu[page][active[page]],
               AddCard(r)
        PROVE  IInv'
    <2>1. Card(r, "Waiting") \in MyCards
      BY <1>2, <1>3 DEF Card, MyCards, Blank
    <2>2. Append(Shown, Card(r, "Waiting")) \in Seq(MyCards)
      BY <1>1, <2>1, AppendProperties
    <2> QED
      BY <1>3, <2>2, EditKeeps DEF AddCard
  <1>4. ASSUME active[page] \in DOMAIN Menu[page], NEW r \in Menu[page][active[page]],
               NEW i \in DOMAIN Shown, EditCard(i, r)
        PROVE  IInv'
    <2> DEFINE c == Card(r, IF page = "Config" /\ Shown[i].reg = r
                            THEN Shown[i].shown ELSE "Waiting")
    <2>1. c \in MyCards
      BY <1>1, <1>2, <1>4 DEF Card, MyCards, Blank
    <2>2. [Shown EXCEPT ![i] = c] \in Seq(MyCards)
      <3> HIDE DEF c
      <3> QED
        BY <1>1, <2>1, ExceptSeq
    <2>3. /\ Edits /\ User /\ SetShown([Shown EXCEPT ![i] = c])
          /\ UNCHANGED <<page, active, kept, poll, dev>>
      BY <1>4 DEF EditCard
    <2> HIDE DEF c
    <2> QED
      BY <2>2, <2>3, EditKeeps
  <1>5. ASSUME NEW i \in DOMAIN Shown, RemoveCard(i)
        PROVE  IInv'
    <2>1. Without(Shown, i) \in Seq(MyCards)
      BY <1>1, WithoutProperties
    <2> QED
      BY <1>5, <2>1, EditKeeps DEF RemoveCard
  <1>6. ASSUME NEW i \in DOMAIN Shown, NEW to \in DOMAIN Shown, MoveCard(i, to)
        PROVE  IInv'
    <2> DEFINE rest == Without(Shown, i)
               list == SubSeq(rest, 1, to - 1) \o <<Shown[i]>> \o SubSeq(rest, to, Len(rest))
    <2>1. list \in Seq(MyCards)
      BY <1>1, MovedProperties
    <2>2. /\ Edits /\ User /\ SetShown(list)
          /\ UNCHANGED <<page, active, kept, poll, dev>>
      BY <1>6 DEF MoveCard
    <2> HIDE DEF list
    <2> QED
      BY <2>1, <2>2, EditKeeps
  <1>7. ASSUME AddList
        PROVE  IInv'
    <2>1. Pages'
      BY <1>7, ListComes DEF AddList, IInv
    <2>2. edits' \in 0..MaxEdits /\ faults' = faults
      BY <1>7, QueryPagesAssumption DEF AddList, IInv, Others, Edits
    <2>3. kept \in [Page -> Nat] /\ kept' = kept /\ \A p \in Page : kept[p] <= kept[p]
      BY <1>7 DEF AddList, IInv, Pages
    <2> QED
      BY <1>7, <2>1, <2>2, <2>3, UserKeeps DEF AddList
  <1>8. ASSUME NEW k \in DOMAIN lists[page], RemoveList(k)
        PROVE  IInv'
    <2>1. /\ Pages' /\ kept \in [Page -> Nat] /\ kept' \in [Page -> Nat]
          /\ \A p \in Page : kept'[p] <= kept[p]
      BY <1>8, ListGoes DEF RemoveList, IInv
    <2>2. edits' \in 0..MaxEdits /\ faults' = faults
      BY <1>8, QueryPagesAssumption DEF RemoveList, IInv, Others, Edits
    <2> QED
      BY <1>8, <2>1, <2>2, UserKeeps DEF RemoveList
  <1>9. ASSUME NEW i \in DOMAIN Shown, WriteCard(i)
        PROVE  IInv'
    <2>1. [Shown[i] EXCEPT !.shown = "Writing"] \in MyCards
      BY <1>1, <1>9 DEF MyCards, Blank
    <2>2. [Shown EXCEPT ![i].shown = "Writing"] \in Seq(MyCards)
      BY <1>1, <2>1, ExceptSeq
    <2>3. Pages'
      BY <1>9, <2>2, ListChanges DEF WriteCard, IInv
    <2>4. Shown[i].reg \in Register
      BY <1>1, <1>9 DEF MyCards
    <2> DEFINE w == [NoRound EXCEPT !.pc = "Write", !.items = <<Shown[i].reg>>]
    <2>5. w \in RoundType /\ RoundFits(kept, w)
      BY <2>4, WriteType
    <2>6. poll' = [poll EXCEPT !["Write"] = w] /\ kept' = kept
      BY <1>9 DEF WriteCard
    <2>7. Rounds'
      <3> HIDE DEF w
      <3> QED
        BY <2>5, <2>6, RoundStep DEF IInv, Poller
    <2>8. edits' \in 0..MaxEdits /\ faults' = faults
      BY <1>9, QueryPagesAssumption DEF WriteCard, IInv, Others, Edits
    <2> QED
      BY <1>9, <2>3, <2>7, <2>8
      DEF WriteCard, IInv, Policy, Snapshot, Others, shared, timer
  <1> QED
    BY <1>3, <1>4, <1>5, <1>6, <1>7, <1>8, <1>9, Zenon DEF Edit

LEMMA TurningKeeps ==
    ASSUME IInv, \/ \E p \in Page : SetAppPage(p)
                 \/ \E k \in DOMAIN lists[page] : SwitchList(k)
    PROVE  IInv'
  <1>1. /\ UNCHANGED <<lists, kept, poll, dev, edits, faults>> /\ User
    BY DEF SetAppPage, SwitchList, spent
  <1>2. Pages'
    <2>1. CASE \E p \in Page : SetAppPage(p)
      BY <1>1, <2>1 DEF SetAppPage, IInv, Pages
    <2>2. CASE \E k \in DOMAIN lists[page] : SwitchList(k)
      <3>1. PICK k \in DOMAIN lists[page] : SwitchList(k)
        BY <2>2
      <3>2. /\ page \in Page /\ lists[page] \in Seq(Seq(Cards)) /\ active \in [Page -> Nat]
        BY DEF IInv, Pages
      <3>3. k \in 1..Len(lists[page]) /\ k \in Nat
        BY <3>2, LenProperties
      <3>4. /\ active' \in [Page -> Nat] /\ active'[page] = k /\ page' = page
            /\ \A p \in Page : p # page => active'[p] = active[p]
        BY <3>1, <3>2, <3>3 DEF SwitchList
      <3> QED
        BY <1>1, <3>3, <3>4 DEF IInv, Pages
    <2> QED
      BY <2>1, <2>2
  <1>3. /\ kept \in [Page -> Nat] /\ \A p \in Page : kept[p] <= kept[p]
        /\ edits \in 0..MaxEdits
    BY DEF IInv, Pages, Others
  <1> QED
    BY <1>1, <1>2, <1>3, UserKeeps

-----------------------------------------------------------------------------
(* The steps of the polls.                                                  *)

LEMMA WriteDoneKeeps ==
    ASSUME IInv, NEW ok \in BOOLEAN, WriteDone(ok)
    PROVE  IInv'
  <1>1. UNCHANGED <<pages, shared, timer, linkUp, spent>>
    BY DEF WriteDone
  <1>2. Rounds'
    <2> DEFINE p == IF ok THEN [NoRound EXCEPT !.pc = "Begin"] ELSE NoRound
    <2>1. p \in RoundType /\ RoundFits(kept, p)
      BY NoRoundType
    <2>2. poll' = [poll EXCEPT !["Write"] = p] /\ kept' = kept
      BY <1>1 DEF WriteDone, pages
    <2> HIDE DEF p
    <2> QED
      BY <2>1, <2>2, RoundStep DEF IInv, Poller
  <1>3. dev' \in [Register -> Value] /\ \A r \in Register : dev'[r] \in Holds[r]
    <2>1. /\ poll["Write"].items \in Seq(Register) /\ poll["Write"].items # <<>>
      BY DEF IInv, Rounds, RoundType, RoundFits, WriteDone, Poller
    <2>2. poll["Write"].items[1] \in Register
      <3>1. Len(poll["Write"].items) \in Nat \ {0}
        BY <2>1, EmptySeq
      <3> QED
        BY <2>1, <3>1, ElementOfSeq
    <2>3. \A r \in Register : Holds[r] \subseteq Value
      BY QueryPagesAssumption
    <2> QED
      BY <2>2, <2>3 DEF WriteDone, IInv, Others
  <1> QED
    BY <1>1, <1>2, <1>3
    DEF IInv, Pages, Policy, Snapshot, Others, pages, shared, timer, spent

LEMMA RoundKeeps ==
    ASSUME IInv, NothingToPoll \/ \E t \in Poller : PollBegins(t) \/ PollLocks(t)
    PROVE  IInv'
  <1>1. /\ UNCHANGED <<pages, shared, timer, linkUp, dev, spent>> /\ kept' = kept
    BY DEF NothingToPoll, PollBegins, PollLocks, pages
  <1>2. Rounds'
    <2>1. CASE NothingToPoll
      BY <1>1, <2>1, NoRoundType, RoundStep DEF NothingToPoll, IInv, Poller
    <2>2. ASSUME NEW t \in Poller, PollBegins(t)
          PROVE  Rounds'
      <3> DEFINE p == [NoRound EXCEPT !.pc = "Gate", !.target = policy.target,
                                      !.items = policy.items]
      <3>1. /\ policy.target \in Targets /\ policy.items \in Seq(Register)
            /\ policy.items # <<>> /\ ItemsFit(kept, policy.target, policy.items)
        BY <2>2 DEF PollBegins, IInv, Policy
      <3>2. NoRound \in RoundType /\ NoRound.next = 1
        BY NoRoundType DEF NoRound
      <3>3. /\ p \in RoundType /\ p.pc = "Gate" /\ p.next = 1
            /\ p.target = policy.target /\ p.items = policy.items
        BY <3>1, <3>2 DEF RoundType, Steps
      <3>4. poll' = [poll EXCEPT ![t] = p]
        BY <2>2 DEF PollBegins
      <3> HIDE DEF p
      <3>5. RoundFits(kept, p)
        BY <3>1, <3>3 DEF RoundFits
      <3> QED
        BY <1>1, <3>3, <3>4, <3>5, RoundStep DEF IInv
    <2>3. ASSUME NEW t \in Poller, PollLocks(t)
          PROVE  Rounds'
      <3> DEFINE p == [poll[t] EXCEPT !.pc = "Read"]
      <3>1. poll[t] \in RoundType /\ RoundFits(kept, poll[t]) /\ poll[t].pc = "Gate"
        BY <2>3 DEF PollLocks, IInv, Rounds
      <3>2. /\ p \in RoundType /\ p.pc = "Read" /\ p.next = poll[t].next
            /\ p.target = poll[t].target /\ p.items = poll[t].items
        BY <3>1 DEF RoundType, Steps
      <3>3. 1 \in 1..Len(poll[t].items)
        <4>1. poll[t].items \in Seq(Register) /\ poll[t].items # <<>>
          BY <3>1 DEF RoundType, RoundFits
        <4>2. Len(poll[t].items) \in Nat \ {0}
          BY <4>1, EmptySeq
        <4> QED
          BY <4>2
      <3>4. poll' = [poll EXCEPT ![t] = p]
        BY <2>3 DEF PollLocks, IInv, Rounds
      <3> HIDE DEF p
      <3>5. RoundFits(kept, p)
        BY <3>1, <3>2, <3>3 DEF RoundFits
      <3> QED
        BY <1>1, <3>2, <3>4, <3>5, RoundStep DEF IInv
    <2> QED
      BY <2>1, <2>2, <2>3
  <1> QED
    BY <1>1, <1>2
    DEF IInv, Pages, Policy, Snapshot, Others, pages, shared, timer, spent

\* A result is what its register holds, which is one of the list's own.
LEMMA ResultOfRound ==
    ASSUME IInv, NEW t \in Poller, poll[t].pc \in {"Read", "Last"}
    PROVE  LET p == poll[t]
               v == dev[p.items[p.next]]
           IN  /\ v \in Result /\ ResultFits(kept, p.target, v)
               /\ ResultFits(kept, p.target, Failed)
               /\ p.target \in Targets /\ p.next \in Nat
  <1> DEFINE p == poll[t]
             r == p.items[p.next]
  <1>1. p \in RoundType /\ RoundFits(kept, p)
    BY PollerType DEF IInv
  <1>2. /\ p.items \in Seq(Register) /\ p.next \in 1..Len(p.items)
        /\ ItemsFit(kept, p.target, p.items) /\ p.target \in Targets /\ p.next \in Nat
    BY <1>1 DEF RoundType, RoundFits
  <1> HIDE DEF p
  <1>3. r \in Register /\ dev[r] \in Value /\ dev[r] \in Holds[r]
    BY <1>2, ElementOfSeq DEF IInv, Others
  <1>4. ASSUME NEW q \in Page, NEW k \in 1..kept[q], p.target = <<q, k>>
        PROVE  dev[r] \in Results(q, k) /\ Failed \in Results(q, k)
    <2>1. p.items \in Seq(Own(q, k))
      BY <1>2, <1>4 DEF ItemsFit
    <2>2. r \in Own(q, k)
      BY <1>2, <2>1, ElementOfSeq
    <2> QED
      BY <1>3, <2>2 DEF Results
  <1> QED
    BY <1>2, <1>3, <1>4 DEF p, ResultFits, Result

LEMMA PublishesKeeps ==
    ASSUME IInv, NEW t \in Poller, NEW ok \in BOOLEAN, PollPublishes(t, ok)
    PROVE  IInv'
  <1> DEFINE p == poll[t]
             result == IF ok THEN dev[p.items[p.next]] ELSE Failed
             q == IF p.pc = "Read" /\ p.next < Len(p.items)
                  THEN [p EXCEPT !.next = @ + 1]
                  ELSE IF p.pc = "Read" /\ t = "Poll"
                  THEN [NoRound EXCEPT !.pc = "Begin"]
                  ELSE NoRound
  <1>1. /\ UNCHANGED <<pages, policy, timer, linkUp, dev>> /\ kept' = kept
        /\ p.pc \in {"Read", "Last"} /\ poll' = [poll EXCEPT ![t] = q]
        /\ live' = Published(p.target, p.next, result)
    BY DEF PollPublishes, pages
  <1>2. Snapshot'
    <2>1. /\ result \in Result /\ ResultFits(kept, p.target, result)
          /\ p.target \in Targets /\ p.next \in Nat
      BY <1>1, ResultOfRound DEF Result
    <2> HIDE DEF p, result, q
    <2> QED
      BY <1>1, <2>1, PublishedFits DEF IInv
  <1>3. Rounds'
    <2>1. p \in RoundType /\ RoundFits(kept, p)
      BY PollerType DEF IInv
    <2>2. q \in RoundType /\ RoundFits(kept, q)
      <3>1. CASE p.pc = "Read" /\ p.next < Len(p.items)
        <4>1. q = [p EXCEPT !.next = p.next + 1]
          BY <3>1
        <4>2. p.next \in Nat /\ p.items \in Seq(Register)
          BY <2>1 DEF RoundType
        <4>3. Len(p.items) \in Nat
          BY <4>2, LenProperties
        <4> HIDE DEF p, q
        <4>4. /\ q \in RoundType /\ q.pc = p.pc /\ q.next = p.next + 1
              /\ q.target = p.target /\ q.items = p.items
          BY <2>1, <4>1, <4>2 DEF RoundType
        <4> QED
          BY <2>1, <3>1, <4>2, <4>3, <4>4 DEF RoundFits
      <3>2. CASE ~(p.pc = "Read" /\ p.next < Len(p.items))
        BY <3>2, NoRoundType
      <3> QED
        BY <3>1, <3>2
    <2> HIDE DEF q
    <2> QED
      BY <1>1, <2>2, RoundStep DEF IInv
  <1>4. Others'
    <2>1. fresh' \in BOOLEAN
      BY DEF PollPublishes, Changes, IInv, Others
    <2>2. edits' \in 0..MaxEdits /\ faults' \in 0..MaxFaults
      BY QueryPagesAssumption DEF PollPublishes, Fault, spent, IInv, Others
    <2> HIDE DEF p, q, result
    <2> QED
      BY <1>1, <2>1, <2>2 DEF IInv, Others, timer
  <1> HIDE DEF p, q, result
  <1> QED
    BY <1>1, <1>2, <1>3, <1>4 DEF IInv, Pages, Policy, pages

-----------------------------------------------------------------------------
(* The link and the timer.                                                  *)

LEMMA LinkKeeps ==
    ASSUME IInv, Connect \/ EndSession
    PROVE  IInv'
  <1>1. UNCHANGED <<pages, shared, timer, dev, spent>> /\ linkUp' \in BOOLEAN
    BY DEF Connect, EndSession, IInv, Others
  <1>2. Rounds'
    <2>1. CASE Connect
      <3> DEFINE p == [poll["Poll"] EXCEPT !.pc = "Begin"]
      <3>1. poll["Poll"] \in RoundType /\ RoundFits(kept, poll["Poll"])
        BY PollerType DEF IInv, Poller
      <3>2. /\ p \in RoundType /\ p.pc = "Begin" /\ p.target = poll["Poll"].target
            /\ p.items = poll["Poll"].items
        BY <3>1 DEF RoundType, Steps
      <3>3. poll' = [poll EXCEPT !["Poll"] = p] /\ kept' = kept
        BY <2>1 DEF Connect, pages, IInv, Rounds, Poller
      <3> HIDE DEF p
      <3>4. RoundFits(kept, p)
        BY <3>1, <3>2 DEF RoundFits
      <3> QED
        BY <3>2, <3>3, <3>4, RoundStep DEF IInv, Poller
    <2>2. CASE EndSession
      <3>1. NoRound \in RoundType /\ RoundFits(kept, NoRound)
        BY NoRoundType
      <3> QED
        BY <2>2, <3>1 DEF EndSession, Rounds, pages
    <2> QED
      BY <2>1, <2>2
  <1> QED
    BY <1>1, <1>2 DEF IInv, Pages, Policy, Snapshot, Others, pages, shared, timer, spent

LEMMA DisconnectKeeps ==
    ASSUME IInv, PeerDisconnects
    PROVE  IInv'
  <1>1. UNCHANGED <<pages, live, fresh, timer, dev>> /\ policy' = NoPoll
    BY DEF PeerDisconnects
  <1>2. Policy'
    <2>1. NoPoll \in [target : Targets, items : Seq(Register)]
      BY DEF NoPoll, Targets
    <2> QED
      BY <1>1, <2>1, NothingFits DEF Policy
  <1>3. Rounds'
    <2> DEFINE f(t) == IF poll[t].pc = "Read" THEN [poll[t] EXCEPT !.pc = "Last"]
                       ELSE IF t = "Poll" THEN NoRound ELSE poll[t]
    <2>1. ASSUME NEW t \in Poller
          PROVE  f(t) \in RoundType /\ RoundFits(kept, f(t))
      <3>1. poll[t] \in RoundType /\ RoundFits(kept, poll[t])
        BY PollerType DEF IInv
      <3>2. CASE poll[t].pc = "Read"
        <4>1. f(t) = [poll[t] EXCEPT !.pc = "Last"]
          BY <3>2
        <4> HIDE DEF f
        <4>2. /\ f(t) \in RoundType /\ f(t).pc = "Last" /\ f(t).next = poll[t].next
              /\ f(t).target = poll[t].target /\ f(t).items = poll[t].items
          BY <3>1, <4>1 DEF RoundType, Steps
        <4> QED
          BY <3>1, <3>2, <4>2 DEF RoundFits
      <3>3. CASE poll[t].pc # "Read"
        BY <3>1, <3>3, NoRoundType
      <3> QED
        BY <3>2, <3>3
    <2>2. poll' = [t \in Poller |-> f(t)] /\ kept' = kept
      BY DEF PeerDisconnects, pages
    <2> HIDE DEF f
    <2> QED
      BY <2>1, <2>2 DEF Rounds
  <1>4. Others'
    <2>1. edits' \in 0..MaxEdits /\ faults' \in 0..MaxFaults /\ linkUp' \in BOOLEAN
      <3>1. Fault /\ linkUp' = FALSE
        BY DEF PeerDisconnects
      <3>2. /\ edits \in 0..MaxEdits /\ faults \in 0..MaxFaults
            /\ MaxFaults \in Nat
        BY QueryPagesAssumption DEF IInv, Others
      <3>3. edits' = edits /\ faults < MaxFaults /\ faults' = faults + 1
        BY <3>1 DEF Fault
      <3>4. faults' \in 0..MaxFaults
        BY <3>2, <3>3
      <3> QED
        BY <3>1, <3>2, <3>3, <3>4
    <2> QED
      BY <1>1, <2>1 DEF IInv, Others, timer
  <1> QED
    BY <1>1, <1>2, <1>3, <1>4 DEF IInv, Pages, Snapshot, pages

LEMMA TimerRefreshesKeeps ==
    ASSUME IInv, TimerRefreshes
    PROVE  IInv'
  <1>1. UNCHANGED <<pages, linkUp, seen, poll, dev, spent>>
    BY DEF TimerRefreshes
  <1>2. Pages'
    BY <1>1 DEF IInv, Pages, pages
  <1>3. Policy'
    <2>1. CASE linkUp \/ was
      BY <1>2, <2>1, PolicyFollows DEF TimerRefreshes
    <2>2. CASE ~(linkUp \/ was)
      BY <1>1, <2>2 DEF TimerRefreshes, IInv, Policy, pages
    <2> QED
      BY <2>1, <2>2
  <1>4. Snapshot'
    <2>1. CASE was /\ ~linkUp
      BY <1>1, <2>1, NoLiveType DEF TimerRefreshes, Snapshot
    <2>2. CASE ~(was /\ ~linkUp)
      BY <1>1, <2>2 DEF TimerRefreshes, IInv, Snapshot, pages
    <2> QED
      BY <2>1, <2>2
  <1>5. Rounds' /\ Others'
    BY <1>1 DEF TimerRefreshes, IInv, Rounds, Others, pages, spent
  <1> QED
    BY <1>2, <1>3, <1>4, <1>5 DEF IInv

-----------------------------------------------------------------------------
(* The theorems.                                                            *)

LEMMA InitFits == Init => IInv
  <1> SUFFICES ASSUME Init PROVE IInv
    OBVIOUS
  <1>1. Pages
    <2>1. ASSUME NEW p \in Page
          PROVE  /\ lists[p] \in Seq(Seq(Cards)) /\ Len(lists[p]) = Len(FirstLists[p])
                 /\ Len(FirstLists[p]) \in Nat \ {0}
                 /\ \A k \in 1..Len(FirstLists[p]) : lists[p][k] \in Seq(OwnCards(p, k))
      <3> DEFINE first == FirstLists[p]
                 cards(k) == [i \in DOMAIN first[k] |-> Card(first[k][i], "Waiting")]
      <3>1. /\ first \in Seq(Seq(Register)) /\ first # <<>>
        BY QueryPagesAssumption
      <3>2. /\ Len(first) \in Nat \ {0} /\ DOMAIN first = 1..Len(first)
        BY <3>1, EmptySeq, LenProperties
      <3>3. ASSUME NEW k \in 1..Len(first)
            PROVE  cards(k) \in Seq(OwnCards(p, k)) /\ cards(k) \in Seq(Cards)
        <4>1. first[k] \in Seq(Register)
          BY <3>1, ElementOfSeq
        <4>2. /\ Len(first[k]) \in Nat /\ DOMAIN first[k] = 1..Len(first[k])
              /\ \A i \in 1..Len(first[k]) : first[k][i] \in Register
          BY <4>1, LenProperties, ElementOfSeq
        <4>3. \A i \in 1..Len(first[k]) : first[k][i] \in Own(p, k)
          BY <4>2 DEF Own, Range
        <4>4. \A i \in 1..Len(first[k]) : /\ Card(first[k][i], "Waiting") \in OwnCards(p, k)
                                           /\ Card(first[k][i], "Waiting") \in Cards
          BY <4>2, <4>3 DEF Card, OwnCards, Cards, Blank
        <4>5. /\ cards(k) \in [1..Len(first[k]) -> OwnCards(p, k)]
              /\ cards(k) \in [1..Len(first[k]) -> Cards]
          BY <4>2, <4>4
        <4> QED
          BY <4>2, <4>5, FunctionIsSeq
      <3>4. lists[p] = [k \in 1..Len(first) |-> cards(k)]
        BY <3>2 DEF Init
      <3> HIDE DEF cards, first
      <3>5. lists[p] \in [1..Len(first) -> Seq(Cards)]
        BY <3>3, <3>4
      <3>6. lists[p] \in Seq(Seq(Cards)) /\ Len(lists[p]) = Len(first)
        BY <3>2, <3>5, FunctionIsSeq
      <3> QED
        BY <3>2, <3>3, <3>4, <3>6 DEF first
    <2>2. lists \in [Page -> Seq(Seq(Cards))]
      BY <2>1 DEF Init
    <2>3. /\ page \in Page /\ active \in [Page -> Nat] /\ kept \in [Page -> Nat]
          /\ \A p \in Page : active[p] = 1 /\ kept[p] = Len(FirstLists[p])
      BY <2>1 DEF Init
    <2>4. ASSUME NEW p \in Page
          PROVE  /\ active[p] \in 1..Len(lists[p])
                 /\ kept[p] <= Len(lists[p]) /\ kept[p] <= Len(FirstLists[p])
                 /\ \A k \in 1..kept[p] : lists[p][k] \in Seq(OwnCards(p, k))
      BY <2>1, <2>3
    <2> QED
      BY <2>2, <2>3, <2>4 DEF Pages
  <1>2. Policy
    BY NothingFits DEF Init, Policy, NoPoll, Targets
  <1>3. Snapshot
    BY NoLiveType DEF Init, Snapshot
  <1>4. Rounds
    BY NoRoundType DEF Init, Rounds
  <1>5. Others
    <2>1. \A r \in Register : /\ Holds[r] \subseteq Value
                               /\ (CHOOSE v \in Holds[r] : TRUE) \in Holds[r]
      BY QueryPagesAssumption
    <2>2. dev \in [Register -> Value] /\ \A r \in Register : dev[r] \in Holds[r]
      BY <2>1 DEF Init
    <2>3. /\ {fresh, seen, linkUp, was} \subseteq BOOLEAN /\ ui \in {"Idle", "Merge"}
          /\ edits = 0 /\ faults = 0
      BY DEF Init
    <2> QED
      BY <2>2, <2>3, QueryPagesAssumption DEF Others
  <1> QED
    BY <1>1, <1>2, <1>3, <1>4, <1>5 DEF IInv

LEMMA NextFits == IInv /\ [Next]_vars => IInv'
  <1> SUFFICES ASSUME IInv, [Next]_vars PROVE IInv'
    OBVIOUS
  <1>1. CASE UNCHANGED vars
    BY <1>1 DEF vars, pages, shared, timer, spent, IInv, Pages, Policy, Snapshot,
                Rounds, Others
  <1>2. CASE \/ \E p \in Page : SetAppPage(p)
             \/ \E k \in DOMAIN lists[page] : SwitchList(k)
    BY <1>2, TurningKeeps
  <1>3. CASE Edit
    BY <1>3, EditKeepsInv
  <1>4. CASE \E ok \in BOOLEAN : WriteDone(ok)
    BY <1>4, WriteDoneKeeps
  <1>5. CASE NothingToPoll \/ \E t \in Poller : PollBegins(t) \/ PollLocks(t)
    BY <1>5, RoundKeeps
  <1>6. CASE \E t \in Poller : \E ok \in BOOLEAN : PollPublishes(t, ok)
    BY <1>6, PublishesKeeps
  <1>7. CASE Connect \/ EndSession
    BY <1>7, LinkKeeps
  <1>8. CASE PeerDisconnects
    BY <1>8, DisconnectKeeps
  <1>9. CASE TimerRefreshes
    BY <1>9, TimerRefreshesKeeps
  <1>10. CASE TimerMerges
    BY <1>10, TimerMergesKeeps
  <1> QED
    BY <1>1, <1>2, <1>3, <1>4, <1>5, <1>6, <1>7, <1>8, <1>9, <1>10, Zenon DEF Next, Round

LEMMA TypesFollow == IInv => TypeOK
  <1> SUFFICES ASSUME IInv PROVE TypeOK
    OBVIOUS
  <1>1. ASSUME NEW p \in Page
        PROVE  /\ lists[p] \in Seq(Seq([reg : Register, shown : Result \cup Blank]))
               /\ active[p] \in 1..Len(lists[p])
               /\ kept[p] \in 0..Len(lists[p]) /\ kept[p] <= Len(FirstLists[p])
    <2>1. /\ lists[p] \in Seq(Seq(Cards)) /\ kept[p] \in Nat
          /\ kept[p] <= Len(lists[p]) /\ kept[p] <= Len(FirstLists[p])
          /\ active[p] \in 1..Len(lists[p])
      BY DEF IInv, Pages
    <2>2. Len(lists[p]) \in Nat
      BY <2>1, LenProperties
    <2> QED
      BY <2>1, <2>2 DEF Cards
  <1>2. policy.items \in Seq(Register)
    BY DEF IInv, Policy
  <1>3. \A i \in DOMAIN live.items : live.items[i] \in Result
    BY SnapshotType DEF IInv
  <1>4. ASSUME NEW t \in Poller
        PROVE  /\ poll[t].pc \in {"Off", "Write", "Begin", "Gate", "Read", "Last"}
               /\ poll[t].pc \in {"Read", "Last"} => poll[t].next \in DOMAIN poll[t].items
    <2>1. poll[t] \in RoundType /\ RoundFits(kept, poll[t])
      BY PollerType DEF IInv
    <2>2. DOMAIN poll[t].items = 1..Len(poll[t].items)
      BY <2>1, LenProperties DEF RoundType
    <2> QED
      BY <2>1, <2>2 DEF RoundType, RoundFits, Steps
  <1> QED
    BY <1>1, <1>2, <1>3, <1>4 DEF TypeOK, IInv, Pages, Others

LEMMA ResultsFollow == IInv => ResultsStayOnTheirList
  <1> SUFFICES ASSUME IInv,
                      NEW p \in Page, NEW k \in 1..kept[p], NEW i \in DOMAIN lists[p][k],
                      lists[p][k][i].shown \in Value
               PROVE  \E r \in Own(p, k) : lists[p][k][i].shown \in Holds[r]
    BY DEF ResultsStayOnTheirList
  <1>1. lists[p][k] \in Seq(OwnCards(p, k))
    BY DEF IInv, Pages
  <1>2. lists[p][k][i] \in OwnCards(p, k)
    BY <1>1, LenProperties, ElementOfSeq
  <1> QED
    BY <1>2, QueryPagesAssumption DEF OwnCards, Results

LEMMA Correct == Spec => []IInv
  BY InitFits, NextFits, PTL DEF Spec

\* The pages, the policy, the snapshot and the rounds are always as the code
\* takes them to be: among it that the list in front exists, and that a round
\* in progress is at one of its own registers.
THEOREM TypeCorrect == Spec => []TypeOK
  BY Correct, TypesFollow, PTL

\* For any lists, edits and faults, a list that has kept its place shows values
\* of its own registers only (QueryPollSnapshot.target).
THEOREM ResultsCorrect == Spec => []ResultsStayOnTheirList
  BY Correct, ResultsFollow, PTL
=============================================================================
