----------------------------- MODULE QueryPages -----------------------------
(* The register cards of the query page and of the configuration page       *)
(* (pages/modbus_query.rs, pages/device_config.rs), the polls that read     *)
(* them (services/ble/poll_executor.rs) and the snapshot between the two    *)
(* (services/modbus.rs): a poll publishes a result for a list, known by its *)
(* page and number, and a card, known by its number; the 50 ms timer of the *)
(* UI merges the snapshot into the cards when its generation has changed.   *)
(* Meanwhile the user turns pages, edits the lists and writes registers,    *)
(* and the link is lost and made again.                                     *)
EXTENDS Naturals, Sequences, Functions

CONSTANTS
    Register,      \* registers a card can show
    Holds,         \* the values a register can have
    FirstLists,    \* page -> its lists of cards, each a sequence of registers
    Menu,          \* page -> list -> the registers the user may put on it
    MaxEdits,      \* bound: changes of lists, and writes
    MaxFaults      \* bound: failed reads and lost links

Page    == {"Query", "Config"}
Value   == UNION {Holds[r] : r \in Register}
Failed  == "Failed"
Result  == Value \cup {Failed}
Blank   == {"Waiting", "Writing"}
Poller  == {"Poll", "Write"}

ASSUME QueryPagesAssumption ==
    /\ Holds \in [Register -> SUBSET Value]
    /\ \A r \in Register : Holds[r] # {}
    /\ Value \cap ({Failed} \cup Blank) = {}
    /\ FirstLists \in [Page -> Seq(Seq(Register))]
    /\ \A p \in Page : FirstLists[p] # <<>>
    /\ Menu \in [Page -> Seq(SUBSET Register)]
    /\ \A p \in Page : DOMAIN Menu[p] = DOMAIN FirstLists[p]
    /\ MaxEdits \in Nat /\ MaxFaults \in Nat

VARIABLES
    page,      \* the page in front; one without cards is as an empty list
    lists,     \* page -> tabs or groups, each a sequence of cards
    active,    \* page -> the list in front
    kept,      \* history: page -> how many of its first lists keep their place
    policy,    \* PollPolicy.foreground
    live,      \* QueryPollSnapshot
    fresh,     \* the generation differs from the one merged last
    seen,      \* the generation merged last is not 0
    linkUp,    \* BleService::is_connected
    was,       \* was_connected of the timer
    ui,        \* "Idle", or "Merge": the timer is between refresh and merge
    poll,      \* the poll task and the task of a register write
    dev,       \* the device's registers
    edits,     \* how many of each there have been
    faults

pages  == <<page, lists, active, kept>>
shared == <<policy, live, fresh>>
timer  == <<seen, was, ui>>
spent  == <<edits, faults>>
vars   == <<pages, shared, timer, linkUp, poll, dev, spent>>

Card(r, s) == [reg |-> r, shown |-> s]
Registers(list) == [i \in DOMAIN list |-> list[i].reg]
Without(s, i) == SubSeq(s, 1, i - 1) \o SubSeq(s, i + 1, Len(s))

NoPoll   == [target |-> <<"None", 0>>, items |-> <<>>]
NoLive   == [target |-> <<"None", 0>>, items |-> [i \in {} |-> Failed]]
NoRound  == [pc |-> "Off", target |-> NoPoll.target, items |-> <<>>, next |-> 1]

TypeOK ==
    /\ page \in Page
    /\ \A p \in Page :
        /\ lists[p] \in Seq(Seq([reg : Register, shown : Result \cup Blank]))
        /\ active[p] \in 1..Len(lists[p])
        /\ kept[p] \in 0..Len(lists[p]) /\ kept[p] <= Len(FirstLists[p])
    /\ policy.items \in Seq(Register)
    /\ \A i \in DOMAIN live.items : live.items[i] \in Result
    /\ dev \in [Register -> Value] /\ \A r \in Register : dev[r] \in Holds[r]
    /\ {fresh, seen, linkUp, was} \subseteq BOOLEAN
    /\ ui \in {"Idle", "Merge"} /\ edits \in 0..MaxEdits /\ faults \in 0..MaxFaults
    /\ \A t \in Poller :
        /\ poll[t].pc \in {"Off", "Write", "Begin", "Gate", "Read", "Last"}
        /\ poll[t].pc \in {"Read", "Last"} => poll[t].next \in DOMAIN poll[t].items

Init ==
    /\ page \in Page /\ active = [p \in Page |-> 1]
    /\ kept = [p \in Page |-> Len(FirstLists[p])]
    /\ lists = [p \in Page |-> [k \in DOMAIN FirstLists[p] |->
                    [i \in DOMAIN FirstLists[p][k] |->
                        Card(FirstLists[p][k][i], "Waiting")]]]
    /\ policy = NoPoll /\ live = NoLive
    /\ fresh = FALSE /\ seen = FALSE /\ linkUp = FALSE /\ was = FALSE
    /\ ui = "Idle" /\ edits = 0 /\ faults = 0
    /\ poll = [t \in Poller |-> NoRound]
    /\ dev = [r \in Register |-> CHOOSE v \in Holds[r] : TRUE]

-----------------------------------------------------------------------------
(* The user.  Every handler runs on the UI thread, between two runs of the  *)
(* timer's callback, and tells the poll task what to read from now on.      *)

\* build_modbus_query_foreground, build_device_config_foreground.
Foreground ==
    IF ~linkUp' THEN NoPoll ELSE
    [target |-> <<page', active'[page']>>,
     items  |-> Registers(lists'[page'][active'[page']])]

SyncPollPolicy == policy' = Foreground

User ==
    /\ ui = "Idle"
    /\ UNCHANGED <<live, fresh, timer, linkUp>>
    /\ SyncPollPolicy

SetAppPage(p) ==
    /\ page' = p
    /\ UNCHANGED <<lists, active, kept, poll, dev, spent>>
    /\ User

SwitchList(k) ==
    /\ k \in DOMAIN lists[page]
    /\ active' = [active EXCEPT ![page] = k]
    /\ UNCHANGED <<page, lists, kept, poll, dev, spent>>
    /\ User

Edits ==
    edits < MaxEdits /\ edits' = edits + 1 /\ faults' = faults

Shown == lists[page][active[page]]

SetShown(list) == lists' = [lists EXCEPT ![page][active[page]] = list]

\* A card of the query page always begins anew, one of the configuration page
\* only with another register.
EditCard(i, r) ==
    /\ Edits
    /\ i \in DOMAIN Shown
    /\ SetShown([Shown EXCEPT ![i] =
            Card(r, IF page = "Config" /\ @.reg = r THEN @.shown ELSE "Waiting")])
    /\ UNCHANGED <<page, active, kept, poll, dev>>
    /\ User

AddCard(r) ==
    /\ Edits
    /\ SetShown(Append(Shown, Card(r, "Waiting")))
    /\ UNCHANGED <<page, active, kept, poll, dev>>
    /\ User

RemoveCard(i) ==
    /\ Edits
    /\ i \in DOMAIN Shown
    /\ SetShown(Without(Shown, i))
    /\ UNCHANGED <<page, active, kept, poll, dev>>
    /\ User

\* The card is dropped in front of the one that is number `to` afterwards.
MoveCard(i, to) ==
    /\ Edits
    /\ page = "Query" /\ {i, to} \subseteq DOMAIN Shown /\ i # to
    /\ LET rest == Without(Shown, i)
       IN  SetShown(SubSeq(rest, 1, to - 1) \o <<Shown[i]>>
                        \o SubSeq(rest, to, Len(rest)))
    /\ UNCHANGED <<page, active, kept, poll, dev>>
    /\ User

AddList ==
    /\ Edits
    /\ lists' = [lists EXCEPT ![page] = Append(@, <<>>)]
    /\ active' = [active EXCEPT ![page] = Len(lists[page]) + 1]
    /\ UNCHANGED <<page, kept, poll, dev>>
    /\ User

\* Lists behind the one removed move up.
Moved(k) == kept' = [kept EXCEPT ![page] = IF k <= @ THEN k - 1 ELSE @]

\* Mutant: the list in front stays what it was.
RemoveListOnly(k) ==
    /\ Edits
    /\ k \in DOMAIN lists[page] /\ Len(lists[page]) > 1
    /\ lists' = [lists EXCEPT ![page] = Without(@, k)]
    /\ Moved(k)
    /\ UNCHANGED <<page, active, poll, dev>>
    /\ ui = "Idle" /\ UNCHANGED <<shared, timer, linkUp>>

RemoveList(k) ==
    /\ Edits
    /\ k \in DOMAIN lists[page] /\ Len(lists[page]) > 1
    /\ lists' = [lists EXCEPT ![page] = Without(@, k)]
    /\ active' = [active EXCEPT ![page] =
                    IF @ > Len(lists[page]) - 1 THEN Len(lists[page]) - 1 ELSE @]
    /\ Moved(k)
    /\ UNCHANGED <<page, poll, dev>>
    /\ User

\* on_write_device_config_item: the session starts a task for the write.
WriteCard(i) ==
    /\ Edits
    /\ page = "Config" /\ linkUp /\ i \in DOMAIN Shown
    /\ poll["Write"].pc = "Off"
    /\ SetShown([Shown EXCEPT ![i].shown = "Writing"])
    /\ poll' = [poll EXCEPT !["Write"] =
                    [NoRound EXCEPT !.pc = "Write", !.items = <<Shown[i].reg>>]]
    /\ ui = "Idle"
    /\ UNCHANGED <<page, active, kept, shared, timer, linkUp, dev>>

-----------------------------------------------------------------------------
(* The polls.  One at a time has the Modbus gate and keeps it for a round.  *)

Fault == faults < MaxFaults /\ faults' = faults + 1 /\ edits' = edits

GateFree == \A t \in Poller : poll[t].pc # "Read"

\* write_holding_registers, under the gate.  If it succeeds the task makes a
\* round of its own, of whatever is in front then.
WriteDone(ok) ==
    /\ poll["Write"].pc = "Write" /\ GateFree
    /\ ok => linkUp
    /\ poll' = [poll EXCEPT !["Write"] =
                    IF ok THEN [NoRound EXCEPT !.pc = "Begin"] ELSE NoRound]
    /\ LET r == poll["Write"].items[1]
       IN  IF ok THEN \E v \in Holds[r] : dev' = [dev EXCEPT ![r] = v]
                 ELSE dev' = dev
    /\ UNCHANGED <<pages, shared, timer, linkUp, spent>>

\* effective_foreground is read before the gate is waited for.
PollBegins(t) ==
    /\ poll[t].pc = "Begin"
    /\ policy.items # <<>>
    /\ poll' = [poll EXCEPT ![t] =
                    [NoRound EXCEPT !.pc = "Gate", !.target = policy.target,
                                    !.items = policy.items]]
    /\ UNCHANGED <<pages, shared, timer, linkUp, dev, spent>>

NothingToPoll ==
    /\ poll["Write"].pc = "Begin" /\ policy.items = <<>>
    /\ poll' = [poll EXCEPT !["Write"] = NoRound]
    /\ UNCHANGED <<pages, shared, timer, linkUp, dev, spent>>

PollLocks(t) ==
    /\ poll[t].pc = "Gate" /\ GateFree /\ linkUp
    /\ poll' = [poll EXCEPT ![t].pc = "Read"]
    /\ UNCHANGED <<pages, shared, timer, linkUp, dev, spent>>

\* Mutant: the results of another list are kept.
PublishedOnTop(target, i, result) ==
    [target |-> target, items |-> [j \in DOMAIN live.items \cup {i} |->
                                      IF j = i THEN result ELSE live.items[j]]]

\* publish_query_item: results of another list are thrown away.
Published(target, i, result) ==
    IF live.target # target
    THEN [target |-> target, items |-> [j \in {i} |-> result]]
    ELSE [live EXCEPT !.items = [j \in DOMAIN @ \cup {i} |->
                                    IF j = i THEN result ELSE live.items[j]]]

\* Mutant: a new result for a known card makes no generation.
ChangesForNewOnly(target, i, result) ==
    live.target # target \/ i \notin DOMAIN live.items

Changes(target, i, result) == Published(target, i, result) # live

\* A read fails, or brings what the register holds, which no write changes as
\* long as the gate is held.  A task that is aborted in a read, or finds the
\* link gone, may have one result in hand.
PollPublishes(t, ok) ==
    LET p == poll[t]
        result == IF ok THEN dev[p.items[p.next]] ELSE Failed
    IN  /\ p.pc \in {"Read", "Last"}
        /\ live' = Published(p.target, p.next, result)
        /\ fresh' = (fresh \/ Changes(p.target, p.next, result))
        /\ poll' = [poll EXCEPT ![t] =
                IF p.pc = "Read" /\ p.next < Len(p.items)
                THEN [p EXCEPT !.next = @ + 1]
                ELSE IF p.pc = "Read" /\ t = "Poll"
                THEN [NoRound EXCEPT !.pc = "Begin"]
                ELSE NoRound]
        /\ IF ok \/ ~linkUp THEN UNCHANGED spent ELSE Fault
        /\ UNCHANGED <<pages, policy, timer, linkUp, dev>>

-----------------------------------------------------------------------------
(* The link.                                                                *)

Connect ==
    /\ ~linkUp /\ \A t \in Poller : poll[t].pc = "Off"
    /\ linkUp' = TRUE
    /\ poll' = [poll EXCEPT !["Poll"].pc = "Begin"]
    /\ UNCHANGED <<pages, shared, timer, dev, spent>>

\* on_peer_disconnect
PeerDisconnects ==
    /\ linkUp
    /\ linkUp' = FALSE
    /\ policy' = NoPoll
    /\ poll' = [t \in Poller |->
                    IF poll[t].pc = "Read" THEN [poll[t] EXCEPT !.pc = "Last"]
                    ELSE IF t = "Poll" THEN NoRound ELSE poll[t]]
    /\ Fault
    /\ UNCHANGED <<pages, live, fresh, timer, dev>>

\* end_session waits for the tasks and aborts the register writes.
EndSession ==
    /\ ~linkUp /\ \E t \in Poller : poll[t].pc # "Off"
    /\ poll' = [t \in Poller |-> NoRound]
    /\ UNCHANGED <<pages, shared, timer, linkUp, dev, spent>>

-----------------------------------------------------------------------------
(* The timer of app/mod.rs.                                                 *)

\* refresh_all: the policy follows the link; at the edge the snapshot and its
\* generation are reset (ModbusService::on_disconnected).
TimerRefreshes ==
    /\ ui = "Idle"
    /\ ui' = "Merge" /\ was' = linkUp
    /\ UNCHANGED <<pages, linkUp>>
    /\ IF linkUp \/ was THEN SyncPollPolicy ELSE policy' = policy
    /\ IF was /\ ~linkUp THEN live' = NoLive /\ fresh' = seen
                         ELSE UNCHANGED <<live, fresh>>
    /\ UNCHANGED <<seen, poll, dev, spent>>

\* apply_query_poll_results, apply_config_poll_results.
Merged(p, k) ==
    LET cards == lists[p][k]
    IN  IF k # active[p] THEN cards
        ELSE IF DOMAIN live.items = {}
        THEN IF linkUp THEN cards
             ELSE [i \in DOMAIN cards |-> Card(cards[i].reg, "Waiting")]
        ELSE IF live.target # <<p, k>> THEN cards
        ELSE [i \in DOMAIN cards |->
                IF i \in DOMAIN live.items THEN Card(cards[i].reg, live.items[i])
                                           ELSE cards[i]]

TimerMerges ==
    /\ ui = "Merge"
    /\ ui' = "Idle"
    /\ lists' = IF fresh THEN [p \in Page |-> [k \in DOMAIN lists[p] |-> Merged(p, k)]]
                         ELSE lists
    /\ fresh' = FALSE
    /\ seen' = IF fresh THEN DOMAIN live.items # {} ELSE seen
    /\ UNCHANGED <<page, active, kept, policy, live, was, linkUp, poll, dev, spent>>

-----------------------------------------------------------------------------
Edit ==
    \/ active[page] \in DOMAIN Menu[page] /\ \E r \in Menu[page][active[page]] :
        AddCard(r) \/ \E i \in DOMAIN Shown : EditCard(i, r)
    \/ \E i \in DOMAIN Shown : RemoveCard(i)
    \/ \E i, to \in DOMAIN Shown : MoveCard(i, to)
    \/ AddList
    \/ \E k \in DOMAIN lists[page] : RemoveList(k)
    \/ \E i \in DOMAIN Shown : WriteCard(i)

Round(t) ==
    \/ PollBegins(t)
    \/ PollLocks(t)
    \/ \E ok \in BOOLEAN : PollPublishes(t, ok)

Next ==
    \/ \E p \in Page : SetAppPage(p)
    \/ \E k \in DOMAIN lists[page] : SwitchList(k)
    \/ Edit
    \/ \E ok \in BOOLEAN : WriteDone(ok)
    \/ NothingToPoll
    \/ \E t \in Poller : Round(t)
    \/ Connect
    \/ PeerDisconnects
    \/ EndSession
    \/ TimerRefreshes
    \/ TimerMerges

Spec == Init /\ [][Next]_vars

\* The timer runs every 50 ms; the tasks run on the runtime's threads, a read
\* has a deadline, and the gate is fair, which SF says of its two customers.
Fairness ==
    /\ WF_vars(TimerRefreshes) /\ WF_vars(TimerMerges)
    /\ WF_vars(NothingToPoll) /\ WF_vars(EndSession)
    /\ SF_vars(\E ok \in BOOLEAN : WriteDone(ok))
    /\ \A t \in Poller :
        /\ WF_vars(PollBegins(t)) /\ SF_vars(PollLocks(t))
        /\ WF_vars(\E ok \in BOOLEAN : PollPublishes(t, ok))

FairSpec == Spec /\ Fairness

-----------------------------------------------------------------------------
\* The registers that may be, or have been, on a list.
Own(p, k) == Menu[p][k] \cup Range(FirstLists[p][k])

\* A list that has kept its place never shows what was read for another one,
\* whatever pages were turned, cards moved and lists added or removed behind it
\* while the round was under way: the target keeps the results of the lists
\* apart.  A list that moves into the place of a removed one has the other's
\* results until they are read again.
ResultsStayOnTheirList ==
    \A p \in Page : \A k \in 1..kept[p] : \A i \in DOMAIN lists[p][k] :
        LET s == lists[p][k][i].shown
        IN  s \in Value => \E r \in Own(p, k) : s \in Holds[r]

Filled(p) == {k \in DOMAIN Menu[p] : Menu[p][k] # {}}

InFront(p, k) == linkUp /\ page = p /\ active[p] = k

ShowsItsOwn(p, k) ==
    k \in DOMAIN lists[p] => \A i \in DOMAIN lists[p][k] :
        lists[p][k][i].shown \in {Failed, dev[lists[p][k][i].reg]}

\* Once the lists are left alone, a new result for the list in front brings
\* all its cards, as long as it stays there, to show what their own registers
\* hold, or that they were not read: whatever was removed, moved, edited or
\* written while earlier rounds were under way, whose results go by the number
\* of the card alone.
CardsSettle ==
    \A p \in Page : \A k \in Filled(p) :
        (edits = MaxEdits /\ fresh /\ live.target = <<p, k>> /\ InFront(p, k))
            ~> (~InFront(p, k) \/ []ShowsItsOwn(p, k))
=============================================================================
