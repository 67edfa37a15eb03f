--------------------------- MODULE WifiProvision ---------------------------
(* Bringing the device into a Wi-Fi network (state/wifi_provision.rs,       *)
(* pages/wifi_provision.rs).  The user applies a network: the client begins *)
(* to wait and starts a task for each register to be written.  Whether it   *)
(* has worked is read off two results of the configuration page's polls,    *)
(* the state of the link (11018) and the network's name (11108), which come *)
(* one by one through the snapshot that QueryPages describes, and only when *)
(* the timer merges it with the built-in group in front; the same timer     *)
(* moves the phase on and looks at the deadlines of 45 s and 60 s.          *)
EXTENDS Naturals, Sequences

CONSTANTS
    Ssid,          \* names of networks
    First,         \* the network the device is set up for at first
    MaxApplies,    \* bound: networks applied
    MaxFaults      \* bound: failed reads, lost BLE links, lost Wi-Fi links

None   == "None"
Failed == "Failed"
Link   == {"Off", "Sta", "Cloud"}    \* no Wi-Fi; joined; joined and in the cloud
Item   == {"Link", "Ssid", "Card"}
Value  == Link \cup Ssid \cup {Failed, "Text"}

ASSUME WifiAssumption ==
    /\ First \in Ssid
    /\ Ssid \cap (Link \cup {None, Failed, "Text"}) = {}
    /\ MaxApplies \in Nat /\ MaxFaults \in Nat

VARIABLES
    wifi,      \* WifiProvisionUiState
    page,      \* "Config" or another one
    group,     \* active_config_group: the built-in one, or one of cards
    policy,    \* PollPolicy.foreground
    live,      \* QueryPollSnapshot
    fresh,     \* the generation differs from the one merged last
    seen,      \* the generation merged last is not 0
    linkUp,    \* BleService::is_connected
    was,       \* was_connected of the timer
    round,     \* the poll under way
    writes,    \* the tasks of register writes
    dev,       \* the device's Wi-Fi
    had,       \* the names the device has been given so far
    applies,   \* how many of each there have been
    faults

screen == <<page, group>>
shared == <<policy, live, fresh>>
timer  == <<seen, was>>
net    == <<dev, had>>
spent  == <<applies, faults>>
vars   == <<wifi, screen, shared, timer, linkUp, round, writes, net, spent>>

Phase   == {"Idle", "ConnectingWifi", "ConnectingCloud", "Success", Failed}
Targets == {None, "Builtin", "Cards"}

\* WifiProvisionUiState::blank, reset_on_disconnect.  What elapsed() says of
\* the phase is in `late`: its deadline is over.
Blank    == [phase |-> "Idle", late |-> FALSE, pending |-> None,
             link |-> "Off", ssid |-> None]
NoLive   == [target |-> None, items |-> [i \in {} |-> Failed]]
NoRound  == [pc |-> "Off", target |-> None, todo |-> <<>>, hand |-> <<>>]
NewRound == [NoRound EXCEPT !.pc = "Begin"]
Write(reg, ssid) == [n |-> applies, reg |-> reg, ssid |-> ssid]

TypeOK ==
    /\ wifi \in [phase : Phase, late : BOOLEAN, pending : Ssid \cup {None},
                 link : Link, ssid : Ssid \cup {None}]
    /\ page \in {"Config", "Other"} /\ group \in {"Builtin", "Cards"}
    /\ policy \in Targets
    /\ live \in [target : Targets, items : UNION {[d -> Value] : d \in SUBSET Item}]
    /\ fresh \in BOOLEAN /\ seen \in BOOLEAN /\ linkUp \in BOOLEAN /\ was \in BOOLEAN
    /\ round \in [pc : {"Off", "Begin", "Read", "Last"}, target : Targets,
                  todo : Seq(Item), hand : (Item \X Value) \cup {<<>>}]
    /\ writes \subseteq [n : 0..MaxApplies, reg : {"Ssid", "OnOff"}, ssid : Ssid]
    /\ dev \in [ssid : Ssid, on : BOOLEAN, due : BOOLEAN, link : Link]
    /\ had \subseteq Ssid
    /\ applies \in 0..MaxApplies /\ faults \in 0..MaxFaults

Init ==
    /\ wifi = Blank /\ page = "Other" /\ group = "Builtin"
    /\ policy = None /\ live = NoLive /\ fresh = FALSE /\ seen = FALSE
    /\ linkUp = FALSE /\ was = FALSE
    /\ round = NoRound /\ writes = {} /\ had = {First}
    /\ dev \in [ssid : {First}, on : BOOLEAN, due : {FALSE},
                link : Link]
    /\ ~dev.on => dev.link = "Off"
    /\ applies = 0 /\ faults = 0

Fault == faults < MaxFaults /\ faults' = faults + 1 /\ applies' = applies

-----------------------------------------------------------------------------
(* The user.                                                                *)

\* build_device_config_foreground
Foreground(p, g) ==
    IF ~linkUp \/ p # "Config" THEN None ELSE g

TurnPage(p, g) ==
    /\ page' = p /\ group' = g
    /\ p = "Other" => g = group
    /\ policy' = Foreground(p, g)
    /\ UNCHANGED <<wifi, live, fresh, timer, linkUp, round, writes, net, spent>>

\* apply_wifi_credentials.  Each register has a task of its own, none of which
\* waits for another: the name, 12018 and 12050, which the device needs both,
\* and the password, which tells only in whether the device gets on.
Apply(s) ==
    /\ page = "Config" /\ group = "Builtin" /\ linkUp
    /\ applies < MaxApplies /\ applies' = applies + 1
    /\ writes' = writes \cup {Write(reg, s) : reg \in {"Ssid", "OnOff"}}
    /\ wifi' = [wifi EXCEPT !.phase = "ConnectingWifi", !.late = FALSE, !.pending = s]
    /\ UNCHANGED <<screen, shared, timer, linkUp, round, net, faults>>

-----------------------------------------------------------------------------
(* The device, as far as the registers tell: a new name makes it leave the  *)
(* network, but the register of the name shows it at once (ref/dev/main:    *)
(* iot_period_task.c, iot_wifi_init.c).  It gets on when it can, if at all. *)

GateFree == round.pc # "Read"

\* write_holding_registers, under the gate; without an answer the task ends.
WriteLands(w) ==
    /\ w \in writes /\ GateFree /\ linkUp
    /\ writes' = writes \ {w}
    /\ dev' = IF w.reg = "OnOff"
              THEN [dev EXCEPT !.on = TRUE]
              ELSE [dev EXCEPT !.ssid = w.ssid,
                               !.due = @ \/ (dev.on /\ dev.ssid # w.ssid)]
    /\ had' = had \cup {dev'.ssid}
    /\ UNCHANGED <<wifi, screen, shared, timer, linkUp, round, spent>>

WriteFails(w) ==
    /\ w \in writes /\ GateFree
    /\ writes' = writes \ {w}
    /\ UNCHANGED <<wifi, screen, shared, timer, linkUp, round, net, spent>>

\* WIFI_STA_NEW_AP
LeavesNetwork ==
    /\ dev.due
    /\ dev' = [dev EXCEPT !.due = FALSE, !.link = "Off"]
    /\ UNCHANGED <<wifi, screen, shared, timer, linkUp, round, writes, had, spent>>

GetsOn ==
    /\ dev.on /\ ~dev.due
    /\ \/ dev.link = "Off" /\ dev' = [dev EXCEPT !.link = "Sta"]
       \/ dev.link = "Sta" /\ dev' = [dev EXCEPT !.link = "Cloud"]
    /\ UNCHANGED <<wifi, screen, shared, timer, linkUp, round, writes, had, spent>>

LosesNetwork ==
    /\ dev.link # "Off"
    /\ \E l \in {"Off", "Sta"} \ {dev.link} : dev' = [dev EXCEPT !.link = l]
    /\ Fault
    /\ UNCHANGED <<wifi, screen, shared, timer, linkUp, round, writes, had>>

-----------------------------------------------------------------------------
(* The polls.  A write that has succeeded makes a round of its own, which   *)
(* is one round more of the same kind.                                      *)

\* Waiting for the gate changes nothing the target depends on.
PollBegins ==
    /\ round.pc = "Begin" /\ policy # None /\ linkUp
    /\ round' = [round EXCEPT !.pc = "Read", !.target = policy,
                    !.todo = IF policy = "Builtin" THEN <<"Link", "Ssid">> ELSE <<"Card">>]
    /\ UNCHANGED <<wifi, screen, shared, timer, linkUp, writes, net, spent>>

Register(item) ==
    CASE item = "Link" -> dev.link
      [] item = "Ssid" -> dev.ssid
      [] item = "Card" -> "Text"

\* One register at a time; one combined read of all of them comes to the same,
\* with nothing happening in between.
PollReads(ok) ==
    /\ round.pc = "Read" /\ linkUp /\ round.hand = <<>> /\ round.todo # <<>>
    /\ round' = [round EXCEPT
            !.todo = Tail(@),
            !.hand = <<Head(round.todo), IF ok THEN Register(Head(round.todo)) ELSE Failed>>]
    /\ IF ok THEN UNCHANGED spent ELSE Fault
    /\ UNCHANGED <<wifi, screen, shared, timer, linkUp, writes, net>>

Published(target, item, result) ==
    IF live.target # target
    THEN [target |-> target, items |-> [j \in {item} |-> result]]
    ELSE [live EXCEPT !.items = [j \in DOMAIN @ \cup {item} |->
                                    IF j = item THEN result ELSE live.items[j]]]

\* publish_query_item
PollPublishes ==
    /\ round.hand # <<>>
    /\ live' = Published(round.target, round.hand[1], round.hand[2])
    /\ fresh' = (fresh \/ live' # live)
    /\ round' = CASE round.pc = "Last" -> NoRound
                  [] round.todo = <<>> -> NewRound
                  [] OTHER             -> [round EXCEPT !.hand = <<>>]
    /\ UNCHANGED <<wifi, screen, policy, timer, linkUp, writes, net, spent>>

-----------------------------------------------------------------------------
(* The BLE link.                                                            *)

Connect ==
    /\ ~linkUp /\ round.pc = "Off"
    /\ linkUp' = TRUE /\ round' = NewRound
    /\ UNCHANGED <<wifi, screen, shared, timer, writes, net, spent>>

\* on_peer_disconnect; what is in hand may still be published.
PeerDisconnects ==
    /\ linkUp
    /\ linkUp' = FALSE /\ policy' = None
    /\ round' = IF round.hand # <<>> THEN [round EXCEPT !.pc = "Last"] ELSE NoRound
    /\ writes' = {}
    /\ Fault
    /\ UNCHANGED <<wifi, screen, live, fresh, timer, net>>

\* end_session
EndSession ==
    /\ ~linkUp /\ round.pc # "Off"
    /\ round' = NoRound
    /\ UNCHANGED <<wifi, screen, shared, timer, linkUp, writes, net, spent>>

-----------------------------------------------------------------------------
(* The clock and the timer of app/mod.rs.                                   *)

Trying == wifi.phase \in {"ConnectingWifi", "ConnectingCloud"}

DeadlinePasses ==
    /\ Trying /\ ~wifi.late
    /\ wifi' = [wifi EXCEPT !.late = TRUE]
    /\ UNCHANGED <<screen, shared, timer, linkUp, round, writes, net, spent>>

\* Mutant: the phase after joining has no deadline of its own.
AdvancedWithoutCloudDeadline(w) ==
    LET To(phase) == [w EXCEPT !.phase = phase, !.late = FALSE]
    IN  IF ~linkUp THEN w ELSE
        CASE w.phase = "ConnectingWifi" ->
                IF w.link # "Off" /\ (w.pending = None \/ w.ssid = w.pending)
                THEN To("ConnectingCloud") ELSE IF w.late THEN To(Failed) ELSE w
          [] w.phase = "ConnectingCloud" ->
                IF w.link = "Cloud" THEN [To("Success") EXCEPT !.pending = None]
                ELSE IF w.link = "Off" THEN To("ConnectingWifi") ELSE w
          [] OTHER -> IF w.link = "Cloud" THEN To("Success") ELSE w

\* Mutant: any name will do.
AdvancedForAnyName(w) ==
    LET To(phase) == [w EXCEPT !.phase = phase, !.late = FALSE]
    IN  IF linkUp /\ w.phase = "ConnectingWifi" /\ w.link # "Off"
        THEN To("ConnectingCloud")
        ELSE AdvancedWithoutCloudDeadline(w)

\* advance
Advanced(w) ==
    LET To(phase) == [w EXCEPT !.phase = phase, !.late = FALSE]
    IN  IF ~linkUp THEN w ELSE
        CASE w.phase = "ConnectingWifi" ->
                IF w.link # "Off" /\ (w.pending = None \/ w.ssid = w.pending)
                THEN To("ConnectingCloud") ELSE IF w.late THEN To(Failed) ELSE w
          [] w.phase = "ConnectingCloud" ->
                IF w.link = "Cloud" THEN [To("Success") EXCEPT !.pending = None]
                ELSE IF w.link = "Off" THEN To("ConnectingWifi")
                ELSE IF w.late THEN To(Failed) ELSE w
          [] OTHER -> IF w.link = "Cloud" THEN To("Success") ELSE w

\* Mutant: a read that has failed is taken for a value.
ResultAnyhow(item, old) ==
    IF item \in DOMAIN live.items THEN live.items[item] ELSE old

\* apply_poll_item, for each result that has not failed.
Result(item, old) ==
    IF item \in DOMAIN live.items /\ live.items[item] # Failed
    THEN live.items[item] ELSE old

\* apply_config_poll_results; a snapshot of another list counts as merged.
Merged ==
    IF fresh /\ live.target = "Builtin" /\ group = "Builtin"
    THEN Advanced([wifi EXCEPT !.link = Result("Link", @), !.ssid = Result("Ssid", @)])
    ELSE wifi

\* refresh_all, the merge and tick_wifi_provision, in one callback.
Tick ==
    /\ linkUp \/ ~was
    /\ was' = linkUp
    /\ policy' = IF linkUp THEN Foreground(page, group) ELSE policy
    /\ wifi' = Advanced(Merged)
    /\ fresh' = FALSE
    /\ seen' = IF fresh THEN DOMAIN live.items # {} ELSE seen
    /\ UNCHANGED <<screen, live, linkUp, round, writes, net, spent>>

\* The first callback after the link is gone: the snapshot is cleared, but the
\* state of the attempt (refresh_builtin_availability) only if the
\* configuration page is in front just then.
TickAfterLoss ==
    /\ was /\ ~linkUp
    /\ was' = FALSE /\ policy' = None
    /\ live' = NoLive /\ fresh' = FALSE /\ seen' = FALSE
    /\ wifi' = IF page = "Config" THEN Blank ELSE wifi
    /\ UNCHANGED <<screen, linkUp, round, writes, net, spent>>

-----------------------------------------------------------------------------
Poll ==
    \/ PollBegins \/ PollPublishes
    \/ \E ok \in BOOLEAN : PollReads(ok)

Next ==
    \/ \E p \in {"Config", "Other"}, g \in {"Builtin", "Cards"} : TurnPage(p, g)
    \/ \E s \in Ssid : Apply(s)
    \/ \E w \in writes : WriteLands(w) \/ WriteFails(w)
    \/ LeavesNetwork \/ GetsOn \/ LosesNetwork
    \/ Poll
    \/ Connect \/ PeerDisconnects \/ EndSession
    \/ DeadlinePasses \/ Tick \/ TickAfterLoss

Spec == Init /\ [][Next]_vars

\* The timer runs every 50 ms, the clock goes on, the poll task is scheduled
\* and each of its reads has a deadline; nothing is assumed of the device.
Fairness ==
    /\ WF_vars(Tick) /\ WF_vars(TickAfterLoss) /\ WF_vars(DeadlinePasses)
    /\ WF_vars(Poll) /\ WF_vars(EndSession)

FairSpec == Spec /\ Fairness

-----------------------------------------------------------------------------
\* An attempt is over the hurdle of the Wi-Fi only if the device has once been
\* given the name of the network: not by another network's link alone, by an
\* empty result or by what an earlier connection has left in the state.
NameWasGiven == wifi.phase = "ConnectingCloud" => wifi.pending \in had

\* While the BLE link holds every attempt ends, in success or failure, however
\* pages are turned and results passed over; a Wi-Fi that comes and goes starts
\* the deadlines anew, but only as often as it does.
AttemptsEnd == Trying ~> (~Trying \/ ~linkUp)
=============================================================================
