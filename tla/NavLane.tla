------------------------------- MODULE NavLane -------------------------------
(***************************************************************************)
(* From a click on the board to the game: navigation targets with the      *)
(* reason for the trip (blades/api/navpush.js), the BACK TO GAME button    *)
(* (blades/api/act.js), switches of the standing orders, the poll that     *)
(* fetches them all (navpull.js onRequestGet), and the plugin that plots   *)
(* the target and gives the game the foreground, but only for something    *)
(* its pilot has just done (load.py _nav_poll_loop, _apply_srv,            *)
(* _rf_activate).                                                          *)
(*                                                                         *)
(* One pilot.  A stamp is a Date.now() of the worker: its number orders    *)
(* it, its time is the tick it was taken in; a tick is longer than a poll  *)
(* and than the cooldown of the refocus.                                   *)
(***************************************************************************)
EXTENDS Naturals, FiniteSets

CONSTANTS
    System, Commodity,   \* where to, and what for
    Slot,                \* navpush handlers in flight
    None,                \* absent value
    Fresh,               \* ticks for which a deed counts as fresh (20 s)
    ActTTL, NavTTL,      \* ticks a press and a target are kept (60 s, 600 s)
    MaxTime,             \* bound on the clock
    MaxDeeds,            \* bound on clicks: pushes, presses, switches
    MaxMishaps           \* bound on failing operations, lost polls, restarts

ASSUME LaneAssumption ==
    /\ {Fresh, ActTTL, NavTTL, MaxTime, MaxDeeds, MaxMishaps} \subseteq Nat
    /\ None \notin System \cup Commodity

VARIABLES
    now,        \* the worker's clock
    deeds,      \* clicks so far: the number of the next stamp
    nav,        \* KV nav:{cmdr}
    rows,       \* KV sq:onyx:intent:{cmdr}
    act,        \* KV act:{cmdr}
    orders,     \* KV plugin:settings: refocusact, and any other order
    slot,       \* the pushes in flight
    poll,       \* the poll in flight
    plugin,     \* what the plugin keeps in memory; `orders` is on disk too
    carried,    \* the target last plotted and handed to COVAS
    mishaps,    \* failures and restarts so far
    sent,       \* history: what each stamped push asked for
    deed,       \* history: when the pilot last did something
    missed      \* history: no poll brought the orders since the tick before

kv == <<nav, rows, act, orders>>
history == <<sent, deed, missed>>
vars == <<now, deeds, kv, slot, poll, plugin, carried, mishaps, history>>

-----------------------------------------------------------------------------
Stamp == [n : 0..MaxDeeds, at : 0..MaxTime]
Never == [n |-> 0, at |-> 0]
Trip == [system : System, commodity : Commodity \cup {None}]
NoTrip == [system |-> None, commodity |-> None]
Row == [n : 1..MaxDeeds, trip : Trip]
Target == [stamp : Stamp, trip : Trip \cup {NoTrip}]
NoTarget == [stamp |-> Never, trip |-> NoTrip]
Orders == [refocusact : BOOLEAN, other : BOOLEAN]

Free == [at |-> "idle", target |-> NoTarget, rows |-> {}]
NoPoll == [at |-> "idle", target |-> NoTarget, act |-> Never, orders |-> None, now |-> 0]
Booted(o) == [lastTs |-> 0, actTs |-> 0, primed |-> FALSE, orders |-> o, last |-> None]
AllOff == [refocusact |-> FALSE, other |-> FALSE]

Init ==
    /\ now = 0 /\ deeds = 0
    /\ nav = NoTarget /\ rows = {} /\ act = Never
    /\ orders \in {AllOff, [AllOff EXCEPT !.refocusact = TRUE]}
    /\ slot = [s \in Slot |-> Free]
    /\ poll = NoPoll
    /\ plugin = Booted(orders)
    /\ carried = NoTarget
    /\ mishaps = 0
    /\ sent = [n \in 1..MaxDeeds |-> NoTrip]
    /\ deed = 0 /\ missed = FALSE

Try(ok) ==
    /\ ok \/ mishaps < MaxMishaps
    /\ mishaps' = IF ok THEN mishaps ELSE mishaps + 1

-----------------------------------------------------------------------------
(* navpush: a stamp, the target, then the intent row in front of the rows   *)
(* read; whatever fails there is swallowed.                                 *)
Push(s, trip) ==
    /\ slot[s].at = "idle"
    /\ deeds < MaxDeeds
    /\ deeds' = deeds + 1
    /\ slot' = [slot EXCEPT ![s] = [at |-> "nav", rows |-> {},
                   target |-> [stamp |-> [n |-> deeds + 1, at |-> now], trip |-> trip]]]
    /\ sent' = [sent EXCEPT ![deeds + 1] = trip]
    /\ deed' = now
    /\ UNCHANGED <<now, kv, poll, plugin, carried, mishaps, missed>>

PushNav(s) ==
    /\ slot[s].at = "nav"
    /\ \E ok \in BOOLEAN :
          /\ Try(ok)
          /\ nav' = IF ok THEN slot[s].target ELSE nav
          /\ slot' = [slot EXCEPT ![s] =
                        IF ok /\ @.target.trip.commodity # None THEN [@ EXCEPT !.at = "read"]
                        ELSE Free]
    /\ UNCHANGED <<now, deeds, rows, act, orders, poll, plugin, carried, history>>

ReadRows(s) ==
    /\ slot[s].at = "read"
    /\ \E ok \in BOOLEAN :
          /\ Try(ok)
          /\ slot' = [slot EXCEPT ![s] = IF ok THEN [@ EXCEPT !.at = "rows", !.rows = rows] ELSE Free]
    /\ UNCHANGED <<now, deeds, kv, poll, plugin, carried, history>>

PushRow(s) ==
    /\ slot[s].at = "rows"
    /\ \E ok \in BOOLEAN :
          /\ Try(ok)
          /\ rows' = IF ~ok THEN rows
                     ELSE slot[s].rows \cup {[n |-> slot[s].target.stamp.n, trip |-> slot[s].target.trip]}
    /\ slot' = [slot EXCEPT ![s] = Free]
    /\ UNCHANGED <<now, deeds, nav, act, orders, poll, plugin, carried, history>>

(* The BACK TO GAME button, and a switch of the standing orders.            *)
Press ==
    /\ deeds < MaxDeeds
    /\ deeds' = deeds + 1
    /\ act' = [n |-> deeds + 1, at |-> now]
    /\ deed' = now
    /\ UNCHANGED <<now, nav, rows, orders, slot, poll, plugin, carried, mishaps, sent, missed>>

Toggle(o) ==
    /\ deeds < MaxDeeds
    /\ deeds' = deeds + 1
    /\ orders' = [orders EXCEPT ![o] = ~@]
    /\ deed' = now
    /\ UNCHANGED <<now, nav, rows, act, slot, poll, plugin, carried, mishaps, sent, missed>>

(* The clock; what is past its time to live goes.  A poll waits for its     *)
(* answer no longer than a tick.                                            *)
Tick ==
    /\ now < MaxTime
    /\ poll.at # "idle" => now = poll.now
    /\ now' = now + 1
    /\ nav' = IF nav # NoTarget /\ now' - nav.stamp.at > NavTTL THEN NoTarget ELSE nav
    /\ act' = IF act # Never /\ now' - act.at > ActTTL THEN Never ELSE act
    /\ missed' = TRUE
    /\ UNCHANGED <<deeds, rows, orders, slot, poll, plugin, carried, mishaps, sent, deed>>

-----------------------------------------------------------------------------
(* Mutant: a target counts as handled when it is read, not when it is got.  *)
PollMarking ==
    /\ poll.at = "idle"
    /\ UNCHANGED mishaps
    /\ poll' = [NoPoll EXCEPT !.at = "rows", !.now = now,
                              !.target = IF nav.stamp.n > plugin.lastTs THEN nav ELSE NoTarget]
    /\ plugin' = [plugin EXCEPT !.lastTs = nav.stamp.n]
    /\ UNCHANGED <<now, deeds, kv, slot, carried, history>>

(* The poll.  Settings, target and press are read; one that cannot be read  *)
(* counts as absent.                                                        *)
Poll ==
    /\ poll.at = "idle"
    /\ \E lost \in SUBSET {"orders", "nav", "act"} :
          /\ Try(lost = {})
          /\ poll' = [at |-> "rows", now |-> now,
                      orders |-> IF "orders" \in lost THEN None ELSE orders,
                      target |-> IF "nav" \in lost THEN NoTarget
                                 ELSE [nav EXCEPT !.trip.commodity = None],
                      act |-> IF "act" \in lost THEN Never ELSE act]
    /\ UNCHANGED <<now, deeds, kv, slot, plugin, carried, history>>

(* Mutant: the row is looked up by the system that is being flown to.       *)
MatchesSystem(r, t) == r.trip.system = t.trip.system

(* intentPayload: the row of the push that set the target.                  *)
Matches(r, t) == r.n = t.stamp.n

ReadIntent ==
    /\ poll.at = "rows"
    /\ \E ok \in BOOLEAN :
          LET hits == {r \in rows : ok /\ Matches(r, poll.target)} IN
          /\ Try(ok)
          /\ IF hits = {} \/ poll.target = NoTarget
             THEN poll' = [poll EXCEPT !.at = "answer"]
             ELSE \E r \in hits :
                     poll' = [poll EXCEPT !.at = "answer",
                                          !.target.trip.commodity = r.trip.commodity]
    /\ UNCHANGED <<now, deeds, kv, slot, plugin, carried, history>>

(* The answer is lost, or the request never came through.                   *)
LosePoll ==
    /\ poll.at # "idle"
    /\ Try(FALSE)
    /\ poll' = NoPoll
    /\ UNCHANGED <<now, deeds, kv, slot, plugin, carried, history>>

(* Mutant: the age of a deed is not asked.                                  *)
AnyAge(stamp) == TRUE

(* _rf_activate.  A guess needs the opt-in, an earlier answered poll and a  *)
(* cooldown; a press needs none of these.  Whatever has an age is fresh.    *)
IsFresh(stamp) == poll.now - stamp.at <= Fresh
MayGuess(p) == p.orders.refocusact /\ p.primed /\ p.last # now

Refocused(p) == [p EXCEPT !.last = now]

(* Mutant: orders that did not come are taken for orders.                   *)
ApplyAnyOrders(p) == [p EXCEPT !.orders = poll.orders]

ApplyOrders(p) ==
    IF poll.orders \in {None, p.orders} THEN p
    ELSE LET q == [p EXCEPT !.orders = poll.orders]
         IN  IF MayGuess(q) THEN Refocused(q) ELSE q

NewTarget(p) == poll.target # NoTarget /\ poll.target.stamp.n > p.lastTs

ApplyNav(p) ==
    IF ~NewTarget(p) THEN p
    ELSE LET q == [p EXCEPT !.lastTs = poll.target.stamp.n]
         IN  IF MayGuess(q) /\ IsFresh(poll.target.stamp) THEN Refocused(q) ELSE q

ApplyAct(p) ==
    IF poll.act = Never \/ poll.act.n <= p.actTs THEN p
    ELSE LET q == [p EXCEPT !.actTs = poll.act.n]
         IN  IF IsFresh(poll.act) THEN Refocused(q) ELSE q

(* The answer arrives: orders, then the target, then the press.             *)
Receive ==
    /\ poll.at = "answer"
    /\ plugin' = [ApplyAct(ApplyNav(ApplyOrders(plugin))) EXCEPT !.primed = TRUE]
    /\ carried' = IF NewTarget(plugin) THEN poll.target ELSE carried
    /\ poll' = NoPoll
    /\ missed' = (now # poll.now \/ poll.orders = None)
    /\ UNCHANGED <<now, deeds, kv, slot, mishaps, sent, deed>>

(* EDMC is started again: only the orders are on disk.                      *)
Restart ==
    /\ Try(FALSE)
    /\ plugin' = Booted(plugin.orders)
    /\ poll' = NoPoll
    /\ UNCHANGED <<now, deeds, kv, slot, carried, history>>

Next ==
    \/ \E s \in Slot :
          \/ \E trip \in Trip : Push(s, trip)
          \/ PushNav(s) \/ ReadRows(s) \/ PushRow(s)
    \/ Press
    \/ \E o \in {"refocusact", "other"} : Toggle(o)
    \/ Tick
    \/ Poll \/ ReadIntent \/ LosePoll \/ Receive \/ Restart

(* The poll loop never stops.                                               *)
Fairness == WF_vars(Poll \/ ReadIntent \/ Receive)
Spec == Init /\ [][Next]_vars /\ Fairness

-----------------------------------------------------------------------------
TypeOK ==
    /\ now \in 0..MaxTime /\ deeds \in 0..MaxDeeds
    /\ nav \in Target /\ rows \subseteq Row /\ act \in Stamp /\ orders \in Orders
    /\ slot \in [Slot -> [at : {"idle", "nav", "read", "rows"}, target : Target, rows : SUBSET Row]]
    /\ poll \in [at : {"idle", "rows", "answer"}, target : Target, act : Stamp,
                 orders : Orders \cup {None}, now : 0..MaxTime]
    /\ plugin \in [lastTs : 0..MaxDeeds, actTs : 0..MaxDeeds, primed : BOOLEAN,
                   orders : Orders, last : 0..MaxTime \cup {None}]
    /\ carried \in Target
    /\ sent \in [1..MaxDeeds -> Trip \cup {NoTrip}]
    /\ mishaps \in 0..MaxMishaps /\ deed \in 0..MaxTime /\ missed \in BOOLEAN

(* COVAS is told what this very click was for, or nothing, however pushes   *)
(* overlap, rows get lost and the same system is plotted again.             *)
IntentIsItsOwn ==
    carried # NoTarget =>
       LET n == carried.stamp.n IN
       /\ carried.trip.system = sent[n].system
       /\ carried.trip.commodity \in {None, sent[n].commodity}

(* The foreground is taken only for something the pilot has just done: a    *)
(* restart or a late answer does not replay the past.  Only a switch that   *)
(* was thrown while no poll came through has no age to be refused by.       *)
NoSnatch ==
    [][plugin'.last \notin {plugin.last, None}
       => now - deed <= Fresh + 1 \/ (missed /\ plugin'.orders # plugin.orders)]_vars

(* A target is plotted, unless it is overwritten or runs out first.         *)
TargetPlotted ==
    \A n \in 1..MaxDeeds :
       nav.stamp.n = n ~> (carried.stamp.n >= n \/ nav.stamp.n # n)
=============================================================================
