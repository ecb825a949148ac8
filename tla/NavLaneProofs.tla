----------------------------- MODULE NavLaneProofs -----------------------------
(***************************************************************************)
(* What NavLane guarantees for any systems, commodities, pushes in flight, *)
(* times to live, deeds and mishaps: the reason COVAS gives for a trip is  *)
(* the click's own (navpush.js, navpull.js intentPayload), and the game is *)
(* brought to the front only for what its pilot has just done (load.py     *)
(* _rf_activate).                                                          *)
(***************************************************************************)
EXTENDS NavLane, TLAPS

-----------------------------------------------------------------------------
(* What was asked for under a stamp: exactly, or but for the reason.        *)
Asked(n, trip, d, asked) == n \in 1..d /\ trip \in Trip /\ trip = asked[n]
Exactly(t, d, asked) == t \in Target /\ (t # NoTarget => Asked(t.stamp.n, t.trip, d, asked))
ButForReason(t, d, asked) ==
    /\ t \in Target
    /\ t # NoTarget =>
          /\ t.stamp.n \in 1..d
          /\ t.trip.system = asked[t.stamp.n].system
          /\ t.trip.commodity \in {None, asked[t.stamp.n].commodity}

RowsAsked(rs, d, asked) == \A r \in rs : r \in Row /\ Asked(r.n, r.trip, d, asked)

SlotType == [at : {"idle", "nav", "read", "rows"}, target : Target, rows : SUBSET Row]

PollShape ==
    poll = [at |-> poll.at, target |-> poll.target, act |-> poll.act,
            orders |-> poll.orders, now |-> poll.now]

LaneInv ==
    /\ now \in 0..MaxTime /\ deeds \in 0..MaxDeeds
    /\ sent \in [1..MaxDeeds -> Trip \cup {NoTrip}]
    /\ Exactly(nav, deeds, sent)
    /\ RowsAsked(rows, deeds, sent)
    /\ slot \in [Slot -> SlotType]
    /\ \A s \in Slot : slot[s].at # "idle" =>
          /\ slot[s].target # NoTarget
          /\ Exactly(slot[s].target, deeds, sent)
          /\ RowsAsked(slot[s].rows, deeds, sent)
    /\ PollShape /\ ButForReason(poll.target, deeds, sent)
    /\ ButForReason(carried, deeds, sent)

LEMMA Nowhere ==
    /\ NoTarget \in Target /\ Free \in SlotType /\ Free.at = "idle"
    /\ \A d, asked : Exactly(NoTarget, d, asked) /\ ButForReason(NoTarget, d, asked)
  BY LaneAssumption
  DEF NoTarget, Target, Stamp, Never, NoTrip, Free, SlotType, Exactly, ButForReason

(* A click takes the next stamp, and what was asked under the earlier ones  *)
(* stands.                                                                  *)
LEMMA Later ==
    ASSUME NEW d \in Nat, NEW asked, NEW then, \A n \in 1..d : then[n] = asked[n]
    PROVE  /\ \A t : Exactly(t, d, asked) => Exactly(t, d + 1, then)
           /\ \A t : ButForReason(t, d, asked) => ButForReason(t, d + 1, then)
           /\ \A rs : RowsAsked(rs, d, asked) => RowsAsked(rs, d + 1, then)
  BY DEF Exactly, ButForReason, RowsAsked, Asked

LEMMA PushStep ==
    ASSUME LaneInv, NEW s \in Slot, NEW trip \in Trip, Push(s, trip) PROVE LaneInv'
<1>1. deeds' = deeds + 1 /\ deeds \in Nat /\ deeds' \in 1..MaxDeeds /\ now' \in 0..MaxTime
  BY LaneAssumption DEF Push, LaneInv
<1>2. sent' \in [1..MaxDeeds -> Trip \cup {NoTrip}] /\ sent'[deeds + 1] = trip
  BY <1>1 DEF Push, LaneInv
<1>3. \A n \in 1..deeds : sent'[n] = sent[n]
  BY <1>1 DEF Push, LaneInv
<1>4. /\ \A t : Exactly(t, deeds, sent) => Exactly(t, deeds', sent')
      /\ \A t : ButForReason(t, deeds, sent) => ButForReason(t, deeds', sent')
      /\ \A rs : RowsAsked(rs, deeds, sent) => RowsAsked(rs, deeds', sent')
  BY <1>1, <1>3, Later
<1>5. PICK t \in Target : t = [stamp |-> [n |-> deeds + 1, at |-> now], trip |-> trip]
  <2>1. deeds + 1 \in 0..MaxDeeds /\ now \in 0..MaxTime
    BY <1>1 DEF LaneInv
  <2>2. [n |-> deeds + 1, at |-> now] \in Stamp
    BY <2>1 DEF Stamp
  <2> QED BY <2>2 DEF Target
<1>6. t.stamp.n = deeds + 1 /\ t.trip = trip /\ t # NoTarget
  BY <1>1, <1>5 DEF NoTarget, Never
<1>7. Exactly(t, deeds', sent')
  BY <1>1, <1>2, <1>6 DEF Exactly, Asked
<1>8. PICK job \in SlotType : job = [at |-> "nav", rows |-> {}, target |-> t]
  BY DEF SlotType
<1>9. job.target = t /\ RowsAsked(job.rows, deeds', sent')
  BY <1>8 DEF RowsAsked
<1>10. slot' = [slot EXCEPT ![s] = job]
  BY <1>5, <1>8 DEF Push
<1>11. /\ slot' \in [Slot -> SlotType]
       /\ \A r \in Slot : slot'[r].at # "idle" =>
             /\ slot'[r].target # NoTarget
             /\ Exactly(slot'[r].target, deeds', sent')
             /\ RowsAsked(slot'[r].rows, deeds', sent')
  BY <1>4, <1>6, <1>7, <1>9, <1>10 DEF LaneInv
<1>12. UNCHANGED <<now, nav, rows, poll, carried>>
  BY DEF Push, kv
<1>13. deeds' \in 0..MaxDeeds
  BY <1>1
<1> QED BY <1>1, <1>2, <1>4, <1>11, <1>12, <1>13 DEF LaneInv, PollShape

(* A push that goes on, for the same click, or ends.                        *)
LEMMA SlotStep ==
    ASSUME LaneInv, NEW s \in Slot, NEW job \in SlotType,
           slot' = [slot EXCEPT ![s] = job],
           job.at # "idle" => slot[s].at # "idle" /\ job.target = slot[s].target
                              /\ RowsAsked(job.rows, deeds, sent),
           Exactly(nav', deeds, sent), RowsAsked(rows', deeds, sent),
           UNCHANGED <<now, deeds, sent, poll, carried>>
    PROVE  LaneInv'
<1>1. /\ slot' \in [Slot -> SlotType]
      /\ \A r \in Slot : slot'[r].at # "idle" =>
             /\ slot'[r].target # NoTarget
             /\ Exactly(slot'[r].target, deeds, sent)
             /\ RowsAsked(slot'[r].rows, deeds, sent)
  BY DEF LaneInv
<1> QED BY <1>1 DEF LaneInv, PollShape

LEMMA HandlerStep ==
    ASSUME LaneInv, NEW s \in Slot, PushNav(s) \/ ReadRows(s) \/ PushRow(s) PROVE LaneInv'
<1> PICK q \in SlotType : q = slot[s]
  BY DEF LaneInv
<1>q. q.at # "idle" => /\ q.target # NoTarget /\ Exactly(q.target, deeds, sent)
                       /\ RowsAsked(q.rows, deeds, sent)
  BY DEF LaneInv
<1>1. CASE PushNav(s)
  <2>1. /\ q.at = "nav"
        /\ nav' \in {nav, q.target}
        /\ UNCHANGED <<rows, now, deeds, sent, poll, carried>>
        /\ \/ slot' = [slot EXCEPT ![s] = [q EXCEPT !.at = "read"]]
           \/ slot' = [slot EXCEPT ![s] = Free]
    BY <1>1 DEF PushNav, history, LaneInv
  <2>2. PICK job \in SlotType : job = [q EXCEPT !.at = "read"]
    BY DEF SlotType
  <2>3. job.target = q.target /\ job.rows = q.rows
    BY <2>2 DEF SlotType
  <2>4. Exactly(nav', deeds, sent) /\ RowsAsked(rows', deeds, sent)
    BY <1>q, <2>1 DEF LaneInv
  <2> QED BY <1>q, <2>1, <2>2, <2>3, <2>4, Nowhere, SlotStep
<1>2. CASE ReadRows(s)
  <2>1. /\ q.at = "read" /\ UNCHANGED <<nav, rows, now, deeds, sent, poll, carried>>
        /\ \/ slot' = [slot EXCEPT ![s] = [q EXCEPT !.at = "rows", !.rows = rows]]
           \/ slot' = [slot EXCEPT ![s] = Free]
    BY <1>2 DEF ReadRows, history, kv, LaneInv
  <2>2. RowsAsked(rows, deeds, sent) /\ rows \in SUBSET Row
    BY DEF LaneInv, RowsAsked
  <2>3. PICK job \in SlotType : job = [q EXCEPT !.at = "rows", !.rows = rows]
    BY <2>2 DEF SlotType
  <2>4. job.target = q.target /\ job.rows = rows
    BY <2>3 DEF SlotType
  <2> QED BY <2>1, <2>2, <2>3, <2>4, Nowhere, SlotStep DEF LaneInv
<1>3. CASE PushRow(s)
  <2>1. /\ q.at = "rows" /\ UNCHANGED <<nav, now, deeds, sent, poll, carried>>
        /\ slot' = [slot EXCEPT ![s] = Free]
        /\ \/ rows' = rows
           \/ rows' = q.rows \cup {[n |-> q.target.stamp.n, trip |-> q.target.trip]}
    BY <1>3 DEF PushRow, history
  <2>2. /\ q.target.stamp.n \in 1..MaxDeeds
        /\ Asked(q.target.stamp.n, q.target.trip, deeds, sent)
    BY <1>q, <2>1, LaneAssumption DEF Exactly, Asked, LaneInv
  <2>4. PICK row \in Row : row = [n |-> q.target.stamp.n, trip |-> q.target.trip]
    BY <2>2 DEF Row, Asked
  <2>5. row.n = q.target.stamp.n /\ row.trip = q.target.trip
    BY <2>4
  <2>6. RowsAsked(rows', deeds, sent)
    BY <1>q, <2>1, <2>2, <2>4, <2>5 DEF RowsAsked, LaneInv
  <2> QED BY <2>1, <2>6, Nowhere, SlotStep DEF LaneInv
<1> QED BY <1>1, <1>2, <1>3

(* A step that touches neither the pushes nor what was asked.               *)
LEMMA PollStep ==
    ASSUME LaneInv, UNCHANGED <<rows, slot, deeds, sent>>, now' \in 0..MaxTime,
           Exactly(nav', deeds, sent), PollShape', ButForReason(poll'.target, deeds, sent),
           ButForReason(carried', deeds, sent)
    PROVE  LaneInv'
  BY DEF LaneInv

LEMMA DeedStep ==
    ASSUME LaneInv, Press \/ \E o \in {"refocusact", "other"} : Toggle(o)
    PROVE  LaneInv'
<1>1. /\ deeds' = deeds + 1 /\ deeds' \in 0..MaxDeeds /\ deeds \in Nat
      /\ UNCHANGED <<now, nav, rows, slot, poll, carried, sent>>
  BY LaneAssumption DEF LaneInv, Press, Toggle
<1>2. /\ \A t : Exactly(t, deeds, sent) => Exactly(t, deeds', sent)
      /\ \A t : ButForReason(t, deeds, sent) => ButForReason(t, deeds', sent)
      /\ \A rs : RowsAsked(rs, deeds, sent) => RowsAsked(rs, deeds', sent)
  BY <1>1, Later
<1> QED BY <1>1, <1>2 DEF LaneInv, PollShape

(* What is fetched of the target leaves the reason out, or gives the row's. *)
LEMMA NoReason ==
    ASSUME NEW t, NEW d, NEW asked, Exactly(t, d, asked)
    PROVE  ButForReason([t EXCEPT !.trip.commodity = None], d, asked)
<1>1. CASE t = NoTarget
  <2>1. [t EXCEPT !.trip.commodity = None] = NoTarget
    BY <1>1 DEF NoTarget, NoTrip
  <2> QED BY <2>1, Nowhere
<1>2. CASE t # NoTarget
  <2>1. t \in Target /\ t.stamp.n \in 1..d /\ t.trip \in Trip /\ t.trip = asked[t.stamp.n]
    BY <1>2 DEF Exactly, Asked
  <2>2. PICK u \in Trip : u = [t.trip EXCEPT !.commodity = None]
    BY <2>1 DEF Trip
  <2>3. u.system = t.trip.system /\ u.commodity = None
    BY <2>1, <2>2 DEF Trip
  <2>4. PICK w \in Target : w = [t EXCEPT !.trip = u]
    BY <2>1, <2>2 DEF Target
  <2>5. w.stamp = t.stamp /\ w.trip = u
    BY <2>1, <2>4 DEF Target
  <2>6. [t EXCEPT !.trip.commodity = None] = w
    BY <2>1, <2>2, <2>4 DEF Target
  <2> QED BY <2>1, <2>3, <2>5, <2>6 DEF ButForReason
<1> QED BY <1>1, <1>2

LEMMA TheReason ==
    ASSUME NEW t, NEW d, NEW asked, ButForReason(t, d, asked), t # NoTarget,
           NEW r \in Row, Asked(r.n, r.trip, d, asked), r.n = t.stamp.n
    PROVE  ButForReason([t EXCEPT !.trip.commodity = r.trip.commodity], d, asked)
<1>1. t \in Target /\ t.stamp.n \in 1..d /\ t.trip.system = asked[t.stamp.n].system
  BY DEF ButForReason
<1>2. r.trip \in Trip /\ r.trip = asked[t.stamp.n]
  BY DEF Asked
<1>3. t.trip = [system |-> t.trip.system, commodity |-> t.trip.commodity]
  BY <1>1 DEF Target, Trip, NoTrip
<1>4. [t.trip EXCEPT !.commodity = r.trip.commodity] = r.trip
  BY <1>1, <1>2, <1>3 DEF Trip
<1>5. PICK w \in Target : w = [t EXCEPT !.trip = r.trip]
  BY <1>1, <1>2 DEF Target
<1>6. w.stamp = t.stamp /\ w.trip = r.trip
  BY <1>1, <1>5 DEF Target
<1>7. [t EXCEPT !.trip.commodity = r.trip.commodity] = w
  BY <1>1, <1>4, <1>5 DEF Target
<1> QED BY <1>1, <1>2, <1>6, <1>7 DEF ButForReason

LEMMA PollingStep == ASSUME LaneInv, Poll \/ ReadIntent \/ LosePoll \/ Receive \/ Restart PROVE LaneInv'
<1> USE DEF history, kv
<1>i. now \in 0..MaxTime /\ Exactly(nav, deeds, sent) /\ PollShape
      /\ ButForReason(poll.target, deeds, sent) /\ ButForReason(carried, deeds, sent)
  BY DEF LaneInv
<1>1. CASE Poll
  <2>1. /\ UNCHANGED <<now, nav, rows, slot, deeds, sent, carried>> /\ PollShape'
        /\ poll'.target \in {NoTarget, [nav EXCEPT !.trip.commodity = None]}
    BY <1>1 DEF Poll, PollShape
  <2>2. ButForReason(poll'.target, deeds, sent)
    BY <1>i, <2>1, NoReason, Nowhere
  <2> QED BY <1>i, <2>1, <2>2, PollStep
<1>2. CASE ReadIntent
  <2>1. UNCHANGED <<now, nav, rows, slot, deeds, sent, carried>>
    BY <1>2 DEF ReadIntent
  <2>2. CASE poll' = [poll EXCEPT !.at = "answer"]
    <3>1. PollShape' /\ poll'.target = poll.target
      BY <1>i, <2>2 DEF PollShape
    <3> QED BY <1>i, <2>1, <3>1, PollStep
  <2>3. CASE \E r \in rows : /\ Matches(r, poll.target) /\ poll.target # NoTarget
                            /\ poll' = [poll EXCEPT !.at = "answer",
                                             !.target.trip.commodity = r.trip.commodity]
    <3>1. PICK r \in rows : /\ r.n = poll.target.stamp.n /\ poll.target # NoTarget
                            /\ poll' = [poll EXCEPT !.at = "answer",
                                             !.target.trip.commodity = r.trip.commodity]
      BY <2>3 DEF Matches
    <3>2. /\ PollShape'
          /\ poll'.target = [poll.target EXCEPT !.trip.commodity = r.trip.commodity]
      BY <1>i, <3>1 DEF PollShape
    <3>3. r \in Row /\ Asked(r.n, r.trip, deeds, sent)
      BY DEF LaneInv, RowsAsked
    <3>4. ButForReason(poll'.target, deeds, sent)
      BY <1>i, <3>1, <3>2, <3>3, TheReason
    <3> QED BY <1>i, <2>1, <3>2, <3>4, PollStep
  <2> QED BY <1>2, <2>2, <2>3 DEF ReadIntent
<1>3. CASE LosePoll \/ Restart
  <2>1. UNCHANGED <<now, nav, rows, slot, deeds, sent, carried>> /\ poll' = NoPoll
    BY <1>3 DEF LosePoll, Restart
  <2>2. PollShape' /\ poll'.target = NoTarget
    BY <2>1 DEF PollShape, NoPoll
  <2> QED BY <1>i, <2>1, <2>2, Nowhere, PollStep
<1>4. CASE Receive
  <2>1. /\ UNCHANGED <<now, nav, rows, slot, deeds, sent>> /\ poll' = NoPoll
        /\ carried' \in {carried, poll.target}
    BY <1>4 DEF Receive
  <2>2. PollShape' /\ poll'.target = NoTarget
    BY <2>1 DEF PollShape, NoPoll
  <2> QED BY <1>i, <2>1, <2>2, Nowhere, PollStep
<1> QED BY <1>1, <1>2, <1>3, <1>4

LEMMA LaneStep == LaneInv /\ [Next]_vars => LaneInv'
<1> SUFFICES ASSUME LaneInv, [Next]_vars PROVE LaneInv'
  OBVIOUS
<1>1. CASE Tick
  <2>1. /\ UNCHANGED <<rows, slot, deeds, sent, poll, carried>>
        /\ nav' \in {nav, NoTarget} /\ now' \in 0..MaxTime
    BY <1>1, LaneAssumption DEF Tick, LaneInv
  <2> QED BY <2>1, Nowhere, PollStep DEF LaneInv, PollShape
<1>2. CASE UNCHANGED vars
  BY <1>2 DEF vars, kv, history, LaneInv, PollShape
<1> QED BY <1>1, <1>2, PushStep, HandlerStep, DeedStep, PollingStep DEF Next

(* COVAS is told what this very click was for, or nothing (navpull.js,      *)
(* intentPayload), however many pushes overlap and whatever fails.          *)
THEOREM ReasonIsTheClicks == Spec => []IntentIsItsOwn
<1>1. Init => LaneInv
  <2> SUFFICES ASSUME Init PROVE LaneInv
    OBVIOUS
  <2>1. now \in 0..MaxTime /\ deeds \in 0..MaxDeeds
    BY LaneAssumption DEF Init
  <2>2. slot \in [Slot -> SlotType] /\ \A s \in Slot : slot[s].at = "idle"
    BY Nowhere DEF Init
  <2>3. PollShape /\ poll.target = NoTarget
    BY DEF Init, PollShape, NoPoll
  <2> QED BY <2>1, <2>2, <2>3, Nowhere DEF Init, LaneInv, RowsAsked
<1>2. LaneInv => IntentIsItsOwn
  BY DEF LaneInv, ButForReason, IntentIsItsOwn
<1> QED BY <1>1, <1>2, LaneStep, PTL DEF Spec

-----------------------------------------------------------------------------
(* Types.  LaneInv knows the targets and the rows; what is left is the      *)
(* press, the orders, the poll and the plugin.                              *)
PollType == [at : {"idle", "rows", "answer"}, target : Target, act : Stamp,
             orders : Orders \cup {None}, now : 0..MaxTime]
PluginType == [lastTs : 0..MaxDeeds, actTs : 0..MaxDeeds, primed : BOOLEAN,
               orders : Orders, last : 0..MaxTime \cup {None}]

LaneTypes ==
    /\ act \in Stamp /\ orders \in Orders
    /\ poll \in PollType /\ plugin \in PluginType
    /\ mishaps \in 0..MaxMishaps /\ deed \in 0..MaxTime /\ missed \in BOOLEAN

LEMMA NothingYet ==
    /\ Never \in Stamp /\ NoPoll \in PollType
    /\ \A o \in Orders : Booted(o) \in PluginType
<1>1. Never \in Stamp
  BY LaneAssumption DEF Never, Stamp
<1>2. NoPoll \in PollType
  BY <1>1, Nowhere, LaneAssumption DEF NoPoll, PollType
<1>3. ASSUME NEW o \in Orders PROVE Booted(o) \in PluginType
  <2>1. FALSE \in BOOLEAN /\ 0 \in 0..MaxDeeds
    BY LaneAssumption
  <2> QED BY <2>1 DEF Booted, PluginType
<1> QED BY <1>1, <1>2, <1>3

LEMMA TryTypes == ASSUME mishaps \in 0..MaxMishaps, NEW ok \in BOOLEAN, Try(ok)
                  PROVE  mishaps' \in 0..MaxMishaps
  BY LaneAssumption DEF Try

LEMMA Primes == ASSUME NEW p \in PluginType PROVE [p EXCEPT !.primed = TRUE] \in PluginType
  BY DEF PluginType

LEMMA Toggles == ASSUME NEW o \in {"refocusact", "other"}, NEW x \in Orders
                 PROVE [x EXCEPT ![o] = ~@] \in Orders
  BY DEF Orders

LEMMA AppliedTypes ==
    ASSUME NEW p \in PluginType, poll \in PollType, now \in 0..MaxTime
    PROVE  /\ ApplyOrders(p) \in PluginType
           /\ ApplyNav(p) \in PluginType
           /\ ApplyAct(p) \in PluginType
<1>1. \A q \in PluginType : Refocused(q) \in PluginType
  BY DEF Refocused, PluginType
<1>2. ApplyOrders(p) \in PluginType
  <2>1. CASE poll.orders \notin {None, p.orders}
    <3>1. PICK q \in PluginType : q = [p EXCEPT !.orders = poll.orders]
      BY <2>1 DEF PluginType, PollType
    <3> QED BY <1>1, <2>1, <3>1 DEF ApplyOrders
  <2> QED BY <2>1 DEF ApplyOrders
<1>3. ApplyNav(p) \in PluginType
  <2>1. PICK q \in PluginType : q = [p EXCEPT !.lastTs = poll.target.stamp.n]
    BY DEF PluginType, PollType, Target, Stamp
  <2> QED BY <1>1, <2>1 DEF ApplyNav
<1>4. ApplyAct(p) \in PluginType
  <2>1. PICK q \in PluginType : q = [p EXCEPT !.actTs = poll.act.n]
    BY DEF PluginType, PollType, Stamp
  <2> QED BY <1>1, <2>1 DEF ApplyAct
<1> QED BY <1>2, <1>3, <1>4


LEMMA TypesStep == ASSUME LaneInv, LaneTypes, [Next]_vars PROVE LaneTypes'
<1> USE DEF history, kv
<1>t. /\ act \in Stamp /\ orders \in Orders /\ poll \in PollType /\ plugin \in PluginType
      /\ mishaps \in 0..MaxMishaps /\ deed \in 0..MaxTime /\ missed \in BOOLEAN
      /\ now \in 0..MaxTime /\ deeds \in 0..MaxDeeds
  BY DEF LaneTypes, LaneInv
<1>1. ASSUME NEW s \in Slot, NEW trip \in Trip, Push(s, trip) PROVE LaneTypes'
  BY <1>t, <1>1 DEF Push, LaneTypes
<1>2. ASSUME NEW s \in Slot, PushNav(s) \/ ReadRows(s) \/ PushRow(s) PROVE LaneTypes'
  <2>1. PICK ok \in BOOLEAN : Try(ok)
    BY <1>2 DEF PushNav, ReadRows, PushRow
  <2>2. UNCHANGED <<act, orders, poll, plugin, deed, missed>>
    BY <1>2 DEF PushNav, ReadRows, PushRow
  <2> QED BY <1>t, <2>1, <2>2, TryTypes DEF LaneTypes
<1>3. ASSUME Press PROVE LaneTypes'
  <2>1. deeds + 1 \in 0..MaxDeeds
    BY <1>t, <1>3, LaneAssumption DEF Press
  <2>2. act' \in Stamp
    BY <1>t, <1>3, <2>1 DEF Press, Stamp
  <2> QED BY <1>t, <1>3, <2>2 DEF Press, LaneTypes
<1>4. ASSUME NEW o \in {"refocusact", "other"}, Toggle(o) PROVE LaneTypes'
  <2>1. orders' \in Orders
    BY <1>t, <1>4, Toggles DEF Toggle
  <2> QED BY <1>t, <1>4, <2>1 DEF Toggle, LaneTypes
<1>5. ASSUME Tick PROVE LaneTypes'
  <2>1. act' \in Stamp /\ UNCHANGED <<orders, poll, plugin, mishaps, deed>>
    BY <1>t, <1>5, NothingYet DEF Tick
  <2>2. missed' = TRUE
    BY <1>5 DEF Tick
  <2>3. missed' \in BOOLEAN
    BY <2>2
  <2> QED BY <1>t, <2>1, <2>3 DEF LaneTypes
<1>6. ASSUME Poll PROVE LaneTypes'
  <2>1. PICK lost \in SUBSET {"orders", "nav", "act"} :
          /\ Try(lost = {})
          /\ poll' = [at |-> "rows", now |-> now,
                      orders |-> IF "orders" \in lost THEN None ELSE orders,
                      target |-> IF "nav" \in lost THEN NoTarget
                                 ELSE [nav EXCEPT !.trip.commodity = None],
                      act |-> IF "act" \in lost THEN Never ELSE act]
    BY <1>6 DEF Poll
  <2>2. PICK ok \in BOOLEAN : ok = (lost = {})
    OBVIOUS
  <2>3. mishaps' \in 0..MaxMishaps
    BY <1>t, <2>1, <2>2, TryTypes
  <2>4. [nav EXCEPT !.trip.commodity = None] \in Target /\ NoTarget \in Target
    BY NoReason, Nowhere DEF LaneInv, ButForReason
  <2>5. poll' \in PollType
    BY <1>t, <2>1, <2>4, NothingYet DEF PollType
  <2>6. UNCHANGED <<act, orders, plugin, deed, missed>>
    BY <1>6 DEF Poll
  <2> QED BY <1>t, <2>3, <2>5, <2>6 DEF LaneTypes
<1>7. ASSUME ReadIntent PROVE LaneTypes'
  <2>1. PICK ok \in BOOLEAN :
          /\ Try(ok)
          /\ \/ poll' = [poll EXCEPT !.at = "answer"]
             \/ \E r \in rows : /\ Matches(r, poll.target) /\ poll.target # NoTarget
                                /\ poll' = [poll EXCEPT !.at = "answer",
                                                 !.target.trip.commodity = r.trip.commodity]
    BY <1>7 DEF ReadIntent
  <2>2. mishaps' \in 0..MaxMishaps
    BY <1>t, <2>1, TryTypes
  <2>3. ASSUME poll' = [poll EXCEPT !.at = "answer"] PROVE poll' \in PollType
    BY <1>t, <2>3 DEF PollType
  <2>4. ASSUME NEW r \in rows, Matches(r, poll.target), poll.target # NoTarget,
               poll' = [poll EXCEPT !.at = "answer", !.target.trip.commodity = r.trip.commodity]
        PROVE  poll' \in PollType
    <3>1. r \in Row /\ Asked(r.n, r.trip, deeds, sent) /\ r.n = poll.target.stamp.n
      BY <2>4 DEF LaneInv, RowsAsked, Matches
    <3>2. PICK u \in Target : u = [poll.target EXCEPT !.trip.commodity = r.trip.commodity]
      BY <2>4, <3>1, TheReason DEF LaneInv, ButForReason
    <3>3. poll' = [poll EXCEPT !.at = "answer", !.target = u]
      BY <1>t, <2>4, <3>2 DEF PollType
    <3> QED BY <1>t, <3>3 DEF PollType
  <2>5. UNCHANGED <<act, orders, plugin, deed, missed>>
    BY <1>7 DEF ReadIntent
  <2> QED BY <1>t, <2>1, <2>2, <2>3, <2>4, <2>5 DEF LaneTypes
<1>8. ASSUME LosePoll PROVE LaneTypes'
  <2>1. /\ Try(FALSE) /\ FALSE \in BOOLEAN /\ poll' = NoPoll
        /\ UNCHANGED <<act, orders, plugin, deed, missed>>
    BY <1>8 DEF LosePoll
  <2> QED BY <1>t, <2>1, TryTypes, NothingYet DEF LaneTypes
<1>9. ASSUME Restart PROVE LaneTypes'
  <2>1. /\ Try(FALSE) /\ FALSE \in BOOLEAN /\ poll' = NoPoll
        /\ plugin' = Booted(plugin.orders) /\ UNCHANGED <<act, orders, deed, missed>>
    BY <1>9 DEF Restart
  <2>2. plugin.orders \in Orders
    BY <1>t DEF PluginType
  <2> QED BY <1>t, <2>1, <2>2, TryTypes, NothingYet DEF LaneTypes
<1>10. ASSUME Receive PROVE LaneTypes'
  <2>1. /\ plugin' = [ApplyAct(ApplyNav(ApplyOrders(plugin))) EXCEPT !.primed = TRUE]
        /\ poll' = NoPoll /\ UNCHANGED <<act, orders, mishaps, deed>>
    BY <1>10 DEF Receive
  <2>2. ApplyOrders(plugin) \in PluginType
    BY <1>t, AppliedTypes
  <2>3. ApplyNav(ApplyOrders(plugin)) \in PluginType
    BY <1>t, <2>2, AppliedTypes
  <2>4. ApplyAct(ApplyNav(ApplyOrders(plugin))) \in PluginType
    BY <1>t, <2>3, AppliedTypes
  <2>5. plugin' \in PluginType
    BY <2>1, <2>4, Primes
  <2>6. missed' \in BOOLEAN
    BY <1>10 DEF Receive
  <2> QED BY <1>t, <2>1, <2>5, <2>6, NothingYet DEF LaneTypes
<1>11. ASSUME UNCHANGED vars PROVE LaneTypes'
  BY <1>t, <1>11 DEF vars, LaneTypes
<1> QED
  BY <1>1, <1>2, <1>3, <1>4, <1>5, <1>6, <1>7, <1>8, <1>9, <1>10, <1>11 DEF Next

LEMMA LaneInit == Init => LaneInv /\ LaneTypes
<1> SUFFICES ASSUME Init PROVE LaneInv /\ LaneTypes
  OBVIOUS
<1>1. now \in 0..MaxTime /\ deeds \in 0..MaxDeeds
  BY LaneAssumption DEF Init
<1>2. slot \in [Slot -> SlotType] /\ \A s \in Slot : slot[s].at = "idle"
  BY Nowhere DEF Init
<1>3. PollShape /\ poll.target = NoTarget
  BY DEF Init, PollShape, NoPoll
<1>4. LaneInv
  BY <1>1, <1>2, <1>3, Nowhere DEF Init, LaneInv, RowsAsked
<1>5. orders \in Orders
  <2>1. AllOff \in Orders
    BY DEF AllOff, Orders
  <2>2. [AllOff EXCEPT !.refocusact = TRUE] \in Orders
    BY <2>1 DEF Orders
  <2> QED BY <2>1, <2>2 DEF Init
<1>6. plugin \in PluginType /\ poll \in PollType
  BY <1>5, NothingYet DEF Init
<1>7. missed \in BOOLEAN
  BY DEF Init
<1>8. mishaps \in 0..MaxMishaps /\ deed \in 0..MaxTime
  BY LaneAssumption DEF Init
<1> QED BY <1>4, <1>5, <1>6, <1>7, <1>8, NothingYet DEF Init, LaneTypes

(* Every variable keeps its type.                                           *)
THEOREM LaneTypeCorrect == Spec => []TypeOK
<1>1. LaneInv /\ LaneTypes /\ [Next]_vars => (LaneInv /\ LaneTypes)'
  BY LaneStep, TypesStep
<1>2. LaneInv /\ LaneTypes => TypeOK
  BY DEF LaneInv, LaneTypes, Exactly, ButForReason, RowsAsked, SlotType, PollType, PluginType,
        TypeOK
<1> QED BY <1>1, <1>2, LaneInit, PTL DEF Spec


-----------------------------------------------------------------------------
(* Who may take the foreground.  Whatever bears a stamp is no younger than  *)
(* the pilot's last deed, a poll is answered within the tick after it was   *)
(* made, and orders nobody missed differ from the plugin's only if they     *)
(* were switched in this very tick.                                         *)
LaneTimes ==
    /\ deed <= now
    /\ nav.stamp.at <= deed /\ act.at <= deed
    /\ \A s \in Slot : slot[s].target.stamp.at <= deed
    /\ poll.at # "idle" => /\ poll.now <= now /\ now <= poll.now + 1
                           /\ poll.target.stamp.at <= deed /\ poll.act.at <= deed
    /\ ~missed => plugin.orders = orders \/ deed = now
    /\ poll.at # "idle" /\ poll.orders # None =>
          /\ poll.now = now => poll.orders = orders \/ deed = now
          /\ ~missed => poll.orders = plugin.orders \/ deed = now

LaneAll == LaneInv /\ LaneTypes /\ LaneTimes

LEMMA LaneNumbers ==
    ASSUME LaneInv, LaneTypes
    PROVE  /\ now \in Nat /\ deed \in Nat /\ deeds \in Nat
           /\ nav.stamp.at \in Nat /\ act.at \in Nat
           /\ \A s \in Slot : slot[s].target.stamp.at \in Nat
           /\ poll.now \in Nat /\ poll.target.stamp.at \in Nat /\ poll.act.at \in Nat
<1>1. \A t \in Target : t.stamp.at \in Nat
  BY LaneAssumption DEF Target, Stamp
<1>2. \A t \in Stamp : t.at \in Nat
  BY LaneAssumption DEF Stamp
<1>3. nav \in Target /\ poll.target \in Target /\ \A s \in Slot : slot[s].target \in Target
  BY DEF LaneInv, Exactly, ButForReason, SlotType
<1>4. act \in Stamp /\ poll.act \in Stamp /\ poll.now \in 0..MaxTime
  BY DEF LaneTypes, PollType
<1>5. now \in Nat /\ deed \in Nat /\ deeds \in Nat /\ poll.now \in Nat
  BY <1>4, LaneAssumption DEF LaneInv, LaneTypes
<1> QED BY <1>1, <1>2, <1>3, <1>4, <1>5

(* What the helpers of Receive leave alone: the orders and, unless there is *)
(* a reason to, the foreground.                                             *)
LEMMA WhatIsApplied ==
    ASSUME NEW p \in PluginType, poll \in PollType, now \in 0..MaxTime
    PROVE  /\ ApplyOrders(p).orders = IF poll.orders \in {None, p.orders}
                                    THEN p.orders ELSE poll.orders
           /\ ApplyNav(p).orders = p.orders /\ ApplyAct(p).orders = p.orders
           /\ ApplyOrders(p).last # p.last => poll.orders \notin {None, p.orders}
           /\ ApplyNav(p).last # p.last => IsFresh(poll.target.stamp)
           /\ ApplyAct(p).last # p.last => IsFresh(poll.act)
<1>1. \A q \in PluginType : Refocused(q).orders = q.orders
  BY DEF Refocused, PluginType
<1>2. PICK a \in PluginType :
         poll.orders \notin {None, p.orders} => a = [p EXCEPT !.orders = poll.orders]
  BY DEF PluginType, PollType
<1>3. poll.orders \notin {None, p.orders} => a.orders = poll.orders
  BY <1>2 DEF PluginType
<1>4. PICK b \in PluginType : b = [p EXCEPT !.lastTs = poll.target.stamp.n]
  BY DEF PluginType, PollType, Target, Stamp
<1>5. b.orders = p.orders /\ b.last = p.last
  BY <1>4 DEF PluginType
<1>6. PICK c \in PluginType : c = [p EXCEPT !.actTs = poll.act.n]
  BY DEF PluginType, PollType, Stamp
<1>7. c.orders = p.orders /\ c.last = p.last
  BY <1>6 DEF PluginType
<1>8. /\ ApplyOrders(p).orders = IF poll.orders \in {None, p.orders} THEN p.orders ELSE poll.orders
      /\ ApplyOrders(p).last # p.last => poll.orders \notin {None, p.orders}
  BY <1>1, <1>2, <1>3 DEF ApplyOrders
<1>9. ApplyNav(p).orders = p.orders /\ (ApplyNav(p).last # p.last => IsFresh(poll.target.stamp))
  BY <1>1, <1>4, <1>5 DEF ApplyNav
<1>10. ApplyAct(p).orders = p.orders /\ (ApplyAct(p).last # p.last => IsFresh(poll.act))
  BY <1>1, <1>6, <1>7 DEF ApplyAct
<1> QED BY <1>8, <1>9, <1>10

(* A fresh stamp in an answer that is no more than a tick late is of a deed *)
(* of at most Fresh + 1 ticks ago.                                          *)
LEMMA FreshDeed ==
    ASSUME LaneAll, poll.at # "idle",
           IsFresh(poll.target.stamp) \/ IsFresh(poll.act)
    PROVE  now - deed <= Fresh + 1
  BY LaneNumbers, LaneAssumption DEF LaneAll, LaneTimes, IsFresh

LEMMA ReceiveApplies ==
    ASSUME LaneAll, Receive
    PROVE  /\ plugin'.orders = IF poll.orders = None THEN plugin.orders ELSE poll.orders
           /\ plugin'.last = plugin.last \/ now - deed <= Fresh + 1
              \/ (missed /\ plugin'.orders # plugin.orders)
<1>t. poll \in PollType /\ now \in 0..MaxTime /\ plugin \in PluginType
  BY DEF LaneAll, LaneTypes, LaneInv
<1>1. PICK a : a = ApplyOrders(plugin)
  OBVIOUS
<1>2. PICK b : b = ApplyNav(a)
  OBVIOUS
<1>3. PICK c : c = ApplyAct(b)
  OBVIOUS
<1>4. a \in PluginType
  BY <1>t, <1>1, AppliedTypes
<1>5. b \in PluginType
  BY <1>t, <1>2, <1>4, AppliedTypes
<1>6. c \in PluginType
  BY <1>t, <1>3, <1>5, AppliedTypes
<1>7. plugin' = [c EXCEPT !.primed = TRUE]
  BY <1>1, <1>2, <1>3 DEF Receive
<1>8. plugin'.orders = c.orders /\ plugin'.last = c.last
  BY <1>6, <1>7 DEF PluginType
<1>9. /\ a.orders = IF poll.orders \in {None, plugin.orders} THEN plugin.orders ELSE poll.orders
      /\ a.last # plugin.last => poll.orders \notin {None, plugin.orders}
  BY <1>t, <1>1, WhatIsApplied
<1>10. b.orders = a.orders /\ (b.last # a.last => IsFresh(poll.target.stamp))
  BY <1>t, <1>2, <1>4, WhatIsApplied
<1>11. c.orders = b.orders /\ (c.last # b.last => IsFresh(poll.act))
  BY <1>t, <1>3, <1>5, WhatIsApplied
<1>12. plugin'.orders = IF poll.orders = None THEN plugin.orders ELSE poll.orders
  BY <1>8, <1>9, <1>10, <1>11
<1>13. poll.at # "idle"
  BY DEF Receive
<1>14. CASE c.last # b.last \/ b.last # a.last
  BY <1>10, <1>11, <1>12, <1>13, <1>14, FreshDeed
<1>15. CASE a.last # plugin.last
  <2>1. poll.orders \notin {None, plugin.orders} /\ plugin'.orders # plugin.orders
    BY <1>9, <1>12, <1>15
  <2>2. ~missed => deed = now
    BY <1>13, <2>1 DEF LaneAll, LaneTimes
  <2>3. deed = now => now - deed <= Fresh + 1
    BY LaneNumbers, LaneAssumption DEF LaneAll
  <2> QED BY <1>12, <2>1, <2>2, <2>3
<1> QED BY <1>8, <1>12, <1>14, <1>15


(* A deed: everything stamped so far is older, and orders it switches are   *)
(* switched now.                                                            *)
LEMMA DeedTimes ==
    ASSUME LaneAll, deed' = now, UNCHANGED <<now, poll, missed, plugin>>,
           nav' = nav, act' = act \/ act'.at = now,
           \A s \in Slot : slot'[s] = slot[s] \/ slot'[s].target.stamp.at = now
    PROVE  LaneTimes'
  BY LaneNumbers DEF LaneAll, LaneTimes

(* A step that takes no stamp, switches nothing and asks nothing.           *)
LEMMA QuietTimes ==
    ASSUME LaneAll, UNCHANGED <<now, act, orders, plugin, deed, missed>>,
           nav'.stamp.at <= deed,
           \A s \in Slot : slot'[s].target.stamp.at <= deed,
           \/ poll' = NoPoll
           \/ /\ poll.at # "idle"
              /\ poll'.now = poll.now /\ poll'.orders = poll.orders /\ poll'.act = poll.act
              /\ poll'.target.stamp = poll.target.stamp
           \/ poll' = poll
    PROVE  LaneTimes'
  BY DEF LaneAll, LaneTimes, NoPoll

LEMMA TimesStep == ASSUME LaneAll, [Next]_vars PROVE LaneTimes'
<1> USE DEF history, kv
<1>t. LaneInv /\ LaneTypes /\ LaneTimes
  BY DEF LaneAll
<1>n. /\ NoTarget.stamp.at = 0 /\ Never.at = 0 /\ Free.target = NoTarget
      /\ NoPoll.at = "idle" /\ 0 <= deed /\ deed \in Nat /\ now \in Nat
  BY <1>t, LaneNumbers DEF NoTarget, Never, Free, NoPoll
<1>1. ASSUME NEW s \in Slot, NEW trip \in Trip, Push(s, trip) PROVE LaneTimes'
  <2>1. PICK t : t = [stamp |-> [n |-> deeds + 1, at |-> now], trip |-> trip]
    OBVIOUS
  <2>2. PICK job : job = [at |-> "nav", rows |-> {}, target |-> t]
    OBVIOUS
  <2>3. job.target.stamp.at = now /\ slot' = [slot EXCEPT ![s] = job]
    BY <1>1, <2>1, <2>2 DEF Push
  <2>4. \A z \in Slot : slot'[z] = slot[z] \/ slot'[z].target.stamp.at = now
    BY <1>t, <2>3 DEF LaneInv
  <2>5. deed' = now /\ UNCHANGED <<now, poll, missed, plugin, nav, act>>
    BY <1>1 DEF Push
  <2> QED BY <2>4, <2>5, DeedTimes
<1>2. ASSUME NEW s \in Slot, PushNav(s) \/ ReadRows(s) \/ PushRow(s) PROVE LaneTimes'
  <2>1. PICK q \in SlotType : q = slot[s]
    BY <1>t DEF LaneInv
  <2>2. q.target.stamp.at <= deed
    BY <1>t, <2>1 DEF LaneTimes
  <2>3. nav' \in {nav, q.target}
    BY <1>2, <2>1 DEF PushNav, ReadRows, PushRow
  <2>4. \/ slot' = [slot EXCEPT ![s] = [q EXCEPT !.at = "read"]]
        \/ slot' = [slot EXCEPT ![s] = [q EXCEPT !.at = "rows", !.rows = rows]]
        \/ slot' = [slot EXCEPT ![s] = Free]
    BY <1>2, <1>t, <2>1 DEF PushNav, ReadRows, PushRow, LaneInv
  <2>5. PICK job : slot' = [slot EXCEPT ![s] = job] /\ job.target \in {q.target, NoTarget}
    <3>1. PICK j : j = [q EXCEPT !.at = "read"]
      OBVIOUS
    <3>2. PICK k : k = [q EXCEPT !.at = "rows", !.rows = rows]
      OBVIOUS
    <3>3. j.target = q.target /\ k.target = q.target
      BY <3>1, <3>2 DEF SlotType
    <3> QED BY <1>n, <2>4, <3>1, <3>2, <3>3
  <2>6. \A z \in Slot : slot'[z].target.stamp.at <= deed
    BY <1>t, <1>n, <2>2, <2>5 DEF LaneTimes, LaneInv
  <2>7. nav'.stamp.at <= deed
    BY <1>t, <2>2, <2>3 DEF LaneTimes
  <2>8. UNCHANGED <<now, act, orders, plugin, deed, missed, poll>>
    BY <1>2 DEF PushNav, ReadRows, PushRow
  <2> QED BY <2>6, <2>7, <2>8, QuietTimes
<1>3. ASSUME Press PROVE LaneTimes'
  BY <1>3, DeedTimes DEF Press
<1>4. ASSUME NEW o \in {"refocusact", "other"}, Toggle(o) PROVE LaneTimes'
  BY <1>4, DeedTimes DEF Toggle
<1>5. ASSUME Tick PROVE LaneTimes'
  <2>1. /\ now' = now + 1 /\ missed' = TRUE /\ UNCHANGED <<orders, poll, plugin, deed, slot>>
        /\ nav' \in {nav, NoTarget} /\ act' \in {act, Never}
        /\ poll.at # "idle" => now = poll.now
    BY <1>5 DEF Tick
  <2>2. nav'.stamp.at <= deed /\ act'.at <= deed
    BY <1>t, <1>n, <2>1 DEF LaneTimes
  <2>3. deed <= now' /\ (poll.at # "idle" => poll.now <= now' /\ now' <= poll.now + 1 /\ poll.now # now')
    BY <1>t, <1>n, <2>1 DEF LaneTimes
  <2> QED BY <1>t, <2>1, <2>2, <2>3 DEF LaneTimes
<1>6. ASSUME Poll PROVE LaneTimes'
  <2>1. PICK lost :
          poll' = [at |-> "rows", now |-> now,
                   orders |-> IF "orders" \in lost THEN None ELSE orders,
                   target |-> IF "nav" \in lost THEN NoTarget
                              ELSE [nav EXCEPT !.trip.commodity = None],
                   act |-> IF "act" \in lost THEN Never ELSE act]
    BY <1>6 DEF Poll
  <2>2. [nav EXCEPT !.trip.commodity = None].stamp = nav.stamp
    BY <1>t DEF LaneInv, Exactly, Target
  <2>3. /\ poll'.now = now /\ poll'.orders \in {None, orders} /\ poll'.act \in {Never, act}
        /\ poll'.target.stamp \in {nav.stamp, NoTarget.stamp}
    BY <2>1, <2>2
  <2>4. UNCHANGED <<now, nav, act, orders, slot, plugin, deed, missed>>
    BY <1>6 DEF Poll
  <2> QED BY <1>t, <1>n, <2>3, <2>4 DEF LaneTimes
<1>7. ASSUME ReadIntent PROVE LaneTimes'
  <2>1. /\ UNCHANGED <<now, nav, act, orders, slot, plugin, deed, missed>> /\ poll.at # "idle"
        /\ \/ poll' = [poll EXCEPT !.at = "answer"]
           \/ \E r : poll' = [poll EXCEPT !.at = "answer",
                 !.target.trip.commodity = r.trip.commodity]
    BY <1>7 DEF ReadIntent
  <2>2. poll \in PollType /\ poll.target \in Target
    BY <1>t DEF LaneTypes, LaneInv, ButForReason
  <2>3. /\ poll'.now = poll.now /\ poll'.orders = poll.orders /\ poll'.act = poll.act
        /\ poll'.target.stamp = poll.target.stamp
    <3>1. PICK what : poll'.target = poll.target
                      \/ poll'.target = [poll.target EXCEPT !.trip.commodity = what]
      BY <2>1, <2>2 DEF PollType
    <3>2. poll'.target.stamp = poll.target.stamp
      BY <2>2, <3>1 DEF Target
    <3> QED BY <2>1, <2>2, <3>2 DEF PollType
  <2> QED BY <1>t, <2>1, <2>3, QuietTimes DEF LaneTimes
<1>8. ASSUME LosePoll PROVE LaneTimes'
  BY <1>t, <1>8, QuietTimes DEF LosePoll, LaneTimes
<1>9. ASSUME Restart PROVE LaneTimes'
  <2>1. plugin'.orders = plugin.orders /\ poll' = NoPoll
        /\ UNCHANGED <<now, nav, act, orders, slot, deed, missed>>
    BY <1>9 DEF Restart, Booted
  <2> QED BY <1>t, <1>n, <2>1 DEF LaneTimes
<1>10. ASSUME Receive PROVE LaneTimes'
  <2>1. /\ UNCHANGED <<now, nav, act, orders, slot, deed>> /\ poll' = NoPoll
        /\ poll.at # "idle" /\ missed' = (now # poll.now \/ poll.orders = None)
    BY <1>10 DEF Receive
  <2>2. ~missed' => now = poll.now /\ poll.orders # None
    BY <2>1
  <2>3. ~missed' => plugin'.orders = orders \/ deed = now
    BY <1>t, <1>10, <2>1, <2>2, ReceiveApplies DEF LaneTimes
  <2> QED BY <1>t, <1>n, <2>1, <2>3 DEF LaneTimes
<1>11. ASSUME UNCHANGED vars PROVE LaneTimes'
  BY <1>t, <1>11 DEF vars, LaneTimes
<1> QED
  BY <1>1, <1>2, <1>3, <1>4, <1>5, <1>6, <1>7, <1>8, <1>9, <1>10, <1>11 DEF Next

(* The foreground is taken only for what the pilot did within Fresh + 1     *)
(* ticks, or for a switch thrown while no poll came through, whatever is    *)
(* lost, late, overlapping or started again (load.py _rf_activate).         *)
THEOREM ForegroundIsAskedFor == Spec => NoSnatch
<1>1. Init => LaneAll
  <2> SUFFICES ASSUME Init PROVE LaneTimes
    BY LaneInit DEF LaneAll
  <2>1. /\ nav.stamp.at = 0 /\ act.at = 0 /\ deed = 0 /\ now = 0
        /\ poll.at = "idle" /\ plugin.orders = orders
    BY DEF Init, NoTarget, Never, NoPoll, Booted
  <2>2. \A s \in Slot : slot[s].target.stamp.at = 0
    BY DEF Init, Free, NoTarget, Never
  <2> QED BY <2>1, <2>2 DEF LaneTimes
<1>2. LaneAll /\ [Next]_vars => LaneAll'
  BY LaneStep, TypesStep, TimesStep DEF LaneAll
<1>3. LaneAll /\ [Next]_vars =>
        [plugin'.last \notin {plugin.last, None}
           => now - deed <= Fresh + 1 \/ (missed /\ plugin'.orders # plugin.orders)]_vars
  <2> SUFFICES ASSUME LaneAll, Next, plugin'.last \notin {plugin.last, None}
               PROVE  now - deed <= Fresh + 1 \/ (missed /\ plugin'.orders # plugin.orders)
    OBVIOUS
  <2>1. CASE Receive
    BY <2>1, ReceiveApplies
  <2>2. CASE Restart
    BY <2>2 DEF Restart, Booted
  <2>3. CASE plugin' = plugin
    BY <2>3
  <2> QED
    BY <2>1, <2>2, <2>3
      DEF Next, Push, PushNav, ReadRows, PushRow, Press, Toggle, Tick, Poll, ReadIntent, LosePoll
<1> QED BY <1>1, <1>2, <1>3, PTL DEF Spec, NoSnatch

=============================================================================
