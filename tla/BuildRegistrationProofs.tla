----------------------- MODULE BuildRegistrationProofs -----------------------
(***************************************************************************)
(* What BuildRegistration guarantees for any plugins, markets, threads and *)
(* handlers in flight, whatever fails; the last theorem, for a Raven whose *)
(* lookups work.                                                           *)
(***************************************************************************)
EXTENDS BuildRegistration, FiniteSetTheorems, TLAPS

(* What a handler has found out by the time it stands at its pc.            *)
StageOK(q) ==
    /\ q.pc \in IngestPC => q.market \in Market
    /\ q.pc \in {"save", "get", "add"} => q.id \in Build /\ project[q.id] = q.market
    /\ q.pc = "patch" => q.id \in Build
    /\ q.pc \in {"resolve", "create"} => q.attempt < MaxCreateAttempts
    /\ q.thread # None => q.pc \in IngestPC

ThreadOK(x) ==
    /\ x.pc # "idle" => x.plugin \in Plugin /\ x.market \in Market
    /\ x.attempt < MaxDirectAttempts

(* A thread waits for the one handler that works on its post.               *)
Awaits(s) ==
    slot[s].thread # None =>
        /\ thread[slot[s].thread].pc = "wait"
        /\ thread[slot[s].thread].market = slot[s].market
        /\ \A x \in Slot : slot[x].thread = slot[s].thread => x = s

Listed(m) == \E b \in ProjectsAt(m) : build[b] # None \/ b \in removed

Registration ==
    /\ TypeOK
    /\ \A s \in Slot : StageOK(slot[s])
    /\ \A s \in Slot : Awaits(s)
    /\ \A t \in Thread : ThreadOK(thread[t])
    /\ SeenMeansListed

-----------------------------------------------------------------------------
(* A free slot and a finished thread hold nothing.                          *)
LEMMA FreeOK ==
    /\ Free \in SlotType /\ StageOK(Free) /\ Free.thread = None /\ Free.pc = "idle"
    /\ Gone \in ThreadType /\ ThreadOK(Gone) /\ Gone.pc = "idle"
  BY BuildAssumption DEF Free, SlotType, StageOK, Gone, ThreadType, ThreadOK, IngestPC,
     MaxCreateAttempts, MaxDirectAttempts

(* Raven never takes a project away.                                        *)
Grows ==
    /\ project' \in [Build -> Market \cup {None}]
    /\ \A b \in Build : project[b] # None => project'[b] = project[b]

(* What a handler has found out stays true.                                 *)
LEMMA StageStays ==
  ASSUME TypeOK, Grows, NEW q \in SlotType, StageOK(q)
  PROVE  StageOK(q)'
  BY BuildAssumption DEF StageOK, Grows, TypeOK, SlotType, IngestPC

(* A PUT adds at most its own project, and a lookup finds one of the market.*)
LEMMA PutOK ==
  ASSUME TypeOK, NEW m \in Market, NEW outcome \in Outcomes(m), Put(m, outcome)
  PROVE  /\ Grows /\ late' \in SUBSET Market
         /\ outcome \in Build => project'[outcome] = m
  BY BuildAssumption DEF TypeOK, Put, Outcomes, New, raven, Grows

LEMMA ResolveOK ==
  ASSUME NEW m, NEW b \in Resolve(m)
  PROVE  b = None \/ (b \in Build /\ project[b] = m)
  BY DEF Resolve, ProjectsAt

(* A build that was listed stays so, or is known to have been removed.      *)
LEMMA ListedStays ==
  ASSUME TypeOK, Grows, removed \subseteq removed', NEW m \in Market, Listed(m),
         \A b \in Build : build[b] # None => build'[b] # None \/ b \in removed'
  PROVE  Listed(m)'
<1>1. PICK b \in ProjectsAt(m) : build[b] # None \/ b \in removed
  BY DEF Listed
<1>2. b \in Build /\ project'[b] = m
  BY <1>1, BuildAssumption DEF ProjectsAt, Grows, TypeOK
<1>3. b \in ProjectsAt(m)' /\ (build'[b] # None \/ b \in removed')
  BY <1>1, <1>2 DEF ProjectsAt
<1> QED
  BY <1>3 DEF Listed

(* What an answer does to its thread and to what the plugins have seen.     *)
LEMMA ReplyOK ==
  ASSUME Registration, NEW s \in Slot, NEW answer \in {"ok", "missing", "failed"},
         Reply(s, answer)
  PROVE  /\ thread' \in [Thread -> ThreadType]
         /\ seen' \in [Plugin -> SUBSET Market]
         /\ pending' \in [Plugin -> [Market -> {"none", "waiting", "over"}]]
         /\ \A t \in Thread : ThreadOK(thread'[t])
         /\ \A t \in Thread : t # slot[s].thread => thread'[t] = thread[t]
         /\ \A p \in Plugin : seen'[p] \subseteq
                seen[p] \cup (IF answer = "ok" THEN {slot[s].market} ELSE {})
<1> DEFINE t == slot[s].thread
<1>1. CASE t = None
  BY <1>1, BuildAssumption DEF Reply, plugin, Registration, TypeOK
<1>2. CASE t # None
  <2>1. /\ t \in Thread /\ thread[t] \in ThreadType /\ thread[t].pc = "wait"
        /\ thread[t].market = slot[s].market
        /\ thread[t].plugin \in Plugin /\ thread[t].market \in Market
    BY <1>2 DEF Registration, TypeOK, SlotType, Awaits, ThreadOK
  <2>2. Answered(t, answer) \/ Answered(t, None)
    BY <1>2 DEF Reply
  <2>3. /\ thread' \in [Thread -> ThreadType]
        /\ \A x \in Thread : x # t => thread'[x] = thread[x]
        /\ ThreadOK(thread'[t])
    <3>1. CASE thread' = [thread EXCEPT ![t] = Gone]
      BY <3>1, <2>1, FreeOK DEF Registration, TypeOK
    <3>2. CASE thread' = [thread EXCEPT ![t].pc = "create"]
      BY <3>2, <2>1 DEF Registration, TypeOK, ThreadType, ThreadOK
    <3> QED
      BY <2>2, <3>1, <3>2 DEF Answered
  <2>4. seen' \in [Plugin -> SUBSET Market] /\
        \A p \in Plugin : seen'[p] \subseteq
                seen[p] \cup (IF answer = "ok" THEN {slot[s].market} ELSE {})
    <3>1. CASE UNCHANGED seen
      BY <3>1 DEF Registration, TypeOK
    <3>2. CASE /\ answer = "ok"
               /\ seen' = [seen EXCEPT ![thread[t].plugin] = @ \cup {thread[t].market}]
      BY <3>2, <2>1 DEF Registration, TypeOK
    <3>3. CASE Answered(t, None)
      BY <3>3, <3>1, BuildAssumption DEF Answered
    <3>4. CASE Answered(t, answer)
      <4>1. \/ UNCHANGED seen
            \/ /\ answer = "ok"
               /\ seen' = [seen EXCEPT ![thread[t].plugin] = @ \cup {thread[t].market}]
        BY <3>4 DEF Answered
      <4> QED BY <4>1, <3>1, <3>2
    <3> QED
      BY <2>2, <3>3, <3>4
  <2>5. pending' \in [Plugin -> [Market -> {"none", "waiting", "over"}]]
    <3>1. pending \in [Plugin -> [Market -> {"none", "waiting", "over"}]]
      BY DEF Registration, TypeOK
    <3>2. \/ pending' = pending
          \/ \E v \in {"none", "waiting"} :
                pending' = [pending EXCEPT ![thread[t].plugin][thread[t].market] = v]
      BY <2>2 DEF Answered, Rearm
    <3> QED BY <2>1, <3>1, <3>2
  <2> QED
    BY <2>3, <2>4, <2>5 DEF Registration
<1> QED
  BY <1>1, <1>2

(* A handler that goes on with its post leaves every other as it is.        *)
LEMMA SlotMoves ==
  ASSUME Registration, Grows, UNCHANGED thread,
         NEW s \in Slot, NEW q \in SlotType, StageOK(q)', slot' = [slot EXCEPT ![s] = q],
         q.thread \in {slot[s].thread, None}, q.market = slot[s].market \/ q.thread = None
  PROVE  /\ slot' \in [Slot -> SlotType]
         /\ \A x \in Slot : StageOK(slot[x])' /\ Awaits(x)'
<1>1. \A x \in Slot : slot'[x] = IF x = s THEN q ELSE slot[x]
  BY DEF Registration, TypeOK
<1>2. slot' \in [Slot -> SlotType]
  BY DEF Registration, TypeOK
<1>3. ASSUME NEW x \in Slot PROVE StageOK(slot[x])'
  BY <1>1, StageStays DEF Registration, TypeOK
<1>4. ASSUME NEW x \in Slot PROVE Awaits(x)'
  BY <1>1 DEF Registration, Awaits
<1> QED
  BY <1>2, <1>3, <1>4

(* So does one that ends and whose thread has its answer.                   *)
LEMMA SlotEnds ==
  ASSUME Registration, Grows, NEW s \in Slot,
         NEW q \in SlotType, StageOK(q)', slot' = [slot EXCEPT ![s] = q], q.thread = None,
         \A t \in Thread : t # slot[s].thread => thread'[t] = thread[t]
  PROVE  /\ slot' \in [Slot -> SlotType]
         /\ \A x \in Slot : StageOK(slot[x])' /\ Awaits(x)'
<1>1. \A x \in Slot : slot'[x] = IF x = s THEN q ELSE slot[x]
  BY DEF Registration, TypeOK
<1>2. slot' \in [Slot -> SlotType]
  BY DEF Registration, TypeOK
<1>3. ASSUME NEW x \in Slot PROVE StageOK(slot[x])'
  BY <1>1, StageStays DEF Registration, TypeOK
<1>4. ASSUME NEW x \in Slot PROVE Awaits(x)'
  <2>1. CASE x = s
    BY <2>1, <1>1 DEF Awaits
  <2>2. CASE x # s /\ slot[x].thread # None
    <3>1. slot[x].thread \in Thread /\ slot[x].thread # slot[s].thread
      BY <2>2 DEF Registration, TypeOK, SlotType, Awaits
    <3> QED
      BY <3>1, <2>2, <1>1 DEF Registration, Awaits
  <2>3. CASE x # s /\ slot[x].thread = None
    BY <2>3, <1>1 DEF Awaits
  <2> QED
    BY <2>1, <2>2, <2>3
<1> QED
  BY <1>2, <1>3, <1>4

(* What the plugins have seen stays listed, and what they see now must be.  *)
LEMMA SeenStays ==
  ASSUME Registration, Grows, removed \subseteq removed',
         \A b \in Build : build[b] # None => build'[b] # None \/ b \in removed',
         NEW X \in SUBSET Market, \A m \in X : Listed(m)',
         \A p \in Plugin : seen'[p] \subseteq seen[p] \cup X
  PROVE  SeenMeansListed'
<1> SUFFICES ASSUME NEW p \in Plugin, NEW m \in seen'[p] PROVE Listed(m)'
  BY DEF SeenMeansListed, Listed
<1>1. CASE m \in X
  BY <1>1
<1>2. CASE m \in seen[p]
  <2>1. m \in Market /\ Listed(m)
    BY <1>2 DEF Registration, TypeOK, SeenMeansListed, Listed
  <2> QED
    BY <2>1, ListedStays DEF Registration
<1> QED
  BY <1>1, <1>2

(* Steps that change nothing a handler or a plugin goes by.                 *)
LEMMA Unmoved ==
  ASSUME Registration, UNCHANGED <<project, late>>
  PROVE  Grows
  BY DEF Registration, TypeOK, Grows

(* A handler's step towards its answer: the slot moves on, nothing is said. *)
LEMMA GoOn ==
  ASSUME Registration, Grows, late' \in SUBSET Market, UNCHANGED <<build, plugin, removed>>,
         NEW s \in Slot, NEW q \in SlotType, StageOK(q)', slot' = [slot EXCEPT ![s] = q],
         q.thread \in {slot[s].thread, None}, q.market = slot[s].market \/ q.thread = None
  PROVE  Registration'
<1>1. UNCHANGED <<thread, seen, pending>>
  BY DEF plugin
<1>2. slot' \in [Slot -> SlotType] /\ \A x \in Slot : StageOK(slot[x])' /\ Awaits(x)'
  BY <1>1, SlotMoves
<1>3. SeenMeansListed'
  <2>1. PICK X \in SUBSET Market : X = {}
    OBVIOUS
  <2> QED
    BY <1>1, <2>1, SeenStays
<1>4. TypeOK'
  BY <1>1, <1>2 DEF Registration, TypeOK, Grows
<1> QED
  BY <1>1, <1>2, <1>3, <1>4 DEF Registration, ThreadOK

(* A handler's end: it has answered, and with "ok" only what is listed.     *)
LEMMA AnswerAndEnd ==
  ASSUME Registration, UNCHANGED raven, removed' = removed,
         NEW s \in Slot, NEW q \in SlotType, StageOK(q)', slot' = [slot EXCEPT ![s] = q],
         q.thread = None,
         NEW answer \in {"ok", "missing", "failed"}, Reply(s, answer),
         build' \in [Build -> {None, "open", "done"}],
         \A b \in Build : build[b] # None => build'[b] # None,
         NEW m, m = slot[s].market, answer = "ok" => m \in Market /\ Listed(m)'
  PROVE  Registration'
<1> DEFINE X == IF answer = "ok" THEN {m} ELSE {}
<1>1. Grows /\ late' = late
  BY Unmoved DEF raven
<1>4. /\ thread' \in [Thread -> ThreadType]
      /\ seen' \in [Plugin -> SUBSET Market]
      /\ pending' \in [Plugin -> [Market -> {"none", "waiting", "over"}]]
      /\ \A t \in Thread : ThreadOK(thread'[t])
      /\ \A t \in Thread : t # slot[s].thread => thread'[t] = thread[t]
      /\ \A p \in Plugin : seen'[p] \subseteq seen[p] \cup X
  BY ReplyOK
<1>5. slot' \in [Slot -> SlotType] /\ \A x \in Slot : StageOK(slot[x])' /\ Awaits(x)'
  BY <1>1, <1>4, SlotEnds
<1>6. SeenMeansListed'
  <2>1. PICK Y \in SUBSET Market : Y = X
    OBVIOUS
  <2> HIDE DEF X
  <2>2. \A y \in Y : Listed(y)'
    BY <2>1 DEF X
  <2> QED
    BY <1>1, <1>4, <2>1, <2>2, SeenStays
<1>7. TypeOK'
  BY <1>1, <1>4, <1>5 DEF Registration, TypeOK, Grows
<1> QED
  BY <1>4, <1>5, <1>6, <1>7 DEF Registration, ThreadOK

(* Steps of Raven, of a plugin or of the board's pages: no handler moves,   *)
(* and no thread that waits for one.                                        *)
LEMMA Elsewhere ==
  ASSUME Registration, Grows, late' \in SUBSET Market, slot' = slot, seen' = seen,
         thread' \in [Thread -> ThreadType],
         \A t \in Thread : thread'[t] = thread[t] \/ (thread[t].pc # "wait" /\ ThreadOK(thread'[t])),
         pending' \in [Plugin -> [Market -> {"none", "waiting", "over"}]],
         build' \in [Build -> {None, "open", "done"}],
         removed' \in SUBSET Build, removed \subseteq removed',
         \A b \in Build : build[b] # None => build'[b] # None \/ b \in removed'
  PROVE  Registration'
<1>1. \A s \in Slot : StageOK(slot[s])'
  BY StageStays DEF Registration, TypeOK
<1>2. ASSUME NEW s \in Slot PROVE Awaits(s)'
  BY DEF Registration, TypeOK, SlotType, Awaits
<1>3. \A t \in Thread : ThreadOK(thread[t])'
  BY DEF Registration, ThreadOK
<1>4. SeenMeansListed'
  <2>1. PICK X \in SUBSET Market : X = {}
    OBVIOUS
  <2> QED
    BY <2>1, SeenStays
<1>5. TypeOK'
  BY DEF Registration, TypeOK, Grows
<1> QED
  BY <1>1, <1>2, <1>3, <1>4, <1>5 DEF Registration

(* A free slot is well typed and holds nothing after any step.              *)
LEMMA FreeLater == Free \in SlotType /\ StageOK(Free)' /\ Free.thread = None
  BY FreeOK DEF StageOK, Free, IngestPC

(* A handler whose thread is gone has found out the same.                   *)
LEMMA Forgotten ==
  ASSUME NEW q \in SlotType, StageOK(q)
  PROVE  LET f == [q EXCEPT !.thread = None]
         IN  f \in SlotType /\ StageOK(f) /\ f.thread = None
<1> DEFINE f == [q EXCEPT !.thread = None]
<1>1. f \in SlotType
  BY DEF SlotType
<1>2. /\ f.pc = q.pc /\ f.market = q.market /\ f.id = q.id /\ f.attempt = q.attempt
      /\ f.thread = None
  BY DEF SlotType
<1>3. StageOK(f)
  BY <1>2 DEF StageOK
<1> QED
  BY <1>1, <1>2, <1>3

(* The steps of Raven keep the invariant.                                   *)
LEMMA RavenSteps == Registration /\ Ravens => Registration'
<1> SUFFICES ASSUME Registration, NEW m \in Market, Founded(m) \/ ActLate(m) PROVE Registration'
  BY DEF Ravens
<1>1. Grows /\ late' \in SUBSET Market
  BY BuildAssumption DEF Founded, ActLate, New, Grows, Registration, TypeOK
<1>2. UNCHANGED <<build, slot, thread, seen, pending, removed>>
  BY DEF Founded, ActLate, plugin
<1> QED
  BY <1>1, <1>2, Elsewhere DEF Registration, TypeOK

(* The steps of the plugins keep it.                                        *)
LEMMA PluginSteps == Registration /\ Plugins => Registration'
<1> SUFFICES ASSUME Registration, Plugins PROVE Registration'
  OBVIOUS
<1>1. ASSUME NEW p \in Plugin, Restart(p) PROVE Registration'
  <2> DEFINE dead == {t \in Thread : thread[t].plugin = p}
  <2>1. /\ pending' \in [Plugin -> [Market -> {"none", "waiting", "over"}]]
        /\ thread' \in [Thread -> ThreadType] /\ \A t \in Thread : ThreadOK(thread'[t])
        /\ \A t \in Thread \ dead : thread'[t] = thread[t]
    BY <1>1, FreeOK DEF Restart, Registration, TypeOK
  <2>2. /\ slot' \in [Slot -> SlotType]
        /\ \A s \in Slot : \/ slot[s].thread \notin dead /\ slot'[s] = slot[s]
                           \/ slot'[s] = [slot[s] EXCEPT !.thread = None]
    <3>1. slot' = [s \in Slot |-> IF slot[s].thread \in dead
                                   THEN [slot[s] EXCEPT !.thread = None] ELSE slot[s]]
      BY <1>1 DEF Restart
    <3>2. \A s \in Slot : slot[s] \in SlotType /\ [slot[s] EXCEPT !.thread = None] \in SlotType
      BY Forgotten DEF Registration, TypeOK
    <3> QED
      BY <3>1, <3>2
  <2>3. UNCHANGED <<project, late, build, seen, removed>>
    BY <1>1 DEF Restart, raven
  <2>4. ASSUME NEW s \in Slot PROVE StageOK(slot'[s])
    BY <2>2, Forgotten DEF Registration, TypeOK
  <2>5. ASSUME NEW s \in Slot, slot'[s].thread # None
        PROVE  slot'[s] = slot[s] /\ slot[s].thread \in Thread \ dead
    BY <2>2, <2>5 DEF Registration, TypeOK, SlotType
  <2>6. ASSUME NEW s \in Slot PROVE Awaits(s)'
    BY <2>1, <2>5 DEF Registration, Awaits
  <2>7. SeenMeansListed'
    BY <2>3 DEF Registration, SeenMeansListed, ProjectsAt
  <2>8. TypeOK'
    BY <2>1, <2>2, <2>3 DEF Registration, TypeOK
  <2> QED
    BY <2>1, <2>3, <2>4, <2>6, <2>7, <2>8 DEF Registration, StageOK, ThreadOK
<1>2. ASSUME NEW p \in Plugin, NEW m \in Market, GraceOver(p, m) PROVE Registration'
  <2>1. /\ UNCHANGED <<project, late, build, slot, thread, seen, removed>>
        /\ pending' \in [Plugin -> [Market -> {"none", "waiting", "over"}]]
    BY <1>2 DEF GraceOver, raven, Registration, TypeOK
  <2> QED
    BY <2>1, Unmoved, Elsewhere DEF Registration, TypeOK
<1>3. ASSUME NEW t \in Thread, NEW p \in Plugin, NEW m \in Market, DepotEvent(t, p, m)
      PROVE  Registration'
  <2>1. /\ UNCHANGED <<project, late, build, slot, seen, removed>>
        /\ pending' \in [Plugin -> [Market -> {"none", "waiting", "over"}]]
    BY <1>3 DEF DepotEvent, raven, Registration, TypeOK
  <2>2. PICK c \in BOOLEAN : thread' = [thread EXCEPT ![t] =
            Posting(p, m, c)]
    BY <1>3 DEF DepotEvent
  <2>3. /\ thread' \in [Thread -> ThreadType]
        /\ \A x \in Thread : thread'[x] = thread[x] \/ (thread[x].pc # "wait" /\ ThreadOK(thread'[x]))
    <3> DEFINE new == Posting(p, m, c)
    <3>1. new \in ThreadType /\ ThreadOK(new)
      <4>1. /\ new \in ThreadType /\ new.pc = "post" /\ new.attempt = 0
            /\ new.plugin = p /\ new.market = m
        BY DEF ThreadType, Posting, MaxDirectAttempts
      <4> HIDE DEF new
      <4> QED
        BY <4>1 DEF ThreadOK, MaxDirectAttempts
    <3> QED
      BY <1>3, <2>2, <3>1 DEF DepotEvent, Registration, TypeOK
  <2> QED
    BY <2>1, <2>3, Unmoved, Elsewhere DEF Registration, TypeOK
<1>4. ASSUME NEW t \in Thread, PostLost(t) PROVE Registration'
  <2>1. /\ thread' = [thread EXCEPT ![t] = Gone] /\ thread[t].pc # "wait"
        /\ UNCHANGED <<project, late, build, slot, seen, pending, removed>>
    BY <1>4, BuildAssumption DEF PostLost, Answered, raven
  <2>2. /\ thread' \in [Thread -> ThreadType]
        /\ \A x \in Thread : thread'[x] = thread[x] \/ (thread[x].pc # "wait" /\ ThreadOK(thread'[x]))
    BY <2>1, FreeOK DEF Registration, TypeOK
  <2> QED
    BY <2>1, <2>2, Unmoved, Elsewhere DEF Registration, TypeOK
<1>5. ASSUME NEW t \in Thread, DirectCreate(t) PROVE Registration'
  <2> DEFINE m == thread[t].market
             n == thread[t].attempt + 1
  <2>1. /\ thread[t] \in ThreadType /\ thread[t].pc = "create" /\ m \in Market
        /\ thread[t].plugin \in Plugin /\ n \in 1..MaxDirectAttempts
    BY <1>5 DEF DirectCreate, Registration, TypeOK, ThreadOK, ThreadType, MaxDirectAttempts
  <2>2. UNCHANGED <<build, slot, seen, removed>>
    BY <1>5 DEF DirectCreate
  <2>3. Grows /\ late' \in SUBSET Market
    BY <1>5, <2>1, PutOK DEF DirectCreate, Registration
  <2>4. /\ pending' = pending \/ Rearm(t)
        /\ \/ thread' = [thread EXCEPT ![t] = Posting(thread[t].plugin, m, FALSE)]
           \/ thread' = [thread EXCEPT ![t].attempt = n] /\ n < MaxDirectAttempts
           \/ thread' = [thread EXCEPT ![t] = Gone]
    BY <1>5 DEF DirectCreate
  <2>5. pending' \in [Plugin -> [Market -> {"none", "waiting", "over"}]]
    BY <2>1, <2>4 DEF Rearm, Registration, TypeOK
  <2>6. /\ thread' \in [Thread -> ThreadType]
        /\ \A x \in Thread : thread'[x] = thread[x] \/ (thread[x].pc # "wait" /\ ThreadOK(thread'[x]))
    <3>1. CASE thread' = [thread EXCEPT ![t] = Gone]
      BY <2>1, <3>1, FreeOK DEF Registration, TypeOK
    <3>2. CASE thread' = [thread EXCEPT ![t] = Posting(thread[t].plugin, m, FALSE)]
      <4> DEFINE new == Posting(thread[t].plugin, m, FALSE)
      <4>1. /\ new \in ThreadType /\ new.pc = "post" /\ new.attempt = 0
            /\ new.plugin = thread[t].plugin /\ new.market = m
        BY <2>1 DEF ThreadType, Posting, MaxDirectAttempts
      <4> HIDE DEF new
      <4>2. ThreadOK(new)
        BY <4>1, <2>1 DEF ThreadOK, MaxDirectAttempts
      <4>3. thread' = [thread EXCEPT ![t] = new]
        BY <3>2 DEF new
      <4> QED
        BY <2>1, <4>1, <4>2, <4>3 DEF Registration, TypeOK
    <3>3. CASE thread' = [thread EXCEPT ![t].attempt = n] /\ n < MaxDirectAttempts
      BY <2>1, <3>3 DEF Registration, TypeOK, ThreadType, ThreadOK, MaxDirectAttempts
    <3> QED
      BY <2>4, <3>1, <3>2, <3>3
  <2> QED
    BY <2>2, <2>3, <2>5, <2>6, Elsewhere DEF Registration, TypeOK
<1> QED
  BY <1>1, <1>2, <1>3, <1>4, <1>5 DEF Plugins

(* The handlers' reads and answers keep it.                                 *)
LEMMA LookupSteps ==
  ASSUME Registration, NEW s \in Slot,
         ResolveMarket(s) \/ CreateProject(s) \/ Recheck(s)
  PROVE  Registration'
<1> DEFINE m == slot[s].market
<1>1. /\ slot[s] \in SlotType /\ StageOK(slot[s])
      /\ slot[s].pc \in {"resolve", "create", "recheck"} /\ m \in Market
  BY DEF Registration, TypeOK, ResolveMarket, CreateProject, Recheck, StageOK, IngestPC
<1>2. CASE CreateProject(s)
  <2>1. PICK outcome \in Outcomes(m) :
          /\ Put(m, outcome)
          /\ slot' = [slot EXCEPT ![s].attempt = @ + 1,
                        ![s].made = {b \in Build : b \in @ \/ project'[b] # project[b]},
                        ![s].pc = IF outcome \in Build THEN "save" ELSE "recheck",
                        ![s].id = IF outcome \in Build THEN outcome ELSE None,
                        ![s].last = IF outcome \in Build THEN "none" ELSE outcome]
    BY <1>2 DEF CreateProject
  <2>2. UNCHANGED <<build, plugin, removed>>
    BY <1>2 DEF CreateProject
  <2>3. Grows /\ late' \in SUBSET Market /\ (outcome \in Build => project'[outcome] = m)
    BY <2>1, <1>1, PutOK DEF Registration
  <2>4. PICK made \in SUBSET Build : made = {b \in Build : b \in slot[s].made \/ project'[b] # project[b]}
    OBVIOUS
  <2>5. PICK q : q = [slot[s] EXCEPT !.attempt = @ + 1, !.made = made,
                        !.pc = IF outcome \in Build THEN "save" ELSE "recheck",
                        !.id = IF outcome \in Build THEN outcome ELSE None,
                        !.last = IF outcome \in Build THEN "none" ELSE outcome]
    OBVIOUS
  <2>6. slot' = [slot EXCEPT ![s] = q]
    BY <2>1, <2>4, <2>5, <1>1 DEF Registration, TypeOK, SlotType
  <2>7. slot[s].pc = "create" /\ slot[s].attempt + 1 \in 0..MaxCreateAttempts
    <3>1. slot[s].pc = "create"
      BY <1>2 DEF CreateProject
    <3>2. slot[s].attempt \in 0..MaxCreateAttempts /\ slot[s].attempt < MaxCreateAttempts
      BY <1>1, <3>1 DEF StageOK, SlotType
    <3> QED
      BY <3>1, <3>2 DEF MaxCreateAttempts
  <2>8. outcome \in Build \/ outcome \in {"refused", "failed"}
    BY DEF Outcomes, New
  <2>9. /\ q \in SlotType /\ q.thread = slot[s].thread /\ q.market = m
        /\ q.pc = IF outcome \in Build THEN "save" ELSE "recheck"
        /\ q.id = IF outcome \in Build THEN outcome ELSE None
    BY <2>5, <2>7, <2>8, <1>1 DEF SlotType, IngestPC
  <2>10. StageOK(q)'
    BY <2>3, <2>9, <1>1 DEF StageOK, IngestPC
  <2> QED
    BY <2>2, <2>3, <2>6, <2>9, <2>10, GoOn
<1>3. ASSUME NEW pc \in {"get", "save"}, NEW b \in Build, project[b] = m,
             slot' = [slot EXCEPT ![s].pc = pc, ![s].id = b],
             UNCHANGED <<raven, build, plugin, removed>>
      PROVE  Registration'
  <2>1. PICK q : q = [slot[s] EXCEPT !.pc = pc, !.id = b]
    OBVIOUS
  <2>2. slot' = [slot EXCEPT ![s] = q]
    BY <2>1, <1>1, <1>3 DEF Registration, TypeOK, SlotType
  <2>3. /\ q \in SlotType /\ q.thread = slot[s].thread /\ q.market = m
        /\ q.pc = pc /\ q.id = b /\ q.attempt = slot[s].attempt
    BY <2>1, <1>1 DEF SlotType, IngestPC
  <2>4. Grows /\ late' \in SUBSET Market
    BY <1>3, Unmoved DEF raven, Registration, TypeOK
  <2>5. StageOK(q)
    BY <2>3, <1>1, <1>3 DEF StageOK, IngestPC
  <2>6. StageOK(q)'
    BY <2>3, <2>4, <2>5, StageStays DEF Registration
  <2> QED
    BY <2>2, <2>3, <2>4, <2>6, <1>3, GoOn
<1>6. ASSUME slot' = [slot EXCEPT ![s].pc = "create"], slot[s].attempt < MaxCreateAttempts,
             UNCHANGED <<raven, build, plugin, removed>>
      PROVE  Registration'
  <2>1. PICK q : q = [slot[s] EXCEPT !.pc = "create"]
    OBVIOUS
  <2>2. slot' = [slot EXCEPT ![s] = q]
    BY <2>1, <1>1, <1>6 DEF Registration, TypeOK, SlotType
  <2>3. /\ q \in SlotType /\ q.thread = slot[s].thread /\ q.market = m
        /\ q.pc = "create" /\ q.attempt = slot[s].attempt
    BY <2>1, <1>1 DEF SlotType, IngestPC
  <2>4. Grows /\ late' \in SUBSET Market
    BY <1>6, Unmoved DEF raven, Registration, TypeOK
  <2>5. StageOK(q)
    BY <2>3, <1>1, <1>6 DEF StageOK, IngestPC
  <2>6. StageOK(q)'
    BY <2>3, <2>4, <2>5, StageStays DEF Registration
  <2> QED
    BY <2>2, <2>3, <2>4, <2>6, <1>6, GoOn
<1>4. ASSUME NEW answer \in {"missing", "failed"}, Reply(s, answer),
             slot' = [slot EXCEPT ![s] = Free], UNCHANGED <<raven, build, removed>>
      PROVE  Registration'
  <2>1. PICK q : q = Free
    OBVIOUS
  <2>2. q \in SlotType /\ StageOK(q)' /\ q.thread = None /\ slot' = [slot EXCEPT ![s] = q]
    BY <1>4, <2>1, FreeLater
  <2> QED
    BY <1>1, <1>4, <2>2, AnswerAndEnd DEF Registration, TypeOK
<1>5. CASE ResolveMarket(s)
  <2>1. PICK b \in Resolve(m) :
        \/ /\ b # None
           /\ slot' = [slot EXCEPT ![s].pc = "get", ![s].id = b]
           /\ UNCHANGED plugin
        \/ /\ b = None /\ slot[s].create
           /\ slot' = [slot EXCEPT ![s].pc = "create"]
           /\ UNCHANGED plugin
        \/ /\ b = None /\ ~slot[s].create
           /\ slot' = [slot EXCEPT ![s] = Free]
           /\ Reply(s, "missing")
    BY <1>5 DEF ResolveMarket
  <2>2. UNCHANGED <<raven, build, removed>> /\ slot[s].pc = "resolve"
    BY <1>5 DEF ResolveMarket
  <2>3. b = None \/ (b \in Build /\ project[b] = m)
    BY ResolveOK
  <2>4. slot[s].attempt < MaxCreateAttempts
    BY <1>1, <2>2 DEF StageOK
  <2> QED
    BY <1>3, <1>4, <1>6, <2>1, <2>2, <2>3, <2>4
<1>7. CASE Recheck(s)
  <2>1. PICK b \in Resolve(m) :
        \/ /\ b # None
           /\ slot' = [slot EXCEPT ![s].pc = "save", ![s].id = b]
           /\ UNCHANGED plugin
        \/ /\ b = None /\ slot[s].attempt < MaxCreateAttempts
           /\ slot' = [slot EXCEPT ![s].pc = "create"]
           /\ UNCHANGED plugin
        \/ /\ b = None
           /\ slot' = [slot EXCEPT ![s] = Free]
           /\ Reply(s, "failed")
    BY <1>7 DEF Recheck
  <2>2. UNCHANGED <<raven, build, removed>>
    BY <1>7 DEF Recheck
  <2>3. b = None \/ (b \in Build /\ project[b] = m)
    BY ResolveOK
  <2> QED
    BY <1>3, <1>4, <1>6, <2>1, <2>2, <2>3
<1> QED
  BY <1>2, <1>5, <1>7

(* A handler that lists its build, or finds it listed, may say so.          *)
LEMMA ListSteps ==
  ASSUME Registration, NEW s \in Slot, Save(s) \/ Get(s) \/ Add(s)
  PROVE  Registration'
<1>1. /\ slot[s] \in SlotType /\ StageOK(slot[s])
      /\ slot[s].pc \in {"save", "get", "add"}
  BY DEF Registration, TypeOK, Save, Get, Add
<1>2. PICK m, b : m = slot[s].market /\ b = slot[s].id
  OBVIOUS
<1>3. m \in Market /\ b \in Build /\ project[b] = m
  BY <1>1, <1>2 DEF StageOK, IngestPC
<1>4. UNCHANGED <<project, late, removed>>
  BY DEF Save, Get, Add, raven
<1>5. ASSUME slot' = [slot EXCEPT ![s] = Free], Reply(s, "ok"),
             build' = [build EXCEPT ![b] = "open"] \/ (build' = build /\ build[b] # None)
      PROVE  Registration'
  <2>1. PICK q : q = Free
    OBVIOUS
  <2>2. q \in SlotType /\ StageOK(q)' /\ q.thread = None /\ slot' = [slot EXCEPT ![s] = q]
    BY <1>5, <2>1, FreeLater
  <2>3. /\ build' \in [Build -> {None, "open", "done"}] /\ build'[b] # None
        /\ \A x \in Build : build[x] # None => build'[x] # None
    BY <1>3, <1>5, BuildAssumption DEF Registration, TypeOK
  <2>4. Listed(m)'
    BY <1>3, <1>4, <2>3 DEF Listed, ProjectsAt
  <2> QED
    BY <1>2, <1>3, <1>4, <1>5, <2>2, <2>3, <2>4, AnswerAndEnd DEF raven
<1>6. CASE Save(s) \/ Add(s)
  BY <1>2, <1>5, <1>6 DEF Save, Add
<1>7. CASE Get(s) /\ build[b] # None
  <2>1. slot' = [slot EXCEPT ![s] = Free] /\ Reply(s, "ok") /\ build' = build
    BY <1>2, <1>7 DEF Get
  <2> QED
    BY <1>5, <1>7, <2>1
<1>8. CASE Get(s) /\ build[b] = None
  <2>1. /\ slot' = [slot EXCEPT ![s].pc = "add"]
        /\ slot[s].pc = "get" /\ UNCHANGED <<build, plugin, removed>>
    BY <1>2, <1>8 DEF Get
  <2>2. PICK q : q = [slot[s] EXCEPT !.pc = "add"]
    OBVIOUS
  <2>3. slot' = [slot EXCEPT ![s] = q]
    BY <2>1, <2>2, <1>1 DEF Registration, TypeOK, SlotType
  <2>4. /\ q \in SlotType /\ q.thread = slot[s].thread /\ q.market = slot[s].market
        /\ q.pc = "add" /\ q.id = slot[s].id
    BY <2>2, <1>1 DEF SlotType, IngestPC
  <2>5. Grows /\ late' \in SUBSET Market
    BY <1>4, Unmoved DEF Registration, TypeOK
  <2>6. StageOK(q)'
    BY <2>4, <1>2, <1>3, <1>4 DEF StageOK, IngestPC
  <2> QED
    BY <2>1, <2>3, <2>4, <2>5, <2>6, GoOn
<1> QED
  BY <1>6, <1>7, <1>8

(* A post is received by one handler; the deadline and a failing KV part    *)
(* the two.                                                                 *)
LEMMA PostSteps ==
  ASSUME Registration, NEW s \in Slot,
         (\E t \in Thread : Receive(s, t)) \/ Deadline(s) \/ HandlerError(s)
  PROVE  Registration'
<1>1. slot[s] \in SlotType /\ StageOK(slot[s])
  BY DEF Registration, TypeOK
<1>2. ASSUME NEW t \in Thread, Receive(s, t) PROVE Registration'
  <2>1. /\ slot[s].pc = "idle" /\ thread[t] \in ThreadType /\ thread[t].pc = "post"
        /\ UNCHANGED <<project, late, build, seen, pending, removed>>
        /\ thread' = [thread EXCEPT ![t].pc = "wait"]
    BY <1>2 DEF Receive, Registration, TypeOK, raven
  <2>0. PICK c \in {FALSE, thread[t].create} :
            slot' = [slot EXCEPT ![s] = Handling(t, thread[t].market, c)]
    BY <1>2 DEF Receive
  <2>c. c \in BOOLEAN
    BY <2>0, <2>1 DEF ThreadType
  <2>2. PICK q : q = Handling(t, thread[t].market, c) /\ slot' = [slot EXCEPT ![s] = q]
    BY <2>0
  <2>3. thread[t].market \in Market /\ slot[s].thread = None
    BY <1>1, <2>1 DEF Registration, ThreadOK, StageOK, IngestPC
  <2>4. /\ q \in SlotType /\ q.pc = "resolve" /\ q.thread = t /\ q.market = thread[t].market
        /\ q.attempt = 0
    BY <2>c, <2>2, <2>3 DEF Handling, SlotType, IngestPC, MaxCreateAttempts
  <2>5. /\ thread' \in [Thread -> ThreadType]
        /\ \A x \in Thread : /\ ThreadOK(thread'[x])
                             /\ thread'[x].market = thread[x].market
                             /\ thread'[x].pc = IF x = t THEN "wait" ELSE thread[x].pc
    BY <2>1 DEF Registration, TypeOK, ThreadType, ThreadOK
  <2>6. \A x \in Slot : slot'[x] = IF x = s THEN q ELSE slot[x]
    BY <2>2 DEF Registration, TypeOK
  <2>7. slot' \in [Slot -> SlotType]
    BY <2>2, <2>4 DEF Registration, TypeOK
  <2>8. ASSUME NEW x \in Slot PROVE StageOK(slot'[x])
    <3>1. StageOK(q)
      BY <2>3, <2>4 DEF StageOK, IngestPC, MaxCreateAttempts
    <3> QED
      BY <2>6, <3>1 DEF Registration
  <2>9. ASSUME NEW x \in Slot PROVE slot[x].thread # t
    BY <2>1, BuildAssumption DEF Registration, Awaits
  <2>10. ASSUME NEW x \in Slot PROVE Awaits(x)'
    <3>1. CASE x = s
      BY <3>1, <2>4, <2>5, <2>6, <2>9 DEF Awaits
    <3>2. CASE x # s /\ slot[x].thread # None
      <4>1. slot[x].thread \in Thread \ {t}
        BY <3>2, <2>9 DEF Registration, TypeOK, SlotType
      <4> QED
        BY <3>2, <4>1, <2>4, <2>5, <2>6 DEF Registration, Awaits
    <3>3. CASE x # s /\ slot[x].thread = None
      BY <3>3, <2>6 DEF Awaits
    <3> QED
      BY <3>1, <3>2, <3>3
  <2>11. SeenMeansListed'
    BY <2>1 DEF Registration, SeenMeansListed, ProjectsAt
  <2>12. TypeOK'
    BY <2>1, <2>5, <2>7 DEF Registration, TypeOK
  <2> QED
    BY <2>1, <2>5, <2>8, <2>10, <2>11, <2>12 DEF Registration, StageOK
<1>3. ASSUME Deadline(s) \/ HandlerError(s) PROVE Registration'
  <2>1. Reply(s, "failed") /\ UNCHANGED <<raven, build, removed>>
    BY <1>3 DEF Deadline, HandlerError
  <2>2. PICK q \in {Free, [slot[s] EXCEPT !.thread = None]} : slot' = [slot EXCEPT ![s] = q]
    <3>1. [slot EXCEPT ![s].thread = None] = [slot EXCEPT ![s] = [slot[s] EXCEPT !.thread = None]]
      BY DEF Registration, TypeOK
    <3> QED
      BY <1>3, <3>1 DEF Deadline, HandlerError
  <2>3. q \in SlotType /\ StageOK(q) /\ q.thread = None
    BY <1>1, <2>2, FreeOK, Forgotten
  <2>4. StageOK(q)'
    BY <2>1, <2>3, Unmoved, StageStays DEF raven, Registration
  <2> QED
    BY <2>1, <2>2, <2>3, <2>4, AnswerAndEnd DEF Registration, TypeOK
<1> QED
  BY <1>2, <1>3

(* The board's own edits keep it.                                           *)
LEMMA BoardSteps ==
  ASSUME Registration, NEW s \in Slot,
         Patch(s) \/ \E b \in Build : PatchRead(s, b) \/ AddByHand(s, b) \/ Remove(s, b)
  PROVE  Registration'
<1>1. slot[s] \in SlotType /\ StageOK(slot[s]) /\ (slot[s].thread # None => slot[s].pc \in IngestPC)
  BY DEF Registration, TypeOK, StageOK
<1>2. UNCHANGED <<project, late, thread, seen, pending>> /\ Grows /\ late' \in SUBSET Market
  BY Unmoved DEF Patch, PatchRead, AddByHand, Remove, raven, plugin, Registration, TypeOK
<1>3. CASE Patch(s)
  <2>1. /\ slot[s].id \in Build /\ slot[s].stamp \in {"open", "done"} /\ slot[s].thread = None
        /\ build' = [build EXCEPT ![slot[s].id] = slot[s].stamp]
        /\ slot' = [slot EXCEPT ![s] = Free] /\ UNCHANGED <<raven, plugin, removed>>
    BY <1>1, <1>3 DEF Patch, StageOK, SlotType, IngestPC
  <2>2. PICK q : q = Free
    OBVIOUS
  <2>3. q \in SlotType /\ StageOK(q)' /\ q.thread = None /\ slot' = [slot EXCEPT ![s] = q]
    BY <2>1, <2>2, FreeLater
  <2>4. Reply(s, "failed")
    BY <2>1 DEF Reply
  <2>5. /\ build' \in [Build -> {None, "open", "done"}]
        /\ \A x \in Build : build[x] # None => build'[x] # None
    BY <2>1, BuildAssumption DEF Registration, TypeOK
  <2> QED
    BY <2>1, <2>3, <2>4, <2>5, AnswerAndEnd
<1>4. ASSUME NEW b \in Build, PatchRead(s, b) PROVE Registration'
  <2>1. PICK stamp \in {"done", "open"} :
            slot' = [slot EXCEPT ![s] = [Free EXCEPT !.pc = "patch", !.id = b, !.stamp = stamp]]
    BY <1>4 DEF PatchRead
  <2>2. PICK q : q = [Free EXCEPT !.pc = "patch", !.id = b, !.stamp = stamp]
    OBVIOUS
  <2>3. q \in SlotType /\ q.pc = "patch" /\ q.id = b /\ q.thread = None
    BY <2>2, FreeOK DEF Free, SlotType
  <2>4. StageOK(q)'
    BY <2>3 DEF StageOK, IngestPC
  <2>5. UNCHANGED <<build, plugin, removed>>
    BY <1>4 DEF PatchRead
  <2> QED
    BY <1>2, <2>1, <2>2, <2>3, <2>4, <2>5, GoOn
<1>5. ASSUME NEW b \in Build, AddByHand(s, b) \/ Remove(s, b) PROVE Registration'
  <2>1. /\ slot' = slot
        /\ \/ build' = [build EXCEPT ![b] = "open"] /\ removed' = removed
           \/ build' = [build EXCEPT ![b] = None] /\ removed' = removed \cup {b}
    BY <1>5 DEF AddByHand, Remove
  <2>2. /\ build' \in [Build -> {None, "open", "done"}] /\ removed' \in SUBSET Build
        /\ removed \subseteq removed'
        /\ \A x \in Build : build[x] # None => build'[x] # None \/ x \in removed'
    BY <2>1, BuildAssumption DEF Registration, TypeOK
  <2> QED
    BY <1>2, <2>1, <2>2, Elsewhere DEF Registration, TypeOK
<1> QED
  BY <1>3, <1>4, <1>5

(* It holds to begin with, *)
LEMMA RegistrationInit == Init => Registration
  BY BuildAssumption, FreeOK DEF Init, Registration, TypeOK, Awaits, SeenMeansListed

(* every step keeps it, *)
LEMMA RegistrationStep == Registration /\ [Next]_vars => Registration'
<1>1. Registration /\ UNCHANGED vars => Registration'
  BY DEF vars, Registration, TypeOK, StageOK, ThreadOK, Awaits, SeenMeansListed, ProjectsAt
<1> QED
  BY <1>1, RavenSteps, PluginSteps, LookupSteps, ListSteps, PostSteps, BoardSteps
     DEF Next, Handlers, IngestStep

(* so it always holds.  *)
LEMMA RegistrationHolds == Spec => []Registration
  BY RegistrationInit, RegistrationStep, PTL DEF Spec

(* Every variable keeps its type: no handler loses its market or its build, *)
(* none makes more than its two attempts.                                   *)
THEOREM RegistrationTypeCorrect == Spec => []TypeOK
<1>1. Registration => TypeOK
  BY DEF Registration
<1> QED
  BY <1>1, RegistrationHolds, PTL

(* A plugin stops posting a market only once a build of it has been listed. *)
THEOREM SeenListed == Spec => []SeenMeansListed
<1>1. Registration => SeenMeansListed
  BY DEF Registration
<1> QED
  BY <1>1, RegistrationHolds, PTL

-----------------------------------------------------------------------------
(* A handler that has made a project stands where it looks for it or lists  *)
(* it: it never goes back to create another.                                *)
MadeOK(q) ==
    /\ q.pc \notin {"recheck", "save"} => q.made = {}
    /\ \A b \in q.made : project[b] = q.market
    /\ \A a, b \in q.made : a = b

OneEach == \A s \in Slot : MadeOK(slot[s])

(* No step takes a project out of Raven.                                    *)
LEMMA NextGrows ==
  ASSUME Registration, Next
  PROVE  Grows
<1>1. CASE UNCHANGED project
  BY <1>1 DEF Grows, Registration, TypeOK
<1>2. ASSUME NEW m \in Market, Founded(m) \/ ActLate(m) PROVE Grows
  BY <1>2, BuildAssumption DEF Founded, ActLate, New, Grows, Registration, TypeOK
<1>3. ASSUME NEW t \in Thread, DirectCreate(t) PROVE Grows
  <2>1. thread[t].market \in Market
    BY <1>3 DEF DirectCreate, Registration, ThreadOK
  <2> QED
    BY <1>3, <2>1, PutOK DEF DirectCreate, Registration
<1>4. ASSUME NEW s \in Slot, CreateProject(s) PROVE Grows
  <2>1. slot[s].market \in Market
    BY <1>4 DEF CreateProject, Registration, StageOK, IngestPC
  <2> QED
    BY <1>4, <2>1, PutOK DEF CreateProject, Registration
<1>5. Ravens \/ Plugins \/ Handlers
  BY DEF Next
<1>6. CASE Plugins
  BY <1>1, <1>3, <1>6 DEF Plugins, Restart, GraceOver, DepotEvent, PostLost, raven
<1>7. CASE Handlers
  BY <1>1, <1>4, <1>7 DEF Handlers, IngestStep, Receive, ResolveMarket, Recheck, Save, Get, Add,
     Deadline, HandlerError, Patch, PatchRead, AddByHand, Remove, raven
<1> QED
  BY <1>2, <1>5, <1>6, <1>7 DEF Ravens

(* What a handler has made stays what it is.                                *)
LEMMA MadeStays ==
  ASSUME TypeOK, Grows, NEW q \in SlotType, StageOK(q), MadeOK(q)
  PROVE  MadeOK(q)'
  BY BuildAssumption DEF MadeOK, Grows, TypeOK, SlotType, StageOK, IngestPC

(* One handler moves, to where it keeps MadeOK.                             *)
LEMMA OneMoves ==
  ASSUME Registration, OneEach, Grows, NEW s \in Slot, NEW q,
         slot' = [slot EXCEPT ![s] = q], MadeOK(q)'
  PROVE  OneEach'
<1>1. \A x \in Slot : slot'[x] = IF x = s THEN q ELSE slot[x]
  BY DEF Registration, TypeOK
<1>2. ASSUME NEW x \in Slot PROVE MadeOK(slot[x])'
  BY <1>1, MadeStays DEF Registration, TypeOK, OneEach
<1> QED
  BY <1>2 DEF OneEach

(* A handler that has made nothing, or forgets its thread, keeps MadeOK.    *)
LEMMA EmptyOK ==
  ASSUME NEW q, q.made = {}
  PROVE  MadeOK(q) /\ MadeOK(q)'
  BY DEF MadeOK

(* Steps of one handler, with a Raven whose lookups work.                   *)
LEMMA OneEachHandler ==
  ASSUME RavenFails = FALSE, Registration, OneEach, Grows, NEW s \in Slot,
         \/ \E t \in Thread : Receive(s, t)
         \/ IngestStep(s) \/ Deadline(s) \/ HandlerError(s) \/ Patch(s)
         \/ \E b \in Build : PatchRead(s, b)
  PROVE  OneEach'
<1>1. PICK w : w = slot[s]
  OBVIOUS
<1>2. w \in SlotType /\ StageOK(w) /\ MadeOK(w)
  BY <1>1 DEF Registration, TypeOK, OneEach
<1>3. MadeOK(w)'
  BY <1>2, MadeStays DEF Registration
<1>4. ASSUME NEW q, slot' = [slot EXCEPT ![s] = q], q.made = {} PROVE OneEach'
  BY <1>4, EmptyOK, OneMoves
<1>5. ASSUME slot' = [slot EXCEPT ![s] = Free] PROVE OneEach'
  <2>1. PICK q : q = Free
    OBVIOUS
  <2>2. q.made = {}
    BY <2>1 DEF Free
  <2> QED
    BY <1>4, <1>5, <2>1, <2>2
<1>6. ASSUME NEW q, slot' = [slot EXCEPT ![s] = q], q \in SlotType, q.made = w.made,
             q.market = w.market, q.made # {} => q.pc \in {"recheck", "save"}
      PROVE  OneEach'
  <2>1. MadeOK(q)'
    BY <1>3, <1>6 DEF MadeOK
  <2> QED
    BY <1>6, <2>1, OneMoves
<1>7. ASSUME slot' = [slot EXCEPT ![s].thread = None] PROVE OneEach'
  <2>1. PICK q : q = [w EXCEPT !.thread = None]
    OBVIOUS
  <2>2. slot' = [slot EXCEPT ![s] = q]
    BY <1>1, <1>7, <2>1
  <2>3. q \in SlotType /\ q.pc = w.pc /\ q.made = w.made /\ q.market = w.market
    BY <1>2, <2>1 DEF SlotType
  <2> QED
    BY <1>2, <1>6, <2>2, <2>3 DEF MadeOK
<1>8. ASSUME NEW t \in Thread, Receive(s, t) PROVE OneEach'
  <2>1. PICK c : slot' = [slot EXCEPT ![s] = Handling(t, thread[t].market, c)]
    BY <1>8 DEF Receive
  <2>2. PICK q : q = Handling(t, thread[t].market, c)
    OBVIOUS
  <2>3. q.made = {}
    BY <2>2 DEF Handling
  <2> QED
    BY <1>4, <2>1, <2>2, <2>3
<1>9. ASSUME NEW b \in Build, PatchRead(s, b) PROVE OneEach'
  <2>1. PICK stamp \in {"done", "open"} :
            slot' = [slot EXCEPT ![s] = [Free EXCEPT !.pc = "patch", !.id = b, !.stamp = stamp]]
    BY <1>9 DEF PatchRead
  <2>2. PICK q : q = [Free EXCEPT !.pc = "patch", !.id = b, !.stamp = stamp]
    OBVIOUS
  <2>3. q.made = {}
    BY <2>2 DEF Free
  <2> QED
    BY <1>4, <2>1, <2>2, <2>3
<1>10. ASSUME NEW pc \in IngestPC, NEW b \in Build,
              slot' = [slot EXCEPT ![s].pc = pc] \/ slot' = [slot EXCEPT ![s].pc = pc, ![s].id = b],
              w.made # {} => pc = "save"
       PROVE  OneEach'
  <2>1. PICK q \in {[w EXCEPT !.pc = pc], [w EXCEPT !.pc = pc, !.id = b]} :
            slot' = [slot EXCEPT ![s] = q]
    BY <1>1, <1>10 DEF Registration, TypeOK
  <2>2. q \in SlotType /\ q.pc = pc /\ q.made = w.made /\ q.market = w.market
    BY <1>2, <1>10, <2>1 DEF SlotType
  <2> QED
    BY <1>6, <1>10, <2>1, <2>2
<1>11. CASE Deadline(s) \/ HandlerError(s) \/ Patch(s) \/ Save(s) \/ Add(s)
  BY <1>5, <1>7, <1>11 DEF Deadline, HandlerError, Patch, Save, Add
<1>12. CASE ResolveMarket(s) \/ Get(s)
  <2>1. w.made = {} /\ w.market = slot[s].market
    BY <1>1, <1>2, <1>12 DEF MadeOK, ResolveMarket, Get
  <2>2. CASE slot' = [slot EXCEPT ![s] = Free]
    BY <1>5, <2>2
  <2>3. CASE \E pc \in {"create", "add"} : slot' = [slot EXCEPT ![s].pc = pc]
    <3>1. PICK pc \in {"create", "add"} : slot' = [slot EXCEPT ![s].pc = pc]
      BY <2>3
    <3>2. PICK q : q = [w EXCEPT !.pc = pc]
      OBVIOUS
    <3>3. q \in SlotType /\ q.made = w.made
      BY <1>2, <3>1, <3>2 DEF SlotType, IngestPC
    <3>4. slot' = [slot EXCEPT ![s] = q]
      BY <1>1, <3>1, <3>2
    <3> QED
      BY <1>4, <2>1, <3>3, <3>4
  <2>4. CASE \E b \in Build : slot' = [slot EXCEPT ![s].pc = "get", ![s].id = b]
    BY <1>10, <2>1, <2>4 DEF IngestPC
  <2> QED
    BY <1>12, <2>2, <2>3, <2>4, ResolveOK DEF ResolveMarket, Get
<1>13. CASE Recheck(s)
  <2>1. PICK b \in Resolve(w.market) :
            \/ b # None /\ slot' = [slot EXCEPT ![s].pc = "save", ![s].id = b]
            \/ b = None /\ slot' = [slot EXCEPT ![s].pc = "create"]
            \/ b = None /\ slot' = [slot EXCEPT ![s] = Free]
    BY <1>1, <1>13 DEF Recheck
  <2>2. CASE b = None
    <3>1. w.made = {}
      BY <1>2, <2>1, <2>2, BuildAssumption DEF MadeOK, Resolve, ProjectsAt, SlotType
    <3>2. CASE slot' = [slot EXCEPT ![s].pc = "create"]
      <4>1. PICK q : q = [w EXCEPT !.pc = "create"]
        OBVIOUS
      <4>2. slot' = [slot EXCEPT ![s] = q] /\ q.made = {}
        BY <1>1, <1>2, <3>1, <3>2, <4>1 DEF SlotType
      <4> QED
        BY <1>4, <4>2
    <3> QED
      BY <1>5, <2>1, <2>2, <3>2
  <2>3. CASE b # None
    <3>1. b \in Build /\ slot' = [slot EXCEPT ![s].pc = "save", ![s].id = b]
      BY <2>1, <2>3, ResolveOK
    <3> QED
      BY <1>10, <3>1 DEF IngestPC
  <2> QED
    BY <2>2, <2>3
<1>14. CASE CreateProject(s)
  <2>1. w.made = {} /\ w.pc = "create" /\ w.market \in Market
    BY <1>1, <1>2, <1>14 DEF CreateProject, MadeOK, StageOK, IngestPC
  <2>2. PICK outcome \in Outcomes(w.market) :
            /\ Put(w.market, outcome)
            /\ slot' = [slot EXCEPT
                    ![s].attempt = @ + 1,
                    ![s].made = {b \in Build : b \in @ \/ project'[b] # project[b]},
                    ![s].pc = IF outcome \in Build THEN "save" ELSE "recheck",
                    ![s].id = IF outcome \in Build THEN outcome ELSE None,
                    ![s].last = IF outcome \in Build THEN "none" ELSE outcome]
    BY <1>1, <1>14 DEF CreateProject
  <2>3. PICK made : made = {b \in Build : project'[b] # project[b]}
    OBVIOUS
  <2>4. /\ \A b \in made : project'[b] = w.market
        /\ \A a, b \in made : a = b
    BY <2>2, <2>3 DEF Put, New, raven, Registration, TypeOK
  <2>5. PICK q : q = [w EXCEPT
                    !.attempt = @ + 1,
                    !.made = {b \in Build : b \in @ \/ project'[b] # project[b]},
                    !.pc = IF outcome \in Build THEN "save" ELSE "recheck",
                    !.id = IF outcome \in Build THEN outcome ELSE None,
                    !.last = IF outcome \in Build THEN "none" ELSE outcome]
    OBVIOUS
  <2>6. slot' = [slot EXCEPT ![s] = q]
    BY <1>1, <2>2, <2>5 DEF Registration, TypeOK
  <2>7. q.made = made /\ q.market = w.market /\ q.pc \in {"save", "recheck"}
    BY <1>2, <2>1, <2>3, <2>5 DEF SlotType
  <2>8. MadeOK(q)'
    BY <2>4, <2>7 DEF MadeOK
  <2> QED
    BY <2>6, <2>8, OneMoves
<1> QED
  BY <1>8, <1>9, <1>11, <1>12, <1>13, <1>14 DEF IngestStep

(* Every step of the system keeps it.                                       *)
LEMMA OneEachStep ==
  ASSUME RavenFails = FALSE, Registration, OneEach, [Next]_vars
  PROVE  OneEach'
<1>1. CASE UNCHANGED vars
  BY <1>1 DEF vars, OneEach, MadeOK
<1>2. CASE Next
  <2>1. Grows
    BY <1>2, NextGrows
  <2>2. CASE slot' = slot
    BY <2>1, <2>2, MadeStays DEF Registration, TypeOK, OneEach
  <2>3. ASSUME NEW p \in Plugin, Restart(p) PROVE OneEach'
    <3> SUFFICES ASSUME NEW s \in Slot PROVE MadeOK(slot[s])'
      BY DEF OneEach
    <3>1. PICK w : w = slot[s]
      OBVIOUS
    <3>2. w \in SlotType /\ MadeOK(w)'
      BY <2>1, <3>1, MadeStays DEF Registration, TypeOK, OneEach
    <3>3. slot'[s] = w \/ slot'[s] = [w EXCEPT !.thread = None]
      BY <2>3, <3>1 DEF Restart
    <3>4. /\ slot'[s].pc = w.pc /\ slot'[s].made = w.made /\ slot'[s].market = w.market
      BY <3>2, <3>3 DEF SlotType
    <3> QED
      BY <3>2, <3>4 DEF MadeOK
  <2>4. ASSUME NEW s \in Slot, NEW b \in Build, AddByHand(s, b) \/ Remove(s, b) PROVE OneEach'
    BY <2>2, <2>4 DEF AddByHand, Remove
  <2>5. CASE Ravens
    BY <2>2, <2>5 DEF Ravens, Founded, ActLate
  <2>6. CASE Plugins
    BY <2>2, <2>3, <2>6 DEF Plugins, GraceOver, DepotEvent, PostLost, DirectCreate
  <2>7. CASE Handlers
    BY <2>1, <2>4, <2>7, OneEachHandler DEF Handlers
  <2> QED
    BY <1>2, <2>5, <2>6, <2>7 DEF Next
<1> QED
  BY <1>1, <1>2

(* As long as Raven's lookups work, one request creates at most one project *)
(* among the PUTs whose effect its lookups can see, however many other      *)
(* handlers, plugins and failing PUTs there are.                            *)
THEOREM NoTwinFromRetry == ASSUME RavenFails = FALSE PROVE Spec => []RetryMakesNoTwin
<1>1. Init => OneEach
  BY DEF Init, OneEach, MadeOK, Free
<1>2. Registration /\ OneEach /\ [Next]_vars => OneEach'
  BY OneEachStep
<1>3. ASSUME Registration, OneEach PROVE RetryMakesNoTwin
  <2> SUFFICES ASSUME NEW s \in Slot PROVE Cardinality(slot[s].made) <= 1
    BY DEF RetryMakesNoTwin
  <2>1. \A a, b \in slot[s].made : a = b
    BY <1>3 DEF OneEach, MadeOK
  <2>2. CASE slot[s].made = {}
    BY <2>2, FS_EmptySet
  <2>3. CASE \E b \in slot[s].made : TRUE
    <3>1. PICK b : slot[s].made = {b}
      BY <2>1, <2>3
    <3> QED
      BY <3>1, FS_Singleton
  <2> QED
    BY <2>2, <2>3
<1> QED
  BY <1>1, <1>2, <1>3, RegistrationHolds, PTL DEF Spec
-----------------------------------------------------------------------------
(* One handler at a time, and lookups that work.  A project the board lists *)
(* is one of Raven's; so what a handler goes by when it writes still holds: *)
(* nothing is listed at a market where it creates or has created, and the   *)
(* build it found unlisted is.                                              *)
Founding == \A b \in Build : build[b] # None => project[b] # None

Expects(q) ==
    /\ q.pc \in {"create", "recheck"} =>
            \A b \in Build : project[b] = q.market => build[b] = None
    /\ q.pc \in {"save", "add"} => build[q.id] = None
    /\ q.pc = "patch" => project[q.id] # None

Listings ==
    /\ Founding
    /\ \A s \in Slot : Expects(slot[s])

OneHandler == \A r, s \in Slot : r = s

(* A project that comes up meanwhile is new to the board.                   *)
LEMMA ExpectsStays ==
  ASSUME Registration, Founding, Grows, build' = build,
         NEW q \in SlotType, StageOK(q), Expects(q)
  PROVE  Expects(q)'
BY BuildAssumption DEF Expects, Founding, Grows, StageOK, IngestPC, Registration, TypeOK

(* A step that moves no handler and lists nothing.                          *)
LEMMA ListingsAside ==
  ASSUME Registration, Listings, Grows, build' = build,
         \A s \in Slot : /\ slot'[s].pc = slot[s].pc
                         /\ slot'[s].market = slot[s].market /\ slot'[s].id = slot[s].id
  PROVE  Listings'
<1>1. Founding'
  BY DEF Listings, Founding, Grows
<1>2. ASSUME NEW s \in Slot PROVE Expects(slot[s])'
  <2>1. PICK q \in SlotType : q = slot[s]
    BY DEF Registration, TypeOK
  <2>2. Expects(q)'
    BY <2>1, ExpectsStays DEF Registration, Listings
  <2> QED
    BY <2>1, <2>2 DEF Expects
<1> QED
  BY <1>1, <1>2 DEF Listings

(* A step of the one handler there is.                                      *)
LEMMA ListingsMove ==
  ASSUME OneHandler, Registration, Listings, Grows, NEW s \in Slot,
         NEW q, slot' = [slot EXCEPT ![s] = q], Expects(q)',
         \A b \in Build : build'[b] # None => build[b] # None \/ project[b] # None
  PROVE  Listings'
<1>1. Founding'
  BY BuildAssumption DEF Listings, Founding, Grows
<1>2. \A x \in Slot : slot'[x] = q
  BY DEF OneHandler, Registration, TypeOK
<1> QED
  BY <1>1, <1>2 DEF Listings

LEMMA ListingsHandler ==
  ASSUME RavenFails = FALSE, OneHandler, Registration, Listings, Grows, NEW s \in Slot,
         \/ \E t \in Thread : Receive(s, t)
         \/ IngestStep(s) \/ Deadline(s) \/ HandlerError(s) \/ Patch(s)
         \/ \E b \in Build : PatchRead(s, b)
  PROVE  Listings'
<1>1. PICK w \in SlotType : w = slot[s]
  BY DEF Registration, TypeOK
<1>2. StageOK(w) /\ Expects(w)
  BY <1>1 DEF Registration, Listings
<1>3. ASSUME NEW q, slot' = [slot EXCEPT ![s] = q],
             q.pc \in {"idle", "resolve", "get"}, build' = build
      PROVE  Listings'
  BY <1>3, ListingsMove DEF Expects
<1>4. ASSUME NEW q, slot' = [slot EXCEPT ![s] = q], q.pc \in {"create", "recheck"},
             q.market = w.market, build' = build,
             \A b \in Build : project[b] = w.market => build[b] = None, w.pc \in IngestPC
      PROVE  Listings'
  <2>1. \A b \in Build : project'[b] = w.market => build'[b] = None
    BY <1>2, <1>4, BuildAssumption
       DEF Listings, Founding, Grows, StageOK, Registration, TypeOK
  <2>2. Expects(q)'
    BY <1>4, <2>1 DEF Expects
  <2> QED
    BY <1>4, <2>2, ListingsMove
<1>5. ASSUME slot' = [slot EXCEPT ![s] = Free],
             \A b \in Build : build'[b] # None => build[b] # None \/ project[b] # None
      PROVE  Listings'
  <2>1. PICK q : q = Free
    OBVIOUS
  <2>2. q.pc = "idle"
    BY <2>1 DEF Free
  <2>3. Expects(q)'
    BY <2>2 DEF Expects
  <2> QED
    BY <1>5, <2>1, <2>3, ListingsMove
<1>6. ASSUME NEW b \in Build, build[b] = None, project'[b] # None, build' = build,
             NEW q, slot' = [slot EXCEPT ![s] = q], q.pc \in {"save", "add"}, q.id = b
      PROVE  Listings'
  <2>1. Expects(q)'
    BY <1>6 DEF Expects
  <2> QED
    BY <1>6, <2>1, ListingsMove
<1>7. ASSUME NEW t \in Thread, Receive(s, t) PROVE Listings'
  <2>1. PICK c : slot' = [slot EXCEPT ![s] = Handling(t, thread[t].market, c)]
    BY <1>7 DEF Receive
  <2>2. PICK q : q = Handling(t, thread[t].market, c)
    OBVIOUS
  <2>3. q.pc = "resolve" /\ build' = build
    BY <1>7, <2>2 DEF Handling, Receive
  <2> QED
    BY <1>3, <2>1, <2>2, <2>3
<1>8. ASSUME NEW b \in Build, PatchRead(s, b) PROVE Listings'
  <2>1. PICK stamp \in {"done", "open"} :
            slot' = [slot EXCEPT ![s] = [Free EXCEPT !.pc = "patch", !.id = b, !.stamp = stamp]]
    BY <1>8 DEF PatchRead
  <2>2. PICK q : q = [Free EXCEPT !.pc = "patch", !.id = b, !.stamp = stamp]
    OBVIOUS
  <2>3. q.pc = "patch" /\ q.id = b /\ build' = build
    BY <1>8, <2>2 DEF Free, PatchRead
  <2>4. project'[b] # None
    BY <1>8 DEF PatchRead, Listings, Founding, Grows
  <2>5. Expects(q)'
    BY <2>3, <2>4 DEF Expects
  <2> QED
    BY <2>1, <2>2, <2>3, <2>5, ListingsMove
<1>9. CASE Deadline(s) \/ HandlerError(s)
  <2>1. build' = build
    BY <1>9 DEF Deadline, HandlerError
  <2>2. CASE slot' = [slot EXCEPT ![s] = Free]
    BY <1>5, <2>1, <2>2
  <2>3. CASE slot' = [slot EXCEPT ![s].thread = None]
    <3>1. \A x \in Slot : /\ slot'[x].pc = slot[x].pc
                          /\ slot'[x].market = slot[x].market /\ slot'[x].id = slot[x].id
      BY <2>3 DEF Registration, TypeOK, SlotType
    <3> QED
      BY <2>1, <3>1, ListingsAside
  <2> QED
    BY <1>9, <2>2, <2>3 DEF Deadline, HandlerError
<1>10. CASE Save(s) \/ Add(s) \/ Patch(s)
  <2>1. slot' = [slot EXCEPT ![s] = Free] /\ w.pc \in {"save", "add", "patch"}
    BY <1>1, <1>10 DEF Save, Add, Patch
  <2>2. w.id \in Build /\ project[w.id] # None
    BY <1>2, <2>1, BuildAssumption DEF StageOK, IngestPC, Expects
  <2>3. \A b \in Build : b # w.id => build'[b] = build[b]
    BY <1>1, <1>10 DEF Save, Add, Patch, Registration, TypeOK
  <2> QED
    BY <1>5, <2>1, <2>2, <2>3
<1>11. ASSUME NEW pc, NEW b, slot' = [slot EXCEPT ![s].pc = pc, ![s].id = b]
       PROVE  \E q : /\ slot' = [slot EXCEPT ![s] = q]
                     /\ q.pc = pc /\ q.market = w.market /\ q.id = b
  <2>1. PICK q : q = [w EXCEPT !.pc = pc, !.id = b]
    OBVIOUS
  <2>2. slot' = [slot EXCEPT ![s] = q]
    BY <1>1, <1>11, <2>1 DEF Registration, TypeOK
  <2>3. q.pc = pc /\ q.market = w.market /\ q.id = b
    BY <2>1 DEF SlotType
  <2> QED
    BY <2>2, <2>3
<1>12. CASE Get(s)
  <2>1. build' = build /\ w.id \in Build /\ project'[w.id] # None
    BY <1>1, <1>2, <1>12, BuildAssumption DEF Get, StageOK, IngestPC, Grows
  <2>2. CASE build[w.id] = None /\ slot' = [slot EXCEPT ![s].pc = "add"]
    <3>1. PICK q : q = [w EXCEPT !.pc = "add"]
      OBVIOUS
    <3>2. slot' = [slot EXCEPT ![s] = q]
      BY <1>1, <2>2, <3>1 DEF Registration, TypeOK
    <3>3. q.pc = "add" /\ q.id = w.id
      BY <3>1 DEF SlotType
    <3> QED
      BY <1>6, <2>1, <2>2, <3>2, <3>3
  <2>3. CASE slot' = [slot EXCEPT ![s] = Free]
    BY <1>5, <2>1, <2>3
  <2> QED
    BY <1>1, <1>12, <2>2, <2>3 DEF Get
<1>13. CASE ResolveMarket(s) \/ Recheck(s)
  <2>1. PICK b \in Resolve(w.market) :
            \/ b # None /\ slot' = [slot EXCEPT ![s].pc = "get", ![s].id = b]
            \/ b # None /\ slot' = [slot EXCEPT ![s].pc = "save", ![s].id = b] /\ w.pc = "recheck"
            \/ b = None /\ slot' = [slot EXCEPT ![s].pc = "create"]
            \/ slot' = [slot EXCEPT ![s] = Free]
    BY <1>1, <1>13 DEF ResolveMarket, Recheck
  <2>2. build' = build /\ w.pc \in IngestPC
    BY <1>1, <1>13 DEF ResolveMarket, Recheck, IngestPC
  <2>3. CASE slot' = [slot EXCEPT ![s] = Free]
    BY <1>5, <2>2, <2>3
  <2>4. CASE b # None /\ slot' = [slot EXCEPT ![s].pc = "get", ![s].id = b]
    <3>1. b \in Build
      BY <2>4, ResolveOK
    <3>2. PICK q : slot' = [slot EXCEPT ![s] = q] /\ q.pc = "get"
      BY <1>11, <2>4
    <3> QED
      BY <1>3, <2>2, <3>2
  <2>5. CASE b # None /\ slot' = [slot EXCEPT ![s].pc = "save", ![s].id = b] /\ w.pc = "recheck"
    <3>1. b \in Build /\ project[b] = w.market /\ w.market \in Market
      BY <1>2, <2>5, ResolveOK DEF StageOK, IngestPC
    <3>2. build[b] = None /\ project'[b] # None
      BY <1>2, <2>5, <3>1, BuildAssumption DEF Expects, Grows
    <3>3. PICK q : q = [w EXCEPT !.pc = "save", !.id = b]
      OBVIOUS
    <3>4. slot' = [slot EXCEPT ![s] = q]
      BY <1>1, <2>5, <3>3 DEF Registration, TypeOK
    <3>5. q.pc = "save" /\ q.id = b
      BY <3>3 DEF SlotType
    <3> QED
      BY <1>6, <2>2, <3>1, <3>2, <3>4, <3>5
  <2>6. CASE b = None /\ slot' = [slot EXCEPT ![s].pc = "create"]
    <3>1. \A x \in Build : project[x] # w.market
      BY <2>1, <2>6, BuildAssumption DEF Resolve, ProjectsAt
    <3>2. PICK q : q = [w EXCEPT !.pc = "create"]
      OBVIOUS
    <3>3. slot' = [slot EXCEPT ![s] = q]
      BY <1>1, <2>6, <3>2 DEF Registration, TypeOK
    <3>4. q.pc = "create" /\ q.market = w.market
      BY <3>2 DEF SlotType
    <3> QED
      BY <1>4, <2>2, <3>1, <3>3, <3>4
  <2> QED
    BY <2>1, <2>3, <2>4, <2>5, <2>6
<1>14. CASE CreateProject(s)
  <2>1. w.pc = "create" /\ w.market \in Market /\ build' = build
    BY <1>1, <1>2, <1>14 DEF CreateProject, StageOK, IngestPC
  <2>2. PICK outcome \in Outcomes(w.market) :
            /\ Put(w.market, outcome)
            /\ slot' = [slot EXCEPT
                    ![s].attempt = @ + 1,
                    ![s].made = {b \in Build : b \in @ \/ project'[b] # project[b]},
                    ![s].pc = IF outcome \in Build THEN "save" ELSE "recheck",
                    ![s].id = IF outcome \in Build THEN outcome ELSE None,
                    ![s].last = IF outcome \in Build THEN "none" ELSE outcome]
    BY <1>1, <1>14 DEF CreateProject
  <2>3. PICK q : q = [w EXCEPT
                    !.attempt = @ + 1,
                    !.made = {b \in Build : b \in @ \/ project'[b] # project[b]},
                    !.pc = IF outcome \in Build THEN "save" ELSE "recheck",
                    !.id = IF outcome \in Build THEN outcome ELSE None,
                    !.last = IF outcome \in Build THEN "none" ELSE outcome]
    OBVIOUS
  <2>4. slot' = [slot EXCEPT ![s] = q]
    BY <1>1, <2>2, <2>3 DEF Registration, TypeOK
  <2>5. /\ q.market = w.market
        /\ q.pc = IF outcome \in Build THEN "save" ELSE "recheck"
        /\ q.id = IF outcome \in Build THEN outcome ELSE None
    BY <2>3 DEF SlotType
  <2>6. CASE outcome \in Build
    <3>1. project[outcome] = None /\ project'[outcome] # None
      BY <2>1, <2>2, <2>6, BuildAssumption DEF Put, New, Registration, TypeOK
    <3>2. build[outcome] = None
      BY <2>6, <3>1 DEF Listings, Founding
    <3> QED
      BY <1>6, <2>1, <2>4, <2>5, <2>6, <3>1, <3>2
  <2>7. CASE outcome \notin Build
    <3>1. \A b \in Build : project[b] = w.market => build[b] = None
      BY <1>2, <2>1 DEF Expects
    <3> QED
      BY <1>4, <2>1, <2>4, <2>5, <2>7, <3>1 DEF IngestPC
  <2> QED
    BY <2>6, <2>7
<1> QED
  BY <1>7, <1>8, <1>9, <1>10, <1>12, <1>13, <1>14 DEF IngestStep

(* Every step keeps it,                                                     *)
LEMMA ListingsStep ==
  ASSUME RavenFails = FALSE, OneHandler, Registration, Listings, [Next]_vars
  PROVE  Listings'
<1>1. CASE UNCHANGED vars
  BY <1>1, Unmoved, ListingsAside DEF vars
<1>2. CASE Next
  <2>1. Grows
    BY <1>2, NextGrows
  <2>2. CASE slot' = slot /\ build' = build
    BY <2>1, <2>2, ListingsAside
  <2>3. ASSUME NEW p \in Plugin, Restart(p) PROVE Listings'
    <3>1. ASSUME NEW s \in Slot
          PROVE  /\ slot'[s].pc = slot[s].pc
                 /\ slot'[s].market = slot[s].market /\ slot'[s].id = slot[s].id
      <4>1. slot[s] \in SlotType /\ slot'[s] \in {slot[s], [slot[s] EXCEPT !.thread = None]}
        BY <2>3 DEF Restart, Registration, TypeOK
      <4> QED
        BY <4>1 DEF SlotType
    <3> QED
      BY <2>1, <2>3, <3>1, ListingsAside DEF Restart
  <2>4. ASSUME NEW s \in Slot, NEW b \in Build, AddByHand(s, b) \/ Remove(s, b) PROVE Listings'
    <3>1. slot[s].pc = "idle" /\ slot' = slot
      BY <2>4 DEF AddByHand, Remove
    <3>2. PICK q : q = slot[s] /\ slot' = [slot EXCEPT ![s] = q]
      BY <3>1 DEF Registration, TypeOK
    <3>3. Expects(q)'
      BY <3>1, <3>2 DEF Expects
    <3>4. \A x \in Build : build'[x] # None => build[x] # None \/ project[x] # None
      BY <2>4, BuildAssumption DEF AddByHand, Remove, Registration, TypeOK
    <3> QED
      BY <2>1, <3>2, <3>3, <3>4, ListingsMove
  <2>5. CASE Ravens
    BY <2>2, <2>5 DEF Ravens, Founded, ActLate
  <2>6. CASE Plugins
    BY <2>2, <2>3, <2>6 DEF Plugins, GraceOver, DepotEvent, PostLost, DirectCreate
  <2>7. CASE Handlers
    BY <2>1, <2>4, <2>7, ListingsHandler DEF Handlers
  <2> QED
    BY <1>2, <2>5, <2>6, <2>7 DEF Next
<1> QED
  BY <1>1, <1>2

(* so that whoever registers finds no record of the build, and writes over  *)
(* no stamp.                                                                *)
LEMMA WritesOverNothing ==
  ASSUME OneHandler, Registration, Listings, [Next]_vars, NEW s \in Slot,
         slot[s].pc \in {"save", "add"}
  PROVE  slot'[s] = slot[s] \/ Done \subseteq Done'
<1>1. CASE build' = build
  BY <1>1 DEF Done
<1>2. CASE Save(s) \/ Add(s)
  <2>1. slot[s].id \in Build /\ build[slot[s].id] = None
    BY DEF Registration, StageOK, Listings, Expects
  <2>2. \A b \in Done : build'[b] = build[b]
    BY <1>2, <2>1, BuildAssumption DEF Save, Add, Done, Registration, TypeOK
  <2> QED
    BY <2>2 DEF Done
<1>3. CASE Handlers
  <2>1. PICK r \in Slot :
        \/ \E t \in Thread : Receive(r, t)
        \/ IngestStep(r)
        \/ Deadline(r)
        \/ HandlerError(r)
        \/ Patch(r)
        \/ \E b \in Build : PatchRead(r, b) \/ AddByHand(r, b) \/ Remove(r, b)
    BY <1>3 DEF Handlers
  <2>2. r = s
    BY DEF OneHandler
  <2> QED
    BY <1>1, <1>2, <2>1, <2>2
       DEF IngestStep, Receive, ResolveMarket, CreateProject, Recheck, Get, Deadline,
           HandlerError, Patch, PatchRead, AddByHand, Remove
<1> QED
  BY <1>1, <1>3 DEF Next, vars, Ravens, Founded, ActLate, Plugins, Restart, GraceOver,
     DepotEvent, PostLost, DirectCreate

(* With one handler at a time and lookups that work, a registration never   *)
(* takes the completion stamp off a build, whatever the plugins, the board  *)
(* and a failing or late Raven or KV do in between.                         *)
THEOREM StampsStand ==
  ASSUME RavenFails = FALSE, OneHandler PROVE Spec => CompletionStands
<1>1. Init => Listings
  BY DEF Init, Listings, Founding, Expects, Free
<1>2. Registration /\ Listings /\ [Next]_vars => Listings'
  BY ListingsStep
<1>3. Registration /\ Listings /\ [Next]_vars =>
        [\A s \in Slot :
            slot[s].pc \in {"save", "add"} => slot'[s] = slot[s] \/ Done \subseteq Done']_vars
  BY WritesOverNothing
<1> QED
  BY <1>1, <1>2, <1>3, RegistrationHolds, PTL DEF Spec, CompletionStands
=============================================================================
