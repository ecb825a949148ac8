-------------------------- MODULE BuildRegistration --------------------------
(***************************************************************************)
(* How a construction site becomes a build on the board.                   *)
(*                                                                         *)
(* A docked plugin posts each depot event from a thread of its own         *)
(* (load.py: journal_entry, _post) to ingest/build.js, which looks the     *)
(* market up in RavenColonial and lists its project in KV.  When there is  *)
(* none and the pilot's grace period is over, an up-to-date plugin creates *)
(* the project in Raven itself (_raven_create) and posts again; an older   *)
(* one asks the server to create it.  The board's pages stamp, correct,    *)
(* add and remove builds (blades/api/builds.js).                           *)
(*                                                                         *)
(* Raven is external: a PUT may be refused, or time out and yet be done,   *)
(* now or later.  Attribution is data here: it decides no step.            *)
(***************************************************************************)
EXTENDS Naturals, FiniteSets

CONSTANTS
    Plugin,      \* pilots' plugins
    Market,      \* construction sites
    Build,       \* Raven's project ids: bounds how many projects there can be
    Thread,      \* _post threads, of all plugins
    Slot,        \* handlers in flight on the server
    None,        \* absent value
    RavenFails,  \* whether a Raven lookup may fail (read as: no such project)
    ActsLate,    \* whether a PUT that timed out may be carried out later
    KvFails      \* whether a KV operation may throw

ASSUME BuildAssumption ==
    /\ None \notin Plugin \cup Market \cup Build \cup Thread
    /\ None \notin {"ok", "missing", "failed", "open", "done"}
    /\ "refused" \notin Build /\ "failed" \notin Build
    /\ RavenFails \in BOOLEAN
    /\ ActsLate \in BOOLEAN
    /\ KvFails \in BOOLEAN

VARIABLES
    project,     \* Raven: the market of each project
    late,        \* Raven: markets whose timed-out PUT may still be carried out
    build,       \* KV: the build records, "open" or "done" (completedTs)
    slot,        \* the handlers in flight and what they have read so far
    thread,      \* the plugins' _post threads
    seen,        \* seen.json: markets a plugin has been told are listed
    pending,     \* the grace period of each market (memory only)
    removed      \* history: builds a board member took off the list

raven == <<project, late>>
plugin == <<thread, seen, pending>>
vars == <<project, late, build, slot, thread, seen, pending, removed>>

-----------------------------------------------------------------------------
MaxCreateAttempts == 2       \* MAX_CREATE_ATTEMPTS
MaxDirectAttempts == 3       \* the attempts of _raven_create

(* Where a handler stands: the Raven or KV operation it does next.          *)
IngestPC == {"resolve", "create", "recheck", "save", "get", "add"}
SlotType == [pc : {"idle", "patch"} \cup IngestPC, thread : Thread \cup {None},
             market : Market \cup {None}, create : BOOLEAN,
             attempt : 0..MaxCreateAttempts, last : {"none", "refused", "failed"},
             made : SUBSET Build,
             id : Build \cup {None}, stamp : {"open", "done"}]

Free == [pc |-> "idle", thread |-> None, market |-> None, create |-> FALSE,
         attempt |-> 0, last |-> "none", made |-> {}, id |-> None, stamp |-> "open"]

Handling(t, m, create) ==
        [pc |-> "resolve", thread |-> t, market |-> m, create |-> create,
         attempt |-> 0, last |-> "none", made |-> {}, id |-> None, stamp |-> "open"]

(* A thread: about to post, waiting for the answer, or creating in Raven.   *)
ThreadType == [pc : {"idle", "post", "wait", "create"}, plugin : Plugin \cup {None},
               market : Market \cup {None}, create : BOOLEAN,
               attempt : 0..MaxDirectAttempts]

Gone == [pc |-> "idle", plugin |-> None, market |-> None, create |-> FALSE, attempt |-> 0]

Posting(p, m, create) ==
    [pc |-> "post", plugin |-> p, market |-> m, create |-> create, attempt |-> 0]

ProjectsAt(m) == {b \in Build : project[b] = m}

(* What a lookup of a market may yield: a project of it, or nothing.        *)
Resolve(m) == IF ProjectsAt(m) = {} THEN {None}
              ELSE ProjectsAt(m) \cup IF RavenFails THEN {None} ELSE {}

Init ==
    /\ project = [b \in Build |-> None]
    /\ late = {}
    /\ build = [b \in Build |-> None]
    /\ slot = [s \in Slot |-> Free]
    /\ thread = [t \in Thread |-> Gone]
    /\ seen = [p \in Plugin |-> {}]
    /\ pending = [p \in Plugin |-> [m \in Market |-> "none"]]
    /\ removed = {}

-----------------------------------------------------------------------------
(* Raven.  Somebody creates a project there; a PUT that timed out is done   *)
(* after all, or never.                                                     *)
New(m) == {b \in Build : project[b] = None /\ m # None}

Founded(m) ==
    /\ ProjectsAt(m) = {}
    /\ \E b \in New(m) : project' = [project EXCEPT ![b] = m]
    /\ UNCHANGED <<late, build, slot, plugin, removed>>

ActLate(m) ==
    /\ m \in late
    /\ late' = late \ {m}
    /\ \/ UNCHANGED project
       \/ \E b \in New(m) : project' = [project EXCEPT ![b] = m]
    /\ UNCHANGED <<build, slot, plugin, removed>>

(* One PUT /api/project for market m, and how it looks to the caller: the   *)
(* new project, "refused" (a 4xx), or "failed" (a 5xx, or timed out: not    *)
(* carried out, carried out all the same, or to be carried out later).      *)
Put(m, outcome) ==
    \/ /\ outcome \in New(m)
       /\ project' = [project EXCEPT ![outcome] = m]
       /\ UNCHANGED late
    \/ /\ outcome \in {"refused", "failed"}
       /\ UNCHANGED raven
    \/ /\ outcome = "failed"
       /\ \E b \in New(m) : project' = [project EXCEPT ![b] = m]
       /\ UNCHANGED late
    \/ /\ outcome = "failed" /\ ActsLate
       /\ late' = late \cup {m}
       /\ UNCHANGED project
Outcomes(m) == New(m) \cup {"refused", "failed"}

-----------------------------------------------------------------------------
(* Mutant: a market in its grace period is not posted again.                *)
DepotEventOnce(t, p, m) ==
    /\ thread[t].pc = "idle"
    /\ m \notin seen[p]
    /\ pending[p][m] # "waiting"
    /\ pending' = [pending EXCEPT ![p][m] = "waiting"]
    /\ thread' = [thread EXCEPT ![t] = Posting(p, m, pending[p][m] = "over")]
    /\ UNCHANGED <<raven, build, slot, seen, removed>>

(* The plugin.  journal_entry on ColonisationConstructionDepot: a market    *)
(* not seen yet starts its grace period, and is posted from a new thread;   *)
(* `create` is do_create, which the setting and the grace period allow.     *)
DepotEvent(t, p, m) ==
    /\ thread[t].pc = "idle"
    /\ m \notin seen[p]
    /\ pending' = [pending EXCEPT ![p][m] = IF @ = "none" THEN "waiting" ELSE @]
    /\ \E create \in {FALSE, pending[p][m] = "over"} :
        thread' = [thread EXCEPT ![t] = Posting(p, m, create)]
    /\ UNCHANGED <<raven, build, slot, seen, removed>>

GraceOver(p, m) ==
    /\ pending[p][m] = "waiting"
    /\ pending' = [pending EXCEPT ![p][m] = "over"]
    /\ UNCHANGED <<raven, build, slot, thread, seen, removed>>

(* The re-arm of a thread that was to create: the grace period starts again.*)
Rearm(t) ==
    pending' = IF thread[t].create
               THEN [pending EXCEPT ![thread[t].plugin][thread[t].market] = "waiting"]
               ELSE pending

(* What _post does with the answer to its post, or with none or one that    *)
(* only goes to the log (None: also a 401, or "raven_auth").  A 404 starts  *)
(* the direct create when the thread is one that may create.                *)
Answered(t, answer) ==
    LET p == thread[t].plugin
        m == thread[t].market
    IN  \/ /\ answer = "ok"
           /\ seen' = [seen EXCEPT ![p] = @ \cup {m}]
           /\ pending' = [pending EXCEPT ![p][m] = "none"]
           /\ thread' = [thread EXCEPT ![t] = Gone]
        \/ /\ answer = "missing" /\ thread[t].create
           /\ thread' = [thread EXCEPT ![t].pc = "create"]
           /\ UNCHANGED <<seen, pending>>
        \/ /\ answer = "failed"
           /\ Rearm(t)
           /\ thread' = [thread EXCEPT ![t] = Gone]
           /\ UNCHANGED seen
        \/ /\ answer = None \/ (answer = "missing" /\ ~thread[t].create)
           /\ thread' = [thread EXCEPT ![t] = Gone]
           /\ UNCHANGED <<seen, pending>>

(* The handler of slot s answers: to its thread, which may never hear it,   *)
(* or, after the deadline has answered for it, to nobody.                   *)
Reply(s, answer) ==
    LET t == slot[s].thread
    IN  \/ t = None /\ UNCHANGED plugin
        \/ t # None /\ (Answered(t, answer) \/ Answered(t, None))

(* The post never reaches the server: "offline?".                           *)
PostLost(t) ==
    /\ thread[t].pc = "post"
    /\ Answered(t, None)
    /\ UNCHANGED <<raven, build, slot, removed>>

(* _raven_create: up to three PUTs in a row, whatever became of the last;   *)
(* a project leads to a second post, nothing to a new grace period.         *)
DirectCreate(t) ==
    LET n == thread[t].attempt + 1
        m == thread[t].market
    IN  /\ thread[t].pc = "create"
        /\ \E outcome \in Outcomes(m) :
            /\ Put(m, outcome)
            /\ \/ /\ outcome \in Build
                  /\ thread' = [thread EXCEPT ![t] = Posting(thread[t].plugin, m, FALSE)]
                  /\ UNCHANGED pending
               \/ /\ outcome \notin Build /\ n < MaxDirectAttempts
                  /\ thread' = [thread EXCEPT ![t].attempt = n]
                  /\ UNCHANGED pending
               \/ /\ outcome \notin Build /\ n = MaxDirectAttempts
                  /\ Rearm(t)
                  /\ thread' = [thread EXCEPT ![t] = Gone]
        /\ UNCHANGED <<build, slot, seen, removed>>

(* EDMC restarts: seen.json survives, grace periods and threads do not.     *)
Restart(p) ==
    LET dead == {t \in Thread : thread[t].plugin = p}
    IN  /\ pending' = [pending EXCEPT ![p] = [m \in Market |-> "none"]]
        /\ thread' = [t \in Thread |-> IF t \in dead THEN Gone ELSE thread[t]]
        /\ slot' = [s \in Slot |-> IF slot[s].thread \in dead
                                   THEN [slot[s] EXCEPT !.thread = None] ELSE slot[s]]
        /\ UNCHANGED <<raven, build, seen, removed>>

-----------------------------------------------------------------------------
(* POST /ingest/build.  handlePost looks the market up; with no project it  *)
(* creates one if the request says so and answers 404 if not.  This load.py *)
(* never says so; the versions before it, still served, say what it decided.*)
Receive(s, t) ==
    /\ slot[s].pc = "idle"
    /\ thread[t].pc = "post"
    /\ thread' = [thread EXCEPT ![t].pc = "wait"]
    /\ \E asked \in {FALSE, thread[t].create} :
        slot' = [slot EXCEPT ![s] = Handling(t, thread[t].market, asked)]
    /\ UNCHANGED <<raven, build, seen, pending, removed>>

ResolveMarket(s) ==
    /\ slot[s].pc = "resolve"
    /\ \E b \in Resolve(slot[s].market) :
        \/ /\ b # None
           /\ slot' = [slot EXCEPT ![s].pc = "get", ![s].id = b]
           /\ UNCHANGED plugin
        \/ /\ b = None /\ slot[s].create
           /\ slot' = [slot EXCEPT ![s].pc = "create"]
           /\ UNCHANGED plugin
        \/ /\ b = None /\ ~slot[s].create
           /\ slot' = [slot EXCEPT ![s] = Free]
           /\ Reply(s, "missing")
    /\ UNCHANGED <<raven, build, removed>>

(* createProject, and the re-resolve after every attempt that brought no    *)
(* project: the PUT may have been carried out as its time ran out.          *)
CreateProject(s) ==
    /\ slot[s].pc = "create"
    /\ \E outcome \in Outcomes(slot[s].market) :
        /\ Put(slot[s].market, outcome)
        /\ slot' = [slot EXCEPT ![s].attempt = @ + 1,
                        ![s].made = {b \in Build : b \in @ \/ project'[b] # project[b]},
                        ![s].pc = IF outcome \in Build THEN "save" ELSE "recheck",
                        ![s].id = IF outcome \in Build THEN outcome ELSE None,
                        ![s].last = IF outcome \in Build THEN "none" ELSE outcome]
    /\ UNCHANGED <<build, plugin, removed>>

(* Mutant: a failed attempt is retried without looking for its project.     *)
RecheckNothing(s) ==
    /\ slot[s].pc = "recheck"
    /\ \/ /\ slot[s].last = "failed" /\ slot[s].attempt < MaxCreateAttempts
          /\ slot' = [slot EXCEPT ![s].pc = "create"]
          /\ UNCHANGED plugin
       \/ /\ ~(slot[s].last = "failed" /\ slot[s].attempt < MaxCreateAttempts)
          /\ slot' = [slot EXCEPT ![s] = Free]
          /\ Reply(s, "failed")
    /\ UNCHANGED <<raven, build, removed>>

(* Mutant: one attempt too many.                                            *)
RecheckOnceMore(s) ==
    LET again == slot[s].last = "failed" /\ slot[s].attempt <= MaxCreateAttempts
    IN  /\ slot[s].pc = "recheck"
        /\ \E b \in Resolve(slot[s].market) :
            \/ /\ b # None
               /\ slot' = [slot EXCEPT ![s].pc = "save", ![s].id = b]
               /\ UNCHANGED plugin
            \/ /\ b = None
               /\ slot' = [slot EXCEPT ![s] = IF again THEN [@ EXCEPT !.pc = "create"] ELSE Free]
               /\ IF again THEN UNCHANGED plugin ELSE Reply(s, "failed")
        /\ UNCHANGED <<raven, build, removed>>

Recheck(s) ==
    LET again == slot[s].last = "failed" /\ slot[s].attempt < MaxCreateAttempts
    IN  /\ slot[s].pc = "recheck"
        /\ \E b \in Resolve(slot[s].market) :
            \/ /\ b # None
               /\ slot' = [slot EXCEPT ![s].pc = "save", ![s].id = b]
               /\ UNCHANGED plugin
            \/ /\ b = None /\ again
               /\ slot' = [slot EXCEPT ![s].pc = "create"]
               /\ UNCHANGED plugin
            \/ /\ b = None /\ ~again
               /\ slot' = [slot EXCEPT ![s] = Free]
               /\ Reply(s, "failed")
        /\ UNCHANGED <<raven, build, removed>>

(* The create path writes the record anew, whatever is there.               *)
Save(s) ==
    /\ slot[s].pc = "save"
    /\ build' = [build EXCEPT ![slot[s].id] = "open"]
    /\ slot' = [slot EXCEPT ![s] = Free]
    /\ Reply(s, "ok")
    /\ UNCHANGED <<raven, removed>>

(* Mutant: a listed build is registered anew.                               *)
GetAnyway(s) ==
    /\ slot[s].pc = "get"
    /\ slot' = [slot EXCEPT ![s].pc = "add"]
    /\ UNCHANGED <<raven, build, plugin, removed>>

(* Mutant: the project's existence is taken for its registration.           *)
GetTrusting(s) ==
    /\ slot[s].pc = "get"
    /\ slot' = [slot EXCEPT ![s] = Free]
    /\ Reply(s, "ok")
    /\ UNCHANGED <<raven, build, removed>>

(* The register path leaves a listed build as it is.                        *)
Get(s) ==
    /\ slot[s].pc = "get"
    /\ \/ /\ build[slot[s].id] # None
          /\ slot' = [slot EXCEPT ![s] = Free]
          /\ Reply(s, "ok")
       \/ /\ build[slot[s].id] = None
          /\ slot' = [slot EXCEPT ![s].pc = "add"]
          /\ UNCHANGED plugin
    /\ UNCHANGED <<raven, build, removed>>

Add(s) ==
    /\ slot[s].pc = "add"
    /\ build' = [build EXCEPT ![slot[s].id] = "open"]
    /\ slot' = [slot EXCEPT ![s] = Free]
    /\ Reply(s, "ok")
    /\ UNCHANGED <<raven, removed>>

(* 22 seconds are over: the race answers 502 and nobody awaits handlePost   *)
(* any more, which goes on unless the platform ends it.                     *)
Deadline(s) ==
    /\ slot[s].thread # None
    /\ Reply(s, "failed")
    /\ slot' \in {[slot EXCEPT ![s].thread = None], [slot EXCEPT ![s] = Free]}
    /\ UNCHANGED <<raven, build, removed>>

(* A KV operation throws: "handler_error", or no PATCH.                     *)
HandlerError(s) ==
    /\ KvFails
    /\ slot[s].pc \in {"save", "get", "add", "patch"}
    /\ Reply(s, "failed")
    /\ slot' = [slot EXCEPT ![s] = Free]
    /\ UNCHANGED <<raven, build, removed>>

-----------------------------------------------------------------------------
(* builds.js.  A page stamps a build it saw complete, an admin takes the    *)
(* stamp off, or another field is corrected: a PATCH reads the record and   *)
(* writes it back merged.  (The carriers' sweep that follows a new stamp    *)
(* touches none of this module's state.)                                    *)
PatchRead(s, b) ==
    /\ slot[s].pc = "idle"
    /\ build[b] # None
    /\ \E stamp \in {"done", "open"} :
        slot' = [slot EXCEPT ![s] = [Free EXCEPT !.pc = "patch", !.id = b, !.stamp = stamp]]
    /\ UNCHANGED <<raven, build, plugin, removed>>

Patch(s) ==
    /\ slot[s].pc = "patch"
    /\ build' = [build EXCEPT ![slot[s].id] = slot[s].stamp]
    /\ slot' = [slot EXCEPT ![s] = Free]
    /\ UNCHANGED <<raven, plugin, removed>>

(* POST and DELETE are one KV operation each.                               *)
AddByHand(s, b) ==
    /\ slot[s].pc = "idle"
    /\ project[b] # None
    /\ build' = [build EXCEPT ![b] = "open"]
    /\ UNCHANGED <<raven, slot, plugin, removed>>

Remove(s, b) ==
    /\ slot[s].pc = "idle"
    /\ build[b] # None
    /\ build' = [build EXCEPT ![b] = None]
    /\ removed' = removed \cup {b}
    /\ UNCHANGED <<raven, slot, plugin>>

-----------------------------------------------------------------------------
Ravens == \E m \in Market : Founded(m) \/ ActLate(m)

Plugins ==
    \/ \E p \in Plugin : Restart(p) \/ \E m \in Market : GraceOver(p, m)
    \/ \E t \in Thread :
        \/ \E p \in Plugin, m \in Market : DepotEvent(t, p, m)
        \/ PostLost(t)
        \/ DirectCreate(t)

IngestStep(s) ==
    \/ ResolveMarket(s)
    \/ CreateProject(s)
    \/ Recheck(s)
    \/ Save(s)
    \/ Get(s)
    \/ Add(s)

Handlers ==
    \E s \in Slot :
        \/ \E t \in Thread : Receive(s, t)
        \/ IngestStep(s)
        \/ Deadline(s)
        \/ HandlerError(s)
        \/ Patch(s)
        \/ \E b \in Build : PatchRead(s, b) \/ AddByHand(s, b) \/ Remove(s, b)

Next == Ravens \/ Plugins \/ Handlers

Spec == Init /\ [][Next]_vars

(* Fairness.  Pages runs its handlers and a thread does its calls.  The game*)
(* repeats the depot event while the pilot stays docked, and of infinitely  *)
(* many posts some are received, some are carried on in time and some       *)
(* answers are heard: losses, deadlines and restarts strike, but not always.*)
Awaited(s, p) == slot[s].thread # None /\ thread[slot[s].thread].plugin = p

Fairness ==
    /\ \A s \in Slot : WF_vars(IngestStep(s) \/ Patch(s))
    /\ \A t \in Thread : WF_vars(DirectCreate(t))
    /\ \A p \in Plugin, m \in Market :
        SF_vars(\E t \in Thread, s \in Slot : slot[s].pc = "idle" /\ DepotEvent(t, p, m))
    /\ \A p \in Plugin :
        /\ SF_vars(\E t \in Thread, s \in Slot : thread[t].plugin = p /\ Receive(s, t))
        /\ SF_vars(\E s \in Slot : Awaited(s, p) /\ ResolveMarket(s))
        /\ SF_vars(\E s \in Slot : /\ Awaited(s, p) /\ Get(s)
                                   /\ slot'[s].pc = "add" \/ seen'[p] # seen[p])
        /\ SF_vars(\E s \in Slot : Awaited(s, p) /\ Add(s) /\ seen'[p] # seen[p])

FairSpec == Spec /\ Fairness

-----------------------------------------------------------------------------
(* Properties.                                                             *)

TypeOK ==
    /\ project \in [Build -> Market \cup {None}]
    /\ late \in SUBSET Market
    /\ build \in [Build -> {None, "open", "done"}]
    /\ slot \in [Slot -> SlotType]
    /\ thread \in [Thread -> ThreadType]
    /\ seen \in [Plugin -> SUBSET Market]
    /\ pending \in [Plugin -> [Market -> {"none", "waiting", "over"}]]
    /\ removed \in SUBSET Build

(* A plugin never posts a market again once it is in seen.json              *)
(* (load.py:3650), so it must get there only when a build of the market is  *)
(* listed: lost answers, deadlines, failed writes and two pilots at one     *)
(* site must not make it stop too early.                                    *)
SeenMeansListed ==
    \A p \in Plugin : \A m \in seen[p] :
        \E b \in ProjectsAt(m) : build[b] # None \/ b \in removed

(* One request creates at most one project, counting what its PUTs did by   *)
(* the time they failed: the build may exist after a failed attempt, "in    *)
(* which case [...] we must not double-create" (build.js:183-185).          *)
RetryMakesNoTwin == \A s \in Slot : Cardinality(slot[s].made) <= 1

Done == {b \in Build : build[b] = "done"}

(* A plugin's registration, new or repeated, never takes the completion     *)
(* stamp off a build; only a board member does (builds.js:143-175).         *)
CompletionStands ==
    [][\A s \in Slot : slot[s].pc \in {"save", "add"} => slot'[s] = slot[s] \/ Done \subseteq Done']_vars

(* A pilot who stays docked at a site whose project exists gets the answer  *)
(* that it is listed, whatever was lost, late or created meanwhile.         *)
EventuallyListed ==
    \A p \in Plugin, m \in Market : ProjectsAt(m) # {} ~> m \in seen[p]
=============================================================================
