---------------------------- MODULE ClaimsLedger ----------------------------
(***************************************************************************)
(* The squadron's claims ledger and the hot list computed from it.         *)
(*                                                                         *)
(* A colonisation claim or release in a commander's journal is posted by   *)
(* its own thread (load.py) to ingest/claim.js, which keeps the newest     *)
(* event of a system.  Its architect edits it on the board (my-claims.js), *)
(* an admin corrects it (claims.js), and the ticker polls hotlist.js, which*)
(* scans the ledger and caches the result.                                 *)
(*                                                                         *)
(* As in DevicePairing, a handler is a slot of Req that takes one step per *)
(* KV operation.  Identity is not modelled again: a pilot is the commander *)
(* their cmdrlink names, an event carries the commander of its journal.    *)
(***************************************************************************)
EXTENDS Naturals, FiniteSets

CONSTANTS
    Cmdr,        \* commander names
    System,      \* system addresses
    Req,         \* request slots: how many handlers may be in flight at once
    None,        \* absent value
    MaxClock,    \* bound on time
    Window       \* WINDOW_MS, in units of the clock

VARIABLES
    calm,        \* whether handlers never overlap and the KV store never fails
    clock,       \* the time; an event and an admin's correction each take one
    journal,     \* every claim and release in the commanders' journals
    post,        \* events whose thread has not been answered yet
    marker,      \* commanders whose PC holds claims_backfill.json
    ledger,      \* claim:{systemAddress}
    cache,       \* hot:cache
    req,         \* the handlers in flight and what they have read so far
    named,       \* history: the rows an admin entered by hand
    heard,       \* history: events answered per system since it was last deleted
    settled      \* history: rows their architect released or marked as done

kv == <<ledger, cache>>
world == <<clock, journal, post, marker>>
history == <<named, heard, settled>>
vars == <<calm, clock, journal, post, marker, ledger, cache, req, named, heard, settled>>

-----------------------------------------------------------------------------
Time == 1..MaxClock
Event == [action : {"claim", "release"}, sys : System, cmdr : Cmdr, ts : Time]
Rec == [cmdr : Cmdr, ts : Time, primary : {"due", "done"}]
Row == [sys : System, cmdr : Cmdr, ts : Time]
HotList == [rows : SUBSET Row]

ASSUME ClaimsAssumption ==
    /\ None \notin Event \cup Rec \cup Cmdr \cup System \cup HotList
    /\ MaxClock \in Nat
    /\ Window \in Nat

RowOf(s, rec) == [sys |-> s, cmdr |-> rec.cmdr, ts |-> rec.ts]

(* Where a request stands: the KV operation it does next.                   *)
EventPC == {"event:put", "event:delete"}
EditPC == {"edit:put", "edit:delete"}
PC == {"idle", "edit:bust", "hot:scan"} \cup EventPC \cup EditPC
WritePC == {"edit:bust"} \cup EventPC \cup EditPC

Request == [pc : PC, event : Event \cup {None}, sys : System \cup {None},
            cmdr : Cmdr \cup {None}, rec : Rec \cup {None},
            now : 0..MaxClock, left : SUBSET System, rows : SUBSET Row]

Idle == [pc |-> "idle", event |-> None, sys |-> None, cmdr |-> None,
         rec |-> None, now |-> 0, left |-> {}, rows |-> {}]

End(r) == req' = [req EXCEPT ![r] = Idle]

(* What a KV read may yield: the value, or the handler's catch-all null.    *)
Got(value) == IF calm THEN {value} ELSE {value, None}

(* The handler answers event e: it is part of what the board has heard.     *)
Hear(e) == heard' = [heard EXCEPT ![e.sys] = @ \cup {e}]

Init ==
    /\ calm \in BOOLEAN
    /\ clock = 0
    /\ journal = {}
    /\ post = {}
    /\ marker = {}
    /\ ledger = [s \in System |-> None]
    /\ cache = None
    /\ req = [r \in Req |-> Idle]
    /\ named = {}
    /\ heard = [s \in System |-> {}]
    /\ settled = {}

-----------------------------------------------------------------------------
(* The game and the plugin.  Any system may be claimed (a claim whose four  *)
(* weeks ran out is revoked without an event); only the commander who holds *)
(* it releases it.  load.py posts each event from a thread of its own, once;*)
(* an event journalled while EDMC is not running is not posted at all.      *)
Happens(e) ==
    /\ clock < MaxClock
    /\ e.ts = clock + 1
    /\ e.action = "release" =>
        \E f \in journal : /\ f.action = "claim" /\ f.sys = e.sys /\ f.cmdr = e.cmdr
                           /\ \A g \in journal : g.sys = e.sys => g.ts <= f.ts
    /\ clock' = clock + 1
    /\ journal' = journal \cup {e}
    /\ post' \in {post, post \cup {e}}
    /\ UNCHANGED <<marker, kv, req, history>>

(* _send_claim gives up on any error and never tries again.                 *)
PostLost(e) ==
    /\ e \in post
    /\ post' = post \ {e}
    /\ UNCHANGED <<clock, journal, marker, kv, req, history>>

(* _scan_journals: the systems of k's journal whose final state is claimed. *)
Final(k) == {e \in journal : /\ e.cmdr = k /\ e.action = "claim"
                             /\ \A f \in journal : f.cmdr = k /\ f.sys = e.sys => f.ts <= e.ts}

(* _run_backfill.  With nothing to report it writes its marker.  With       *)
(* something, building the POST reads `cmdr`, a name that is bound nowhere  *)
(* in the function or the module: the NameError lands in the handler for an *)
(* offline board, nothing is sent and no marker is written.                 *)
Backfill(k) ==
    /\ k \notin marker
    /\ Final(k) = {}
    /\ marker' = marker \cup {k}
    /\ UNCHANGED <<clock, journal, post, kv, req, history>>

(* Saving the settings tab with auto-create on removes the marker.          *)
ForgetMarker(k) ==
    /\ marker' = marker \ {k}
    /\ UNCHANGED <<clock, journal, post, kv, req, history>>

Tick ==
    /\ clock < MaxClock
    /\ clock' = clock + 1
    /\ UNCHANGED <<journal, post, marker, kv, req, history>>

-----------------------------------------------------------------------------
(* Mutant: an older event is applied like any other.                        *)
EventReadAnyAge(r, e) ==
    /\ req[r].pc = "idle"
    /\ e \in post
    /\ post' = post \ {e}
    /\ req' = [req EXCEPT ![r] = [Idle EXCEPT !.event = e,
            !.pc = IF e.action = "claim" THEN "event:put" ELSE "event:delete"]]
    /\ UNCHANGED <<clock, journal, marker, kv, history>>

(* POST /ingest/claim, applyOne: an event older than the record is dropped, *)
(* a release deletes the record and leaves nothing behind.  A batch applies *)
(* its items one after the other: it is the same as single posts.           *)
EventRead(r, e) ==
    /\ req[r].pc = "idle"
    /\ e \in post
    /\ post' = post \ {e}
    /\ \E existing \in Got(ledger[e.sys]) :
        \/ /\ existing # None /\ e.ts < existing.ts
           /\ Hear(e)
           /\ UNCHANGED req
        \/ /\ existing = None /\ e.action = "release"
           /\ Hear(e)
           /\ UNCHANGED req
        \/ /\ existing = None \/ (existing # None /\ e.ts >= existing.ts)
           /\ existing # None \/ e.action = "claim"
           /\ req' = [req EXCEPT ![r] = [Idle EXCEPT !.event = e,
                   !.pc = IF e.action = "claim" THEN "event:put" ELSE "event:delete"]]
           /\ UNCHANGED heard
    /\ UNCHANGED <<clock, journal, marker, kv, named, settled>>

EventPut(r) ==
    LET e == req[r].event
        rec == [cmdr |-> e.cmdr, ts |-> e.ts, primary |-> "due"]
    IN  /\ req[r].pc = "event:put"
        /\ ledger' = [ledger EXCEPT ![e.sys] = rec]
        /\ settled' = settled \ {RowOf(e.sys, rec)}
        /\ Hear(e)
        /\ End(r)
        /\ UNCHANGED <<world, cache, named>>

EventDelete(r) ==
    LET e == req[r].event
    IN  /\ req[r].pc = "event:delete"
        /\ ledger' = [ledger EXCEPT ![e.sys] = None]
        /\ Hear(e)
        /\ End(r)
        /\ UNCHANGED <<world, cache, named, settled>>

-----------------------------------------------------------------------------
(* Mutant: the owner is not checked.                                        *)
EditReadAnybody(r, k, s) ==
    /\ req[r].pc = "idle"
    /\ \E rec \in Got(ledger[s]) :
        /\ rec # None
        /\ \E pc \in EditPC, primary \in {"due", "done"} :
            req' = [req EXCEPT ![r] = [Idle EXCEPT !.pc = pc, !.sys = s, !.cmdr = k,
                        !.rec = [rec EXCEPT !.primary = primary]]]
    /\ UNCHANGED <<world, kv, history>>

(* PATCH and DELETE /blades/api/my-claims: read the claim, check that it is *)
(* the caller's, write it back or delete it, and bust the hot-list cache.   *)
EditRead(r, k, s) ==
    /\ req[r].pc = "idle"
    /\ \E rec \in Got(ledger[s]) :
        /\ rec # None
        /\ rec.cmdr = k
        /\ \E pc \in EditPC, primary \in {"due", "done"} :
            req' = [req EXCEPT ![r] = [Idle EXCEPT !.pc = pc, !.sys = s, !.cmdr = k,
                        !.rec = [rec EXCEPT !.primary = primary]]]
    /\ UNCHANGED <<world, kv, history>>

(* Mutant: the architect is pinned to a name the request does not carry.    *)
EditPutUnnamed(r) ==
    /\ req[r].pc = "edit:put"
    /\ ledger' = [ledger EXCEPT ![req[r].sys] = [req[r].rec EXCEPT !.cmdr = None]]
    /\ req' = [req EXCEPT ![r].pc = "edit:bust"]
    /\ UNCHANGED <<world, cache, history>>

EditPut(r) ==
    LET row == RowOf(req[r].sys, req[r].rec)
    IN  /\ req[r].pc = "edit:put"
        /\ ledger' = [ledger EXCEPT ![req[r].sys] = [req[r].rec EXCEPT !.cmdr = req[r].cmdr]]
        /\ settled' = IF req[r].rec.primary = "done" THEN settled \cup {row} ELSE settled \ {row}
        /\ req' = [req EXCEPT ![r].pc = "edit:bust"]
        /\ UNCHANGED <<world, cache, named, heard>>

(* Mutant: the hot list is not busted.                                      *)
EditDeleteQuietly(r) ==
    /\ req[r].pc = "edit:delete"
    /\ ledger' = [ledger EXCEPT ![req[r].sys] = None]
    /\ settled' = settled \cup {RowOf(req[r].sys, req[r].rec)}
    /\ heard' = [heard EXCEPT ![req[r].sys] = {}]
    /\ End(r)
    /\ UNCHANGED <<world, cache, named>>

EditDelete(r) ==
    /\ req[r].pc = "edit:delete"
    /\ ledger' = [ledger EXCEPT ![req[r].sys] = None]
    /\ settled' = settled \cup {RowOf(req[r].sys, req[r].rec)}
    /\ heard' = [heard EXCEPT ![req[r].sys] = {}]
    /\ req' = [req EXCEPT ![r].pc = "edit:bust"]
    /\ UNCHANGED <<world, cache, named>>

EditBust(r) ==
    /\ req[r].pc = "edit:bust"
    /\ cache' = None
    /\ End(r)
    /\ UNCHANGED <<world, ledger, history>>

-----------------------------------------------------------------------------
(* PUT and DELETE /blades/api/claims: an admin's correction, stamped now.   *)
AdminPut(r, k, s) ==
    LET e == [action |-> "claim", sys |-> s, cmdr |-> k, ts |-> clock + 1]
    IN  /\ req[r].pc = "idle"
        /\ clock < MaxClock
        /\ clock' = clock + 1
        /\ ledger' = [ledger EXCEPT ![s] = [cmdr |-> k, ts |-> clock + 1, primary |-> "due"]]
        /\ named' = named \cup {[sys |-> s, cmdr |-> k, ts |-> clock + 1]}
        /\ Hear(e)
        /\ UNCHANGED <<journal, post, marker, cache, req, settled>>

AdminDelete(r, s) ==
    /\ req[r].pc = "idle"
    /\ ledger' = [ledger EXCEPT ![s] = None]
    /\ heard' = [heard EXCEPT ![s] = {}]
    /\ UNCHANGED <<world, cache, req, named, settled>>

-----------------------------------------------------------------------------
(* GET /blades/api/hotlist: a hit serves the cache and changes nothing.  A  *)
(* miss scans the ledger a key at a time, drops what is done or out of its  *)
(* window, and caches the rest for CACHE_TTL_S.                             *)
PollMiss(r) ==
    /\ req[r].pc = "idle"
    /\ None \in Got(cache)
    /\ req' = [req EXCEPT ![r] = [Idle EXCEPT !.pc = "hot:scan", !.now = clock, !.left = System]]
    /\ UNCHANGED <<world, kv, history>>

PollScan(r, s) ==
    /\ req[r].pc = "hot:scan"
    /\ s \in req[r].left
    /\ \E rec \in Got(ledger[s]) :
        LET hot == {row \in {RowOf(s, rec) : q \in IF rec = None THEN {} ELSE {rec}} :
                        /\ rec.primary = "due"
                        /\ row.ts <= req[r].now
                        /\ req[r].now - row.ts <= Window}
        IN  req' = [req EXCEPT ![r].left = @ \ {s}, ![r].rows = @ \cup hot]
    /\ UNCHANGED <<world, kv, history>>

PollPut(r) ==
    /\ req[r].pc = "hot:scan"
    /\ req[r].left = {}
    /\ cache' = [rows |-> req[r].rows]
    /\ End(r)
    /\ UNCHANGED <<world, ledger, history>>

CacheExpires ==
    /\ cache # None
    /\ cache' = None
    /\ UNCHANGED <<world, ledger, req, history>>

(* A write fails: the event or edit ends in an error; a bust or a cache     *)
(* fill is swallowed, which ends the handler just the same.                 *)
WriteFails(r) ==
    /\ ~calm
    /\ req[r].pc \in WritePC \/ (req[r].pc = "hot:scan" /\ req[r].left = {})
    /\ End(r)
    /\ UNCHANGED <<world, kv, history>>

-----------------------------------------------------------------------------
Plugins ==
    \/ \E e \in Event : Happens(e)
    \/ \E e \in post : PostLost(e)
    \/ \E k \in Cmdr : Backfill(k) \/ ForgetMarker(k)

Handlers(r) ==
    \/ \E e \in post : EventRead(r, e)
    \/ EventPut(r)
    \/ EventDelete(r)
    \/ \E k \in Cmdr, s \in System : EditRead(r, k, s)
    \/ EditPut(r)
    \/ EditDelete(r)
    \/ EditBust(r)
    \/ PollMiss(r)
    \/ \E s \in System : PollScan(r, s)
    \/ PollPut(r)
    \/ WriteFails(r)
    \/ \E s \in System : AdminDelete(r, s) \/ \E k \in Cmdr : AdminPut(r, k, s)

(* In a calm history one handler runs at a time.                            *)
MayRun(r) == calm => \A q \in Req \ {r} : req[q].pc = "idle"

Next ==
    /\ \/ Plugins
       \/ \E r \in Req : MayRun(r) /\ Handlers(r)
       \/ CacheExpires
       \/ Tick
    /\ UNCHANGED calm

Spec == Init /\ [][Next]_vars

-----------------------------------------------------------------------------
(* Properties.                                                              *)

TypeOK ==
    /\ calm \in BOOLEAN
    /\ clock \in 0..MaxClock
    /\ journal \in SUBSET Event
    /\ post \in SUBSET Event
    /\ marker \in SUBSET Cmdr
    /\ ledger \in [System -> Rec \cup {None}]
    /\ cache \in HotList \cup {None}
    /\ req \in [Req -> Request]
    /\ named \in SUBSET Row
    /\ heard \in [System -> SUBSET Event]
    /\ settled \in SUBSET Row

(* An attribution is first-party proof (claim.js:3-5): every record, also   *)
(* one that was edited, and every row of the hot list is a claim from the   *)
(* architect's own journal or an admin's correction, with its own time.     *)
Proven(row) ==
    \/ row \in named
    \/ \E e \in journal : e.action = "claim" /\ row = [sys |-> e.sys, cmdr |-> e.cmdr, ts |-> e.ts]

FirstParty ==
    /\ \A s \in System : ledger[s] # None => Proven(RowOf(s, ledger[s]))
    /\ cache # None => \A row \in cache.rows : Proven(row)

(* The newest event the board has heard of a system.  What follows is       *)
(* promised of calm histories only.                                         *)
Newest(s) == {e \in heard[s] : \A f \in heard[s] : f.ts <= e.ts}
Quiet == \A r \in Req : req[r].pc = "idle"

(* Newest event timestamp wins (claim.js:17-18): in whatever order claims,  *)
(* releases and corrections arrive, a claim that is the newest event heard  *)
(* is what the ledger holds.                                                *)
NewestClaimStands ==
    calm /\ Quiet => \A s \in System : \A e \in Newest(s) : e.action = "claim" =>
        ledger[s] # None /\ RowOf(s, ledger[s]) = [sys |-> s, cmdr |-> e.cmdr, ts |-> e.ts]

(* A claim its architect released or marked as done is off the hot list by  *)
(* the time the edit is answered (hotlist.js:17-18, my-claims.js:109, 124). *)
HotReflectsEdits ==
    calm => \A row \in settled :
        \/ cache = None
        \/ cache # None /\ row \notin cache.rows
        \/ \E r \in Req : req[r].pc = "edit:bust" /\ req[r].sys = row.sys
=============================================================================
