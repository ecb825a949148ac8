--------------------------- MODULE CarrierRegistry ---------------------------
(***************************************************************************)
(* What plugins observe, and which carriers are linked to which builds.    *)
(*                                                                         *)
(* A plugin reports its commander's carrier (ingest/carrier.js), loadout   *)
(* (loadout.js), stations (station-type.js) and what a site still needs    *)
(* (observe.js): the newest report stands.  Of carriers an index by owner  *)
(* is kept as well.  From a build's deck a pilot links his own carrier to  *)
(* the build or takes it off (blades/api/carrier.js), which is relayed to  *)
(* Raven.  A build is stamped as completed by a page that finds it complete*)
(* in Raven, or by an admin's own hand whatever Raven says; the stamp      *)
(* sweeps the squadron's carriers off it (blades/api/builds.js:            *)
(* onRequestPatch, unassignSquadCarriers).                                 *)
(*                                                                         *)
(* In the game a carrier has one owner for ever; an owner may come by      *)
(* another carrier.  Raven is external: pilots and outsiders also link     *)
(* carriers there, and a call that timed out may still be carried out.     *)
(***************************************************************************)
EXTENDS Naturals, FiniteSets

CONSTANTS
    Cmdr,        \* commanders of the squadron
    Squadron,    \* their carriers, by market id
    Owner,       \* the commander who owns each
    Outsider,    \* carriers of people who report nothing
    Thing,       \* other things observed
    Build,       \* builds on the board
    Slot,        \* handlers in flight on the server
    None,        \* absent value
    MaxTs        \* bound on the timestamps of reports

Carrier == Squadron \cup Outsider
Key == Squadron \cup Thing

ASSUME CarrierAssumption ==
    /\ Owner \in [Squadron -> Cmdr]
    /\ Squadron \cap (Outsider \cup Thing) = {}
    /\ None \notin Key \cup Outsider \cup Build
    /\ MaxTs \in Nat

VARIABLES
    record,      \* KV: timestamp of the record of each key, 0 for none
    index,       \* KV: each commander's carrier and the timestamp it is from
    stamped,     \* KV: the builds with a completedTs
    complete,    \* Raven: the builds it calls complete
    linked,      \* Raven: the carriers linked to each build
    late,        \* Raven: timed-out PUTs that may still be carried out
    slot,        \* the handlers in flight and what they have read
    own,         \* history: links that were made by this board
    early,       \* history: those it made although the build had its stamp
    strangers,   \* history: links an outsider made and has not undone
    disturbed    \* history: two handlers overlapped, or an operation failed

kv == <<record, index, stamped>>
raven == <<complete, linked, late>>
history == <<own, early, strangers>>
vars == <<kv, raven, slot, history, disturbed>>

-----------------------------------------------------------------------------
NoEntry == [carrier |-> None, ts |-> 0]

(* Where a handler stands: the operation it does next.                      *)
Free == [at |-> "idle", key |-> None, ts |-> 0, build |-> None, todo |-> {}]
SlotType == [at : {"idle", "record", "lookup", "index", "check", "link", "unlink",
                   "stamp", "sweep", "clear"},
             key : Key \cup Outsider \cup {None}, ts : 0..MaxTs,
             build : Build \cup {None}, todo : SUBSET Carrier]

Init ==
    /\ record = [k \in Key |-> 0]
    /\ index = [c \in Cmdr |-> NoEntry]
    /\ stamped = {} /\ complete = {} /\ late = {}
    /\ linked = [b \in Build |-> {}]
    /\ slot = [s \in Slot |-> Free]
    /\ own = [b \in Build |-> {}]
    /\ early = [b \in Build |-> {}]
    /\ strangers = [b \in Build |-> {}]
    /\ disturbed = FALSE

(* What was linked by whom is kept as long as nothing is disturbed.         *)
Kept(links) == IF disturbed THEN [b \in Build |-> {}] ELSE links

At(s, pc) == slot[s].at = pc
Overlaps(s) == \E r \in Slot \ {s} : ~At(r, "idle")

(* A handler goes on to its next operation or ends; `failed` is whether the *)
(* operation just done did, a read that fails being taken for no record.    *)
Go(s, job, failed) ==
    /\ slot' = [slot EXCEPT ![s] = job]
    /\ disturbed' = (disturbed \/ failed \/ (At(s, "idle") /\ Overlaps(s)))
Then(s, pc) == [slot[s] EXCEPT !.at = pc]
Read(value, absent, failed) == IF failed THEN absent ELSE value

(* The operation a handler was about to do throws, or Raven does not answer.*)
GiveUp(s) ==
    /\ ~At(s, "idle")
    /\ Go(s, Free, TRUE)
    /\ UNCHANGED <<kv, raven, history>>

-----------------------------------------------------------------------------
(* Every intake compares the report with the record it finds.               *)
Stale(k, ts, failed) == ts < Read(record[k], 0, failed)

(* Mutant: a report of any age is applied.                                  *)
ReportAnyAge(s, k, ts, failed) ==
    /\ At(s, "idle")
    /\ Go(s, [Free EXCEPT !.at = "record", !.key = k, !.ts = ts], failed)
    /\ UNCHANGED <<kv, raven, history>>

(* The intake.  A report older than the record is dropped, anything else    *)
(* becomes the record.                                                      *)
Report(s, k, ts, failed) ==
    /\ At(s, "idle")
    /\ ~Stale(k, ts, failed)
    /\ Go(s, [Free EXCEPT !.at = "record", !.key = k, !.ts = ts], failed)
    /\ UNCHANGED <<kv, raven, history>>

(* Mutant: a carrier's index entry is written first, the record after it.   *)
ReportIndexFirst(s) ==
    LET k == slot[s].key
    IN  /\ At(s, "record")
        /\ IF k \in Squadron
           THEN /\ index' = [index EXCEPT ![Owner[k]] = [carrier |-> k, ts |-> slot[s].ts]]
                /\ UNCHANGED record
           ELSE /\ record' = [record EXCEPT ![k] = slot[s].ts]
                /\ UNCHANGED index
        /\ Go(s, Free, FALSE)
        /\ UNCHANGED <<stamped, raven, history>>

ReportRecord(s) ==
    LET k == slot[s].key
    IN  /\ At(s, "record")
        /\ record' = [record EXCEPT ![k] = slot[s].ts]
        /\ Go(s, IF k \in Squadron THEN Then(s, "lookup") ELSE Free, FALSE)
        /\ UNCHANGED <<index, stamped, raven, history>>

(* Of a carrier: its owner's entry, unless that is from a newer report.     *)
ReportLookup(s, failed) ==
    LET entry == Read(index[Owner[slot[s].key]], NoEntry, failed)
    IN  /\ At(s, "lookup")
        /\ Go(s, IF slot[s].ts < entry.ts THEN Free ELSE Then(s, "index"), failed)
        /\ UNCHANGED <<kv, raven, history>>

ReportIndex(s) ==
    LET k == slot[s].key
    IN  /\ At(s, "index")
        /\ index' = [index EXCEPT ![Owner[k]] = [carrier |-> k, ts |-> slot[s].ts]]
        /\ Go(s, Free, FALSE)
        /\ UNCHANGED <<record, stamped, raven, history>>

-----------------------------------------------------------------------------
(* resolveSelf: the caller's own carrier, found through the index.          *)
OwnCarrier(c) == index[c].carrier

(* Mutant: a caller of whom no carrier is on record is not turned away.     *)
ResolveNone(s, c, b, pc) ==
    /\ At(s, "idle")
    /\ Go(s, [Free EXCEPT !.at = pc, !.key = OwnCarrier(c), !.build = b], FALSE)
    /\ UNCHANGED <<kv, raven, history>>

(* The relay.  A link asks Raven first whether the build is complete, an    *)
(* unlink does not.                                                         *)
Resolve(s, c, b, pc) ==
    /\ At(s, "idle")
    /\ OwnCarrier(c) # None
    /\ Go(s, [Free EXCEPT !.at = pc, !.key = OwnCarrier(c), !.build = b], FALSE)
    /\ UNCHANGED <<kv, raven, history>>

(* A build may have been stamped while Raven calls it open.                 *)
NoteEarly(b, m) ==
    early' = Kept([early EXCEPT ![b] = IF b \in stamped \ complete THEN @ \cup {m} ELSE @])

(* Mutant: whether the build is complete is not asked.                      *)
LinkUnchecked(s, failed) ==
    /\ At(s, "check")
    /\ Go(s, Then(s, "link"), failed)
    /\ NoteEarly(slot[s].build, slot[s].key)
    /\ UNCHANGED <<kv, raven, own, strangers>>

(* buildState: what Raven says of a build, null when it could not be asked. *)
BuildState(b, failed) == IF failed THEN "null" ELSE IF b \in complete THEN "complete" ELSE "open"

(* A complete build is refused; "could not ask" is not.  The stamp is not   *)
(* looked at.                                                               *)
LinkCheck(s, failed) ==
    /\ At(s, "check")
    /\ Go(s, IF BuildState(slot[s].build, failed) = "complete" THEN Free ELSE Then(s, "link"), failed)
    /\ NoteEarly(slot[s].build, slot[s].key)
    /\ UNCHANGED <<kv, raven, own, strangers>>

Link(b, m) ==
    /\ linked' = [linked EXCEPT ![b] = @ \cup {m}]
    /\ own' = Kept([own EXCEPT ![b] = @ \cup {m}])

(* The PUT is carried out, whether or not the answer comes in time, or will *)
(* be carried out later.                                                    *)
LinkPut(s, answered) ==
    /\ At(s, "link")
    /\ Link(slot[s].build, slot[s].key)
    /\ Go(s, Free, ~answered)
    /\ UNCHANGED <<kv, complete, late, early, strangers>>

LinkPutLate(s) ==
    /\ At(s, "link")
    /\ late' = late \cup {<<slot[s].build, slot[s].key>>}
    /\ Go(s, Free, TRUE)
    /\ UNCHANGED <<kv, complete, linked, history>>

Unlink(b, m) ==
    /\ linked' = [linked EXCEPT ![b] = @ \ {m}]
    /\ own' = Kept([own EXCEPT ![b] = @ \ {m}])
    /\ early' = Kept([early EXCEPT ![b] = @ \ {m}])
    /\ UNCHANGED strangers

UnlinkDelete(s) ==
    /\ At(s, "unlink")
    /\ Unlink(slot[s].build, slot[s].key)
    /\ Go(s, Free, FALSE)
    /\ UNCHANGED <<kv, complete, late>>

-----------------------------------------------------------------------------
(* The completion stamp is PATCHed, by a page or by an admin, and nobody    *)
(* asks Raven; an admin also takes one off.  The stamp is written, and where*)
(* there was none before the links are read and those of known carriers     *)
(* deleted one by one.                                                      *)
StampRead(s, b) ==
    /\ At(s, "idle")
    /\ Go(s, [Free EXCEPT !.at = "stamp", !.build = b,
                          !.todo = IF b \in stamped THEN {} ELSE Carrier], FALSE)
    /\ UNCHANGED <<kv, raven, history>>

Stamp(s) ==
    /\ At(s, "stamp")
    /\ stamped' = stamped \cup {slot[s].build}
    /\ Go(s, IF slot[s].todo = {} THEN Free ELSE Then(s, "sweep"), FALSE)
    /\ UNCHANGED <<record, index, raven, history>>

Unstamp(s, b) ==
    /\ At(s, "idle")
    /\ b \in stamped
    /\ stamped' = stamped \ {b}
    /\ Go(s, Free, FALSE)
    /\ UNCHANGED <<record, index, raven, history>>

SweepRead(s) ==
    LET links == linked[slot[s].build]
    IN  /\ At(s, "sweep")
        /\ Go(s, IF links = {} THEN Free ELSE [Then(s, "clear") EXCEPT !.todo = links], FALSE)
        /\ UNCHANGED <<kv, raven, history>>

Swept(s, m) == IF slot[s].todo = {m} THEN Free ELSE [slot[s] EXCEPT !.todo = @ \ {m}]
Known(m) == m \in Squadron /\ record[m] > 0

(* Mutant: a carrier whose record cannot be read is swept off too.          *)
SweepOneAnyway(s, m, failed) ==
    /\ At(s, "clear") /\ m \in slot[s].todo
    /\ IF Known(m) \/ failed THEN Unlink(slot[s].build, m)
                             ELSE UNCHANGED <<linked, history>>
    /\ Go(s, Swept(s, m), failed)
    /\ UNCHANGED <<kv, complete, late>>

(* One link: left alone if the registry does not know the carrier or cannot *)
(* be read, or if Raven does not carry the DELETE out.                      *)
SweepOne(s, m, failed) ==
    /\ At(s, "clear") /\ m \in slot[s].todo
    /\ IF Known(m) /\ ~failed THEN Unlink(slot[s].build, m)
                              ELSE UNCHANGED <<linked, history>>
    /\ Go(s, Swept(s, m), failed)
    /\ UNCHANGED <<kv, complete, late>>

-----------------------------------------------------------------------------
(* Raven.                                                                   *)
Completes(b) ==
    /\ b \notin complete
    /\ complete' = complete \cup {b}
    /\ UNCHANGED <<kv, linked, late, slot, history, disturbed>>

(* Somebody links a carrier there, past this board.                         *)
LinkedThere(b, m) ==
    /\ m \notin linked[b]
    /\ linked' = [linked EXCEPT ![b] = @ \cup {m}]
    /\ strangers' = [strangers EXCEPT ![b] = IF m \in Outsider THEN @ \cup {m} ELSE @]
    /\ UNCHANGED <<kv, complete, late, slot, own, early, disturbed>>

ActLate(b, m) ==
    /\ <<b, m>> \in late
    /\ late' = late \ {<<b, m>>}
    /\ Link(b, m)
    /\ UNCHANGED <<kv, complete, slot, early, strangers, disturbed>>

Intake(s) ==
    \/ \E k \in Key, ts \in 1..MaxTs, failed \in BOOLEAN : Report(s, k, ts, failed)
    \/ ReportRecord(s)
    \/ \E failed \in BOOLEAN : ReportLookup(s, failed)
    \/ ReportIndex(s)

Relay(s) ==
    \/ \E c \in Cmdr, b \in Build, pc \in {"check", "unlink"} : Resolve(s, c, b, pc)
    \/ \E failed \in BOOLEAN : LinkCheck(s, failed)
    \/ \E answered \in BOOLEAN : LinkPut(s, answered)
    \/ LinkPutLate(s)
    \/ UnlinkDelete(s)

Completion(s) ==
    \/ \E b \in Build : StampRead(s, b) \/ Unstamp(s, b)
    \/ Stamp(s)
    \/ SweepRead(s)
    \/ \E m \in Carrier, failed \in BOOLEAN : SweepOne(s, m, failed)

Next ==
    \/ \E s \in Slot : Intake(s) \/ Relay(s) \/ Completion(s) \/ GiveUp(s)
    \/ \E b \in Build : Completes(b)
    \/ \E b \in Build, m \in Carrier : LinkedThere(b, m) \/ ActLate(b, m)

Spec == Init /\ [][Next]_vars

-----------------------------------------------------------------------------
TypeOK ==
    /\ record \in [Key -> 0..MaxTs]
    /\ index \in [Cmdr -> [carrier : Squadron \cup {None}, ts : 0..MaxTs]]
    /\ stamped \subseteq Build /\ complete \subseteq Build
    /\ linked \in [Build -> SUBSET Carrier] /\ late \subseteq Build \X Squadron
    /\ slot \in [Slot -> SlotType]
    /\ own \in [Build -> SUBSET Squadron] /\ early \in [Build -> SUBSET Squadron]
    /\ strangers \in [Build -> SUBSET Outsider]
    /\ disturbed \in BOOLEAN

Quiet == \A s \in Slot : At(s, "idle")

(* The record and the reverse index are two writes.  Whatever overlaps or   *)
(* fails, an index entry leads to a carrier on record, and its own          *)
(* commander's: resolveSelf never ends at a stranger's or at nothing.       *)
IndexLeadsHome ==
    \A c \in Cmdr : LET m == index[c].carrier IN m # None => record[m] > 0 /\ Owner[m] = c

(* "Refuse to LINK a carrier to a finished site", and the sweep clears what *)
(* was linked before: while nothing overlaps or fails, a link this board    *)
(* made is left on a stamped build only if it was asked for when the stamp  *)
(* was there and Raven still called the build open, which is what a stamp   *)
(* set by hand leaves room for.  "Outsiders' carriers are left alone",      *)
(* whatever overlaps or fails.                                              *)
StrangersStay == \A b \in Build : strangers[b] \subseteq linked[b]
SweepIsExact ==
    /\ ~disturbed /\ Quiet => \A b \in stamped : own[b] \subseteq early[b]
    /\ StrangersStay

(* "Newest event timestamp wins": as long as nothing overlaps or fails, the *)
(* records are the abstract register of newest reports.                     *)
Register == INSTANCE NewestReport WITH newest <- record
NewestWins == Register!Init /\ [][Register!Next \/ disturbed']_record
=============================================================================
