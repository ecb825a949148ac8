------------------------------ MODULE AlertLane ------------------------------
(***************************************************************************)
(* From an alert in the cockpit to the klaxon on the board: the plugin's   *)
(* ring of alerts (load.py _alert_raise), which rides on the poll whenever *)
(* it has changed, the log the poll's handler merges it into (navpull.js   *)
(* storeAlerts), the route that shows its newest (telemetry.js pubAlerts)  *)
(* and the page that sounds what is new to it (_shell/telemetry.js         *)
(* handleAlerts).                                                          *)
(*                                                                         *)
(* One pilot, one PC, one page.  An alert is the number it was raised as;  *)
(* its stamp orders it the same way.  Polls without alerts, whether the    *)
(* sound is muted or held by the browser, and the level of an alert are    *)
(* left out: every alert here is one that sounds.                          *)
(*                                                                         *)
(* The names are AlertInit, AlertNext and so on because the plugin's two   *)
(* threads, this one and PluginUpdate's, are proved about side by side.    *)
(***************************************************************************)
EXTENDS Naturals, FiniteSets

CONSTANTS
    Ring,        \* alerts the plugin carries (_ALERT_MAX, 6)
    Keep,        \* alerts the log keeps (ALERTS_KEEP, 20)
    Show,        \* alerts the route answers with (ALERTS_SHOW, 8)
    BootTries,   \* failed fetches a loading page bears (5)
    Long,        \* alerts whose text, escaped for the poll, is long
    Room,        \* long alerts that a ring may carry and be taken (3)
    Slot,        \* poll handlers in flight
    Nothing,     \* absent value
    MaxAlerts,   \* bound on alerts raised
    MaxMishaps   \* bound on failing operations, timeouts and restarts

ASSUME LaneAssumption ==
    /\ {Room, Keep, BootTries, MaxAlerts, MaxMishaps} \subseteq Nat
    /\ Long \subseteq 1..MaxAlerts
    /\ Ring \in 1..Show /\ Show \in 1..Keep
    /\ \A S \in SUBSET (1..MaxAlerts) : Nothing # S

VARIABLES
    raised,      \* alerts raised so far
    ring,        \* the plugin's ring
    alSent,      \* the ring as the board last acknowledged it
    poll,        \* the ring a poll in flight carries
    slot,        \* the handlers of polls
    log,         \* KV plugin:alerts:{cmdr}
    page,        \* the page, and what it has sounded (history)
    mishaps,     \* failures so far
    stored,      \* history: alerts that have ever been in the log
    lost,        \* history: alerts forgotten before they were stored or shown
    clobbered    \* history: alerts that a later write took off the log

plugin == <<ring, alSent, poll>>
past == <<stored, lost, clobbered>>
alertVars == <<raised, plugin, slot, log, page, mishaps, past>>

-----------------------------------------------------------------------------
Alert == 1..MaxAlerts
Newest(S, n) == {a \in S : Cardinality({b \in S : b > a}) < n}

(* json.dumps writes a letter that is not ASCII as six characters, and the  *)
(* handler takes no ring of more than 1600.                                 *)
Oversized(R) == Cardinality(R \cap Long) > Room

Free == [at |-> "idle", al |-> {}, have |-> {}, awaited |-> FALSE]
Dark == [at |-> "dark", hidden |-> FALSE, tries |-> 0, seen |-> {}, fetch |-> Nothing,
         blind |-> FALSE, backlog |-> {}, heard |-> [a \in Alert |-> 0]]
Watching == page.at = "up" /\ ~page.hidden

AlertInit ==
    /\ raised = 0
    /\ ring = {} /\ alSent = {} /\ poll = Nothing
    /\ slot = [s \in Slot |-> Free]
    /\ log = {}
    /\ page = Dark
    /\ mishaps = 0
    /\ stored = {} /\ lost = {} /\ clobbered = {}

Try(ok) ==
    /\ ok \/ mishaps < MaxMishaps
    /\ mishaps' = IF ok THEN mishaps ELSE mishaps + 1

-----------------------------------------------------------------------------
(* _alert_raise: the ring keeps the newest.                                 *)
Raise ==
    /\ raised < MaxAlerts
    /\ raised' = raised + 1
    /\ ring' = Newest(ring \cup {raised'}, Ring)
    /\ UNCHANGED <<alSent, poll, slot, log, page, mishaps, past>>

(* EDMC is started again: ring and acknowledgement are in memory only.      *)
RestartPlugin ==
    /\ Try(FALSE)
    /\ ring' = {} /\ alSent' = {} /\ poll' = Nothing
    /\ slot' = [s \in Slot |-> [slot[s] EXCEPT !.awaited = FALSE]]
    /\ lost' = lost \cup (ring \ log)
    /\ UNCHANGED <<raised, log, page, stored, clobbered>>

(* Mutant: the ring counts as delivered once it is sent.                    *)
PollMarking(s) ==
    /\ poll = Nothing /\ ring \notin {{}, alSent}
    /\ slot[s].at = "idle"
    /\ poll' = ring /\ alSent' = ring
    /\ slot' = [slot EXCEPT ![s] = [at |-> "read", al |-> ring, have |-> {}, awaited |-> TRUE]]
    /\ UNCHANGED <<raised, ring, log, page, mishaps, past>>

(* A poll that carries alerts: the ring has changed since it was last       *)
(* acknowledged.                                                            *)
PollAlerts(s) ==
    /\ poll = Nothing /\ ring \notin {{}, alSent}
    /\ slot[s].at = "idle"
    /\ poll' = ring
    /\ slot' = [slot EXCEPT ![s] = [at |-> "read", al |-> ring, have |-> {}, awaited |-> TRUE]]
    /\ UNCHANGED <<raised, ring, alSent, log, page, mishaps, past>>

(* The plugin waits eight seconds; the handler may go on for nobody.        *)
TimeOut(s) ==
    /\ slot[s].awaited
    /\ Try(FALSE)
    /\ poll' = Nothing
    /\ slot' \in {[slot EXCEPT ![s].awaited = FALSE], [slot EXCEPT ![s] = Free]}
    /\ UNCHANGED <<raised, ring, alSent, log, page, past>>

(* storeAlerts.  A ring that is too long is dropped, and the poll answered  *)
(* all the same.  A log that cannot be read counts as none; what it has     *)
(* already is not written again; a write that fails is swallowed.           *)
Drop(s) ==
    /\ slot[s].at = "read" /\ Oversized(slot[s].al)
    /\ slot' = [slot EXCEPT ![s].at = "answer"]
    /\ UNCHANGED <<raised, plugin, log, page, mishaps, past>>

ReadLog(s) ==
    /\ slot[s].at = "read" /\ ~Oversized(slot[s].al)
    /\ \E ok \in BOOLEAN :
          LET have == IF ok THEN log ELSE {} IN
          /\ Try(ok)
          /\ slot' = [slot EXCEPT ![s] = IF @.al \subseteq have THEN [@ EXCEPT !.at = "answer"]
                                         ELSE [@ EXCEPT !.at = "put", !.have = have]]
    /\ UNCHANGED <<raised, plugin, log, page, past>>

(* Mutant: the log is never cut.                                            *)
MergedUncut(s) == slot[s].have \cup slot[s].al

Merged(s) == Newest(slot[s].have \cup slot[s].al, Keep)

PutLog(s) ==
    /\ slot[s].at = "put"
    /\ slot' = [slot EXCEPT ![s].at = "answer", ![s].have = {}]
    /\ \E ok \in BOOLEAN :
          /\ Try(ok)
          /\ log' = IF ok THEN Merged(s) ELSE log
          /\ stored' = stored \cup log'
          /\ lost' = IF ok THEN lost ELSE lost \cup (slot[s].al \ log)
          /\ clobbered' = IF ok THEN clobbered \cup (log \ (slot[s].have \cup slot[s].al))
                           ELSE clobbered
    /\ UNCHANGED <<raised, plugin, page>>

(* The answer.  Whoever awaits it remembers what it has delivered.          *)
Answer(s) ==
    /\ slot[s].at = "answer"
    /\ slot' = [slot EXCEPT ![s] = Free]
    /\ IF slot[s].awaited THEN alSent' = poll /\ poll' = Nothing
       ELSE UNCHANGED <<alSent, poll>>
    /\ UNCHANGED <<raised, ring, log, page, mishaps, past>>

(* Six hours without a write.  A page that watches has seen it all by then. *)
Expire ==
    /\ log # {}
    /\ slot = [s \in Slot |-> Free]
    /\ Watching => page.fetch = Nothing /\ Newest(log, Show) \subseteq page.seen
    /\ log' = {}
    /\ lost' = lost \cup log
    /\ UNCHANGED <<raised, plugin, slot, page, mishaps, stored, clobbered>>

-----------------------------------------------------------------------------
(* The page: loaded or loaded again, put in the background and back.        *)
OpenPage ==
    /\ page' = [Dark EXCEPT !.at = "boot"]
    /\ UNCHANGED <<raised, plugin, slot, log, mishaps, past>>

Background ==
    /\ page.at = "up"
    /\ page' = [page EXCEPT !.hidden = ~@]
    /\ UNCHANGED <<raised, plugin, slot, log, mishaps, past>>

(* One fetch at a time, of the newest alerts in the log; a log that cannot  *)
(* be read looks like an empty one.                                         *)
Ask ==
    /\ page.fetch = Nothing
    /\ page.at = "boot" \/ Watching
    /\ \E ok \in BOOLEAN :
          /\ Try(ok)
          /\ page' = [page EXCEPT !.fetch = IF ok THEN Newest(log, Show) ELSE {},
                                  !.backlog = IF page.at = "boot" THEN stored ELSE @,
                                  !.blind = IF page.at = "boot" THEN ~ok ELSE @]
    /\ UNCHANGED <<raised, plugin, slot, log, past>>

(* No answer: a page that loads tries again, but not for ever.              *)
AskFails ==
    /\ page.fetch # Nothing
    /\ Try(FALSE)
    /\ page' = IF page.at = "up" THEN [page EXCEPT !.fetch = Nothing]
               ELSE IF page.tries < BootTries
                    THEN [page EXCEPT !.fetch = Nothing, !.tries = @ + 1]
               ELSE Dark
    /\ UNCHANGED <<raised, plugin, slot, log, past>>

(* boot: the first list is the backlog, seen without a sound.               *)
FirstList ==
    /\ page.at = "boot" /\ page.fetch # Nothing
    /\ page' = [page EXCEPT !.at = "up", !.seen = page.fetch, !.fetch = Nothing]
    /\ UNCHANGED <<raised, plugin, slot, log, mishaps, past>>

(* Mutant: only the last list counts as seen.                               *)
SeenWith(list) == list

(* handleAlerts: what was not seen before sounds.                           *)
Seen(list) == page.seen \cup list

NextList ==
    /\ page.at = "up" /\ page.fetch # Nothing
    /\ page' = [page EXCEPT !.fetch = Nothing,
                   !.seen = Seen(page.fetch),
                   !.heard = [a \in Alert |-> IF a \in page.fetch \ page.seen /\ @[a] < 2
                                              THEN @[a] + 1 ELSE @[a]]]
    /\ UNCHANGED <<raised, plugin, slot, log, mishaps, past>>

AlertNext ==
    \/ Raise \/ RestartPlugin
    \/ \E s \in Slot : PollAlerts(s) \/ TimeOut(s)
    \/ \E s \in Slot : Drop(s) \/ ReadLog(s) \/ PutLog(s) \/ Answer(s)
    \/ Expire
    \/ OpenPage \/ Background \/ Ask \/ AskFails \/ FirstList \/ NextList

(* The plugin polls, the platform runs its handlers, a page in view asks    *)
(* every five seconds and takes what arrives.                               *)
AlertFairness ==
    /\ WF_alertVars(\E s \in Slot : PollAlerts(s))
    /\ \A s \in Slot : WF_alertVars(Drop(s) \/ ReadLog(s) \/ PutLog(s) \/ Answer(s))
    /\ WF_alertVars(Watching /\ Ask)
    /\ WF_alertVars(NextList)
AlertSpec == AlertInit /\ [][AlertNext]_alertVars /\ AlertFairness

-----------------------------------------------------------------------------
AlertTypeOK ==
    /\ raised \in 0..MaxAlerts
    /\ ring \subseteq Alert /\ Cardinality(ring) <= Ring
    /\ alSent \subseteq Alert
    /\ poll \in {Nothing} \cup SUBSET Alert
    /\ slot \in [Slot -> [at : {"idle", "read", "put", "answer"}, al : SUBSET Alert,
                          have : SUBSET Alert, awaited : BOOLEAN]]
    /\ log \subseteq Alert /\ Cardinality(log) <= Keep
    /\ page \in [at : {"dark", "boot", "up"}, hidden : BOOLEAN, tries : 0..BootTries,
                 seen : SUBSET Alert, fetch : {Nothing} \cup SUBSET Alert, blind : BOOLEAN,
                 backlog : SUBSET Alert, heard : [Alert -> 0..2]]
    /\ mishaps \in 0..MaxMishaps
    /\ {stored, lost, clobbered} \subseteq SUBSET Alert

(* No alert sounds twice on a page, and none does that was stored before    *)
(* the page was opened, however the ring is sent again, lists get lost and  *)
(* alerts roll over: only if the first list could not be read, if the log   *)
(* has run out, or if a late handler has written an older log back.         *)
NoFalseAlarm ==
    \A a \in Alert : page.heard[a] > 0 =>
       /\ page.heard[a] = 1
       /\ a \notin page.backlog \/ page.blind \/ a \in lost \/ clobbered # {}

(* An alert that is raised in front of a page sounds there, unless newer    *)
(* ones crowd it out: a resend makes up for any poll and any answer that is *)
(* lost, and for a ring that was too long as soon as it is not.  Not made   *)
(* up for are a ring that stays too long, a write that failed, a restart,   *)
(* and a handler that timed out and wrote later.                            *)
AlertHeard ==
    \A a \in Alert :
       (raised = a /\ Watching /\ a \notin page.seen)
          ~> (\/ page.heard[a] > 0 \/ raised >= a + Ring \/ a \in lost \cup clobbered \/ ~Watching
              \/ []Oversized(ring))
=============================================================================
