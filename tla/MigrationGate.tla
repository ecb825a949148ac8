----------------------------- MODULE MigrationGate -----------------------------
(***************************************************************************)
(* The gate in front of the switch that retires the shared ingest key:     *)
(* the card of the admin console (plugin-roles.js listMembers,             *)
(* migrationReadiness) says whether every plugin is paired, the owner      *)
(* retires registrars that may be refused (onRequestPost) and, when the    *)
(* card says READY, sets INGEST_LEGACY_OFF (ingest-auth.js).               *)
(*                                                                         *)
(* A commander has one PC: paired, its plugin shows a device token, else   *)
(* the shared key.  DevicePairing tells how devices are paired and bound;  *)
(* here both just happen.                                                  *)
(***************************************************************************)
CONSTANT Cmdr   \* commanders

VARIABLES
    bound,      \* KV cmdrlink: commanders an account is bound to
    devices,    \* KV sq:onyx:devices: commanders with a paired device
    listed,     \* commanders a claim or a role names
    ver,        \* KV cmdrver: when each commander's plugin last reported
    retired,    \* KV sq:onyx:retired
    legacyOff,  \* INGEST_LEGACY_OFF
    gate,       \* the request that computes the card, and what it has read
    card,       \* the card the owner looks at
    seen        \* history: commanders whose reports were ever recorded

kv == <<bound, devices, listed, ver, retired>>
vars == <<kv, legacyOff, gate, card, seen>>

-----------------------------------------------------------------------------
(* What the request reads, in this order: three lists of members, then the  *)
(* four lists of the readiness.                                             *)
Reads == {"links", "reports", "others", "bound", "devices", "retired", "vers"}
NextRead == [links |-> "reports", reports |-> "others", others |-> "bound",
             bound |-> "devices", devices |-> "retired", retired |-> "vers",
             vers |-> "answer"]

Reporting == {c \in Cmdr : ver[c] # "none"}
Recent == {c \in Cmdr : ver[c] = "recent"}
Source == [links |-> bound, reports |-> Reporting, others |-> listed,
           bound |-> bound, devices |-> devices, retired |-> retired, vers |-> Reporting]

NoReads == [r \in Reads |-> {}]
Idle == [at |-> "idle", got |-> NoReads, recent |-> {}, seen |-> {}, steady |-> {}, failed |-> {}]
NoCard == [ready |-> FALSE, row |-> [c \in Cmdr |-> "none"], ghosts |-> {},
           seen |-> {}, steady |-> {}, failed |-> {}]

Init ==
    /\ bound = {} /\ devices = {} /\ listed = {} /\ retired = {}
    /\ ver = [c \in Cmdr |-> "none"]
    /\ legacyOff = FALSE
    /\ gate = Idle
    /\ card = NoCard
    /\ seen = {}

-----------------------------------------------------------------------------
(* An account binds a commander, or another one instead.  Only a bound      *)
(* commander approves a device; he may revoke it again.                     *)
Bind(c) ==
    /\ bound' = IF c \in bound THEN bound \ {c} ELSE bound \cup {c}
    /\ UNCHANGED <<devices, listed, ver, retired, legacyOff, gate, card, seen>>

Pair(c) ==
    /\ c \in bound
    /\ devices' = IF c \in devices THEN devices \ {c} ELSE devices \cup {c}
    /\ UNCHANGED <<bound, listed, ver, retired, legacyOff, gate, card, seen>>

List(c) ==
    /\ listed' = IF c \in listed THEN listed \ {c} ELSE listed \cup {c}
    /\ UNCHANGED <<bound, devices, ver, retired, legacyOff, gate, card, seen>>

(* Whom authIngest lets in: a device, or the shared key while it counts.    *)
LetIn(c) == c \in devices \/ ~legacyOff

(* A poll that gets in is recorded, or, when that write fails, nothing is.  *)
Report(c) ==
    /\ LetIn(c)
    /\ ver' = [ver EXCEPT ![c] = "recent"]
    /\ seen' = seen \cup {c}
    /\ UNCHANGED <<bound, devices, listed, retired, legacyOff, gate, card>>

(* Two days without a report, then fourteen: the record expires.            *)
Away(c) ==
    /\ ver[c] # "none"
    /\ ver' = [ver EXCEPT ![c] = IF @ = "recent" THEN "old" ELSE "none"]
    /\ gate' = [gate EXCEPT !.steady = IF ver[c] = "old" THEN @ \ {c} ELSE @]
    /\ UNCHANGED <<bound, devices, listed, retired, legacyOff, card, seen>>

-----------------------------------------------------------------------------
(* The owner opens the console, or retires a registrar, or takes that back: *)
(* each computes the card.                                                  *)
Begin == [Idle EXCEPT !.at = "links", !.seen = seen, !.steady = Reporting]

OpenConsole ==
    /\ gate.at = "idle"
    /\ gate' = Begin
    /\ UNCHANGED <<kv, legacyOff, card, seen>>

Retire(c) ==
    /\ gate.at = "idle"
    /\ retired' = IF c \in retired THEN retired \ {c} ELSE retired \cup {c}
    /\ gate' = Begin
    /\ UNCHANGED <<bound, devices, listed, ver, legacyOff, card, seen>>

(* One list, or as much of it as could be read: failures are swallowed.     *)
Read ==
    /\ gate.at \in Reads
    /\ \E part \in SUBSET Source[gate.at] :
          gate' = [gate EXCEPT !.at = NextRead[gate.at],
                               !.got[gate.at] = part,
                               !.recent = IF gate.at = "vers" THEN part \cap Recent ELSE @,
                               !.failed = IF part = Source[gate.at] THEN @ ELSE @ \cup {gate.at}]
    /\ UNCHANGED <<kv, legacyOff, card, seen>>

(* migrationReadiness: the state of a member, from what was read.           *)
Members(got) == got["links"] \cup got["reports"] \cup got["others"]
HasPlugin(got, c) == c \in got["vers"] \cup got["devices"]
RowOf(got, c) ==
    IF c \notin Members(got) THEN "none"
    ELSE IF c \in got["retired"] THEN "retired"
    ELSE IF ~HasPlugin(got, c) THEN "n/a"
    ELSE IF c \in got["bound"] \cap got["devices"] THEN "ready"
    ELSE "blocked"

Answer ==
    /\ gate.at = "answer"
    /\ card' = [ready |-> \A c \in Cmdr : RowOf(gate.got, c) # "blocked",
                row |-> [c \in Cmdr |-> RowOf(gate.got, c)],
                ghosts |-> Members(gate.got) \cap gate.got["retired"] \cap gate.recent,
                seen |-> gate.seen, steady |-> gate.steady, failed |-> gate.failed]
    /\ gate' = Idle
    /\ UNCHANGED <<kv, legacyOff, seen>>

(* The owner flips the switch when the card says he may; and back any time. *)
Flip ==
    /\ card.ready \/ legacyOff
    /\ legacyOff' = ~legacyOff
    /\ UNCHANGED <<kv, gate, card, seen>>

Next ==
    \/ OpenConsole \/ Read \/ Answer \/ Flip
    \/ \E c \in Cmdr : Bind(c) \/ Pair(c) \/ List(c) \/ Report(c) \/ Away(c) \/ Retire(c)

Spec == Init /\ [][Next]_vars

-----------------------------------------------------------------------------
States == {"none", "retired", "n/a", "ready", "blocked"}

TypeOK ==
    /\ bound \subseteq Cmdr /\ devices \subseteq Cmdr /\ listed \subseteq Cmdr
    /\ retired \subseteq Cmdr /\ seen \subseteq Cmdr
    /\ ver \in [Cmdr -> {"none", "recent", "old"}]
    /\ legacyOff \in BOOLEAN
    /\ gate \in [at : Reads \cup {"idle", "answer"}, got : [Reads -> SUBSET Cmdr],
                 recent : SUBSET Cmdr, seen : SUBSET Cmdr, steady : SUBSET Cmdr, failed : SUBSET Reads]
    /\ card \in [ready : BOOLEAN, row : [Cmdr -> States], ghosts : SUBSET Cmdr,
                 seen : SUBSET Cmdr, steady : SUBSET Cmdr, failed : SUBSET Reads]

Settled(c) == card.row[c] \in {"ready", "retired"}

(* "READY. Every reporting plugin is paired. Safe to set                    *)
(* INGEST_LEGACY_OFF=1" (admin/index.html:694): a commander who has ever    *)
(* reported is paired or retired on a card that says so, even when all its  *)
(* reads succeed, since a row that is neither has "no plugin we have ever   *)
(* seen" (plugin-roles.js:197-198).                                         *)
ReadyMeansPaired == card.ready /\ card.failed = {} => \A c \in card.seen : Settled(c)

(* What the card does keep: when it says READY and nothing it read failed,  *)
(* each commander whose heartbeat was on record all the while is paired or  *)
(* retired, whatever was bound, paired or retired between the seven reads.  *)
ReadyMeansRecentPaired ==
    card.ready /\ card.failed = {} => \A c \in card.steady : Settled(c)
=============================================================================
