------------------------------ MODULE WingTiers ------------------------------
(***************************************************************************)
(* Who may fly which track, and who may come in.                           *)
(*                                                                         *)
(* The owner grants and revokes the test-pilot role                        *)
(* (blades/api/plugin-roles.js), names the admins (admins.js) and edits    *)
(* the list of emails that Cloudflare Access lets in (access.js).  A       *)
(* member with clearance arms or disarms his own track with a switch on    *)
(* every page (_shell/testpilot.js, blades/api/testpilot.js); his plugin   *)
(* follows the tier that is stored.                                        *)
(*                                                                         *)
(* Each of these is one value that a handler reads, edits and writes back  *)
(* whole, and a read that fails counts as an empty value: two handlers in  *)
(* flight, and a failing store, are what can go wrong.                     *)
(*                                                                         *)
(* Every member is one email bound to one commander.                       *)
(***************************************************************************)
EXTENDS Naturals, FiniteSets

CONSTANTS
    Owner,         \* the email that is always an admin
    Member,        \* the others
    Slot,          \* handlers in flight
    MaxRequests,   \* bound on requests
    MaxGlitches    \* bound on failing operations

ASSUME WingAssumption ==
    /\ Owner \notin Member
    /\ MaxRequests \in Nat /\ MaxGlitches \in Nat

Person == Member \cup {Owner}
Tier == {"retail", "beta", "research"}
TierMap == [Person -> Tier]
AllRetail == [p \in Person |-> "retail"]

VARIABLES
    roster,      \* KV admin:emails
    testpilots,  \* KV plugin:roles: who holds the test-pilot role
    tier,        \* KV plugin:tier
    allowed,     \* Cloudflare: the emails the Access policy lets in
    page,        \* the tier each member's page shows
    slot,        \* the handlers in flight and what they have read
    requests,    \* requests so far
    glitches,    \* operations that failed so far
    asked,       \* history: the tiers each member asked for
    held,        \* history: the tiers each member was ever cleared for
    lapsed,      \* history: who was armed when he lost his seat on the roster
    disturbed    \* history: a clash of two writers, or a failing operation

store == <<roster, testpilots, tier, allowed>>
history == <<asked, held, lapsed>>
vars == <<store, page, slot, requests, glitches, history, disturbed>>

-----------------------------------------------------------------------------
Admins == roster \cup {Owner}

(* Retail for everyone, beta for test pilots and admins, research for       *)
(* admins.                                                                  *)
TiersFor(eligible, admin) ==
    {"retail"} \cup (IF eligible \/ admin THEN {"beta"} ELSE {})
               \cup (IF admin THEN {"research"} ELSE {})

Cleared(p) == TiersFor(p \in testpilots, p \in Admins)

(* What a handler does next, for whom, and what it has read: a set of       *)
(* emails or commanders, a tier map, and, as {} or {who}, a fact about him. *)
Free == [at |-> "idle", op |-> "look", who |-> Owner, want |-> "retail",
         set |-> {}, map |-> AllRetail, flag |-> {}]
SlotType ==
    [at : {"idle", "admins", "role", "tiers", "arm", "reply", "roles", "assign",
           "recall", "demote", "seat", "policy", "door"},
     op : {"look", "switch", "grant", "revoke", "seat", "unseat", "admit", "bar"},
     who : Person, want : Tier, set : SUBSET Person, map : TierMap, flag : SUBSET Person]

(* Two handlers that may undo one another: a switch thrown while something  *)
(* is being given cannot.                                                   *)
Takes == {"revoke", "unseat", "bar"}
Clash(a, b) ==
    "look" \notin {a, b} /\ ({a, b} \cap Takes # {} \/ "switch" \notin {a, b})

Init ==
    /\ roster = {} /\ testpilots = {} /\ tier = AllRetail
    /\ allowed = Person
    /\ page = AllRetail
    /\ slot = [s \in Slot |-> Free]
    /\ requests = 0 /\ glitches = 0
    /\ asked = [p \in Person |-> {}]
    /\ held = [p \in Person |-> Cleared(p)]
    /\ lapsed = {}
    /\ disturbed = FALSE

At(s, pc) == slot[s].at = pc
Clashes(op) == \E s \in Slot : ~At(s, "idle") /\ Clash(op, slot[s].op)
Go(s, q) == slot' = [slot EXCEPT ![s] = q]

(* An operation on the store works, or fails while the bound lasts.         *)
Try(ok) ==
    /\ ok \/ glitches < MaxGlitches
    /\ glitches' = IF ok THEN glitches ELSE glitches + 1
    /\ disturbed' = (disturbed \/ ~ok)

-----------------------------------------------------------------------------
(* A request arrives.  The page asks for the opposite of what it shows; the *)
(* other routes are the owner's console.                                    *)
Arrive(s, op, who, first) ==
    /\ At(s, "idle")
    /\ requests < MaxRequests
    /\ requests' = requests + 1
    /\ Go(s, [Free EXCEPT !.at = first, !.op = op, !.who = who])
    /\ disturbed' = (disturbed \/ Clashes(op))
    /\ UNCHANGED <<store, page, glitches, history>>

Sync(s) == \E p \in Person : Arrive(s, "look", p, "admins")
Toggle(s, p) ==
    /\ At(s, "idle")
    /\ requests < MaxRequests
    /\ requests' = requests + 1
    /\ \E want \in (IF page[p] = "retail" THEN {"beta", "research"} ELSE {"retail"}) :
          Go(s, [Free EXCEPT !.at = "admins", !.op = "switch", !.who = p, !.want = want])
    /\ disturbed' = (disturbed \/ Clashes("switch"))
    /\ UNCHANGED <<store, page, glitches, history>>
SetRole(s) == \E p \in Person, op \in {"grant", "revoke"} : Arrive(s, op, p, "roles")
SetSeat(s) == \E p \in Member, op \in {"seat", "unseat"} : Arrive(s, op, p, "admins")
Admit(s) == \E p \in Person : Arrive(s, "admit", p, "policy")
Bar(s) == \E p \in Member : Arrive(s, "bar", p, "admins")

(* Mutant: whoever is named is shown out.                                   *)
AfterAdminsBlind(q) ==
    CASE q.op \in {"look", "switch"} -> [q EXCEPT !.at = "role", !.flag = {q.who} \cap q.set,
                                                  !.set = {}]
      [] q.op \in {"seat", "unseat"} -> [q EXCEPT !.at = "seat"]
      [] OTHER -> [q EXCEPT !.at = "policy", !.set = {}]

(* The roster, read by the switch, the roster's own routes and the door;    *)
(* unreadable, it is the owner alone.  An admin is not shown out.           *)
AfterAdmins(q) ==
    CASE q.op \in {"look", "switch"} -> [q EXCEPT !.at = "role", !.flag = {q.who} \cap q.set,
                                                  !.set = {}]
      [] q.op \in {"seat", "unseat"} -> [q EXCEPT !.at = "seat"]
      [] OTHER -> IF q.who \in q.set THEN Free ELSE [q EXCEPT !.at = "policy", !.set = {}]

ReadAdmins(s) ==
    /\ At(s, "admins")
    /\ \E ok \in BOOLEAN :
          /\ Try(ok)
          /\ Go(s, AfterAdmins([slot[s] EXCEPT !.set = IF ok THEN Admins ELSE {Owner}]))
    /\ UNCHANGED <<store, page, requests, history>>

(* state(): the role, then the tier.  The switch is refused what its member *)
(* is not cleared for; a look reports the stored tier only if he is.        *)
ReadRole(s) ==
    /\ At(s, "role")
    /\ \E ok \in BOOLEAN :
          LET q == slot[s]
              eligible == IF ok THEN {q.who} \cap testpilots ELSE {}
          IN  /\ Try(ok)
              /\ IF q.op = "switch" /\ q.want \notin TiersFor(eligible # {}, q.flag # {})
                 THEN Go(s, Free) /\ UNCHANGED asked
                 ELSE /\ Go(s, [q EXCEPT !.at = "tiers", !.set = eligible])
                      /\ asked' = IF q.op = "look" THEN asked
                                  ELSE [asked EXCEPT ![q.who] = @ \cup {q.want}]
    /\ UNCHANGED <<store, page, requests, held, lapsed>>

ReadTiers(s) ==
    /\ At(s, "tiers")
    /\ \E ok \in BOOLEAN :
          LET q == slot[s]
              map == IF ok THEN tier ELSE AllRetail
          IN  /\ Try(ok)
              /\ Go(s, IF q.op = "switch" THEN [q EXCEPT !.at = "arm", !.map = map]
                       ELSE [q EXCEPT !.at = "reply",
                                      !.want = IF map[q.who] \in TiersFor(q.set # {}, q.flag # {})
                                               THEN map[q.who] ELSE "retail"])
    /\ UNCHANGED <<store, page, requests, history>>

(* Mutant: a pilot who disarms is dropped from the map as read.             *)
WriteTierDropping(s) ==
    LET q == slot[s] IN
    /\ At(s, "arm")
    /\ Try(TRUE)
    /\ tier' = IF q.want = "retail" THEN [p \in Person \ {q.who} |-> q.map[p]]
               ELSE [q.map EXCEPT ![q.who] = q.want]
    /\ Go(s, Free)
    /\ UNCHANGED <<roster, testpilots, allowed, page, requests, history>>

WriteTier(s) ==
    /\ At(s, "arm")
    /\ \E ok \in BOOLEAN :
          LET q == slot[s] IN
          /\ Try(ok)
          /\ tier' = IF ok THEN [q.map EXCEPT ![q.who] = q.want] ELSE tier
          /\ Go(s, IF ok THEN [q EXCEPT !.at = "reply", !.map = AllRetail] ELSE Free)
    /\ UNCHANGED <<roster, testpilots, allowed, page, requests, history>>

(* The page takes the answer, or never gets it.                             *)
Reply(s) ==
    /\ At(s, "reply")
    /\ \E shown \in {slot[s].want, page[slot[s].who]} :
          page' = [page EXCEPT ![slot[s].who] = shown]
    /\ Go(s, Free)
    /\ UNCHANGED <<store, requests, glitches, history, disturbed>>

-----------------------------------------------------------------------------
(* Roles: the map is read, written back, and a role that was taken away     *)
(* disarms its pilot by a second read and write whose failure is swallowed. *)
ReadRoles(s) ==
    /\ At(s, "roles")
    /\ \E ok \in BOOLEAN :
          LET q == slot[s]
              set == IF ok THEN testpilots ELSE {}
          IN  Try(ok) /\ Go(s, [q EXCEPT !.at = "assign", !.set = set, !.flag = {q.who} \cap set])
    /\ UNCHANGED <<store, page, requests, history>>

(* Clearances are remembered whenever a role or a seat changes.             *)
Remember == held' = [p \in Person |-> held[p] \cup Cleared(p)']

(* Mutant: a revoked role leaves the tier as it is.                         *)
DemotesNever(q) == FALSE

(* Whether the handler goes on to disarm its pilot.                         *)
Demotes(q) == q.op = "revoke" /\ q.flag # {}

Assign(s, ok) ==
    LET q == slot[s] IN
    /\ At(s, "assign")
    /\ Try(ok)
    /\ testpilots' = IF ~ok THEN testpilots
                     ELSE IF q.op = "grant" THEN q.set \cup {q.who} ELSE q.set \ {q.who}
    /\ Go(s, IF ok /\ Demotes(q) THEN [q EXCEPT !.at = "recall", !.set = {}] ELSE Free)
    /\ UNCHANGED <<roster, allowed, page, requests, asked, lapsed>>

(* Mutant: a grant arms the pilot it clears.                                *)
WriteRolesArming(s) ==
    /\ \E ok \in BOOLEAN : Assign(s, ok)
    /\ tier' = IF slot[s].op = "grant" THEN [tier EXCEPT ![slot[s].who] = "beta"] ELSE tier
    /\ Remember

WriteRoles(s) ==
    /\ \E ok \in BOOLEAN : Assign(s, ok)
    /\ UNCHANGED tier
    /\ Remember

ReadForDemotion(s) ==
    /\ At(s, "recall")
    /\ \E ok \in BOOLEAN :
          /\ Try(ok)
          /\ Go(s, IF ok /\ tier[slot[s].who] # "retail"
                   THEN [slot[s] EXCEPT !.at = "demote", !.map = tier] ELSE Free)
    /\ UNCHANGED <<store, page, requests, history>>

Demote(s) ==
    /\ At(s, "demote")
    /\ \E ok \in BOOLEAN :
          /\ Try(ok)
          /\ tier' = IF ok THEN [slot[s].map EXCEPT ![slot[s].who] = "retail"] ELSE tier
    /\ Go(s, Free)
    /\ UNCHANGED <<roster, testpilots, allowed, page, requests, history>>

(* The roster is written back with the owner on it.  Nobody disarms an      *)
(* admin who loses his seat.                                                *)
WriteRoster(s) ==
    /\ At(s, "seat")
    /\ \E ok \in BOOLEAN :
          LET q == slot[s] IN
          /\ Try(ok)
          /\ roster' = IF ~ok THEN roster
                       ELSE (IF q.op = "seat" THEN q.set \cup {q.who} ELSE q.set \ {q.who})
                            \cup {Owner}
          /\ lapsed' = lapsed \cup {p \in Admins \ roster' : tier[p] # "retail"}
    /\ Go(s, Free)
    /\ UNCHANGED <<testpilots, tier, allowed, page, requests, asked>>
    /\ Remember

-----------------------------------------------------------------------------
(* The Access policy is fetched; nobody is added twice, and the last email  *)
(* stays.                                                                   *)
FetchPolicy(s) ==
    /\ At(s, "policy")
    /\ \E ok \in BOOLEAN :
          LET q == slot[s]
              moot == IF q.op = "admit" THEN q.who \in allowed
                      ELSE q.who \notin allowed \/ Cardinality(allowed) <= 1
          IN  /\ Try(ok)
              /\ Go(s, IF ~ok \/ moot THEN Free ELSE [q EXCEPT !.at = "door", !.set = allowed])
    /\ UNCHANGED <<store, page, requests, history>>

(* The whole policy is PUT, to one endpoint and then to another; a call     *)
(* that failed may have been carried out.                                   *)
PutPolicy(s) ==
    /\ At(s, "door")
    /\ \E ok, done \in BOOLEAN :
          LET q == slot[s] IN
          /\ ok => done
          /\ Try(ok)
          /\ allowed' = IF ~done THEN allowed
                        ELSE IF q.op = "admit" THEN q.set \cup {q.who} ELSE q.set \ {q.who}
    /\ Go(s, Free)
    /\ UNCHANGED <<roster, testpilots, tier, page, requests, history>>

Next ==
    \E s \in Slot :
       \/ Sync(s) \/ SetRole(s) \/ SetSeat(s) \/ Admit(s) \/ Bar(s)
       \/ \E p \in Person : Toggle(s, p)
       \/ ReadAdmins(s) \/ ReadRole(s) \/ ReadTiers(s) \/ WriteTier(s) \/ Reply(s)
       \/ ReadRoles(s) \/ WriteRoles(s) \/ ReadForDemotion(s) \/ Demote(s)
       \/ WriteRoster(s) \/ FetchPolicy(s) \/ PutPolicy(s)

Spec == Init /\ [][Next]_vars

-----------------------------------------------------------------------------
TypeOK ==
    /\ roster \subseteq Person /\ testpilots \subseteq Person /\ allowed \subseteq Person
    /\ tier \in TierMap /\ page \in TierMap
    /\ slot \in [Slot -> SlotType]
    /\ requests \in 0..MaxRequests /\ glitches \in 0..MaxGlitches
    /\ asked \in [Person -> SUBSET Tier] /\ held \in [Person -> SUBSET Tier]
    /\ lapsed \subseteq Person /\ disturbed \in BOOLEAN

(* Whatever overlaps and whatever fails, nobody's plugin is put on a test   *)
(* track but by his own switch, thrown when he was cleared for that track:  *)
(* a grant never arms, and no lost update hands one pilot another's tier.   *)
OwnSwitch ==
    \A p \in Person : tier[p] # "retail" => tier[p] \in asked[p] \cap held[p]

(* navpull reads the tier without asking for the role.  While one handler   *)
(* at a time runs and the store answers, that is safe but for an admin who  *)
(* lost his seat: a pilot left armed is cleared, or about to be demoted.    *)
ArmedMeansCleared ==
    disturbed \/ \A p \in Person \ lapsed :
       tier[p] \in Cleared(p)
       \/ \E s \in Slot : slot[s].op = "revoke" /\ slot[s].who = p /\ slot[s].at \in {"recall", "demote"}

(* Nobody on the roster is shown out of the site, the owner not even by     *)
(* handlers that overlap or read a store that fails.                        *)
AdminsKeepTheDoor ==
    [][(allowed \ allowed') \cap (IF disturbed' THEN {Owner} ELSE Admins) = {}]_vars
=============================================================================
