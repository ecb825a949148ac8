-------------------------- MODULE WingTiersProofs ---------------------------
(***************************************************************************)
(* What WingTiers promises for any wing and any number of overlapping      *)
(* handlers.  Nobody's plugin is put on a test track but by his own switch,*)
(* thrown while he was cleared for that track: a handler that is about to  *)
(* write carries a tier map read at some earlier moment; that map was good *)
(* then, and what was asked for and cleared is remembered for ever.  And   *)
(* while no two handlers clash and the store answers, what each has read   *)
(* still stands when it writes: only the cleared stay armed, and no admin  *)
(* is shown out.                                                           *)
(***************************************************************************)
EXTENDS WingTiers, TLAPS

-----------------------------------------------------------------------------
LEMMA FreeType == Free \in SlotType /\ Free.at = "idle"
  BY DEF Free, SlotType, Person, AllRetail, TierMap, Tier

(* The slots keep their type when one of them takes a value of it.          *)
LEMMA GoType ==
    ASSUME TypeOK, NEW s \in Slot, NEW q \in SlotType, Go(s, q)
    PROVE  slot' \in [Slot -> SlotType]
  BY DEF TypeOK, Go

LEMMA TryType ==
    ASSUME TypeOK, NEW ok \in BOOLEAN, Try(ok)
    PROVE  glitches' \in 0..MaxGlitches /\ disturbed' \in BOOLEAN
  BY WingAssumption DEF TypeOK, Try

LEMMA ClearedType == \A p : Cleared(p) \subseteq Tier
  BY DEF Cleared, TiersFor, Tier

(* Arriving requests, whatever the handler starts with.                     *)
LEMMA ArriveType ==
    ASSUME TypeOK, NEW s \in Slot, NEW who \in Person,
           NEW op \in {"look", "grant", "revoke", "seat", "unseat", "admit", "bar"},
           NEW first \in {"admins", "roles", "policy"}, Arrive(s, op, who, first)
    PROVE  TypeOK'
<1> DEFINE q == [Free EXCEPT !.at = first, !.op = op, !.who = who]
<1>1. q \in SlotType
  BY FreeType DEF SlotType
<1>2. Go(s, q)
  BY DEF Arrive
<1> HIDE DEF q
<1>3. slot' \in [Slot -> SlotType]
  BY <1>1, <1>2, GoType
<1>4. disturbed' \in BOOLEAN
  BY DEF Arrive, TypeOK, Clashes, Clash
<1>5. requests' \in 0..MaxRequests
  BY WingAssumption DEF Arrive, TypeOK
<1> QED BY <1>3, <1>4, <1>5 DEF Arrive, TypeOK, store, history

(* Every variable of the wing keeps its type.                               *)
THEOREM WingTypeCorrect == Spec => []TypeOK
<1>1. Init => TypeOK
  <2>1. AllRetail \in TierMap
    BY DEF AllRetail, TierMap, Tier
  <2> SUFFICES ASSUME Init PROVE TypeOK
    OBVIOUS
  <2>2. slot \in [Slot -> SlotType]
    BY FreeType DEF Init
  <2>3. asked \in [Person -> SUBSET Tier] /\ held \in [Person -> SUBSET Tier]
    BY ClearedType DEF Init
  <2>4. requests \in 0..MaxRequests /\ glitches \in 0..MaxGlitches
    BY WingAssumption DEF Init
  <2> QED BY <2>1, <2>2, <2>3, <2>4 DEF Init, TypeOK
<1>2. TypeOK /\ [Next]_vars => TypeOK'
  <2> SUFFICES ASSUME TypeOK, Next PROVE TypeOK'
    BY DEF vars, store, history, TypeOK
  <2> PICK s \in Slot :
         \/ Sync(s) \/ SetRole(s) \/ SetSeat(s) \/ Admit(s) \/ Bar(s)
         \/ \E p \in Person : Toggle(s, p)
         \/ ReadAdmins(s) \/ ReadRole(s) \/ ReadTiers(s) \/ WriteTier(s) \/ Reply(s)
         \/ ReadRoles(s) \/ WriteRoles(s) \/ ReadForDemotion(s) \/ Demote(s)
         \/ WriteRoster(s) \/ FetchPolicy(s) \/ PutPolicy(s)
    BY DEF Next
  <2>q. PICK q \in SlotType : q = slot[s]
    BY DEF TypeOK
  <2>a. Admins \subseteq Person /\ {Owner} \subseteq Person
    BY DEF Admins, TypeOK, Person
  <2>1. CASE Sync(s) \/ SetRole(s) \/ SetSeat(s) \/ Admit(s) \/ Bar(s)
    BY <2>1, ArriveType DEF Sync, SetRole, SetSeat, Admit, Bar, Person
  <2>2. ASSUME NEW p \in Person, Toggle(s, p) PROVE TypeOK'
    <3>1. PICK want \in Tier :
            Go(s, [Free EXCEPT !.at = "admins", !.op = "switch", !.who = p, !.want = want])
      BY <2>2 DEF Toggle, Tier
    <3>2. [Free EXCEPT !.at = "admins", !.op = "switch", !.who = p, !.want = want] \in SlotType
      BY FreeType DEF SlotType
    <3>3. slot' \in [Slot -> SlotType]
      BY <3>1, <3>2, GoType
    <3>4. disturbed' \in BOOLEAN
      BY <2>2 DEF Toggle, TypeOK, Clashes, Clash
    <3>5. requests' \in 0..MaxRequests
      <4>1. requests < MaxRequests /\ requests' = requests + 1
        BY <2>2 DEF Toggle
      <4> QED BY <4>1, WingAssumption DEF TypeOK
    <3> QED BY <2>2, <3>3, <3>4, <3>5 DEF Toggle, TypeOK, store, history
  <2>3. CASE ReadAdmins(s)
    <3>1. PICK ok \in BOOLEAN :
             Try(ok) /\ Go(s, AfterAdmins([slot[s] EXCEPT !.set = IF ok THEN Admins ELSE {Owner}]))
      BY <2>3 DEF ReadAdmins
    <3>2. PICK r \in SlotType : r = [q EXCEPT !.set = IF ok THEN Admins ELSE {Owner}]
      BY <2>a DEF SlotType
    <3>3. AfterAdmins(r) \in SlotType
      <4>1. CASE r.op \in {"look", "switch"}
        BY <4>1 DEF AfterAdmins, SlotType
      <4>2. CASE r.op \in {"seat", "unseat"}
        BY <4>2 DEF AfterAdmins, SlotType
      <4>3. CASE r.op \notin {"look", "switch", "seat", "unseat"}
        <5>1. [r EXCEPT !.at = "policy", !.set = {}] \in SlotType
          BY DEF SlotType
        <5>2. AfterAdmins(r) = IF r.who \in r.set THEN Free
                               ELSE [r EXCEPT !.at = "policy", !.set = {}]
          BY <4>3 DEF AfterAdmins
        <5> QED BY <5>1, <5>2, FreeType
      <4> QED BY <4>1, <4>2, <4>3
    <3>4. slot' \in [Slot -> SlotType]
      BY <2>q, <3>1, <3>2, <3>3, GoType
    <3>5. glitches' \in 0..MaxGlitches /\ disturbed' \in BOOLEAN
      BY <3>1, TryType
    <3> QED BY <2>3, <3>4, <3>5 DEF ReadAdmins, TypeOK, store, history
  <2>4. CASE ReadRole(s)
    <3>1. PICK ok \in BOOLEAN :
             /\ Try(ok)
             /\ LET eligible == IF ok THEN {q.who} \cap testpilots ELSE {}
                IN  \/ Go(s, Free) /\ asked' = asked
                    \/ /\ Go(s, [q EXCEPT !.at = "tiers", !.set = eligible])
                       /\ \/ asked' = asked
                          \/ asked' = [asked EXCEPT ![q.who] = @ \cup {q.want}]
      BY <2>4, <2>q DEF ReadRole
    <3>2. [q EXCEPT !.at = "tiers", !.set = IF ok THEN {q.who} \cap testpilots ELSE {}] \in SlotType
      BY DEF SlotType, TypeOK
    <3>3. slot' \in [Slot -> SlotType]
      BY <3>1, <3>2, FreeType, GoType
    <3>4. asked' \in [Person -> SUBSET Tier]
      BY <3>1 DEF SlotType, TypeOK
    <3>5. glitches' \in 0..MaxGlitches /\ disturbed' \in BOOLEAN
      BY <3>1, TryType
    <3>6. UNCHANGED <<store, page, requests, held, lapsed>>
      BY <2>4 DEF ReadRole
    <3> QED BY <3>3, <3>4, <3>5, <3>6 DEF TypeOK, store
  <2>5. CASE ReadTiers(s)
    <3>1. PICK ok \in BOOLEAN, map \in TierMap, want \in Tier :
             /\ Try(ok)
             /\ \/ Go(s, [q EXCEPT !.at = "arm", !.map = map])
                \/ Go(s, [q EXCEPT !.at = "reply", !.want = want])
      <4>1. PICK ok \in BOOLEAN :
               LET map == IF ok THEN tier ELSE AllRetail
               IN  /\ Try(ok)
                   /\ Go(s, IF q.op = "switch" THEN [q EXCEPT !.at = "arm", !.map = map]
                            ELSE [q EXCEPT !.at = "reply",
                              !.want = IF map[q.who] \in TiersFor(q.set # {}, q.flag # {})
                                                    THEN map[q.who] ELSE "retail"])
        BY <2>5, <2>q DEF ReadTiers
      <4> DEFINE map == IF ok THEN tier ELSE AllRetail
                 want == IF map[q.who] \in TiersFor(q.set # {}, q.flag # {})
                         THEN map[q.who] ELSE "retail"
      <4>2. map \in TierMap
        BY DEF TypeOK, AllRetail, TierMap, Tier
      <4>3. want \in Tier
        BY <4>2 DEF TierMap, SlotType, Tier
      <4> QED BY <4>1, <4>2, <4>3
    <3>2. /\ [q EXCEPT !.at = "arm", !.map = map] \in SlotType
          /\ [q EXCEPT !.at = "reply", !.want = want] \in SlotType
      BY DEF SlotType
    <3>3. slot' \in [Slot -> SlotType]
      BY <3>1, <3>2, GoType
    <3>4. glitches' \in 0..MaxGlitches /\ disturbed' \in BOOLEAN
      BY <3>1, TryType
    <3>5. UNCHANGED <<store, page, requests, history>>
      BY <2>5 DEF ReadTiers
    <3> QED BY <3>3, <3>4, <3>5 DEF TypeOK, store, history
  <2>6. CASE WriteTier(s)
    <3>1. PICK ok \in BOOLEAN :
             /\ Try(ok)
             /\ tier' = IF ok THEN [q.map EXCEPT ![q.who] = q.want] ELSE tier
             /\ Go(s, IF ok THEN [q EXCEPT !.at = "reply", !.map = AllRetail] ELSE Free)
      BY <2>6, <2>q DEF WriteTier
    <3>2. [q EXCEPT !.at = "reply", !.map = AllRetail] \in SlotType
      BY DEF SlotType, AllRetail, TierMap, Tier
    <3>3. slot' \in [Slot -> SlotType]
      BY <3>1, <3>2, FreeType, GoType
    <3>4. tier' \in TierMap
      BY <3>1 DEF TypeOK, SlotType, TierMap
    <3>5. glitches' \in 0..MaxGlitches /\ disturbed' \in BOOLEAN
      BY <3>1, TryType
    <3>6. UNCHANGED <<roster, testpilots, allowed, page, requests, history>>
      BY <2>6 DEF WriteTier
    <3> QED BY <3>3, <3>4, <3>5, <3>6 DEF TypeOK, history
  <2>7. CASE Reply(s)
    <3>1. PICK shown \in {q.want, page[q.who]} : page' = [page EXCEPT ![q.who] = shown]
      BY <2>7, <2>q DEF Reply
    <3>2. page' \in TierMap
      BY <3>1 DEF TypeOK, SlotType, TierMap
    <3>3. slot' \in [Slot -> SlotType]
      BY <2>7, FreeType, GoType DEF Reply
    <3> QED BY <2>7, <3>2, <3>3 DEF Reply, TypeOK, store, history
  <2>8. CASE ReadRoles(s)
    <3>1. PICK ok \in BOOLEAN :
             LET set == IF ok THEN testpilots ELSE {}
             IN  Try(ok) /\ Go(s, [q EXCEPT !.at = "assign", !.set = set,
                   !.flag = {q.who} \cap set])
      BY <2>8, <2>q DEF ReadRoles
    <3>2. PICK set \in SUBSET Person : set = IF ok THEN testpilots ELSE {}
      BY DEF TypeOK
    <3>3. [q EXCEPT !.at = "assign", !.set = set, !.flag = {q.who} \cap set] \in SlotType
      BY DEF SlotType
    <3>4. slot' \in [Slot -> SlotType]
      BY <3>1, <3>2, <3>3, GoType
    <3>5. glitches' \in 0..MaxGlitches /\ disturbed' \in BOOLEAN
      BY <3>1, TryType
    <3>6. UNCHANGED <<store, page, requests, history>>
      BY <2>8 DEF ReadRoles
    <3> QED BY <3>4, <3>5, <3>6 DEF TypeOK, store, history
  <2>9. CASE WriteRoles(s)
    <3>1. PICK ok \in BOOLEAN : Assign(s, ok)
      BY <2>9 DEF WriteRoles
    <3>2. /\ Try(ok)
          /\ \/ Go(s, [q EXCEPT !.at = "recall", !.set = {}])
             \/ Go(s, Free)
      BY <3>1, <2>q DEF Assign
    <3>3. [q EXCEPT !.at = "recall", !.set = {}] \in SlotType
      BY DEF SlotType
    <3>4. slot' \in [Slot -> SlotType]
      BY <3>2, <3>3, FreeType, GoType
    <3>5. testpilots' \subseteq Person
      BY <3>1, <2>q DEF Assign, TypeOK, SlotType
    <3>6. held' \in [Person -> SUBSET Tier]
      <4>1. held' = [p \in Person |-> held[p] \cup Cleared(p)']
        BY <2>9 DEF WriteRoles, Remember
      <4>2. \A p : Cleared(p)' \subseteq Tier
        BY ClearedType DEF Cleared, TiersFor, Tier
      <4> QED BY <4>1, <4>2 DEF TypeOK
    <3>7. glitches' \in 0..MaxGlitches /\ disturbed' \in BOOLEAN
      BY <3>2, TryType
    <3>8. UNCHANGED <<tier, roster, allowed, page, requests, asked, lapsed>>
      BY <2>9, <3>1 DEF WriteRoles, Assign
    <3> QED BY <3>4, <3>5, <3>6, <3>7, <3>8 DEF TypeOK
  <2>10. CASE ReadForDemotion(s)
    <3>1. PICK ok \in BOOLEAN :
             /\ Try(ok)
             /\ Go(s, Free) \/ Go(s, [q EXCEPT !.at = "demote", !.map = tier])
      BY <2>10, <2>q DEF ReadForDemotion
    <3>2. [q EXCEPT !.at = "demote", !.map = tier] \in SlotType
      BY DEF SlotType, TypeOK
    <3>3. slot' \in [Slot -> SlotType]
      BY <3>1, <3>2, FreeType, GoType
    <3>4. glitches' \in 0..MaxGlitches /\ disturbed' \in BOOLEAN
      BY <3>1, TryType
    <3>5. UNCHANGED <<store, page, requests, history>>
      BY <2>10 DEF ReadForDemotion
    <3> QED BY <3>3, <3>4, <3>5 DEF TypeOK, store, history
  <2>11. CASE Demote(s)
    <3>1. PICK ok \in BOOLEAN :
             /\ Try(ok)
             /\ tier' = IF ok THEN [q.map EXCEPT ![q.who] = "retail"] ELSE tier
      BY <2>11, <2>q DEF Demote
    <3>2. tier' \in TierMap
      BY <3>1 DEF TypeOK, SlotType, TierMap, Tier
    <3>3. slot' \in [Slot -> SlotType]
      BY <2>11, FreeType, GoType DEF Demote
    <3>4. glitches' \in 0..MaxGlitches /\ disturbed' \in BOOLEAN
      BY <3>1, TryType
    <3>5. UNCHANGED <<roster, testpilots, allowed, page, requests, history>>
      BY <2>11 DEF Demote
    <3> QED BY <3>2, <3>3, <3>4, <3>5 DEF TypeOK, history
  <2>12. CASE WriteRoster(s)
    <3>1. PICK ok \in BOOLEAN :
             /\ Try(ok)
             /\ roster' = IF ~ok THEN roster
                          ELSE (IF q.op = "seat" THEN q.set \cup {q.who} ELSE q.set \ {q.who})
                               \cup {Owner}
             /\ lapsed' = lapsed \cup {p \in Admins \ roster' : tier[p] # "retail"}
      BY <2>12, <2>q DEF WriteRoster
    <3>2. roster' \subseteq Person
      BY <3>1 DEF TypeOK, SlotType, Person
    <3>3. lapsed' \subseteq Person
      BY <3>1, <2>a DEF TypeOK
    <3>4. slot' \in [Slot -> SlotType]
      BY <2>12, FreeType, GoType DEF WriteRoster
    <3>5. glitches' \in 0..MaxGlitches /\ disturbed' \in BOOLEAN
      BY <3>1, TryType
    <3>6. held' \in [Person -> SUBSET Tier]
      <4>1. held' = [p \in Person |-> held[p] \cup Cleared(p)']
        BY <2>12 DEF WriteRoster, Remember
      <4>2. \A p : Cleared(p)' \subseteq Tier
        BY ClearedType DEF Cleared, TiersFor, Tier
      <4> QED BY <4>1, <4>2 DEF TypeOK
    <3>7. UNCHANGED <<testpilots, tier, allowed, page, requests, asked>>
      BY <2>12 DEF WriteRoster
    <3> QED BY <3>2, <3>3, <3>4, <3>5, <3>6, <3>7 DEF TypeOK
  <2>13. CASE FetchPolicy(s)
    <3>1. PICK ok \in BOOLEAN :
             /\ Try(ok)
             /\ Go(s, Free) \/ Go(s, [q EXCEPT !.at = "door", !.set = allowed])
      BY <2>13, <2>q DEF FetchPolicy
    <3>2. [q EXCEPT !.at = "door", !.set = allowed] \in SlotType
      BY DEF SlotType, TypeOK
    <3>3. slot' \in [Slot -> SlotType]
      BY <3>1, <3>2, FreeType, GoType
    <3>4. glitches' \in 0..MaxGlitches /\ disturbed' \in BOOLEAN
      BY <3>1, TryType
    <3>5. UNCHANGED <<store, page, requests, history>>
      BY <2>13 DEF FetchPolicy
    <3> QED BY <3>3, <3>4, <3>5 DEF TypeOK, store, history
  <2>14. CASE PutPolicy(s)
    <3>1. PICK ok \in BOOLEAN, done \in BOOLEAN :
             /\ Try(ok)
             /\ allowed' = IF ~done THEN allowed
                           ELSE IF q.op = "admit" THEN q.set \cup {q.who} ELSE q.set \ {q.who}
      BY <2>14, <2>q DEF PutPolicy
    <3>2. allowed' \subseteq Person
      BY <3>1 DEF TypeOK, SlotType
    <3>3. slot' \in [Slot -> SlotType]
      BY <2>14, FreeType, GoType DEF PutPolicy
    <3>4. glitches' \in 0..MaxGlitches /\ disturbed' \in BOOLEAN
      BY <3>1, TryType
    <3>5. UNCHANGED <<roster, testpilots, tier, page, requests, history>>
      BY <2>14 DEF PutPolicy
    <3> QED BY <3>2, <3>3, <3>4, <3>5 DEF TypeOK, history
  <2> QED BY <2>1, <2>2, <2>3, <2>4, <2>5, <2>6, <2>7, <2>8, <2>9, <2>10, <2>11, <2>12, <2>13, <2>14
<1> QED BY <1>1, <1>2, PTL DEF Spec

-----------------------------------------------------------------------------
(* What a handler carries is good: a fact that makes him an admin, a tier   *)
(* he asked for and was cleared for, a map in which everybody has such a    *)
(* tier.                                                                    *)
Good(map, a, h) == \A p \in Person : map[p] # "retail" => map[p] \in a[p] \cap h[p]
WellRead(q, a, h) ==
    /\ q.at = "role" /\ q.flag # {} => Tier \subseteq h[q.who]
    /\ q.at = "arm" \/ (q.at = "tiers" /\ q.op = "switch") => q.want \in a[q.who] \cap h[q.who]
    /\ q.at \in {"arm", "demote"} => Good(q.map, a, h)

HeldNow == \A p \in Person : Cleared(p) \subseteq held[p]
OwnInv ==
    /\ HeldNow
    /\ \A s \in Slot : WellRead(slot[s], asked, held)
    /\ Good(tier, asked, held)

History == [Person -> SUBSET Tier]
Grown(a, b) == \A p \in Person : a[p] \subseteq b[p]

(* Asking and clearing only grow, so what was good stays good.              *)
LEMMA StaysGood ==
    ASSUME NEW a \in History, NEW b \in History, NEW h \in History, NEW g \in History,
           Grown(a, b), Grown(h, g)
    PROVE  /\ \A map \in TierMap : Good(map, a, h) => Good(map, b, g)
           /\ \A q \in SlotType : WellRead(q, a, h) => WellRead(q, b, g)
<1>1. \A map \in TierMap : Good(map, a, h) => Good(map, b, g)
  BY DEF Good, Grown
<1>2. ASSUME NEW q \in SlotType, WellRead(q, a, h) PROVE WellRead(q, b, g)
  <2>1. q.who \in Person /\ q.map \in TierMap
    BY DEF SlotType
  <2> QED BY <1>1, <1>2, <2>1 DEF WellRead, Grown
<1> QED BY <1>1, <1>2

(* One slot moves; the others carry what they carried.                      *)
LEMMA SlotStep ==
    ASSUME TypeOK, TypeOK', OwnInv, NEW s \in Slot, NEW q \in SlotType, Go(s, q),
           Grown(asked, asked'), Grown(held, held'), WellRead(q, asked', held')
    PROVE  \A r \in Slot : WellRead(slot[r], asked, held)'
<1>1. asked \in History /\ asked' \in History /\ held \in History /\ held' \in History
  BY DEF TypeOK, History
<1>2. \A r \in Slot : WellRead(slot[r], asked', held')
  BY <1>1, StaysGood DEF OwnInv, TypeOK
<1>3. \A r \in Slot : slot'[r] = q \/ slot'[r] = slot[r]
  BY DEF Go, TypeOK
<1> QED BY <1>2, <1>3

(* A step that leaves tiers, roles and roster alone.                        *)
LEMMA QuietStep ==
    ASSUME TypeOK, TypeOK', OwnInv, NEW s \in Slot, NEW q \in SlotType, Go(s, q),
           UNCHANGED <<roster, testpilots, tier, held>>, Grown(asked, asked'),
           WellRead(q, asked', held)
    PROVE  OwnInv'
<1>1. Grown(held, held')
  BY DEF Grown
<1>2. \A r \in Slot : WellRead(slot[r], asked, held)'
  BY <1>1, SlotStep
<1>3. HeldNow'
  BY DEF OwnInv, HeldNow, Cleared, Admins
<1>4. Good(tier, asked, held)'
  <2>1. asked \in History /\ asked' \in History /\ held \in History /\ tier \in TierMap
    BY DEF TypeOK, History
  <2> QED BY <1>1, <2>1, StaysGood DEF OwnInv
<1> QED BY <1>2, <1>3, <1>4 DEF OwnInv

(* A step that writes tiers that are good.                                  *)
LEMMA TierStep ==
    ASSUME TypeOK, TypeOK', OwnInv, NEW s \in Slot, NEW q \in SlotType, Go(s, q),
           UNCHANGED <<roster, testpilots, asked, held>>,
           q.at \in {"idle", "reply"}, Good(tier', asked, held)
    PROVE  OwnInv'
<1>1. Grown(asked, asked') /\ Grown(held, held') /\ WellRead(q, asked', held')
  BY DEF Grown, WellRead
<1>2. \A r \in Slot : WellRead(slot[r], asked, held)'
  BY <1>1, SlotStep
<1> QED BY <1>2 DEF OwnInv, HeldNow, Cleared, Admins

(* A step that changes a role or a seat and remembers the clearances.       *)
LEMMA SeatStep ==
    ASSUME TypeOK, TypeOK', OwnInv, NEW s \in Slot, NEW q \in SlotType, Go(s, q),
           Remember, UNCHANGED <<tier, asked>>, q.at \in {"idle", "recall"}
    PROVE  OwnInv'
<1>1. Grown(asked, asked') /\ Grown(held, held')
  BY DEF Grown, Remember
<1>2. \A r \in Slot : WellRead(slot[r], asked, held)'
  BY <1>1, SlotStep DEF WellRead
<1>3. HeldNow'
  BY DEF Remember, HeldNow
<1>4. Good(tier, asked, held)'
  <2>1. asked \in History /\ asked' \in History /\ held \in History /\ held' \in History
    BY DEF TypeOK, History
  <2>2. tier \in TierMap /\ tier' = tier
    BY DEF TypeOK
  <2> QED BY <1>1, <2>1, <2>2, StaysGood DEF OwnInv
<1> QED BY <1>2, <1>3, <1>4 DEF OwnInv

LEMMA FreeIsWell == \A a, h : WellRead(Free, a, h)
  BY DEF WellRead, Free

LEMMA OwnStep == TypeOK /\ TypeOK' /\ OwnInv /\ [Next]_vars => OwnInv'
<1> SUFFICES ASSUME TypeOK, TypeOK', OwnInv, [Next]_vars PROVE OwnInv'
  OBVIOUS
<1>u. CASE UNCHANGED vars
  BY <1>u DEF vars, store, history, OwnInv, HeldNow, Cleared, Admins
<1>n. CASE Next
  <2> PICK s \in Slot :
         \/ Sync(s) \/ SetRole(s) \/ SetSeat(s) \/ Admit(s) \/ Bar(s)
         \/ \E p \in Person : Toggle(s, p)
         \/ ReadAdmins(s) \/ ReadRole(s) \/ ReadTiers(s) \/ WriteTier(s) \/ Reply(s)
         \/ ReadRoles(s) \/ WriteRoles(s) \/ ReadForDemotion(s) \/ Demote(s)
         \/ WriteRoster(s) \/ FetchPolicy(s) \/ PutPolicy(s)
    BY <1>n DEF Next
  <2>q. PICK q \in SlotType : q = slot[s]
    BY DEF TypeOK
  <2>w. WellRead(q, asked, held)
    BY <2>q DEF OwnInv
  <2>t. /\ asked \in History /\ held \in History /\ tier \in TierMap
        /\ q.who \in Person /\ q.want \in Tier /\ q.map \in TierMap
    BY DEF TypeOK, History, SlotType
  <2>g. Grown(asked, asked)
    BY DEF Grown
  <2>0. ASSUME NEW r \in SlotType, Go(s, r), r.at \notin {"role", "tiers", "arm", "demote"},
               UNCHANGED <<roster, testpilots, tier, held, asked>>
        PROVE  OwnInv'
    <3>1. WellRead(r, asked', held)
      BY <2>0 DEF WellRead
    <3> QED BY <2>0, <2>g, <3>1, QuietStep
  <2>1. CASE Sync(s) \/ SetRole(s) \/ SetSeat(s) \/ Admit(s) \/ Bar(s)
    <3>1. PICK who \in Person, op \in {"look", "grant", "revoke", "seat", "unseat", "admit", "bar"},
               first \in {"admins", "roles", "policy"} : Arrive(s, op, who, first)
      BY <2>1 DEF Sync, SetRole, SetSeat, Admit, Bar, Person
    <3>2. [Free EXCEPT !.at = first, !.op = op, !.who = who] \in SlotType
      BY FreeType DEF SlotType
    <3>3. [Free EXCEPT !.at = first, !.op = op, !.who = who].at = first
      BY DEF Free
    <3> QED BY <2>0, <3>1, <3>2, <3>3 DEF Arrive, store, history
  <2>2. CASE \E p \in Person : Toggle(s, p)
    <3>1. PICK p \in Person, want \in Tier :
            Go(s, [Free EXCEPT !.at = "admins", !.op = "switch", !.who = p, !.want = want])
      BY <2>2 DEF Toggle, Tier
    <3>2. /\ [Free EXCEPT !.at = "admins", !.op = "switch", !.who = p, !.want = want] \in SlotType
          /\ [Free EXCEPT !.at = "admins", !.op = "switch", !.who = p, !.want = want].at = "admins"
      BY FreeType DEF SlotType, Free
    <3> QED BY <2>0, <2>2, <3>1, <3>2 DEF Toggle, store, history
  <2>3. CASE ReadAdmins(s)
    <3>1. PICK ok \in BOOLEAN :
             Go(s, AfterAdmins([slot[s] EXCEPT !.set = IF ok THEN Admins ELSE {Owner}]))
      BY <2>3 DEF ReadAdmins
    <3>2. PICK set \in SUBSET Admins : set = IF ok THEN Admins ELSE {Owner}
      BY DEF Admins
    <3>3. PICK r \in SlotType : r = [q EXCEPT !.set = set]
      BY DEF SlotType, Admins, TypeOK, Person
    <3>4. r.set = set /\ r.who = q.who
      BY <3>3 DEF SlotType
    <3>5. CASE r.op \in {"look", "switch"}
      <4>1. AfterAdmins(r) = [r EXCEPT !.at = "role", !.flag = {r.who} \cap r.set, !.set = {}]
        BY <3>5 DEF AfterAdmins
      <4>2. PICK n \in SlotType :
               n = [r EXCEPT !.at = "role", !.flag = {r.who} \cap r.set, !.set = {}]
        BY DEF SlotType
      <4>3. n.at = "role" /\ n.who = q.who /\ n.flag = {q.who} \cap set
        BY <3>4, <4>2 DEF SlotType
      <4>4. n.flag # {} => Tier \subseteq held[n.who]
        BY <2>t, <4>3 DEF OwnInv, HeldNow, Cleared, TiersFor, Tier
      <4>5. WellRead(n, asked, held)
        BY <4>3, <4>4 DEF WellRead
      <4>6. Go(s, n) /\ UNCHANGED <<roster, testpilots, tier, held, asked>>
        BY <2>3, <2>q, <3>1, <3>2, <3>3, <4>1, <4>2 DEF ReadAdmins, store, history
      <4> QED BY <2>g, <4>5, <4>6, QuietStep
    <3>6. CASE r.op \notin {"look", "switch"}
      <4>1. PICK n \in SlotType : n = AfterAdmins(r) /\ n.at \in {"seat", "idle", "policy"}
        <5>1. CASE r.op \in {"seat", "unseat"}
          <6>1. [r EXCEPT !.at = "seat"] \in SlotType /\ [r EXCEPT !.at = "seat"].at = "seat"
            BY DEF SlotType
          <6> QED BY <5>1, <6>1 DEF AfterAdmins
        <5>2. CASE r.op \notin {"seat", "unseat"}
          <6>1. /\ [r EXCEPT !.at = "policy", !.set = {}] \in SlotType
                /\ [r EXCEPT !.at = "policy", !.set = {}].at = "policy"
            BY DEF SlotType
          <6>2. AfterAdmins(r) = IF r.who \in r.set THEN Free
                                 ELSE [r EXCEPT !.at = "policy", !.set = {}]
            BY <3>6, <5>2 DEF AfterAdmins
          <6> QED BY <6>1, <6>2, FreeType
        <5> QED BY <5>1, <5>2
      <4>2. Go(s, n) /\ UNCHANGED <<roster, testpilots, tier, held, asked>>
        BY <2>3, <2>q, <3>1, <3>2, <3>3, <4>1 DEF ReadAdmins, store, history
      <4> QED BY <2>0, <4>1, <4>2
    <3> QED BY <3>5, <3>6
  <2>4. CASE ReadRole(s)
    <3>1. PICK ok \in BOOLEAN :
             LET eligible == IF ok THEN {q.who} \cap testpilots ELSE {}
             IN  IF q.op = "switch" /\ q.want \notin TiersFor(eligible # {}, q.flag # {})
                 THEN Go(s, Free) /\ UNCHANGED asked
                 ELSE /\ Go(s, [q EXCEPT !.at = "tiers", !.set = eligible])
                      /\ asked' = IF q.op = "look" THEN asked
                                  ELSE [asked EXCEPT ![q.who] = @ \cup {q.want}]
      BY <2>4, <2>q DEF ReadRole
    <3>2. q.at = "role" /\ UNCHANGED <<roster, testpilots, tier, held>>
      BY <2>4, <2>q DEF ReadRole, At, store
    <3>3. CASE Go(s, Free) /\ UNCHANGED asked
      BY <2>0, <3>2, <3>3, FreeType
    <3>4. CASE ~(Go(s, Free) /\ UNCHANGED asked)
      <4> DEFINE eligible == IF ok THEN {q.who} \cap testpilots ELSE {}
      <4>1. /\ q.op = "switch" => q.want \in TiersFor(eligible # {}, q.flag # {})
            /\ Go(s, [q EXCEPT !.at = "tiers", !.set = eligible])
            /\ asked' = IF q.op = "look" THEN asked ELSE [asked EXCEPT ![q.who] = @ \cup {q.want}]
        BY <3>1, <3>4
      <4>2. PICK n \in SlotType : n = [q EXCEPT !.at = "tiers", !.set = eligible]
        BY DEF SlotType, TypeOK
      <4>3. n.at = "tiers" /\ n.who = q.who /\ n.want = q.want /\ n.op = q.op
        BY <4>2 DEF SlotType
      <4>4. Grown(asked, asked')
        BY <2>t, <4>1 DEF Grown, History
      <4>5. q.op = "switch" => q.want \in held[q.who]
        <5>1. q.flag # {} => q.want \in held[q.who]
          BY <2>w, <2>t, <3>2 DEF WellRead
        <5>2. eligible # {} => {"retail", "beta"} \subseteq Cleared(q.who)
          BY DEF Cleared, TiersFor
        <5>3. "retail" \in Cleared(q.who) /\ Cleared(q.who) \subseteq held[q.who]
          BY <2>t DEF Cleared, TiersFor, OwnInv, HeldNow
        <5> QED BY <4>1, <5>1, <5>2, <5>3 DEF TiersFor
      <4>6. q.op = "switch" => q.want \in asked'[q.who]
        BY <2>t, <4>1 DEF History
      <4>7. WellRead(n, asked', held)
        BY <4>3, <4>5, <4>6 DEF WellRead
      <4> QED BY <3>2, <4>1, <4>2, <4>4, <4>7, QuietStep
    <3> QED BY <3>3, <3>4
  <2>5. CASE ReadTiers(s)
    <3>1. PICK ok \in BOOLEAN :
             LET map == IF ok THEN tier ELSE AllRetail
             IN  Go(s, IF q.op = "switch" THEN [q EXCEPT !.at = "arm", !.map = map]
                       ELSE [q EXCEPT !.at = "reply",
                                      !.want = IF map[q.who] \in TiersFor(q.set # {}, q.flag # {})
                                               THEN map[q.who] ELSE "retail"])
      BY <2>5, <2>q DEF ReadTiers
    <3>2. q.at = "tiers" /\ UNCHANGED <<roster, testpilots, tier, held, asked>>
      BY <2>5, <2>q DEF ReadTiers, At, store, history
    <3>3. PICK map \in TierMap : map = IF ok THEN tier ELSE AllRetail
      BY DEF TypeOK, AllRetail, TierMap, Tier
    <3>4. Good(map, asked, held)
      BY <3>3 DEF OwnInv, Good, AllRetail
    <3>5. CASE q.op = "switch"
      <4>1. PICK n \in SlotType : n = [q EXCEPT !.at = "arm", !.map = map]
        BY DEF SlotType
      <4>2. n.at = "arm" /\ n.map = map /\ n.who = q.who /\ n.want = q.want
        BY <4>1 DEF SlotType
      <4>3. WellRead(n, asked, held)
        BY <2>w, <3>2, <3>4, <3>5, <4>2 DEF WellRead
      <4>4. Go(s, n)
        BY <3>1, <3>3, <3>5, <4>1
      <4> QED BY <2>g, <3>2, <4>3, <4>4, QuietStep
    <3>6. CASE q.op # "switch"
      <4>1. PICK want \in Tier : want = IF map[q.who] \in TiersFor(q.set # {}, q.flag # {})
                                        THEN map[q.who] ELSE "retail"
        BY <2>t DEF TierMap, Tier
      <4>2. PICK n \in SlotType : n = [q EXCEPT !.at = "reply", !.want = want]
        BY DEF SlotType
      <4>3. n.at = "reply"
        BY <4>2 DEF SlotType
      <4>4. Go(s, n)
        <5>1. Go(s, [q EXCEPT !.at = "reply",
                              !.want = IF map[q.who] \in TiersFor(q.set # {}, q.flag # {})
                                       THEN map[q.who] ELSE "retail"])
          BY <3>1, <3>3, <3>6
        <5> QED BY <4>1, <4>2, <5>1
      <4> QED BY <2>0, <3>2, <4>3, <4>4
    <3> QED BY <3>5, <3>6
  <2>6. CASE WriteTier(s)
    <3>1. PICK ok \in BOOLEAN :
             /\ tier' = IF ok THEN [q.map EXCEPT ![q.who] = q.want] ELSE tier
             /\ Go(s, IF ok THEN [q EXCEPT !.at = "reply", !.map = AllRetail] ELSE Free)
      BY <2>6, <2>q DEF WriteTier
    <3>2. q.at = "arm" /\ UNCHANGED <<roster, testpilots, asked, held>>
      BY <2>6, <2>q DEF WriteTier, At, history
    <3>3. Good(q.map, asked, held) /\ q.want \in asked[q.who] \cap held[q.who]
      BY <2>w, <3>2 DEF WellRead
    <3>4. Good(tier', asked, held)
      BY <2>t, <3>1, <3>3 DEF Good, OwnInv, TierMap
    <3>5. PICK n \in SlotType : n.at \in {"idle", "reply"} /\ Go(s, n)
      <4>1. [q EXCEPT !.at = "reply", !.map = AllRetail] \in SlotType
        BY DEF SlotType, AllRetail, TierMap, Tier
      <4>2. [q EXCEPT !.at = "reply", !.map = AllRetail].at = "reply"
        BY DEF SlotType
      <4> QED BY <3>1, <4>1, <4>2, FreeType
    <3> QED BY <3>2, <3>4, <3>5, TierStep
  <2>7. CASE Reply(s)
    BY <2>0, <2>7, FreeType DEF Reply, store, history
  <2>8. CASE ReadRoles(s)
    <3>1. PICK set \in SUBSET Person :
             Go(s, [q EXCEPT !.at = "assign", !.set = set, !.flag = {q.who} \cap set])
      BY <2>8, <2>q DEF ReadRoles, TypeOK
    <3>2. PICK n \in SlotType :
             n = [q EXCEPT !.at = "assign", !.set = set, !.flag = {q.who} \cap set]
      BY DEF SlotType
    <3>3. n.at = "assign"
      BY <3>2 DEF SlotType
    <3> QED BY <2>0, <2>8, <3>1, <3>2, <3>3 DEF ReadRoles, store, history
  <2>9. CASE WriteRoles(s)
    <3>1. PICK ok \in BOOLEAN : Assign(s, ok)
      BY <2>9 DEF WriteRoles
    <3>2. [q EXCEPT !.at = "recall", !.set = {}] \in SlotType
      BY DEF SlotType
    <3>3. [q EXCEPT !.at = "recall", !.set = {}].at = "recall"
      BY DEF SlotType
    <3>4. PICK n \in SlotType : n.at \in {"idle", "recall"} /\ Go(s, n)
      BY <2>q, <3>1, <3>2, <3>3, FreeType DEF Assign
    <3>5. Remember /\ UNCHANGED <<tier, asked>>
      BY <2>9, <3>1 DEF WriteRoles, Assign
    <3> QED BY <3>4, <3>5, SeatStep
  <2>10. CASE ReadForDemotion(s)
    <3>1. Go(s, Free) \/ Go(s, [q EXCEPT !.at = "demote", !.map = tier])
      BY <2>10, <2>q DEF ReadForDemotion
    <3>2. UNCHANGED <<roster, testpilots, tier, held, asked>>
      BY <2>10 DEF ReadForDemotion, store, history
    <3>3. PICK n \in SlotType : n = [q EXCEPT !.at = "demote", !.map = tier]
      BY <2>t DEF SlotType
    <3>4. n.at = "demote" /\ n.map = tier
      BY <3>3 DEF SlotType
    <3>5. WellRead(n, asked', held)
      BY <3>2, <3>4 DEF WellRead, OwnInv
    <3>6. CASE Go(s, n)
      <4>1. Grown(asked, asked')
        BY <2>g, <3>2
      <4> QED BY <3>2, <3>5, <3>6, <4>1, QuietStep
    <3>7. CASE Go(s, Free)
      BY <2>0, <3>2, <3>7, FreeType
    <3> QED BY <3>1, <3>3, <3>6, <3>7
  <2>11. CASE Demote(s)
    <3>1. PICK ok \in BOOLEAN : tier' = IF ok THEN [q.map EXCEPT ![q.who] = "retail"] ELSE tier
      BY <2>11, <2>q DEF Demote
    <3>2. q.at = "demote" /\ Go(s, Free) /\ UNCHANGED <<roster, testpilots, asked, held>>
      BY <2>11, <2>q DEF Demote, At, history
    <3>3. Good(q.map, asked, held)
      BY <2>w, <3>2 DEF WellRead
    <3>4. Good(tier', asked, held)
      BY <2>t, <3>1, <3>3 DEF Good, OwnInv, TierMap
    <3> QED BY <3>2, <3>4, FreeType, TierStep
  <2>12. CASE WriteRoster(s)
    BY <2>12, FreeType, SeatStep DEF WriteRoster
  <2>13. CASE FetchPolicy(s)
    <3>1. Go(s, Free) \/ Go(s, [q EXCEPT !.at = "door", !.set = allowed])
      BY <2>13, <2>q DEF FetchPolicy
    <3>2. /\ [q EXCEPT !.at = "door", !.set = allowed] \in SlotType
          /\ [q EXCEPT !.at = "door", !.set = allowed].at = "door"
      BY DEF SlotType, TypeOK
    <3> QED BY <2>0, <2>13, <3>1, <3>2, FreeType DEF FetchPolicy, store, history
  <2>14. CASE PutPolicy(s)
    BY <2>0, <2>14, FreeType DEF PutPolicy, history
  <2> QED BY <2>1, <2>2, <2>3, <2>4, <2>5, <2>6, <2>7, <2>8, <2>9, <2>10, <2>11, <2>12, <2>13, <2>14
<1> QED BY <1>u, <1>n

(* Nobody is armed but by his own switch, thrown when he was cleared        *)
(* (testpilot.js, plugin-roles.js), however many handlers overlap and       *)
(* whatever reads and writes fail.                                          *)
THEOREM ArmedByOneself == Spec => []OwnSwitch
<1>1. Init => OwnInv
  <2> SUFFICES ASSUME Init PROVE OwnInv
    OBVIOUS
  <2>1. HeldNow
    BY DEF Init, HeldNow
  <2>2. \A s \in Slot : WellRead(slot[s], asked, held)
    BY FreeIsWell DEF Init
  <2>3. Good(tier, asked, held)
    BY DEF Init, Good, AllRetail
  <2> QED BY <2>1, <2>2, <2>3 DEF OwnInv
<1>2. TypeOK /\ TypeOK' /\ OwnInv /\ [Next]_vars => OwnInv'
  BY OwnStep
<1>3. OwnInv => OwnSwitch
  BY DEF OwnInv, Good, OwnSwitch
<1> QED BY <1>1, <1>2, <1>3, WingTypeCorrect, PTL DEF Spec

-----------------------------------------------------------------------------
(* Which request is at which point of its route.                            *)
Kind(q) ==
    /\ q.at = "admins" => q.op \in {"look", "switch", "seat", "unseat", "bar"}
    /\ q.at \in {"role", "tiers", "reply"} => q.op \in {"look", "switch"}
    /\ q.at = "arm" => q.op = "switch"
    /\ q.at \in {"roles", "assign"} => q.op \in {"grant", "revoke"}
    /\ q.at \in {"recall", "demote"} => q.op = "revoke"
    /\ q.at = "seat" => q.op \in {"seat", "unseat"}
    /\ q.at \in {"policy", "door"} => q.op \in {"admit", "bar"}
    /\ q.op = "bar" => q.who \in Member

(* Everyone is cleared for the tier the map gives him, but for the lapsed.  *)
Sound(map) == \A p \in Person \ lapsed : map[p] \in Cleared(p)

(* What an undisturbed handler has read is still so, or still allows what   *)
(* it allowed.                                                              *)
Right(q) ==
    /\ q.at = "role" /\ q.op = "switch" /\ q.flag # {} => q.who \in Admins
    /\ q.at \in {"tiers", "arm"} /\ q.op = "switch" => q.want \in Cleared(q.who)
    /\ q.at = "arm" => Sound(q.map)
    /\ q.at = "assign" => q.set = testpilots /\ q.flag = {q.who} \cap testpilots
    /\ q.at = "demote" => q.map = tier
    /\ q.at = "seat" => q.set = Admins
    /\ q.at \in {"policy", "door"} /\ q.op = "bar" => q.who \notin Admins
    /\ q.at = "door" => q.set = allowed

Apart == \A s, r \in Slot : s # r /\ ~At(s, "idle") /\ ~At(r, "idle") =>
            ~Clash(slot[s].op, slot[r].op)

(* A revoked pilot who is about to be disarmed.                             *)
Leaving(q, p) == q.op = "revoke" /\ q.who = p /\ q.at \in {"recall", "demote"}
Armed == \A p \in Person \ lapsed : tier[p] \in Cleared(p) \/ \E s \in Slot : Leaving(slot[s], p)

Undisturbed == Apart /\ Armed /\ \A s \in Slot : Right(slot[s])

(* The owner stays on the list of the door whatever is disturbed.           *)
OwnerIn == Owner \in allowed /\ \A s \in Slot : slot[s].at = "door" => Owner \in slot[s].set

WingInv ==
    /\ TypeOK /\ OwnerIn
    /\ \A s \in Slot : Kind(slot[s])
    /\ ~disturbed => Undisturbed

LEMMA ClashBothWays == \A a, b : Clash(a, b) <=> Clash(b, a)
  BY DEF Clash

(* One slot moves on: what must be shown of it and of the others.           *)
LEMMA CalmMove ==
    ASSUME TypeOK, Undisturbed, NEW s \in Slot, NEW n \in SlotType, Go(s, n),
           n.at = "idle" \/ \A r \in Slot \ {s} : slot[r].at # "idle" => ~Clash(n.op, slot[r].op),
           Right(n)',
           \A q \in SlotType : (\E r \in Slot \ {s} : q = slot[r]) => Right(q)',
           Armed'
    PROVE  Undisturbed'
<1>1. slot'[s] = n /\ \A r \in Slot \ {s} : slot'[r] = slot[r] /\ slot[r] \in SlotType
  BY DEF TypeOK, Go
<1>2. \A r \in Slot : Right(slot[r])'
  <2> SUFFICES ASSUME NEW r \in Slot PROVE Right(slot[r])'
    OBVIOUS
  <2>1. CASE r = s
    BY <1>1, <2>1 DEF Right
  <2>2. CASE r # s
    <3>1. PICK q \in SlotType : q = slot[r] /\ q = slot'[r]
      BY <1>1, <2>2
    <3>2. Right(q)'
      BY <2>2, <3>1
    <3> QED BY <3>1, <3>2 DEF Right
  <2> QED BY <2>1, <2>2
<1>3. Apart'
  BY <1>1, ClashBothWays DEF Undisturbed, Apart, At
<1> QED BY <1>2, <1>3 DEF Undisturbed

(* Whoever goes on clashes with nobody he did not clash with.               *)
LEMMA GoesOn ==
    ASSUME Undisturbed, NEW s \in Slot, NEW n, slot[s].at # "idle", n.op = slot[s].op
    PROVE  \A r \in Slot \ {s} : slot[r].at # "idle" => ~Clash(n.op, slot[r].op)
  BY DEF Undisturbed, Apart, At

(* Steps that only read: nothing that is read by others changes.            *)
LEMMA ReadMove ==
    ASSUME TypeOK, Undisturbed, NEW s \in Slot, NEW n \in SlotType, Go(s, n),
           UNCHANGED <<roster, testpilots, tier, allowed, lapsed>>,
           \/ n.at = "idle"
           \/ slot[s].at # "idle" /\ n.op = slot[s].op
           \/ \A r \in Slot \ {s} : slot[r].at # "idle" => ~Clash(n.op, slot[r].op),
           Right(n),
           \A p \in Person : Leaving(slot[s], p) => Leaving(n, p) \/ tier[p] = "retail"
    PROVE  Undisturbed'
<1>1. \A q : Right(q) => Right(q)'
  BY DEF Right, Sound, Cleared, Admins
<1>2. \A q \in SlotType : (\E r \in Slot \ {s} : q = slot[r]) => Right(q)'
  BY <1>1 DEF Undisturbed
<1>3. n.at = "idle" \/ \A r \in Slot \ {s} : slot[r].at # "idle" => ~Clash(n.op, slot[r].op)
  BY GoesOn
<1>4. Armed'
  <2> SUFFICES ASSUME NEW p \in Person \ lapsed
               PROVE  tier[p] \in Cleared(p) \/ \E r \in Slot : Leaving(slot'[r], p)
    BY DEF Armed, Cleared, Admins, Leaving
  <2>1. slot'[s] = n /\ \A r \in Slot \ {s} : slot'[r] = slot[r]
    BY DEF TypeOK, Go
  <2>2. "retail" \in Cleared(p)
    BY DEF Cleared, TiersFor
  <2> QED BY <2>1, <2>2 DEF Undisturbed, Armed
<1> QED BY <1>1, <1>2, <1>3, <1>4, CalmMove

(* Who may be in flight beside whom.                                        *)
LEMMA Company ==
    ASSUME TypeOK, Undisturbed, \A r \in Slot : Kind(slot[r]),
           NEW s \in Slot, NEW r \in Slot \ {s}, slot[s].at # "idle", slot[s].op # "look"
    PROVE  \/ slot[r].at = "idle" \/ slot[r].op = "look"
           \/ slot[r].op = "switch" /\ slot[s].op \notin Takes
           \/ slot[s].op = "switch" /\ slot[r].op \notin Takes
  BY DEF Undisturbed, Apart, At, Clash, Takes

(* Looking changes nothing and relies on nothing.                           *)
LEMMA LooksAreRight == \A q : Kind(q) /\ (q.at = "idle" \/ q.op = "look") => Right(q) /\ Right(q)'
  BY DEF Kind, Right

(* While nothing is taken away, a switch may go on.                         *)
Gains ==
    /\ Admins \subseteq Admins' /\ testpilots \subseteq testpilots' /\ lapsed \subseteq lapsed'

LEMMA GainsClear == Gains => \A p : Cleared(p) \subseteq Cleared(p)'
  BY DEF Gains, Cleared, TiersFor

LEMMA SwitchesGoOn ==
    ASSUME Gains, NEW q \in SlotType, Kind(q), q.op = "switch", Right(q) PROVE Right(q)'
<1>1. q.at \notin {"assign", "demote", "seat", "policy", "door"}
  BY DEF Kind
<1>2. q.who \in Person
  BY DEF SlotType
<1>3. Sound(q.map) => Sound(q.map)'
  BY GainsClear DEF Sound, Gains
<1> QED BY <1>1, <1>2, <1>3, GainsClear DEF Right, Gains


LEMMA WingMove ==
    ASSUME WingInv, TypeOK', NEW s \in Slot, NEW n \in SlotType, Go(s, n),
           Kind(n), n.at = "door" => Owner \in n.set, Owner \in allowed',
           ~disturbed' => Undisturbed'
    PROVE  WingInv'
<1>1. \A r \in Slot : slot'[r] = n \/ slot'[r] = slot[r]
  BY DEF WingInv, TypeOK, Go
<1>2. \A r \in Slot : Kind(slot'[r]) /\ (slot'[r].at = "door" => Owner \in slot'[r].set)
  BY <1>1 DEF WingInv, OwnerIn
<1>3. \A r \in Slot : Kind(slot[r])'
  BY <1>2 DEF Kind
<1> QED BY <1>2, <1>3 DEF WingInv, OwnerIn

(* An operation that did not fail disturbs nothing.                         *)
LEMMA TryCalm == \A ok \in BOOLEAN : Try(ok) /\ ~disturbed' => ok /\ ~disturbed
<1> SUFFICES ASSUME NEW ok \in BOOLEAN, Try(ok), ~disturbed' PROVE ok /\ ~disturbed
  OBVIOUS
<1>1. disturbed' = (disturbed \/ ~ok)
  BY DEF Try
<1> QED BY <1>1

LEMMA FreeIsRight == Free \in SlotType /\ Kind(Free) /\ Right(Free) /\ Free.at = "idle"
  BY FreeType DEF Kind, Right, Free

(* A handler that has read, or ends.                                        *)
LEMMA ReadingMove ==
    ASSUME WingInv, TypeOK', NEW s \in Slot, NEW n \in SlotType, Go(s, n),
           UNCHANGED <<roster, testpilots, tier, allowed, lapsed>>,
           ~disturbed' => ~disturbed,
           Kind(n), n.at = "door" => Owner \in n.set,
           ~disturbed' =>
              /\ \/ n.at = "idle"
                 \/ slot[s].at # "idle" /\ n.op = slot[s].op
                 \/ \A r \in Slot \ {s} : slot[r].at # "idle" => ~Clash(n.op, slot[r].op)
              /\ Right(n)
              /\ \A p \in Person : Leaving(slot[s], p) => Leaving(n, p) \/ tier[p] = "retail"
    PROVE  WingInv'
<1>1. ~disturbed' => Undisturbed'
  BY ReadMove DEF WingInv
<1>2. Owner \in allowed'
  BY DEF WingInv, OwnerIn
<1> QED BY <1>1, <1>2, WingMove

LEMMA ArriveMove ==
    ASSUME WingInv, TypeOK', NEW s \in Slot, NEW n \in SlotType, Go(s, n),
           At(s, "idle"), n.at \notin {"idle", "door"}, Kind(n), Right(n),
           disturbed' = (disturbed \/ Clashes(n.op)),
           UNCHANGED <<roster, testpilots, tier, allowed, lapsed>>
    PROVE  WingInv'
<1>1. ~disturbed' => ~disturbed /\ ~Clashes(n.op)
  OBVIOUS
<1>2. ~Clashes(n.op) => \A r \in Slot \ {s} : slot[r].at # "idle" => ~Clash(n.op, slot[r].op)
  BY DEF Clashes, At
<1>3. \A p \in Person : ~Leaving(slot[s], p)
  BY DEF Leaving, At
<1> QED BY <1>1, <1>2, <1>3, ReadingMove

LEMMA ArrivalStep ==
    ASSUME WingInv, TypeOK', NEW s \in Slot,
           \/ Sync(s) \/ SetRole(s) \/ SetSeat(s) \/ Admit(s) \/ Bar(s)
           \/ \E p \in Person : Toggle(s, p)
    PROVE  WingInv'
<1>1. ASSUME NEW who \in Person,
             NEW op \in {"look", "grant", "revoke", "seat", "unseat", "admit", "bar"},
             NEW first \in {"admins", "roles", "policy"}, Arrive(s, op, who, first),
             \/ first = "admins" /\ op \in {"look", "seat", "unseat"}
             \/ first = "admins" /\ op = "bar" /\ who \in Member
             \/ first = "roles" /\ op \in {"grant", "revoke"}
             \/ first = "policy" /\ op = "admit"
      PROVE  WingInv'
  <2>1. PICK n \in SlotType : n = [Free EXCEPT !.at = first, !.op = op, !.who = who]
    BY FreeType DEF SlotType
  <2>2. n.at = first /\ n.op = op /\ n.who = who
    BY <2>1 DEF Free
  <2>3. Kind(n) /\ Right(n)
    BY <1>1, <2>2 DEF Kind, Right
  <2>4. /\ Go(s, n) /\ At(s, "idle") /\ disturbed' = (disturbed \/ Clashes(n.op))
        /\ UNCHANGED <<roster, testpilots, tier, allowed, lapsed>>
    BY <1>1, <2>1, <2>2 DEF Arrive, store, history
  <2> QED BY <2>2, <2>3, <2>4, ArriveMove
<1>2. ASSUME NEW p \in Person, Toggle(s, p) PROVE WingInv'
  <2>1. PICK want \in Tier :
          Go(s, [Free EXCEPT !.at = "admins", !.op = "switch", !.who = p, !.want = want])
    BY <1>2 DEF Toggle, Tier
  <2>2. PICK n \in SlotType :
          n = [Free EXCEPT !.at = "admins", !.op = "switch", !.who = p, !.want = want]
    BY FreeType DEF SlotType
  <2>3. n.at = "admins" /\ n.op = "switch"
    BY <2>2 DEF Free
  <2>4. Kind(n) /\ Right(n)
    BY <2>3 DEF Kind, Right
  <2>5. /\ Go(s, n) /\ At(s, "idle") /\ disturbed' = (disturbed \/ Clashes(n.op))
        /\ UNCHANGED <<roster, testpilots, tier, allowed, lapsed>>
    BY <1>2, <2>1, <2>2, <2>3 DEF Toggle, store, history
  <2> QED BY <2>3, <2>4, <2>5, ArriveMove
<1> QED BY <1>1, <1>2 DEF Sync, SetRole, SetSeat, Admit, Bar, Person


(* The end of a handler that only read, or gave up.                         *)
LEMMA EndMove ==
    ASSUME WingInv, TypeOK', NEW s \in Slot, Go(s, Free),
           UNCHANGED <<roster, testpilots, tier, allowed, lapsed>>,
           ~disturbed' => ~disturbed,
           ~disturbed' => slot[s].at \notin {"recall", "demote"} \/ tier[slot[s].who] = "retail"
    PROVE  WingInv'
<1>1. ~disturbed' => \A p \in Person : Leaving(slot[s], p) => tier[p] = "retail"
  BY DEF Leaving
<1>2. Free.at # "door"
  BY FreeIsRight
<1> QED BY <1>1, <1>2, FreeIsRight, ReadingMove

LEMMA ReadAdminsStep == ASSUME WingInv, TypeOK', NEW s \in Slot, ReadAdmins(s) PROVE WingInv'
<1>1. PICK ok \in BOOLEAN :
         Try(ok) /\ Go(s, AfterAdmins([slot[s] EXCEPT !.set = IF ok THEN Admins ELSE {Owner}]))
  BY DEF ReadAdmins
<1>2. PICK q \in SlotType : q = slot[s] /\ Kind(q) /\ q.at = "admins"
  BY DEF ReadAdmins, At, WingInv, TypeOK
<1>3. Admins \subseteq Person /\ {Owner} \subseteq Admins
  BY DEF Admins, Person, WingInv, TypeOK
<1>4. PICK set \in SUBSET Admins : set = (IF ok THEN Admins ELSE {Owner})
  BY <1>3
<1>5. PICK r \in SlotType : r = [q EXCEPT !.set = set]
  BY <1>3 DEF SlotType
<1>6. r.set = set /\ r.who = q.who /\ r.op = q.op /\ r.at = "admins"
  BY <1>2, <1>5 DEF SlotType
<1>7. Go(s, AfterAdmins(r)) /\ UNCHANGED <<roster, testpilots, tier, allowed, lapsed>>
  BY <1>1, <1>2, <1>4, <1>5 DEF ReadAdmins, store, history
<1>8. ~disturbed' => ~disturbed /\ set = Admins
  BY <1>1, <1>4, TryCalm
<1>9. \A p \in Person : ~Leaving(slot[s], p)
  BY <1>2 DEF Leaving
<1>10. CASE r.op \in {"look", "switch"}
  <2>1. PICK n \in SlotType : n = [r EXCEPT !.at = "role", !.flag = {r.who} \cap r.set, !.set = {}]
    BY DEF SlotType
  <2>2. n.at = "role" /\ n.op = q.op /\ n.who = q.who /\ n.flag = {q.who} \cap set
    BY <1>6, <2>1 DEF SlotType
  <2>3. Go(s, n)
    BY <1>7, <1>10, <2>1 DEF AfterAdmins
  <2>4. Kind(n) /\ Right(n)
    BY <1>6, <1>10, <2>2 DEF Kind, Right
  <2> QED BY <1>2, <1>7, <1>8, <1>9, <2>2, <2>3, <2>4, ReadingMove
<1>11. CASE r.op \in {"seat", "unseat"}
  <2>1. PICK n \in SlotType : n = [r EXCEPT !.at = "seat"]
    BY DEF SlotType
  <2>2. n.at = "seat" /\ n.op = q.op /\ n.set = set
    BY <1>6, <2>1 DEF SlotType
  <2>3. Go(s, n)
    BY <1>7, <1>11, <2>1 DEF AfterAdmins
  <2>4. Kind(n) /\ (set = Admins => Right(n))
    BY <1>6, <1>11, <2>2 DEF Kind, Right
  <2> QED BY <1>2, <1>7, <1>8, <1>9, <2>2, <2>3, <2>4, ReadingMove
<1>12. CASE r.op \notin {"look", "switch", "seat", "unseat"}
  <2>1. AfterAdmins(r) = IF r.who \in r.set THEN Free ELSE [r EXCEPT !.at = "policy", !.set = {}]
    BY <1>12 DEF AfterAdmins
  <2>2. CASE r.who \in r.set
    BY <1>2, <1>7, <1>8, <2>1, <2>2, EndMove
  <2>3. CASE r.who \notin r.set
    <3>1. PICK n \in SlotType : n = [r EXCEPT !.at = "policy", !.set = {}]
      BY DEF SlotType
    <3>2. n.at = "policy" /\ n.op = q.op /\ n.who = q.who
      BY <1>6, <3>1 DEF SlotType
    <3>3. Go(s, n)
      BY <1>7, <2>1, <2>3, <3>1
    <3>4. Kind(n) /\ (set = Admins => Right(n))
      BY <1>2, <1>6, <1>12, <2>3, <3>2 DEF Kind, Right
    <3> QED BY <1>2, <1>7, <1>8, <1>9, <3>2, <3>3, <3>4, ReadingMove
  <2> QED BY <2>2, <2>3
<1> QED BY <1>10, <1>11, <1>12

LEMMA ReadRoleStep == ASSUME WingInv, TypeOK', NEW s \in Slot, ReadRole(s) PROVE WingInv'
<1>1. PICK q \in SlotType : q = slot[s] /\ Kind(q) /\ q.at = "role"
  BY DEF ReadRole, At, WingInv, TypeOK
<1>2. PICK ok \in BOOLEAN, eligible \in SUBSET testpilots :
         /\ Try(ok)
         /\ eligible = IF ok THEN {q.who} \cap testpilots ELSE {}
         /\ \/ Go(s, Free)
            \/ /\ q.op = "switch" => q.want \in TiersFor(eligible # {}, q.flag # {})
               /\ Go(s, [q EXCEPT !.at = "tiers", !.set = eligible])
  BY <1>1 DEF ReadRole
<1>3. UNCHANGED <<roster, testpilots, tier, allowed, lapsed>> /\ (~disturbed' => ~disturbed)
  BY <1>2, TryCalm DEF ReadRole, store
<1>4. CASE Go(s, Free)
  BY <1>1, <1>3, <1>4, EndMove
<1>5. CASE /\ q.op = "switch" => q.want \in TiersFor(eligible # {}, q.flag # {})
           /\ Go(s, [q EXCEPT !.at = "tiers", !.set = eligible])
  <2>1. PICK n \in SlotType : n = [q EXCEPT !.at = "tiers", !.set = eligible]
    BY DEF SlotType, WingInv, TypeOK
  <2>2. n.at = "tiers" /\ n.op = q.op /\ n.who = q.who /\ n.want = q.want
    BY <2>1 DEF SlotType
  <2>3. Kind(n)
    BY <1>1, <2>2 DEF Kind
  <2>4. ASSUME ~disturbed PROVE Right(n)
    <3>1. q.op = "switch" /\ q.flag # {} => q.who \in Admins
      BY <1>1, <2>4 DEF WingInv, Undisturbed, Right
    <3>2. eligible # {} => q.who \in testpilots
      BY <1>2
    <3>3. q.op = "switch" => q.want \in Cleared(q.who)
      BY <1>5, <3>1, <3>2 DEF Cleared, TiersFor
    <3> QED BY <2>2, <3>3 DEF Right
  <2>5. \A p \in Person : ~Leaving(slot[s], p)
    BY <1>1 DEF Leaving
  <2> QED BY <1>1, <1>3, <1>5, <2>1, <2>2, <2>3, <2>4, <2>5, ReadingMove
<1> QED BY <1>2, <1>4, <1>5

LEMMA ReadTiersStep == ASSUME WingInv, TypeOK', NEW s \in Slot, ReadTiers(s) PROVE WingInv'
<1>1. PICK q \in SlotType : q = slot[s] /\ Kind(q) /\ q.at = "tiers"
  BY DEF ReadTiers, At, WingInv, TypeOK
<1>2. PICK ok \in BOOLEAN, map \in TierMap :
         /\ Try(ok) /\ map = (IF ok THEN tier ELSE AllRetail)
         /\ Go(s, IF q.op = "switch" THEN [q EXCEPT !.at = "arm", !.map = map]
                  ELSE [q EXCEPT !.at = "reply",
                                 !.want = IF map[q.who] \in TiersFor(q.set # {}, q.flag # {})
                                          THEN map[q.who] ELSE "retail"])
  <2>1. tier \in TierMap /\ AllRetail \in TierMap
    BY DEF WingInv, TypeOK, AllRetail, TierMap, Tier
  <2> QED BY <1>1, <2>1 DEF ReadTiers
<1>3. /\ UNCHANGED <<roster, testpilots, tier, allowed, lapsed>>
      /\ ~disturbed' => ~disturbed /\ map = tier
  BY <1>2, TryCalm DEF ReadTiers, store, history
<1>4. \A p \in Person : ~Leaving(slot[s], p)
  BY <1>1 DEF Leaving
<1>5. CASE q.op = "switch"
  <2>1. PICK n \in SlotType : n = [q EXCEPT !.at = "arm", !.map = map]
    BY DEF SlotType
  <2>2. n.at = "arm" /\ n.op = "switch" /\ n.who = q.who /\ n.want = q.want /\ n.map = map
    BY <1>5, <2>1 DEF SlotType
  <2>3. Kind(n) /\ Go(s, n)
    BY <1>2, <1>5, <2>1, <2>2 DEF Kind
  <2>4. ASSUME ~disturbed' PROVE Right(n)
    <3>1. Undisturbed /\ map = tier /\ \A r \in Slot : Kind(slot[r])
      BY <1>3, <2>4 DEF WingInv
    <3>2. \A r \in Slot : slot[r].op # "revoke" \/ slot[r].at = "idle"
      BY <1>1, <1>5, <3>1 DEF Undisturbed, Apart, At, Clash, Takes
    <3>3. Sound(tier)
      BY <3>1, <3>2 DEF Undisturbed, Armed, Leaving, Sound
    <3>4. q.want \in Cleared(q.who)
      BY <1>1, <1>5, <3>1 DEF Undisturbed, Right
    <3> QED BY <2>2, <3>1, <3>3, <3>4 DEF Right
  <2> QED BY <1>1, <1>3, <1>4, <1>5, <2>2, <2>3, <2>4, ReadingMove
<1>6. CASE q.op # "switch"
  <2>1. PICK want \in Tier : want = IF map[q.who] \in TiersFor(q.set # {}, q.flag # {})
                                    THEN map[q.who] ELSE "retail"
    BY DEF TierMap, Tier, SlotType
  <2>2. PICK n \in SlotType : n = [q EXCEPT !.at = "reply", !.want = want]
    BY DEF SlotType
  <2>3. n.at = "reply" /\ n.op = q.op /\ n.who = q.who
    BY <2>2 DEF SlotType
  <2>4. Go(s, n)
    BY <1>2, <1>6, <2>1, <2>2
  <2>5. Kind(n) /\ Right(n)
    BY <1>1, <2>3 DEF Kind, Right
  <2> QED BY <1>1, <1>3, <1>4, <2>3, <2>4, <2>5, ReadingMove
<1> QED BY <1>5, <1>6


LEMMA ReplyStep == ASSUME WingInv, TypeOK', NEW s \in Slot, Reply(s) PROVE WingInv'
<1>1. /\ Go(s, Free) /\ slot[s].at = "reply"
      /\ UNCHANGED <<roster, testpilots, tier, allowed, lapsed, disturbed>>
  BY DEF Reply, At, store, history
<1> QED BY <1>1, EndMove

LEMMA ReadRolesStep == ASSUME WingInv, TypeOK', NEW s \in Slot, ReadRoles(s) PROVE WingInv'
<1>1. PICK q \in SlotType : q = slot[s] /\ Kind(q) /\ q.at = "roles"
  BY DEF ReadRoles, At, WingInv, TypeOK
<1>2. PICK ok \in BOOLEAN, set \in SUBSET Person :
         /\ Try(ok) /\ set = (IF ok THEN testpilots ELSE {})
         /\ Go(s, [q EXCEPT !.at = "assign", !.set = set, !.flag = {q.who} \cap set])
  <2>1. testpilots \in SUBSET Person /\ {} \in SUBSET Person
    BY DEF WingInv, TypeOK
  <2> QED BY <1>1, <2>1 DEF ReadRoles
<1>3. /\ UNCHANGED <<roster, testpilots, tier, allowed, lapsed>>
      /\ ~disturbed' => ~disturbed /\ set = testpilots
  BY <1>2, TryCalm DEF ReadRoles, store, history
<1>4. PICK n \in SlotType : n = [q EXCEPT !.at = "assign", !.set = set, !.flag = {q.who} \cap set]
  BY DEF SlotType
<1>5. n.at = "assign" /\ n.op = q.op /\ n.who = q.who /\ n.set = set /\ n.flag = {q.who} \cap set
  BY <1>4 DEF SlotType
<1>6. Kind(n) /\ (set = testpilots => Right(n))
  BY <1>1, <1>5 DEF Kind, Right
<1>7. \A p \in Person : ~Leaving(slot[s], p)
  BY <1>1 DEF Leaving
<1> QED BY <1>1, <1>2, <1>3, <1>4, <1>5, <1>6, <1>7, ReadingMove

LEMMA ReadForDemotionStep == ASSUME WingInv, TypeOK', NEW s \in Slot,
      ReadForDemotion(s) PROVE WingInv'
<1>1. PICK q \in SlotType : q = slot[s] /\ Kind(q) /\ q.at = "recall"
  BY DEF ReadForDemotion, At, WingInv, TypeOK
<1>2. PICK ok \in BOOLEAN :
         /\ Try(ok)
         /\ Go(s, IF ok /\ tier[q.who] # "retail" THEN [q EXCEPT !.at = "demote", !.map = tier]
                  ELSE Free)
  BY <1>1 DEF ReadForDemotion
<1>3. UNCHANGED <<roster, testpilots, tier, allowed, lapsed>> /\ (~disturbed' => ~disturbed /\ ok)
  BY <1>2, TryCalm DEF ReadForDemotion, store, history
<1>4. CASE ok /\ tier[q.who] # "retail"
  <2>1. PICK n \in SlotType : n = [q EXCEPT !.at = "demote", !.map = tier]
    BY DEF SlotType, WingInv, TypeOK
  <2>2. n.at = "demote" /\ n.op = q.op /\ n.who = q.who /\ n.map = tier
    BY <2>1 DEF SlotType
  <2>3. Kind(n) /\ Right(n)
    BY <1>1, <2>2 DEF Kind, Right
  <2>4. \A p \in Person : Leaving(slot[s], p) => Leaving(n, p)
    BY <1>1, <2>2 DEF Leaving
  <2> QED BY <1>1, <1>2, <1>3, <1>4, <2>1, <2>2, <2>3, <2>4, ReadingMove
<1>5. CASE ~(ok /\ tier[q.who] # "retail")
  BY <1>1, <1>2, <1>3, <1>5, EndMove
<1> QED BY <1>4, <1>5

LEMMA FetchPolicyStep == ASSUME WingInv, TypeOK', NEW s \in Slot, FetchPolicy(s) PROVE WingInv'
<1>1. PICK q \in SlotType : q = slot[s] /\ Kind(q) /\ q.at = "policy"
  BY DEF FetchPolicy, At, WingInv, TypeOK
<1>2. PICK ok \in BOOLEAN :
         Try(ok) /\ (Go(s, Free) \/ Go(s, [q EXCEPT !.at = "door", !.set = allowed]))
  BY <1>1 DEF FetchPolicy
<1>3. UNCHANGED <<roster, testpilots, tier, allowed, lapsed>> /\ (~disturbed' => ~disturbed)
  BY <1>2, TryCalm DEF FetchPolicy, store, history
<1>4. CASE Go(s, Free)
  BY <1>1, <1>3, <1>4, EndMove
<1>5. CASE Go(s, [q EXCEPT !.at = "door", !.set = allowed])
  <2>1. PICK n \in SlotType : n = [q EXCEPT !.at = "door", !.set = allowed]
    BY DEF SlotType, WingInv, TypeOK
  <2>2. n.at = "door" /\ n.op = q.op /\ n.who = q.who /\ n.set = allowed /\ Owner \in n.set
    BY <2>1 DEF SlotType, WingInv, OwnerIn
  <2>3. Kind(n)
    BY <1>1, <2>2 DEF Kind
  <2>4. ~disturbed => Right(n)
    BY <1>1, <2>2 DEF WingInv, Undisturbed, Right
  <2>5. \A p \in Person : ~Leaving(slot[s], p)
    BY <1>1 DEF Leaving
  <2> QED BY <1>1, <1>3, <1>5, <2>1, <2>2, <2>3, <2>4, <2>5, ReadingMove
<1> QED BY <1>2, <1>4, <1>5

(* What the others have read stands while one of them writes: they look, or *)
(* they are switches and nothing is being taken away, or the writer is a    *)
(* switch, and what it writes is read by none of them.                      *)
LEMMA OthersStand ==
    ASSUME WingInv, Undisturbed, NEW s \in Slot, slot[s].at # "idle", slot[s].op # "look",
           slot[s].op \notin Takes => Gains,
           slot[s].op = "switch" => UNCHANGED <<roster, testpilots, allowed, lapsed>>
    PROVE  \A q \in SlotType : (\E r \in Slot \ {s} : q = slot[r]) => Right(q)'
<1> SUFFICES ASSUME NEW r \in Slot \ {s}, NEW q \in SlotType, q = slot[r] PROVE Right(q)'
  OBVIOUS
<1>1. Kind(q) /\ Right(q)
  BY DEF WingInv, Undisturbed
<1>2. CASE q.at = "idle" \/ q.op = "look"
  BY <1>1, <1>2, LooksAreRight
<1>3. CASE q.op = "switch" /\ slot[s].op \notin Takes
  BY <1>1, <1>3, SwitchesGoOn
<1>4. CASE slot[s].op = "switch" /\ q.op \notin Takes
  <2>1. q.at # "demote"
    BY <1>1, <1>4 DEF Kind, Takes
  <2>2. UNCHANGED <<roster, testpilots, allowed, lapsed>>
    BY <1>4
  <2> QED BY <1>1, <2>1, <2>2 DEF Right, Sound, Cleared, Admins
<1> QED BY <1>2, <1>3, <1>4, Company DEF WingInv

(* The end of a handler that writes.                                        *)
LEMMA WritingMove ==
    ASSUME WingInv, TypeOK', NEW s \in Slot, NEW n \in SlotType, Go(s, n),
           n.at \in {"idle", "recall", "reply"}, n.op = slot[s].op \/ n.at = "idle",
           Kind(n), slot[s].at # "idle", slot[s].op # "look",
           Owner \in allowed', ~disturbed' => ~disturbed,
           ~disturbed' => /\ slot[s].op \notin Takes => Gains
                          /\ slot[s].op = "switch" =>
                                UNCHANGED <<roster, testpilots, allowed, lapsed>>
                          /\ Armed'
    PROVE  WingInv'
<1>1. ASSUME ~disturbed' PROVE Undisturbed'
  <2>1. Undisturbed /\ TypeOK
    BY <1>1 DEF WingInv
  <2>2. \A q \in SlotType : (\E r \in Slot \ {s} : q = slot[r]) => Right(q)'
    BY <1>1, <2>1, OthersStand
  <2>3. Right(n)'
    BY DEF Right
  <2>4. n.at = "idle" \/ \A r \in Slot \ {s} : slot[r].at # "idle" => ~Clash(n.op, slot[r].op)
    BY <2>1, GoesOn
  <2> QED BY <1>1, <2>1, <2>2, <2>3, <2>4, CalmMove
<1> QED BY <1>1, WingMove


LEMMA WriteTierStep == ASSUME WingInv, TypeOK', NEW s \in Slot, WriteTier(s) PROVE WingInv'
<1>1. PICK q \in SlotType : q = slot[s] /\ Kind(q) /\ q.at = "arm" /\ q.op = "switch"
  BY DEF WriteTier, At, WingInv, TypeOK, Kind
<1>2. PICK ok \in BOOLEAN :
         /\ Try(ok)
         /\ tier' = IF ok THEN [q.map EXCEPT ![q.who] = q.want] ELSE tier
         /\ Go(s, IF ok THEN [q EXCEPT !.at = "reply", !.map = AllRetail] ELSE Free)
  BY <1>1 DEF WriteTier
<1>3. UNCHANGED <<roster, testpilots, allowed, lapsed>> /\ (~disturbed' => ~disturbed /\ ok)
  BY <1>2, TryCalm DEF WriteTier, history
<1>4. PICK n \in SlotType : /\ n.at \in {"idle", "reply"} /\ (n.op = "switch" \/ n.at = "idle")
                            /\ Kind(n) /\ Go(s, n)
  <2>1. PICK m \in SlotType : m = [q EXCEPT !.at = "reply", !.map = AllRetail]
    BY DEF SlotType, AllRetail, TierMap, Tier
  <2>2. m.at = "reply" /\ m.op = "switch" /\ m.who = q.who
    BY <1>1, <2>1 DEF SlotType
  <2>3. Kind(m)
    BY <2>2 DEF Kind
  <2> QED BY <1>2, <2>1, <2>2, <2>3, FreeIsRight
<1>5. ASSUME ~disturbed' PROVE Armed'
  <2>1. Sound(q.map) /\ q.want \in Cleared(q.who)
    BY <1>1, <1>3, <1>5 DEF WingInv, Undisturbed, Right
  <2>2. tier' = [q.map EXCEPT ![q.who] = q.want] /\ q.map \in TierMap /\ q.who \in Person
    BY <1>2, <1>3, <1>5 DEF SlotType
  <2>3. \A p \in Person \ lapsed : tier'[p] \in Cleared(p)
    BY <2>1, <2>2 DEF Sound, TierMap
  <2> QED BY <1>3, <2>3 DEF Armed, Cleared, Admins
<1>6. Owner \in allowed'
  BY <1>3 DEF WingInv, OwnerIn
<1>7. Gains
  BY <1>3 DEF Gains, Admins
<1> QED BY <1>1, <1>3, <1>4, <1>5, <1>6, <1>7, WritingMove

LEMMA WriteRolesStep == ASSUME WingInv, TypeOK', NEW s \in Slot, WriteRoles(s) PROVE WingInv'
<1>1. PICK q \in SlotType :
         q = slot[s] /\ Kind(q) /\ q.at = "assign" /\ q.op \in {"grant", "revoke"}
  <2>1. PICK ok : Assign(s, ok)
    BY DEF WriteRoles
  <2> QED BY <2>1 DEF Assign, At, WingInv, TypeOK, Kind
<1>2. PICK ok \in BOOLEAN :
         /\ Try(ok)
         /\ testpilots' = IF ~ok THEN testpilots
                          ELSE IF q.op = "grant" THEN q.set \cup {q.who} ELSE q.set \ {q.who}
         /\ Go(s, IF ok /\ Demotes(q) THEN [q EXCEPT !.at = "recall", !.set = {}] ELSE Free)
         /\ UNCHANGED <<roster, allowed, lapsed, tier>>
  BY <1>1 DEF WriteRoles, Assign
<1>3. ~disturbed' => ~disturbed /\ ok
  BY <1>2, TryCalm
<1>4. PICK m \in SlotType : m = [q EXCEPT !.at = "recall", !.set = {}]
  BY DEF SlotType
<1>5. m.at = "recall" /\ m.op = q.op /\ m.who = q.who
  BY <1>4 DEF SlotType
<1>6. PICK n \in SlotType : n = (IF ok /\ Demotes(q) THEN m ELSE Free)
  BY FreeIsRight
<1>7. /\ Go(s, n) /\ n.at \in {"idle", "recall"} /\ (n.op = q.op \/ n.at = "idle") /\ Kind(n)
      /\ n.at = "recall" <=> ok /\ Demotes(q)
  <2>1. Demotes(q) => Kind(m)
    BY <1>1, <1>5 DEF Kind, Demotes
  <2>2. Go(s, n)
    BY <1>2, <1>4, <1>6
  <2> QED BY <1>5, <1>6, <2>1, <2>2, FreeIsRight
<1>8. ASSUME ~disturbed PROVE Undisturbed /\ q.set = testpilots /\ q.flag = {q.who} \cap testpilots
  BY <1>1, <1>8 DEF WingInv, Undisturbed, Right
<1>9. ASSUME ~disturbed', q.op = "grant" PROVE Gains
  BY <1>2, <1>3, <1>8, <1>9 DEF Gains, Admins
<1>10. ASSUME ~disturbed' PROVE Armed'
  <2> SUFFICES ASSUME NEW p \in Person \ lapsed
               PROVE  tier[p] \in Cleared(p)' \/ \E r \in Slot : Leaving(slot'[r], p)
    BY <1>2 DEF Armed, Leaving
  <2>1. slot'[s] = n /\ \A r \in Slot \ {s} : slot'[r] = slot[r]
    BY <1>7 DEF WingInv, TypeOK, Go
  <2>2. ~Leaving(slot[s], p)
    BY <1>1 DEF Leaving
  <2>3. tier[p] \in Cleared(p) \/ \E r \in Slot \ {s} : Leaving(slot[r], p)
    BY <1>3, <1>8, <1>10, <2>2 DEF Undisturbed, Armed
  <2>4. CASE q.op = "grant"
    BY <1>9, <1>10, <2>1, <2>3, <2>4, GainsClear
  <2>5. CASE q.op = "revoke" /\ p # q.who
    <3>1. p \in testpilots <=> p \in testpilots'
      BY <1>2, <1>3, <1>8, <1>10, <2>5
    <3>2. Cleared(p)' = Cleared(p)
      BY <1>2, <3>1 DEF Cleared, Admins
    <3> QED BY <2>1, <2>3, <3>2
  <2>6. CASE q.op = "revoke" /\ p = q.who /\ p \notin testpilots
    <3>1. testpilots' = testpilots
      BY <1>2, <1>3, <1>8, <1>10, <2>6
    <3>2. Cleared(p)' = Cleared(p)
      BY <1>2, <3>1 DEF Cleared, Admins
    <3> QED BY <2>1, <2>3, <3>2
  <2>7. CASE q.op = "revoke" /\ p = q.who /\ p \in testpilots
    <3>1. Demotes(q)
      BY <1>3, <1>8, <1>10, <2>7 DEF Demotes
    <3>2. Leaving(n, p)
      BY <1>3, <1>5, <1>6, <1>10, <2>7, <3>1 DEF Leaving
    <3> QED BY <2>1, <3>2
  <2> QED BY <1>1, <2>4, <2>5, <2>6, <2>7
<1>11. Owner \in allowed'
  BY <1>2 DEF WingInv, OwnerIn
<1>12. q.op \notin Takes => q.op = "grant"
  BY <1>1 DEF Takes
<1> QED BY <1>1, <1>3, <1>7, <1>9, <1>10, <1>11, <1>12, WritingMove

LEMMA DemoteStep == ASSUME WingInv, TypeOK', NEW s \in Slot, Demote(s) PROVE WingInv'
<1>1. PICK q \in SlotType : q = slot[s] /\ Kind(q) /\ q.at = "demote" /\ q.op = "revoke"
  BY DEF Demote, At, WingInv, TypeOK, Kind
<1>2. PICK ok \in BOOLEAN :
         Try(ok) /\ tier' = IF ok THEN [q.map EXCEPT ![q.who] = "retail"] ELSE tier
  BY <1>1 DEF Demote
<1>3. /\ UNCHANGED <<roster, testpilots, allowed, lapsed>> /\ Go(s, Free)
      /\ ~disturbed' => ~disturbed /\ ok
  BY <1>2, TryCalm DEF Demote, history
<1>4. ASSUME ~disturbed' PROVE Armed'
  <2>1. Undisturbed /\ q.map = tier
    BY <1>1, <1>3, <1>4 DEF WingInv, Undisturbed, Right
  <2>2. tier' = [tier EXCEPT ![q.who] = "retail"] /\ tier \in TierMap /\ q.who \in Person
    BY <1>2, <1>3, <1>4, <2>1 DEF SlotType
  <2> SUFFICES ASSUME NEW p \in Person \ lapsed
               PROVE  tier'[p] \in Cleared(p) \/ \E r \in Slot : Leaving(slot'[r], p)
    BY <1>3 DEF Armed, Leaving, Cleared, Admins
  <2>3. CASE p = q.who
    BY <2>2, <2>3 DEF TierMap, Cleared, TiersFor
  <2>4. CASE p # q.who
    <3>1. ~Leaving(slot[s], p)
      BY <1>1, <2>4 DEF Leaving
    <3>2. tier'[p] = tier[p]
      BY <2>2, <2>4 DEF TierMap
    <3>3. \A r \in Slot \ {s} : slot'[r] = slot[r]
      BY <1>3 DEF WingInv, TypeOK, Go
    <3> QED BY <2>1, <3>1, <3>2, <3>3 DEF Undisturbed, Armed
  <2> QED BY <2>3, <2>4
<1>5. Owner \in allowed'
  BY <1>3 DEF WingInv, OwnerIn
<1> QED BY <1>1, <1>3, <1>4, <1>5, FreeIsRight, WritingMove DEF Takes

LEMMA WriteRosterStep == ASSUME WingInv, TypeOK', NEW s \in Slot, WriteRoster(s) PROVE WingInv'
<1>1. PICK q \in SlotType : q = slot[s] /\ Kind(q) /\ q.at = "seat" /\ q.op \in {"seat", "unseat"}
  BY DEF WriteRoster, At, WingInv, TypeOK, Kind
<1>2. PICK ok \in BOOLEAN :
         /\ Try(ok)
         /\ roster' = IF ~ok THEN roster
                      ELSE (IF q.op = "seat" THEN q.set \cup {q.who} ELSE q.set \ {q.who}) \cup {Owner}
         /\ lapsed' = lapsed \cup {p \in Admins \ roster' : tier[p] # "retail"}
  BY <1>1 DEF WriteRoster
<1>3. /\ UNCHANGED <<testpilots, tier, allowed>> /\ Go(s, Free)
      /\ ~disturbed' => ~disturbed /\ ok
  BY <1>2, TryCalm DEF WriteRoster
<1>4. ASSUME ~disturbed', q.op = "seat" PROVE Gains
  <2>1. q.set = Admins
    BY <1>1, <1>3, <1>4 DEF WingInv, Undisturbed, Right
  <2> QED BY <1>2, <1>3, <1>4, <2>1 DEF Gains, Admins
<1>5. ASSUME ~disturbed' PROVE Armed'
  <2> SUFFICES ASSUME NEW p \in Person \ lapsed'
               PROVE  tier[p] \in Cleared(p)' \/ \E r \in Slot : Leaving(slot'[r], p)
    BY <1>3 DEF Armed, Leaving
  <2>1. ~Leaving(slot[s], p)
    BY <1>1 DEF Leaving
  <2>2. \A r \in Slot \ {s} : slot'[r] = slot[r]
    BY <1>3 DEF WingInv, TypeOK, Go
  <2>3. tier[p] \in Cleared(p) \/ \E r \in Slot \ {s} : Leaving(slot[r], p)
    BY <1>2, <1>3, <1>5, <2>1 DEF WingInv, Undisturbed, Armed
  <2>4. tier[p] = "retail" \/ p \notin Admins \/ p \in roster'
    BY <1>2
  <2>5. tier[p] \in Cleared(p) => tier[p] \in Cleared(p)'
    BY <1>3, <2>4 DEF Cleared, TiersFor, Admins
  <2> QED BY <2>2, <2>3, <2>5
<1>6. Owner \in allowed'
  BY <1>3 DEF WingInv, OwnerIn
<1>7. q.op \notin Takes => q.op = "seat"
  BY <1>1 DEF Takes
<1> QED BY <1>1, <1>3, <1>4, <1>5, <1>6, <1>7, FreeIsRight, WritingMove

LEMMA PutPolicyStep == ASSUME WingInv, TypeOK', NEW s \in Slot, PutPolicy(s)
    PROVE  WingInv' /\ (allowed \ allowed') \cap (IF disturbed' THEN {Owner} ELSE Admins) = {}
<1>1. PICK q \in SlotType : q = slot[s] /\ Kind(q) /\ q.at = "door" /\ q.op \in {"admit", "bar"}
  BY DEF PutPolicy, At, WingInv, TypeOK, Kind
<1>2. PICK ok \in BOOLEAN, done \in BOOLEAN :
         /\ Try(ok)
         /\ allowed' = IF ~done THEN allowed
                       ELSE IF q.op = "admit" THEN q.set \cup {q.who} ELSE q.set \ {q.who}
  BY <1>1 DEF PutPolicy
<1>3. UNCHANGED <<roster, testpilots, tier, lapsed>> /\ Go(s, Free) /\ (~disturbed' => ~disturbed)
  BY <1>2, TryCalm DEF PutPolicy, history
<1>4. Owner \in allowed'
  BY <1>1, <1>2, WingAssumption DEF WingInv, OwnerIn, Kind
<1>5. ASSUME ~disturbed' PROVE Armed'
  <2>1. \A p : ~Leaving(slot[s], p)
    BY <1>1 DEF Leaving
  <2>2. \A r \in Slot \ {s} : slot'[r] = slot[r]
    BY <1>3 DEF WingInv, TypeOK, Go
  <2>3. Armed
    BY <1>3, <1>5 DEF WingInv, Undisturbed
  <2> QED BY <1>3, <2>1, <2>2, <2>3 DEF Armed, Leaving, Cleared, Admins
<1>6. Gains
  BY <1>3 DEF Gains, Admins
<1>7. WingInv'
  BY <1>1, <1>3, <1>4, <1>5, <1>6, FreeIsRight, WritingMove
<1>8. ASSUME ~disturbed' PROVE (allowed \ allowed') \cap Admins = {}
  <2>1. q.set = allowed /\ (q.op = "bar" => q.who \notin Admins)
    BY <1>1, <1>3, <1>8 DEF WingInv, Undisturbed, Right
  <2> QED BY <1>1, <1>2, <2>1
<1> QED BY <1>4, <1>7, <1>8


LEMMA WingStep == WingInv /\ TypeOK' /\ [Next]_vars =>
                    /\ WingInv'
                    /\ (allowed \ allowed') \cap (IF disturbed' THEN {Owner} ELSE Admins) = {}
<1> SUFFICES ASSUME WingInv, TypeOK', [Next]_vars
             PROVE  /\ WingInv'
                    /\ (allowed \ allowed') \cap (IF disturbed' THEN {Owner} ELSE Admins) = {}
  OBVIOUS
<1>1. CASE UNCHANGED vars
  <2>1. UNCHANGED <<roster, testpilots, tier, allowed, slot, lapsed, disturbed>>
    BY <1>1 DEF vars, store, history
  <2>2. OwnerIn' /\ \A s \in Slot : Kind(slot[s])'
    BY <2>1 DEF WingInv, OwnerIn, Kind
  <2>3. ~disturbed' => Undisturbed'
    BY <2>1 DEF WingInv, Undisturbed, Apart, At, Armed, Leaving, Right, Sound, Cleared, Admins
  <2> QED BY <2>1, <2>2, <2>3 DEF WingInv
<1>2. CASE Next
  <2> PICK s \in Slot :
         \/ Sync(s) \/ SetRole(s) \/ SetSeat(s) \/ Admit(s) \/ Bar(s)
         \/ \E p \in Person : Toggle(s, p)
         \/ ReadAdmins(s) \/ ReadRole(s) \/ ReadTiers(s) \/ WriteTier(s) \/ Reply(s)
         \/ ReadRoles(s) \/ WriteRoles(s) \/ ReadForDemotion(s) \/ Demote(s)
         \/ WriteRoster(s) \/ FetchPolicy(s) \/ PutPolicy(s)
    BY <1>2 DEF Next
  <2>1. CASE PutPolicy(s)
    BY <2>1, PutPolicyStep
  <2>2. CASE ~PutPolicy(s)
    <3>1. WingInv'
      BY <2>2, ArrivalStep, ReadAdminsStep, ReadRoleStep, ReadTiersStep, WriteTierStep, ReplyStep,
         ReadRolesStep, WriteRolesStep, ReadForDemotionStep, DemoteStep, WriteRosterStep,
         FetchPolicyStep
    <3>2. allowed' = allowed
      BY <2>2 DEF Sync, SetRole, SetSeat, Admit, Bar, Arrive, Toggle, ReadAdmins, ReadRole,
            ReadTiers,
         WriteTier, Reply, ReadRoles, WriteRoles, Assign, ReadForDemotion, Demote, WriteRoster,
         FetchPolicy, store
    <3> QED BY <3>1, <3>2
  <2> QED BY <2>1, <2>2
<1> QED BY <1>1, <1>2

LEMMA WingInit == Init => OwnerIn /\ Undisturbed /\ \A s \in Slot : Kind(slot[s])
<1> SUFFICES ASSUME Init PROVE OwnerIn /\ Undisturbed /\ \A s \in Slot : Kind(slot[s])
  OBVIOUS
<1>1. \A s \in Slot : slot[s] = Free /\ slot[s].at = "idle"
  BY FreeIsRight DEF Init
<1>2. OwnerIn
  BY <1>1 DEF Init, OwnerIn, Person
<1>3. Apart
  BY <1>1 DEF Apart, At
<1>4. Armed
  BY DEF Init, Armed, AllRetail, Cleared, TiersFor
<1> QED BY <1>1, <1>2, <1>3, <1>4, FreeIsRight DEF Undisturbed

(* While no two handlers clash and the store answers, a pilot who is armed  *)
(* is cleared for his track, or is about to be disarmed, or is an admin who *)
(* lost his seat (plugin-roles.js, testpilot.js).                           *)
THEOREM TheArmedAreCleared == Spec => []ArmedMeansCleared
<1>1. Init /\ TypeOK => WingInv
  BY WingInit DEF WingInv
<1>2. WingInv => ArmedMeansCleared
  <2> SUFFICES ASSUME WingInv, ~disturbed PROVE ArmedMeansCleared
    BY DEF ArmedMeansCleared
  <2> QED BY DEF WingInv, Undisturbed, Armed, Leaving, ArmedMeansCleared
<1>3. WingInv /\ TypeOK' /\ [Next]_vars => WingInv'
  BY WingStep
<1> QED BY <1>1, <1>2, <1>3, WingTypeCorrect, PTL DEF Spec

(* No admin is shown out of the site, the owner not even by handlers that   *)
(* overlap or read a store that fails (access.js, admins.js).               *)
THEOREM TheDoorIsKept == Spec => AdminsKeepTheDoor
<1>1. Init /\ TypeOK => WingInv
  BY WingInit DEF WingInv
<1>2. WingInv /\ TypeOK' /\ [Next]_vars =>
        /\ WingInv'
        /\ [(allowed \ allowed') \cap (IF disturbed' THEN {Owner} ELSE Admins) = {}]_vars
  BY WingStep
<1> QED BY <1>1, <1>2, WingTypeCorrect, PTL DEF Spec, AdminsKeepTheDoor

=============================================================================
