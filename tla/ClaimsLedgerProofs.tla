------------------------- MODULE ClaimsLedgerProofs -------------------------
(***************************************************************************)
(* What ClaimsLedger guarantees for any commanders, systems, requests in   *)
(* flight and time, and whatever KV fails.                                 *)
(***************************************************************************)
EXTENDS ClaimsLedger, TLAPS

(* The claim a KV record makes about system s is proven.                    *)
Sound(s, rec) == rec # None => Proven(RowOf(s, rec))

(* Everything a handler carries towards the ledger or the cache is proven.  *)
Carried(q) ==
    /\ q.pc \in EventPC => q.event \in journal
    /\ q.pc = "event:put" => q.event.action = "claim"
    /\ q.pc \in EditPC => /\ q.sys \in System /\ q.cmdr \in Cmdr /\ q.rec \in Rec
                          /\ q.rec.cmdr = q.cmdr
                          /\ Proven(RowOf(q.sys, q.rec))
    /\ \A row \in q.rows : Proven(row)

Provenance ==
    /\ TypeOK
    /\ post \subseteq journal
    /\ FirstParty
    /\ \A r \in Req : Carried(req[r])

(* An idle slot is a well-typed request that carries nothing.                *)
LEMMA IdleOK == Idle \in Request /\ Carried(Idle)
  BY ClaimsAssumption DEF Idle, Request, PC, Carried, EventPC, EditPC

(* Journals and admin entries only grow.                                    *)
Grows == journal \subseteq journal' /\ named \subseteq named'

(* What a journal or an admin once proved stays proven.                     *)
LEMMA ProvenStays == Grows => \A row : Proven(row) => Proven(row)'
  BY DEF Grows, Proven

(* ... and so does what a handler carries.                                  *)
LEMMA CarriedStays == Grows => \A q : Carried(q) => Carried(q)'
  BY ProvenStays DEF Carried, Grows

(* Steps that start from Provenance and write no record, keep it if what    *)
(* they put in their slot is carried.                                       *)
Carrying ==
    /\ Grows
    /\ post' \subseteq journal'
    /\ ledger' = ledger
    /\ cache' = cache \/ cache' = None
    /\ \A r \in Req : req'[r] = req[r] \/ Carried(req[r])'

(* Carrying steps keep Provenance: most actions need nothing more.          *)
LEMMA CarryingStep == Provenance /\ Carrying /\ TypeOK' => Provenance'
<1> SUFFICES ASSUME Provenance, Carrying, TypeOK' PROVE Provenance'
  OBVIOUS
<1>1. \A row : Proven(row) => Proven(row)'
  BY ProvenStays DEF Carrying
<1>2. FirstParty'
  BY <1>1 DEF Carrying, Provenance, FirstParty
<1>3. \A r \in Req : Carried(req[r])'
  BY CarriedStays DEF Carrying, Provenance
<1> QED
  BY <1>2, <1>3 DEF Provenance, Carrying

(* Every step keeps Provenance: one case per action.                        *)
LEMMA ProvenanceInductive == Provenance /\ [Next]_vars => Provenance'
<1> USE ClaimsAssumption, IdleOK
<1> SUFFICES ASSUME Provenance, [Next]_vars PROVE Provenance'
  OBVIOUS
<1>t. TypeOK
  BY DEF Provenance
<1>c. calm' = calm
  BY DEF Next, vars
<1> USE <1>c
<1>s. \A r \in Req : \A q \in Request : req' = [req EXCEPT ![r] = q] =>
        /\ req' \in [Req -> Request]
        /\ req'[r] = q
        /\ \A s \in Req \ {r} : req'[s] = req[s]
  BY <1>t DEF TypeOK
<1>i. Carried(Idle)'
  BY DEF Carried, Idle, EventPC, EditPC
<1>1. ASSUME NEW e \in Event, Happens(e) PROVE Provenance'
  <2>1. TypeOK'
    BY <1>1, <1>t DEF Happens, TypeOK, kv, history
  <2>2. Carrying
    BY <1>1 DEF Happens, Provenance, Carrying, Grows, kv, history
  <2> QED
    BY <2>1, <2>2, CarryingStep
<1>2. ASSUME NEW e \in post, PostLost(e) PROVE Provenance'
  <2>1. TypeOK'
    BY <1>2, <1>t DEF PostLost, TypeOK, kv, world, history
  <2>2. Carrying
    BY <1>2 DEF PostLost, Provenance, Carrying, Grows, kv, world, history
  <2> QED
    BY <2>1, <2>2, CarryingStep
<1>3. ASSUME NEW k \in Cmdr, Backfill(k) PROVE Provenance'
  <2>1. TypeOK'
    BY <1>3, <1>t DEF Backfill, TypeOK, kv, world, history
  <2>2. Carrying
    BY <1>3 DEF Backfill, Provenance, Carrying, Grows, kv, world, history
  <2> QED
    BY <2>1, <2>2, CarryingStep
<1>4. ASSUME NEW k \in Cmdr, ForgetMarker(k) PROVE Provenance'
  <2>1. TypeOK'
    BY <1>4, <1>t DEF ForgetMarker, TypeOK, kv, world, history
  <2>2. Carrying
    BY <1>4 DEF ForgetMarker, Provenance, Carrying, Grows, kv, world, history
  <2> QED
    BY <2>1, <2>2, CarryingStep
<1>5. ASSUME Tick PROVE Provenance'
  <2>1. TypeOK'
    BY <1>5, <1>t DEF Tick, TypeOK, kv, world, history
  <2>2. Carrying
    BY <1>5 DEF Tick, Provenance, Carrying, Grows, kv, world, history
  <2> QED
    BY <2>1, <2>2, CarryingStep
<1>6. ASSUME CacheExpires PROVE Provenance'
  <2>1. TypeOK'
    BY <1>6, <1>t DEF CacheExpires, TypeOK, kv, world, history
  <2>2. Carrying
    BY <1>6 DEF CacheExpires, Provenance, Carrying, Grows, kv, world, history
  <2> QED
    BY <2>1, <2>2, CarryingStep
<1>7. ASSUME NEW r \in Req, EditBust(r) PROVE Provenance'
  <2>1. TypeOK'
    BY <1>7, <1>t, <1>s DEF EditBust, End, TypeOK, kv, world, history
  <2>2. Carrying
    BY <1>7, <1>s, <1>i DEF EditBust, End, Provenance, Carrying, Grows, kv, world, history
  <2> QED
    BY <2>1, <2>2, CarryingStep
<1>8. ASSUME NEW r \in Req, WriteFails(r) PROVE Provenance'
  <2>1. TypeOK'
    BY <1>8, <1>t, <1>s DEF WriteFails, End, TypeOK, kv, world, history
  <2>2. Carrying
    BY <1>8, <1>s, <1>i DEF WriteFails, End, Provenance, Carrying, Grows, kv, world, history
  <2> QED
    BY <2>1, <2>2, CarryingStep
<1>9. ASSUME NEW r \in Req, NEW e \in post, EventRead(r, e) PROVE Provenance'
  <2> DEFINE q == [Idle EXCEPT !.event = e,
                     !.pc = IF e.action = "claim" THEN "event:put" ELSE "event:delete"]
  <2>1. UNCHANGED req \/ req' = [req EXCEPT ![r] = q]
    BY <1>9 DEF EventRead
  <2>2. e \in Event /\ e \in journal
    BY <1>t DEF TypeOK, Provenance
  <2>3. q \in Request
    BY <2>2 DEF Idle, Request, PC, EventPC, Event
  <2>4. Grows /\ post' \subseteq journal' /\ UNCHANGED <<journal, named, ledger, cache>>
    BY <1>9 DEF EventRead, Provenance, Grows, kv
  <2>5. Carried(q)'
    BY <2>2, <2>4 DEF Carried, Idle, EventPC, EditPC, Event
  <2>6. TypeOK'
    BY <1>9, <1>t, <1>s, <2>1, <2>2, <2>3 DEF EventRead, Hear, TypeOK, kv
  <2>7. Carrying
    BY <1>s, <2>1, <2>3, <2>4, <2>5 DEF Carrying
  <2> QED
    BY <2>6, <2>7, CarryingStep
<1>10. ASSUME NEW r \in Req, NEW k \in Cmdr, NEW s \in System, EditRead(r, k, s) PROVE Provenance'
  <2>1. PICK rec \in Got(ledger[s]), pc \in EditPC :
          \E primary \in {"due", "done"} :
            /\ rec # None /\ rec.cmdr = k
            /\ req' = [req EXCEPT ![r] = [Idle EXCEPT !.pc = pc, !.sys = s, !.cmdr = k,
                          !.rec = [rec EXCEPT !.primary = primary]]]
    BY <1>10 DEF EditRead
  <2>2. PICK primary \in {"due", "done"} :
            /\ rec # None /\ rec.cmdr = k
            /\ req' = [req EXCEPT ![r] = [Idle EXCEPT !.pc = pc, !.sys = s, !.cmdr = k,
                          !.rec = [rec EXCEPT !.primary = primary]]]
    BY <2>1
  <2> DEFINE new == [rec EXCEPT !.primary = primary]
             q == [Idle EXCEPT !.pc = pc, !.sys = s, !.cmdr = k, !.rec = new]
  <2>3. rec = ledger[s] /\ rec \in Rec
    BY <1>t, <2>2 DEF Got, TypeOK
  <2>4. new \in Rec /\ new.cmdr = k /\ RowOf(s, new) = RowOf(s, rec)
    BY <2>2, <2>3 DEF Rec, RowOf
  <2>5. q \in Request
    BY <2>4 DEF Idle, Request, PC, EditPC
  <2>6. Grows /\ post' \subseteq journal' /\ UNCHANGED <<journal, named, ledger, cache>>
    BY <1>10 DEF EditRead, Provenance, Grows, kv, world, history
  <2>7. Proven(RowOf(s, new))
    BY <2>2, <2>3, <2>4 DEF Provenance, FirstParty
  <2>8. Proven(RowOf(s, new))'
    BY <2>6, <2>7, ProvenStays
  <2>9. Carried(q)'
    <3>1. q.pc = pc /\ q.sys = s /\ q.cmdr = k /\ q.rec = new /\ q.rows = {}
      BY DEF Idle
    <3>2. pc \notin EventPC
      BY DEF EventPC, EditPC
    <3> HIDE DEF q, new
    <3> QED
      BY <2>4, <2>8, <3>1, <3>2 DEF Carried, EventPC
  <2>10. TypeOK'
    BY <1>10, <1>t, <1>s, <2>2, <2>5 DEF EditRead, TypeOK, kv, world, history
  <2>11. Carrying
    BY <1>s, <2>2, <2>5, <2>6, <2>9 DEF Carrying
  <2> QED
    BY <2>10, <2>11, CarryingStep
<1>11. ASSUME NEW r \in Req, PollMiss(r) PROVE Provenance'
  <2> DEFINE q == [Idle EXCEPT !.pc = "hot:scan", !.now = clock, !.left = System]
  <2>1. q \in Request
    BY <1>t DEF TypeOK, Idle, Request, PC
  <2>2. Carried(q)'
    BY DEF Carried, Idle, EventPC, EditPC
  <2>3. TypeOK'
    BY <1>11, <1>t, <1>s, <2>1 DEF PollMiss, TypeOK, kv, world, history
  <2>4. Carrying
    BY <1>11, <1>s, <2>1, <2>2 DEF PollMiss, Provenance, Carrying, Grows, kv, world, history
  <2> QED
    BY <2>3, <2>4, CarryingStep
<1>12. ASSUME NEW r \in Req, NEW s \in System, PollScan(r, s) PROVE Provenance'
  <2>1. PICK rec \in Got(ledger[s]) :
          LET hot == {row \in {RowOf(s, rec) : q \in IF rec = None THEN {} ELSE {rec}} :
                          /\ rec.primary = "due"
                          /\ row.ts <= req[r].now
                          /\ req[r].now - row.ts <= Window}
          IN  req' = [req EXCEPT ![r].left = @ \ {s}, ![r].rows = @ \cup hot]
    BY <1>12 DEF PollScan
  <2>2. PICK hot :
          /\ hot \subseteq {RowOf(s, rec) : q \in IF rec = None THEN {} ELSE {rec}}
          /\ req' = [req EXCEPT ![r].left = @ \ {s}, ![r].rows = @ \cup hot]
    BY <2>1
  <2>3. rec # None => rec = ledger[s] /\ rec \in Rec
    BY <1>t DEF Got, TypeOK
  <2>4. \A row \in hot : row \in Row /\ Proven(row)
    BY <2>2, <2>3 DEF Provenance, FirstParty, RowOf, Row, Rec
  <2>5. req[r] \in Request /\ Carried(req[r]) /\ req[r].pc = "hot:scan"
    BY <1>12, <1>t DEF PollScan, TypeOK, Provenance
  <2> DEFINE q == [req[r] EXCEPT !.left = @ \ {s}, !.rows = @ \cup hot]
  <2>6. q \in Request /\ req' = [req EXCEPT ![r] = q]
    BY <1>t, <2>2, <2>4, <2>5 DEF Request, TypeOK
  <2>7. Grows /\ post' \subseteq journal' /\ UNCHANGED <<ledger, cache>>
    BY <1>12 DEF PollScan, Provenance, Grows, kv, world, history
  <2>8. Carried(q)
    <3>1. q.pc = "hot:scan" /\ q.rows = req[r].rows \cup hot
      BY <2>5 DEF Request
    <3> QED
      BY <2>4, <2>5, <3>1 DEF Carried, EventPC, EditPC
  <2>10. TypeOK'
    BY <1>12, <1>t, <1>s, <2>6 DEF PollScan, TypeOK, kv, world, history
  <2>11. Carrying
    BY <1>s, <2>6, <2>7, <2>8, CarriedStays DEF Carrying
  <2> QED
    BY <2>10, <2>11, CarryingStep
<1>13. ASSUME NEW r \in Req, PollPut(r) PROVE Provenance'
  <2>1. req[r] \in Request /\ \A row \in req[r].rows : Proven(row)
    BY <1>t DEF TypeOK, Provenance, Carried
  <2>2. cache' \in HotList /\ cache'.rows = req[r].rows
    BY <1>13, <2>1 DEF PollPut, HotList, Request
  <2>3. Grows /\ post' \subseteq journal' /\ UNCHANGED <<ledger, journal, named>>
    BY <1>13 DEF PollPut, Provenance, Grows, world, history
  <2>4. TypeOK'
    BY <1>13, <1>t, <1>s, <2>2 DEF PollPut, End, TypeOK, world, history
  <2>5. FirstParty'
    BY <2>1, <2>2, <2>3, ProvenStays DEF Provenance, FirstParty
  <2>6. \A x \in Req : req'[x] = req[x] \/ req'[x] = Idle
    BY <1>13, <1>s DEF PollPut, End
  <2>7. \A x \in Req : Carried(req[x])'
    BY <1>i, <2>3, <2>6, CarriedStays DEF Provenance
  <2> QED
    BY <2>3, <2>4, <2>5, <2>7 DEF Provenance
<1>14. ASSUME NEW r \in Req, EventPut(r) PROVE Provenance'
  <2>1. req[r].event \in journal /\ req[r].event \in Event /\ req[r].event.action = "claim"
    BY <1>14, <1>t DEF EventPut, Provenance, Carried, EventPC, TypeOK
  <2> DEFINE e == req[r].event
             new == [cmdr |-> e.cmdr, ts |-> e.ts, primary |-> "due"]
  <2>2. ledger' = [ledger EXCEPT ![e.sys] = new] /\ new \in Rec /\ e.sys \in System
    BY <1>14, <2>1 DEF EventPut, Event, Rec
  <2>3. Proven(RowOf(e.sys, new))
    BY <2>1 DEF Proven, RowOf
  <2>5. Grows /\ post' \subseteq journal' /\ cache' = cache
    BY <1>14 DEF EventPut, Provenance, Grows, world, history
  <2>6. \A row : Proven(row) => Proven(row)'
    BY <2>5, ProvenStays
  <2>7. TypeOK'
    BY <1>14, <1>t, <1>s, <2>1, <2>2 DEF EventPut, End, Hear, TypeOK, world
  <2>8. \A s \in System : ledger'[s] = ledger[s] \/ Sound(s, ledger[s])'
    BY <1>t, <2>2, <2>3, <2>6 DEF TypeOK, Sound
  <2>9. FirstParty'
    BY <2>5, <2>6, <2>8 DEF Provenance, FirstParty, Sound
  <2>10. \A x \in Req : req'[x] = req[x] \/ Carried(req[x])'
    BY <1>14, <1>s, <1>i DEF EventPut, End
  <2>11. \A x \in Req : Carried(req[x])'
    BY <2>5, <2>10, CarriedStays DEF Provenance
  <2> QED
    BY <2>5, <2>7, <2>9, <2>11 DEF Provenance
<1>15. ASSUME NEW r \in Req, EventDelete(r) PROVE Provenance'
  <2>1. req[r].event \in journal /\ req[r].event \in Event
    BY <1>15, <1>t DEF EventDelete, Provenance, Carried, EventPC, TypeOK
  <2>5. Grows /\ post' \subseteq journal' /\ cache' = cache
    BY <1>15 DEF EventDelete, Provenance, Grows, world, history
  <2>6. \A row : Proven(row) => Proven(row)'
    BY <2>5, ProvenStays
  <2>7. TypeOK'
    BY <1>15, <1>t, <1>s, <2>1 DEF EventDelete, End, Hear, Event, TypeOK, world
  <2>8. \A s \in System : ledger'[s] = ledger[s] \/ Sound(s, ledger[s])'
    BY <1>15, <1>t, <2>1 DEF EventDelete, TypeOK, Sound, Event
  <2>9. FirstParty'
    BY <2>5, <2>6, <2>8 DEF Provenance, FirstParty, Sound
  <2>10. \A x \in Req : req'[x] = req[x] \/ Carried(req[x])'
    BY <1>15, <1>s, <1>i DEF EventDelete, End
  <2>11. \A x \in Req : Carried(req[x])'
    BY <2>5, <2>10, CarriedStays DEF Provenance
  <2> QED
    BY <2>5, <2>7, <2>9, <2>11 DEF Provenance
<1>16. ASSUME NEW r \in Req, EditPut(r) PROVE Provenance'
  <2>1. /\ req[r].sys \in System /\ req[r].cmdr \in Cmdr /\ req[r].rec \in Rec
        /\ req[r].rec.cmdr = req[r].cmdr
        /\ Proven(RowOf(req[r].sys, req[r].rec))
        /\ req[r] \in Request /\ Carried(req[r])
    BY <1>16, <1>t DEF EditPut, Provenance, Carried, EditPC, TypeOK
  <2> DEFINE q == [req[r] EXCEPT !.pc = "edit:bust"]
  <2>2. q \in Request /\ req' = [req EXCEPT ![r] = q]
    BY <1>16, <1>t, <2>1 DEF EditPut, TypeOK, Request, PC
  <2>3. Carried(q)
    BY <2>1 DEF Carried, Request, EventPC, EditPC
  <2>4. ledger' = [ledger EXCEPT ![req[r].sys] = req[r].rec]
    BY <1>16, <2>1 DEF EditPut, Rec
  <2>5. Grows /\ post' \subseteq journal' /\ cache' = cache
    BY <1>16 DEF EditPut, Provenance, Grows, world, history
  <2>6. \A row : Proven(row) => Proven(row)'
    BY <2>5, ProvenStays
  <2>7. TypeOK'
    BY <1>16, <1>t, <1>s, <2>1, <2>2, <2>4 DEF EditPut, RowOf, Row, Rec, TypeOK, world
  <2>8. \A s \in System : ledger'[s] = ledger[s] \/ Sound(s, ledger[s])'
    BY <1>t, <2>1, <2>4, <2>6 DEF TypeOK, Sound
  <2>9. FirstParty'
    BY <2>5, <2>6, <2>8 DEF Provenance, FirstParty, Sound
  <2>10. \A x \in Req : req'[x] = req[x] \/ Carried(req[x])'
    BY <1>s, <2>2, <2>3, <2>5, CarriedStays
  <2>11. \A x \in Req : Carried(req[x])'
    BY <2>5, <2>10, CarriedStays DEF Provenance
  <2> QED
    BY <2>5, <2>7, <2>9, <2>11 DEF Provenance
<1>17. ASSUME NEW r \in Req, EditDelete(r) PROVE Provenance'
  <2>1. /\ req[r].sys \in System /\ req[r].cmdr \in Cmdr /\ req[r].rec \in Rec
        /\ req[r].rec.cmdr = req[r].cmdr
        /\ Proven(RowOf(req[r].sys, req[r].rec))
        /\ req[r] \in Request /\ Carried(req[r])
    BY <1>17, <1>t DEF EditDelete, Provenance, Carried, EditPC, TypeOK
  <2> DEFINE q == [req[r] EXCEPT !.pc = "edit:bust"]
  <2>2. q \in Request /\ req' = [req EXCEPT ![r] = q]
    BY <1>17, <1>t, <2>1 DEF EditDelete, TypeOK, Request, PC
  <2>3. Carried(q)
    BY <2>1 DEF Carried, Request, EventPC, EditPC
  <2>5. Grows /\ post' \subseteq journal' /\ cache' = cache
    BY <1>17 DEF EditDelete, Provenance, Grows, world, history
  <2>6. \A row : Proven(row) => Proven(row)'
    BY <2>5, ProvenStays
  <2>7. TypeOK'
    BY <1>17, <1>t, <1>s, <2>1, <2>2 DEF EditDelete, RowOf, Row, Rec, TypeOK, world
  <2>8. \A s \in System : ledger'[s] = ledger[s] \/ Sound(s, ledger[s])'
    BY <1>17, <1>t, <2>1 DEF EditDelete, TypeOK, Sound
  <2>9. FirstParty'
    BY <2>5, <2>6, <2>8 DEF Provenance, FirstParty, Sound
  <2>10. \A x \in Req : req'[x] = req[x] \/ Carried(req[x])'
    BY <1>s, <2>2, <2>3, <2>5, CarriedStays
  <2>11. \A x \in Req : Carried(req[x])'
    BY <2>5, <2>10, CarriedStays DEF Provenance
  <2> QED
    BY <2>5, <2>7, <2>9, <2>11 DEF Provenance
<1>18. ASSUME NEW r \in Req, NEW s \in System, AdminDelete(r, s) PROVE Provenance'
  <2>5. Grows /\ post' \subseteq journal' /\ cache' = cache
    BY <1>18 DEF AdminDelete, Provenance, Grows, world, history
  <2>6. \A row : Proven(row) => Proven(row)'
    BY <2>5, ProvenStays
  <2>7. TypeOK'
    BY <1>18, <1>t DEF AdminDelete, TypeOK, world
  <2>8. \A z \in System : ledger'[z] = ledger[z] \/ Sound(z, ledger[z])'
    BY <1>18, <1>t DEF AdminDelete, TypeOK, Sound
  <2>9. FirstParty'
    BY <2>5, <2>6, <2>8 DEF Provenance, FirstParty, Sound
  <2>10. \A x \in Req : req'[x] = req[x] \/ Carried(req[x])'
    BY <1>18 DEF AdminDelete
  <2>11. \A x \in Req : Carried(req[x])'
    BY <2>5, <2>10, CarriedStays DEF Provenance
  <2> QED
    BY <2>5, <2>7, <2>9, <2>11 DEF Provenance
<1>19. ASSUME NEW r \in Req, NEW k \in Cmdr, NEW s \in System, AdminPut(r, k, s) PROVE Provenance'
  <2>1. PICK t \in Time : t = clock + 1 /\ clock' = t
    BY <1>19, <1>t DEF AdminPut, TypeOK, Time
  <2> DEFINE new == [cmdr |-> k, ts |-> t, primary |-> "due"]
             row == [sys |-> s, cmdr |-> k, ts |-> t]
             e == [action |-> "claim", sys |-> s, cmdr |-> k, ts |-> t]
  <2>2. new \in Rec /\ row \in Row /\ e \in Event
    BY DEF Rec, Row, Event
  <2>3. ledger' = [ledger EXCEPT ![s] = new] /\ row \in named' /\ RowOf(s, new) = row
    BY <1>19, <2>1 DEF AdminPut, RowOf
  <2>4. Proven(RowOf(s, new))'
    BY <2>3 DEF Proven, RowOf
  <2>5. Grows /\ post' \subseteq journal' /\ cache' = cache
    BY <1>19 DEF AdminPut, Provenance, Grows, world, history
  <2>6. \A q : Proven(q) => Proven(q)'
    BY <2>5, ProvenStays
  <2>7. TypeOK'
    BY <1>19, <1>t, <2>1, <2>2, <2>3 DEF AdminPut, Hear, TypeOK
  <2>8. \A z \in System : ledger'[z] = ledger[z] \/ Sound(z, ledger[z])'
    BY <1>t, <2>3, <2>4 DEF TypeOK, Sound
  <2>9. FirstParty'
    BY <2>5, <2>6, <2>8 DEF Provenance, FirstParty, Sound
  <2>10. \A x \in Req : req'[x] = req[x] \/ Carried(req[x])'
    BY <1>19 DEF AdminPut
  <2>11. \A x \in Req : Carried(req[x])'
    BY <2>5, <2>10, CarriedStays DEF Provenance
  <2> QED
    BY <2>5, <2>7, <2>9, <2>11 DEF Provenance
<1>20. CASE UNCHANGED vars
  <2>1. TypeOK'
    BY <1>20, <1>t DEF vars, TypeOK
  <2>2. Carrying
    BY <1>20 DEF vars, Provenance, Carrying, Grows
  <2> QED
    BY <2>1, <2>2, CarryingStep
<1> QED
  BY <1>1, <1>2, <1>3, <1>4, <1>5, <1>6, <1>7, <1>8, <1>9, <1>10,
     <1>11, <1>12, <1>13, <1>14, <1>15, <1>16, <1>17, <1>18, <1>19,
     <1>20
    DEF Next, Plugins, Handlers

(* Provenance is an invariant of the ledger, the cache and every handler.   *)
THEOREM ProvenanceHolds == Spec => []Provenance
<1>1. Init => Provenance
  BY ClaimsAssumption, IdleOK DEF Init, Provenance, TypeOK, FirstParty
<1> QED
  BY <1>1, ProvenanceInductive, PTL DEF Spec

(* Every variable keeps its type.                                           *)
THEOREM LedgerTypeCorrect == Spec => []TypeOK
  BY ProvenanceHolds, PTL DEF Provenance

(* The ledger and the hot list only ever name architects their own journal  *)
(* or an admin named, with that claim's own time: no interleaving of events,*)
(* edits and scans mixes two records (claim.js:3-5, my-claims.js:104-108).  *)
THEOREM AttributionsProven == Spec => []FirstParty
  BY ProvenanceHolds, PTL DEF Provenance

-----------------------------------------------------------------------------
(* Calm histories: handlers do not overlap and the KV store does not fail.  *)
(*                                                                          *)
(* What the board was told of s, or will be: the events it heard, and those *)
(* in the journals.                                                         *)
Told(s) == heard[s] \cup {e \in journal : e.sys = s}

(* Events are told apart by their times, and nothing is later than now.     *)
Dated ==
    /\ \A s \in System : \A e \in Told(s) : e.sys = s /\ e.ts <= clock
    /\ \A s \in System : \A e, f \in Told(s) : e.ts = f.ts => e = f
    /\ \A row \in settled : row.ts <= clock

(* The ledger holds the claim e of system s.                                *)
Holds(s, e) == ledger[s] # None /\ ledger[s].cmdr = e.cmdr /\ ledger[s].ts = e.ts

(* NewestClaimStands, and its converse: a record is of a claim that was     *)
(* heard, so an event it drops is older than one that was.                  *)
LatestOf(s) ==
    /\ \A e \in Newest(s) : e.action = "claim" => Holds(s, e)
    /\ ledger[s] # None => \E e \in heard[s] : e.action = "claim" /\ Holds(s, e)

Latest == \A s \in System : LatestOf(s)

(* A record that is due is not among the rows its architect settled.        *)
Live == \A s \in System : ledger[s] # None /\ ledger[s].primary = "due" =>
            RowOf(s, ledger[s]) \notin settled

(* What a handler in flight has read is still so.                           *)
Underway(q) ==
    /\ q.pc \in EventPC => ledger[q.event.sys] = None \/ ledger[q.event.sys].ts <= q.event.ts
    /\ q.pc = "event:delete" => q.event.action = "release"
    /\ q.pc \in EditPC => /\ ledger[q.sys] # None
                          /\ ledger[q.sys].cmdr = q.rec.cmdr
                          /\ ledger[q.sys].ts = q.rec.ts
    /\ q.pc = "hot:scan" => \A row \in q.rows : row \notin settled

Alone == \A r, q \in Req : r # q => req[r].pc = "idle" \/ req[q].pc = "idle"

Orderly == Alone /\ Dated /\ Latest /\ Live /\ HotReflectsEdits /\ \A r \in Req : Underway(req[r])

Books == Provenance /\ (calm => Orderly)

(* Steps that write no record and settle nothing keep Latest and Live.      *)
LEMMA RecordsStand == UNCHANGED <<ledger, heard, settled>> =>
                        (Latest => Latest') /\ (Live => Live') /\ \A q : Underway(q) => Underway(q)'
  BY DEF Latest, LatestOf, Newest, Holds, Live, Underway

(* A handler moves in its own slot; the others are idle.                    *)
LEMMA SlotStep ==
  ASSUME NEW r \in Req, NEW q, TypeOK, calm, calm', MayRun(r),
         req' = [req EXCEPT ![r] = q],
         Dated', Latest', Live', Underway(q)',
         \A row \in settled' : \/ cache' = None \/ row \notin cache'.rows
                               \/ q.pc = "edit:bust" /\ q.sys = row.sys
  PROVE  Orderly'
<1>1. req'[r] = q /\ \A x \in Req \ {r} : req'[x] = req[x] /\ req'[x].pc = "idle"
  BY DEF TypeOK, MayRun
<1>2. Alone'
  BY <1>1 DEF Alone
<1>3. \A x \in Req : Underway(req[x])'
  BY <1>1 DEF Underway, EventPC, EditPC
<1>4. HotReflectsEdits'
  BY <1>1 DEF HotReflectsEdits
<1> QED
  BY <1>2, <1>3, <1>4 DEF Orderly

(* Unless an edit is about to bust it, the cache shows nothing settled.     *)
LEMMA CacheClean ==
  ASSUME NEW r \in Req, calm, MayRun(r), HotReflectsEdits, req[r].pc # "edit:bust"
  PROVE  \A row \in settled : cache = None \/ row \notin cache.rows
<1>1. \A x \in Req : req[x].pc # "edit:bust"
  BY DEF MayRun
<1> QED
  BY <1>1 DEF HotReflectsEdits

(* Nothing but the journal, the clock and an expiring cache moves.          *)
LEMMA WorldStep ==
  ASSUME TypeOK, Orderly, calm' = calm, UNCHANGED <<ledger, req, heard, settled>>,
         cache' = cache \/ cache' = None, Dated'
  PROVE  Orderly'
<1>1. Latest' /\ Live' /\ \A r \in Req : Underway(req[r])'
  BY RecordsStand DEF Orderly
<1>2. Alone' /\ HotReflectsEdits'
  BY DEF Orderly, Alone, HotReflectsEdits
<1> QED
  BY <1>1, <1>2 DEF Orderly

(* A handler that only reads: it keeps the books whatever it read.          *)
LEMMA ReadStep ==
  ASSUME NEW r \in Req, NEW q, TypeOK, Orderly, calm, calm', MayRun(r),
         req[r].pc # "edit:bust",
         req' = [req EXCEPT ![r] = q], Underway(q),
         UNCHANGED <<clock, journal, ledger, cache, heard, settled>>
  PROVE  Orderly'
<1>1. Dated' /\ Latest' /\ Live' /\ Underway(q)'
  BY RecordsStand DEF Orderly, Dated, Told
<1>2. \A row \in settled : cache = None \/ row \notin cache.rows
  BY CacheClean DEF Orderly
<1> QED
  BY <1>1, <1>2, SlotStep


(* The world's own steps: a new event is the first at its time.             *)
LEMMA WorldSteps ==
  ASSUME Books, calm, calm' = calm,
         \/ \E e \in Event : Happens(e)
         \/ \E e \in post : PostLost(e)
         \/ \E k \in Cmdr : Backfill(k) \/ ForgetMarker(k)
         \/ CacheExpires
         \/ Tick
         \/ UNCHANGED vars
  PROVE  Orderly'
<1>t. TypeOK /\ Orderly /\ Dated
  BY DEF Books, Provenance, Orderly
<1>1. UNCHANGED <<ledger, req, heard, settled>> /\ (cache' = cache \/ cache' = None)
  BY DEF Happens, PostLost, Backfill, ForgetMarker, CacheExpires, Tick, vars, kv, world, history
<1>2. ASSUME NEW e \in Event, Happens(e) PROVE Dated'
  <2>1. e.ts = clock + 1 /\ clock' = clock + 1 /\ clock \in Nat /\ journal' = journal \cup {e}
    BY <1>2, <1>t DEF Happens, TypeOK
  <2>2. \A s \in System : \A f \in Told(s)' : f.sys = s /\ (f = e \/ f \in Told(s))
    BY <1>1, <1>t, <2>1 DEF Told, Dated
  <2>3. \A s \in System : \A f \in Told(s) : f.ts \in Nat /\ f.ts <= clock
    BY <1>t DEF Told, TypeOK, Event, Time, Dated
  <2>4. \A row \in settled : row.ts \in Nat /\ row.ts <= clock
    BY <1>t DEF TypeOK, Row, Time, Dated
  <2>5. \A s \in System : \A f \in Told(s)' : f.ts <= clock'
    BY <2>1, <2>2, <2>3
  <2>6. \A s \in System : \A f, g \in Told(s)' : f.ts = g.ts => f = g
    BY <1>t, <2>1, <2>2, <2>3 DEF Dated
  <2>7. \A row \in settled' : row.ts <= clock'
    BY <1>1, <2>1, <2>4
  <2> QED
    BY <2>2, <2>5, <2>6, <2>7 DEF Dated
<1>3. ASSUME Tick PROVE Dated'
  <2>1. clock \in Nat /\ clock' = clock + 1 /\ journal' = journal
    BY <1>3, <1>t DEF Tick, TypeOK
  <2>2. \A s \in System : \A f \in Told(s) : f.ts \in Nat
    BY <1>t DEF Told, TypeOK, Event, Time
  <2>3. \A row \in settled : row.ts \in Nat
    BY <1>t DEF TypeOK, Row, Time
  <2>4. \A s \in System : Told(s)' = Told(s)
    BY <1>1, <2>1 DEF Told
  <2> QED
    BY <1>1, <1>t, <2>1, <2>2, <2>3, <2>4 DEF Dated
<1>4. ASSUME UNCHANGED <<clock, journal>> PROVE Dated'
  BY <1>1, <1>4, <1>t DEF Dated, Told
<1>5. Dated'
  BY <1>2, <1>3, <1>4 DEF PostLost, Backfill, ForgetMarker, CacheExpires, world, vars
<1> QED
  BY <1>t, <1>1, <1>5, WorldStep

(* Handlers that only read: what they have read is so, as no other runs.    *)
LEMMA ReadSteps ==
  ASSUME Books, calm, calm' = calm, NEW r \in Req, MayRun(r),
         \/ \E k \in Cmdr, s \in System : EditRead(r, k, s)
         \/ PollMiss(r)
         \/ \E s \in System : PollScan(r, s)
  PROVE  Orderly'
<1>t. TypeOK /\ Orderly /\ calm' /\ Live
  BY DEF Books, Provenance, Orderly
<1>1. ASSUME NEW k \in Cmdr, NEW s \in System, EditRead(r, k, s) PROVE Orderly'
  <2>1. PICK rec \in Got(ledger[s]), pc \in EditPC :
          \E primary \in {"due", "done"} :
            /\ rec # None /\ rec.cmdr = k
            /\ req' = [req EXCEPT ![r] = [Idle EXCEPT !.pc = pc, !.sys = s, !.cmdr = k,
                          !.rec = [rec EXCEPT !.primary = primary]]]
    BY <1>1 DEF EditRead
  <2>2. PICK primary \in {"due", "done"} :
            /\ rec # None /\ rec.cmdr = k
            /\ req' = [req EXCEPT ![r] = [Idle EXCEPT !.pc = pc, !.sys = s, !.cmdr = k,
                          !.rec = [rec EXCEPT !.primary = primary]]]
    BY <2>1
  <2>3. rec = ledger[s] /\ rec \in Rec
    BY <1>t, <2>2 DEF Got, TypeOK
  <2>4. PICK new : new = [rec EXCEPT !.primary = primary]
    OBVIOUS
  <2>5. new.cmdr = rec.cmdr /\ new.ts = rec.ts
    BY <2>3, <2>4 DEF Rec
  <2>6. PICK q : q = [Idle EXCEPT !.pc = pc, !.sys = s, !.cmdr = k, !.rec = new]
    OBVIOUS
  <2>7. q.pc = pc /\ q.sys = s /\ q.rec = new /\ req' = [req EXCEPT ![r] = q]
    BY <2>2, <2>4, <2>6 DEF Idle
  <2>8. Underway(q)
    BY <2>2, <2>3, <2>5, <2>7 DEF Underway, EventPC, EditPC
  <2>9. req[r].pc # "edit:bust" /\ UNCHANGED <<clock, journal, ledger, cache, heard, settled>>
    BY <1>1 DEF EditRead, world, kv, history
  <2> QED
    BY <1>t, <2>7, <2>8, <2>9, ReadStep
<1>2. ASSUME PollMiss(r) PROVE Orderly'
  <2>1. PICK q : q = [Idle EXCEPT !.pc = "hot:scan", !.now = clock, !.left = System]
    OBVIOUS
  <2>2. q.pc = "hot:scan" /\ q.rows = {} /\ req' = [req EXCEPT ![r] = q]
    BY <1>2, <2>1 DEF PollMiss, Idle
  <2>3. Underway(q)
    BY <2>2 DEF Underway, EventPC, EditPC
  <2>4. req[r].pc # "edit:bust" /\ UNCHANGED <<clock, journal, ledger, cache, heard, settled>>
    BY <1>2 DEF PollMiss, world, kv, history
  <2> QED
    BY <1>t, <2>2, <2>3, <2>4, ReadStep
<1>3. ASSUME NEW s \in System, PollScan(r, s) PROVE Orderly'
  <2>1. PICK rec \in Got(ledger[s]) :
          LET hot == {row \in {RowOf(s, rec) : q \in IF rec = None THEN {} ELSE {rec}} :
                          /\ rec.primary = "due"
                          /\ row.ts <= req[r].now
                          /\ req[r].now - row.ts <= Window}
          IN  req' = [req EXCEPT ![r].left = @ \ {s}, ![r].rows = @ \cup hot]
    BY <1>3 DEF PollScan
  <2>2. PICK hot :
          /\ hot \subseteq {row \in {RowOf(s, rec)} : rec # None /\ rec.primary = "due"}
          /\ req' = [req EXCEPT ![r].left = @ \ {s}, ![r].rows = @ \cup hot]
    BY <2>1
  <2>3. rec = ledger[s]
    BY DEF Got
  <2>4. \A row \in hot : row \notin settled
    BY <1>t, <2>2, <2>3 DEF Live
  <2>5. req[r] \in Request /\ Underway(req[r]) /\ req[r].pc = "hot:scan"
    BY <1>3, <1>t DEF PollScan, TypeOK, Orderly
  <2>6. PICK q : q = [req[r] EXCEPT !.left = @ \ {s}, !.rows = @ \cup hot]
    OBVIOUS
  <2>7. req' = [req EXCEPT ![r] = q] /\ q.pc = "hot:scan" /\ q.rows = req[r].rows \cup hot
    BY <1>t, <2>2, <2>5, <2>6 DEF TypeOK, Request
  <2>8. Underway(q)
    BY <2>4, <2>5, <2>7 DEF Underway, EventPC, EditPC
  <2>9. req[r].pc # "edit:bust" /\ UNCHANGED <<clock, journal, ledger, cache, heard, settled>>
    BY <1>3 DEF PollScan, world, kv, history
  <2> QED
    BY <1>t, <2>7, <2>8, <2>9, ReadStep
<1> QED
  BY <1>1, <1>2, <1>3


(* Handlers that answer and are done, or that write the cache.              *)
LEMMA AnswerSteps ==
  ASSUME Books, calm, calm' = calm, NEW r \in Req, MayRun(r),
         EditBust(r) \/ PollPut(r) \/ WriteFails(r)
  PROVE  Orderly'
<1>t. TypeOK /\ Orderly /\ calm' /\ Dated /\ Latest /\ Live
  BY DEF Books, Provenance, Orderly
<1>1. UNCHANGED <<clock, journal, ledger, heard, settled>> /\ req' = [req EXCEPT ![r] = Idle]
  BY DEF EditBust, PollPut, WriteFails, End, world, kv, history
<1>2. PICK q : q = Idle
  OBVIOUS
<1>3. Dated' /\ Latest' /\ Live'
  BY <1>t, <1>1, RecordsStand DEF Dated, Told
<1>4. Underway(q)'
  BY <1>2 DEF Underway, Idle, EventPC, EditPC
<1>5. CASE EditBust(r)
  BY <1>t, <1>1, <1>2, <1>3, <1>4, <1>5, SlotStep DEF EditBust
<1>6. CASE PollPut(r)
  <2>1. req[r].pc = "hot:scan" /\ Underway(req[r]) /\ cache'.rows = req[r].rows
    BY <1>6, <1>t DEF PollPut, Orderly
  <2>2. \A row \in settled' : row \notin cache'.rows
    BY <1>1, <2>1 DEF Underway
  <2> QED
    BY <1>t, <1>1, <1>2, <1>3, <1>4, <2>2, SlotStep
<1> QED
  BY <1>5, <1>6 DEF WriteFails

(* A step that writes the record of one system and what was heard of it     *)
(* leaves the other systems as they were.                                   *)
LEMMA OneSystem ==
  ASSUME NEW s \in System, TypeOK, Latest,
         NEW rec, ledger' = [ledger EXCEPT ![s] = rec],
         NEW told, heard' = [heard EXCEPT ![s] = told],
         LatestOf(s)'
  PROVE  Latest'
<1>1. \A z \in System \ {s} : ledger'[z] = ledger[z] /\ heard'[z] = heard[z]
  BY DEF TypeOK
<1>2. \A z \in System \ {s} : LatestOf(z)'
  BY <1>1 DEF Latest, LatestOf, Newest, Holds
<1> QED
  BY <1>2 DEF Latest

(* The ledger's record is no later than now.                                *)
LEMMA RecordDated ==
  ASSUME TypeOK, Orderly, NEW s \in System, ledger[s] # None
  PROVE  ledger[s].ts <= clock
  BY DEF TypeOK, Orderly, Latest, LatestOf, Holds, Dated, Told

(* An event that is heard is one of those told of its system already, so    *)
(* the times of what is told stay as they are.                              *)
LEMMA HearingDated ==
  ASSUME TypeOK, Dated, NEW e \in journal, Hear(e), UNCHANGED <<clock, journal>>,
         \A row \in settled' : row.ts <= clock
  PROVE  Dated'
<1>1. e \in Event /\ e.sys \in System
  BY DEF TypeOK, Event
<1>2. \A s \in System : Told(s)' = Told(s)
  BY <1>1 DEF Told, Hear, TypeOK
<1> QED
  BY <1>2 DEF Dated

(* An event in flight is applied: what it finds in the ledger is not newer. *)
LEMMA EventStands ==
  ASSUME TypeOK, Dated, Latest, NEW e \in journal,
         ledger[e.sys] = None \/ ledger[e.sys].ts <= e.ts,
         NEW rec, ledger' = [ledger EXCEPT ![e.sys] = rec],
         heard' = [heard EXCEPT ![e.sys] = @ \cup {e}],
         IF e.action = "claim" THEN rec # None /\ rec.cmdr = e.cmdr /\ rec.ts = e.ts
                               ELSE rec = None
  PROVE  Latest'
<1> DEFINE s == e.sys
<1>1. e \in Event /\ s \in System /\ e.ts \in Nat
  BY DEF TypeOK, Event, Time
<1>2. ledger'[s] = rec /\ heard'[s] = heard[s] \cup {e}
  BY <1>1 DEF TypeOK
<1>3. \A f \in heard[s] : f \in Event /\ f.ts \in Nat
  BY <1>1 DEF TypeOK, Event, Time
<1>4. \A f \in heard[s] : f.ts = e.ts => f = e
  BY <1>1 DEF Dated, Told
<1>5. ASSUME NEW n \in heard[s], n.action = "claim", \A f \in heard'[s] : f.ts <= n.ts
      PROVE  n = e
  <2>1. n \in Newest(s) /\ e.ts <= n.ts
    BY <1>2, <1>5 DEF Newest
  <2>2. Holds(s, n)
    BY <1>1, <1>5, <2>1 DEF Latest, LatestOf
  <2>3. n.ts = e.ts
    BY <1>1, <1>3, <2>1, <2>2 DEF Holds
  <2> QED
    BY <1>4, <2>3
<1>6. \A n \in Newest(s)' : n.action = "claim" => n = e
  BY <1>2, <1>5 DEF Newest
<1>7. LatestOf(s)'
  BY <1>2, <1>6 DEF LatestOf, Holds
<1> QED
  BY <1>1, <1>7, OneSystem


(* An event that is posted: an older one, or a release that finds nothing,  *)
(* is heard at once and changes no record.                                  *)
LEMMA EventReadStep ==
  ASSUME Books, calm, calm' = calm, NEW r \in Req, MayRun(r),
         NEW e \in post, EventRead(r, e)
  PROVE  Orderly'
<1>t. TypeOK /\ Orderly /\ calm' /\ Dated /\ Latest /\ Live /\ e \in journal
  BY DEF Books, Provenance, Orderly
<1>0. /\ UNCHANGED <<clock, journal, ledger, cache, settled>>
      /\ req[r].pc = "idle"
      /\ e \in Event /\ e.sys \in System /\ e.ts \in Nat
  BY <1>t DEF EventRead, kv, TypeOK, Event, Time
<1> DEFINE s == e.sys
<1>1. \/ /\ \/ ledger[s] # None /\ e.ts < ledger[s].ts
            \/ ledger[s] = None /\ e.action = "release"
         /\ Hear(e) /\ req' = req
      \/ /\ ledger[s] = None \/ (ledger[s] # None /\ e.ts >= ledger[s].ts)
         /\ heard' = heard
         /\ req' = [req EXCEPT ![r] = [Idle EXCEPT !.event = e,
                  !.pc = IF e.action = "claim" THEN "event:put" ELSE "event:delete"]]
  BY DEF EventRead, Got
<1>2. \A row \in settled : cache = None \/ row \notin cache.rows
  BY <1>t, <1>0, CacheClean DEF Orderly
<1>3. CASE /\ \/ ledger[s] # None /\ e.ts < ledger[s].ts
              \/ ledger[s] = None /\ e.action = "release"
           /\ Hear(e) /\ req' = req
  <2>1. Dated'
    BY <1>t, <1>0, <1>3, HearingDated DEF Dated
  <2>2. heard'[s] = heard[s] \cup {e} /\ heard' = [heard EXCEPT ![s] = heard[s] \cup {e}]
    BY <1>0, <1>3, <1>t DEF Hear, TypeOK
  <2>3. ASSUME NEW n \in heard'[s], n.action = "claim", \A f \in heard'[s] : f.ts <= n.ts
        PROVE  n \in Newest(s)
    <3>1. n # e
      <4>1. CASE ledger[s] = None /\ e.action = "release"
        BY <2>3, <4>1
      <4>2. CASE ledger[s] # None /\ e.ts < ledger[s].ts
        <5>1. PICK f \in heard[s] : Holds(s, f)
          BY <4>2, <1>0, <1>t DEF Latest, LatestOf
        <5>2. f.ts <= n.ts /\ f.ts \in Nat /\ f.ts > e.ts
          BY <1>0, <1>t, <2>2, <2>3, <4>2, <5>1 DEF Holds, TypeOK, Event, Time
        <5> QED
          BY <5>2, <1>0
      <4> QED
        BY <1>3, <4>1, <4>2
    <3> QED
      BY <2>2, <2>3, <3>1 DEF Newest
  <2>4. \A n \in Newest(s)' : n.action = "claim" => n \in Newest(s)
    BY <2>3 DEF Newest
  <2>5. LatestOf(s)'
    BY <1>0, <1>t, <2>2, <2>4 DEF Latest, LatestOf, Holds
  <2>6. ledger' = [ledger EXCEPT ![s] = ledger[s]]
    BY <1>0, <1>t DEF TypeOK
  <2>7. Latest'
    BY <1>0, <1>t, <2>2, <2>5, <2>6, OneSystem
  <2>8. PICK q : q = req[r]
    OBVIOUS
  <2>9. req' = [req EXCEPT ![r] = q] /\ q.pc = "idle"
    BY <1>0, <1>3, <1>t, <2>8 DEF TypeOK
  <2>10. Live' /\ Underway(q)'
    BY <1>0, <1>t, <2>9 DEF Live, Underway, EventPC, EditPC
  <2> QED
    BY <1>0, <1>2, <1>t, <2>1, <2>7, <2>9, <2>10, SlotStep
<1>4. CASE /\ ledger[s] = None \/ (ledger[s] # None /\ e.ts >= ledger[s].ts)
           /\ heard' = heard
           /\ req' = [req EXCEPT ![r] = [Idle EXCEPT !.event = e,
                    !.pc = IF e.action = "claim" THEN "event:put" ELSE "event:delete"]]
  <2>1. PICK q : q = [Idle EXCEPT !.event = e,
                         !.pc = IF e.action = "claim" THEN "event:put" ELSE "event:delete"]
    OBVIOUS
  <2>2. q.event = e /\ q.pc = IF e.action = "claim" THEN "event:put" ELSE "event:delete"
    BY <2>1 DEF Idle
  <2>3. req' = [req EXCEPT ![r] = q]
    BY <1>4, <2>1
  <2>4. ledger[s] # None => ledger[s].ts \in Nat
    BY <1>0, <1>t DEF TypeOK, Rec, Time
  <2>5. ledger[s] = None \/ ledger[s].ts <= e.ts
    BY <1>0, <1>4, <2>4
  <2>6. Underway(q)
    BY <1>0, <2>2, <2>5 DEF Underway, EventPC, EditPC, Event
  <2> QED
    BY <1>0, <1>4, <1>t, <2>3, <2>6, ReadStep
<1> QED
  BY <1>1, <1>3, <1>4

(* An event that is applied.                                                *)
LEMMA EventWriteStep ==
  ASSUME Books, calm, calm' = calm, NEW r \in Req, MayRun(r),
         EventPut(r) \/ EventDelete(r)
  PROVE  Orderly'
<1>t. TypeOK /\ Orderly /\ calm' /\ Dated /\ Latest /\ Live /\ Underway(req[r]) /\ Carried(req[r])
  BY DEF Books, Provenance, Orderly
<1>1. PICK e : e = req[r].event
  OBVIOUS
<1>0. /\ UNCHANGED <<clock, journal, cache>> /\ Hear(e)
      /\ req' = [req EXCEPT ![r] = Idle]
      /\ req[r].pc \in EventPC /\ e \in journal
      /\ ledger[e.sys] = None \/ ledger[e.sys].ts <= e.ts
  BY <1>1, <1>t DEF EventPut, EventDelete, End, world, Carried, Underway, EventPC
<1>2. e \in Event /\ e.sys \in System /\ e.ts \in Nat
  BY <1>0, <1>t DEF TypeOK, Event, Time
<1>3. PICK q : q = Idle
  OBVIOUS
<1>4. Underway(q)'
  BY <1>3 DEF Underway, Idle, EventPC, EditPC
<1>5. \A row \in settled : cache = None \/ row \notin cache.rows
  BY <1>t, <1>0, CacheClean DEF Orderly, EventPC
<1>6. settled' \subseteq settled
  BY DEF EventPut, EventDelete
<1>7. Dated'
  BY <1>t, <1>0, <1>6, HearingDated DEF Dated
<1>8. CASE EventPut(r)
  <2>1. PICK rec : rec = [cmdr |-> e.cmdr, ts |-> e.ts, primary |-> "due"]
    OBVIOUS
  <2>2. /\ ledger' = [ledger EXCEPT ![e.sys] = rec]
        /\ settled' = settled \ {RowOf(e.sys, rec)}
        /\ e.action = "claim"
    BY <1>8, <1>1, <1>t, <2>1 DEF EventPut, Carried
  <2>3. rec # None
    BY <1>2, <2>1, ClaimsAssumption DEF Rec, Event
  <2>4. Latest'
    BY <1>0, <1>t, <2>1, <2>2, <2>3, EventStands DEF Hear
  <2>5. Live'
    BY <1>t, <1>2, <2>2, <2>3 DEF Live, TypeOK, RowOf
  <2> QED
    BY <1>0, <1>3, <1>4, <1>5, <1>6, <1>7, <1>t, <2>4, <2>5, SlotStep
<1>9. CASE EventDelete(r)
  <2>2. /\ ledger' = [ledger EXCEPT ![e.sys] = None]
        /\ settled' = settled
        /\ e.action = "release"
    BY <1>9, <1>1, <1>t DEF EventDelete, Underway
  <2>4. Latest'
    BY <1>0, <1>t, <2>2, EventStands DEF Hear
  <2>5. Live'
    BY <1>t, <1>2, <2>2 DEF Live, TypeOK, RowOf
  <2> QED
    BY <1>0, <1>3, <1>4, <1>5, <1>6, <1>7, <1>t, <2>4, <2>5, SlotStep
<1> QED
  BY <1>8, <1>9


(* An architect's edit, written and answered.                               *)
LEMMA EditWriteStep ==
  ASSUME Books, calm, calm' = calm, NEW r \in Req, MayRun(r),
         EditPut(r) \/ EditDelete(r)
  PROVE  Orderly'
<1>t. TypeOK /\ Orderly /\ calm' /\ Dated /\ Latest /\ Live /\ Underway(req[r]) /\ Carried(req[r])
  BY DEF Books, Provenance, Orderly
<1>1. PICK s, rec : s = req[r].sys /\ rec = req[r].rec
  OBVIOUS
<1>2. /\ UNCHANGED <<clock, journal, cache>>
      /\ req[r].pc \in EditPC
      /\ s \in System /\ rec \in Rec /\ req[r].cmdr = rec.cmdr
      /\ ledger[s] # None /\ ledger[s].cmdr = rec.cmdr /\ ledger[s].ts = rec.ts
  BY <1>1, <1>t DEF EditPut, EditDelete, world, Carried, Underway, EditPC
<1>3. PICK row : row = RowOf(s, rec)
  OBVIOUS
<1>4. row.sys = s /\ row.ts <= clock /\ row = RowOf(s, ledger[s])
  BY <1>2, <1>3, <1>t, RecordDated DEF RowOf
<1>5. PICK q : q = [req[r] EXCEPT !.pc = "edit:bust"]
  OBVIOUS
<1>6. req' = [req EXCEPT ![r] = q] /\ q.pc = "edit:bust" /\ q.sys = s
  BY <1>1, <1>5, <1>t DEF EditPut, EditDelete, TypeOK, Request
<1>7. Underway(q)'
  BY <1>6 DEF Underway, EventPC, EditPC
<1>8. \A x \in settled : cache = None \/ x \notin cache.rows
  BY <1>t, <1>2, CacheClean DEF Orderly, EditPC
<1>9. settled' \subseteq settled \cup {row}
  BY <1>1, <1>3 DEF EditPut, EditDelete
<1>10. \A x \in settled' : \/ cache' = None \/ x \notin cache'.rows
                           \/ q.pc = "edit:bust" /\ q.sys = x.sys
  BY <1>2, <1>4, <1>6, <1>8, <1>9
<1>11. CASE EditPut(r)
  <2>1. /\ ledger' = [ledger EXCEPT ![s] = rec]
        /\ settled' = IF rec.primary = "done" THEN settled \cup {row} ELSE settled \ {row}
        /\ heard' = heard
    BY <1>1, <1>2, <1>3, <1>11 DEF EditPut, Rec
  <2>2. heard' = [heard EXCEPT ![s] = heard[s]]
    BY <2>1, <1>t DEF TypeOK
  <2>3. ledger'[s] = rec /\ rec # None /\ rec.primary \in {"due", "done"}
    BY <1>2, <1>t, <2>1, ClaimsAssumption DEF TypeOK, Rec
  <2>4. LatestOf(s)'
    BY <1>2, <1>t, <2>1, <2>3 DEF Latest, LatestOf, Newest, Holds
  <2>5. Latest'
    BY <1>2, <1>t, <2>1, <2>2, <2>4, OneSystem
  <2>6. Live'
    BY <1>2, <1>3, <1>t, <2>1, <2>3 DEF Live, TypeOK, RowOf
  <2>7. Dated'
    BY <1>2, <1>4, <1>9, <1>t, <2>1 DEF Dated, Told
  <2> QED
    BY <1>6, <1>7, <1>10, <1>t, <2>5, <2>6, <2>7, SlotStep
<1>12. CASE EditDelete(r)
  <2>1. /\ ledger' = [ledger EXCEPT ![s] = None]
        /\ settled' = settled \cup {row}
        /\ heard' = [heard EXCEPT ![s] = {}]
    BY <1>1, <1>3, <1>12 DEF EditDelete
  <2>2. ledger'[s] = None /\ heard'[s] = {}
    BY <1>2, <1>t, <2>1 DEF TypeOK
  <2>4. LatestOf(s)'
    BY <2>2 DEF LatestOf, Newest
  <2>5. Latest'
    BY <1>2, <1>t, <2>1, <2>4, OneSystem
  <2>6. Live'
    BY <1>2, <1>3, <1>t, <2>1 DEF Live, TypeOK, RowOf
  <2>7. Dated'
    BY <1>2, <1>4, <1>9, <1>t, <2>1 DEF Dated, Told, TypeOK
  <2> QED
    BY <1>6, <1>7, <1>10, <1>t, <2>5, <2>6, <2>7, SlotStep
<1> QED
  BY <1>11, <1>12

(* An admin's correction is the first claim of its time; a deletion forgets *)
(* what was heard.                                                          *)
LEMMA AdminSteps ==
  ASSUME Books, calm, calm' = calm, NEW r \in Req, MayRun(r), NEW s \in System,
         AdminDelete(r, s) \/ \E k \in Cmdr : AdminPut(r, k, s)
  PROVE  Orderly'
<1>t. TypeOK /\ Orderly /\ calm' /\ Dated /\ Latest /\ Live /\ clock \in Nat
  BY DEF Books, Provenance, Orderly, TypeOK
<1>1. req[r].pc = "idle" /\ UNCHANGED <<journal, cache, req, settled>>
  BY DEF AdminDelete, AdminPut, world
<1>2. PICK q : q = req[r]
  OBVIOUS
<1>3. req' = [req EXCEPT ![r] = q] /\ q.pc = "idle"
  BY <1>1, <1>2, <1>t DEF TypeOK
<1>4. Underway(q)'
  BY <1>3 DEF Underway, EventPC, EditPC
<1>5. \A x \in settled : cache = None \/ x \notin cache.rows
  BY <1>t, <1>1, CacheClean DEF Orderly
<1>6. CASE AdminDelete(r, s)
  <2>1. ledger' = [ledger EXCEPT ![s] = None] /\ heard' = [heard EXCEPT ![s] = {}] /\ clock' = clock
    BY <1>6 DEF AdminDelete, world
  <2>2. LatestOf(s)'
    BY <1>t, <2>1 DEF LatestOf, Newest, TypeOK
  <2>3. Latest'
    BY <1>t, <2>1, <2>2, OneSystem
  <2>4. Dated'
    BY <1>1, <1>t, <2>1 DEF Dated, Told, TypeOK
  <2>5. Live'
    BY <1>1, <1>t, <2>1 DEF Live, TypeOK
  <2> QED
    BY <1>1, <1>3, <1>4, <1>5, <1>t, <2>3, <2>4, <2>5, SlotStep
<1>7. ASSUME NEW k \in Cmdr, AdminPut(r, k, s) PROVE Orderly'
  <2>1. PICK e, rec : /\ e = [action |-> "claim", sys |-> s, cmdr |-> k, ts |-> clock + 1]
                      /\ rec = [cmdr |-> k, ts |-> clock + 1, primary |-> "due"]
    OBVIOUS
  <2>2. /\ clock' = clock + 1
        /\ ledger' = [ledger EXCEPT ![s] = rec]
        /\ heard' = [heard EXCEPT ![s] = heard[s] \cup {e}]
        /\ e.sys = s /\ e.ts = clock + 1 /\ e.action = "claim" /\ e.cmdr = k
    BY <1>7, <1>t, <2>1 DEF AdminPut, Hear, TypeOK
  <2>3. rec \in Rec /\ rec # None
    BY <1>7, <1>t, <2>1, ClaimsAssumption DEF AdminPut, TypeOK, Rec, Time
  <2>4. \A z \in System : \A f \in Told(z) : f.ts \in Nat /\ f.ts <= clock /\ f.sys = z
    BY <1>t DEF Told, TypeOK, Event, Time, Dated
  <2>5. \A z \in System : \A f \in Told(z)' : f \in Told(z) \/ (z = s /\ f = e)
    BY <1>1, <1>t, <2>2 DEF Told, TypeOK
  <2>6. \A x \in settled : x.ts \in Nat /\ x.ts <= clock
    BY <1>t DEF TypeOK, Row, Time, Dated
  <2>7. Dated'
    <3>1. \A z \in System : \A f \in Told(z)' : f.sys = z /\ f.ts <= clock'
      BY <1>t, <2>2, <2>4, <2>5
    <3>2. \A z \in System : \A f, g \in Told(z)' : f.ts = g.ts => f = g
      BY <1>t, <2>2, <2>4, <2>5 DEF Dated
    <3>3. \A x \in settled' : x.ts <= clock'
      BY <1>1, <1>t, <2>2, <2>6
    <3> QED
      BY <3>1, <3>2, <3>3 DEF Dated
  <2>8. ledger'[s] = rec /\ heard'[s] = heard[s] \cup {e}
    BY <1>t, <2>2 DEF TypeOK
  <2>9. \A n \in Newest(s)' : n = e
    <3>1. \A f \in heard[s] : f.ts \in Nat /\ f.ts <= clock
      BY <2>4 DEF Told
    <3> QED
      BY <1>t, <2>2, <2>8, <3>1 DEF Newest
  <2>10. LatestOf(s)'
    BY <2>1, <2>2, <2>3, <2>8, <2>9 DEF LatestOf, Holds
  <2>11. Latest'
    BY <1>t, <2>2, <2>10, OneSystem
  <2>12. RowOf(s, rec) \notin settled
    BY <1>t, <2>1, <2>6 DEF RowOf
  <2>13. Live'
    BY <1>1, <1>t, <2>2, <2>8, <2>12 DEF Live, TypeOK
  <2> QED
    BY <1>1, <1>3, <1>4, <1>5, <1>t, <2>7, <2>11, <2>13, SlotStep
<1> QED
  BY <1>6, <1>7

(* Every step of a calm history keeps the books in order.                   *)
LEMMA BooksInductive == Books /\ [Next]_vars => Books'
<1> SUFFICES ASSUME Books, [Next]_vars PROVE Books'
  OBVIOUS
<1>1. Provenance' /\ calm' = calm
  BY ProvenanceInductive DEF Books, Next, vars
<1>2. ASSUME calm PROVE Orderly'
  <2>1. ASSUME NEW r \in Req, MayRun(r), Handlers(r) PROVE Orderly'
    BY <1>1, <1>2, <2>1, ReadSteps, AnswerSteps, EventReadStep, EventWriteStep, EditWriteStep,
          AdminSteps
      DEF Handlers
  <2>2. CASE Plugins \/ CacheExpires \/ Tick \/ UNCHANGED vars
    BY <1>1, <1>2, <2>2, WorldSteps DEF Plugins
  <2> QED
    BY <2>1, <2>2 DEF Next
<1> QED
  BY <1>1, <1>2 DEF Books

THEOREM BooksHold == Spec => []Books
<1>1. Init => Books
  <2> SUFFICES ASSUME Init PROVE Books
    OBVIOUS
  <2>1. Provenance
    BY ClaimsAssumption, IdleOK DEF Init, Provenance, TypeOK, FirstParty
  <2>2. Dated /\ Latest /\ Live /\ HotReflectsEdits
    BY DEF Init, Dated, Told, Latest, LatestOf, Newest, Live, HotReflectsEdits
  <2>3. Alone /\ \A r \in Req : Underway(req[r])
    BY DEF Init, Alone, Underway, Idle, EventPC, EditPC
  <2> QED
    BY <2>1, <2>2, <2>3 DEF Books, Orderly
<1> QED
  BY <1>1, BooksInductive, PTL DEF Spec

(* In a calm history the newest claim heard is what the ledger holds, in    *)
(* whatever order claims, releases, edits and corrections arrive and        *)
(* whichever posts are lost (claim.js:17-18).                               *)
THEOREM NewestClaimHeld == Spec => []NewestClaimStands
<1>1. Books => NewestClaimStands
  <2> SUFFICES ASSUME Books, calm, NEW s \in System, NEW e \in Newest(s), e.action = "claim"
               PROVE  /\ ledger[s] # None
                      /\ RowOf(s, ledger[s]) = [sys |-> s, cmdr |-> e.cmdr, ts |-> e.ts]
    BY DEF NewestClaimStands
  <2>1. Holds(s, e)
    BY DEF Books, Orderly, Latest, LatestOf
  <2> QED
    BY <2>1 DEF Holds, RowOf
<1> QED
  BY <1>1, BooksHold, PTL

(* In a calm history the cached hot list shows no claim its architect       *)
(* released or marked as done, once the edit has been answered              *)
(* (hotlist.js:17-18, my-claims.js:109, 124).                               *)
THEOREM EditsReachHotList == Spec => []HotReflectsEdits
<1>1. Books => HotReflectsEdits
  BY DEF Books, Orderly, HotReflectsEdits
<1> QED
  BY <1>1, BooksHold, PTL

=============================================================================
