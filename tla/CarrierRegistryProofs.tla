------------------------ MODULE CarrierRegistryProofs ------------------------
(***************************************************************************)
(* What CarrierRegistry promises for any squadron, any builds and any      *)
(* number of overlapping handlers: its types, an index that leads home and *)
(* outsiders' carriers left alone; and, as long as nothing overlaps or     *)
(* fails, that its records implement the register of NewestReport.         *)
(***************************************************************************)
EXTENDS CarrierRegistry, TLAPS

-----------------------------------------------------------------------------
(* What a handler carries to its next operation, given the records.         *)
Carries(q, rec) ==
    /\ q.at = "record" => q.key \in Key /\ q.ts >= 1
    /\ q.at \in {"lookup", "index"} => q.key \in Squadron /\ q.ts >= 1 /\ rec[q.key] > 0
    /\ q.at \in {"check", "link", "unlink"} => q.key \in Squadron /\ rec[q.key] > 0
    /\ q.at \in {"check", "link", "unlink", "stamp", "sweep", "clear"} => q.build \in Build

RegistryInv ==
    /\ TypeOK
    /\ \A s \in Slot : Carries(slot[s], record)
    /\ IndexLeadsHome
    /\ StrangersStay

LEMMA FreeType == Free \in SlotType /\ Free.at = "idle" /\ \A rec : Carries(Free, rec)
  BY CarrierAssumption DEF Free, SlotType, Carries

(* One handler goes on; the others carry what they carried, for a record    *)
(* is never taken away.                                                     *)
LEMMA SlotStep ==
    ASSUME RegistryInv, NEW s \in Slot, NEW job \in SlotType, NEW failed \in BOOLEAN,
           Go(s, job, failed), Carries(job, record'),
           \A k \in Key : record[k] > 0 => record'[k] > 0
    PROVE  /\ slot' \in [Slot -> SlotType] /\ disturbed' \in BOOLEAN
           /\ \A r \in Slot : Carries(slot[r], record)'
<1>1. slot' \in [Slot -> SlotType] /\ \A r \in Slot : slot'[r] = job \/ slot'[r] = slot[r]
  BY DEF Go, RegistryInv, TypeOK
<1>2. \A r \in Slot : Carries(slot[r], record')
  BY DEF RegistryInv, Carries, Key
<1>3. disturbed' \in BOOLEAN
  BY DEF Go
<1> QED BY <1>1, <1>2, <1>3

(* A step that goes on without writing anything but stamps.                 *)
LEMMA QuietStep ==
    ASSUME RegistryInv, NEW s \in Slot, NEW job \in SlotType, NEW failed \in BOOLEAN,
           Go(s, job, failed), Carries(job, record),
           stamped' \subseteq Build, UNCHANGED <<record, index, raven, history>>
    PROVE  RegistryInv'
<1>1. /\ slot' \in [Slot -> SlotType] /\ disturbed' \in BOOLEAN
      /\ \A r \in Slot : Carries(slot[r], record)'
  BY SlotStep
<1> QED BY <1>1 DEF RegistryInv, TypeOK, IndexLeadsHome, StrangersStay, raven, history

(* A step that changes what Raven has linked, and no stranger's link.       *)
LEMMA LinkStep ==
    ASSUME RegistryInv, NEW s \in Slot, NEW job \in SlotType, NEW failed \in BOOLEAN,
           Go(s, job, failed), Carries(job, record),
           linked' \in [Build -> SUBSET Carrier], own' \in [Build -> SUBSET Squadron],
           early' \in [Build -> SUBSET Squadron],
           late' \subseteq Build \X Squadron, StrangersStay',
           UNCHANGED <<kv, complete, strangers>>
    PROVE  RegistryInv'
<1>1. /\ slot' \in [Slot -> SlotType] /\ disturbed' \in BOOLEAN
      /\ \A r \in Slot : Carries(slot[r], record)'
  BY SlotStep DEF kv
<1> QED BY <1>1 DEF RegistryInv, TypeOK, IndexLeadsHome, kv

LEMMA LinkType ==
    ASSUME RegistryInv, NEW b \in Build, NEW m \in Squadron, Link(b, m),
           UNCHANGED <<early, strangers>>
    PROVE  /\ linked' \in [Build -> SUBSET Carrier] /\ own' \in [Build -> SUBSET Squadron]
           /\ StrangersStay'
  BY DEF RegistryInv, TypeOK, Link, Kept, StrangersStay, Carrier

LEMMA UnlinkType ==
    ASSUME RegistryInv, NEW b \in Build, NEW m \in Squadron, Unlink(b, m)
    PROVE  /\ linked' \in [Build -> SUBSET Carrier] /\ own' \in [Build -> SUBSET Squadron]
           /\ early' \in [Build -> SUBSET Squadron]
           /\ strangers' = strangers /\ StrangersStay'
<1>1. /\ linked' = [linked EXCEPT ![b] = @ \ {m}] /\ strangers' = strangers
      /\ own' \in [Build -> SUBSET Squadron] /\ early' \in [Build -> SUBSET Squadron]
  BY DEF Unlink, Kept, RegistryInv, TypeOK
<1>2. \A c \in Build : m \notin strangers[c]
  BY CarrierAssumption DEF RegistryInv, TypeOK
<1>3. \A c \in Build : strangers[c] \subseteq linked'[c]
  BY <1>1, <1>2 DEF RegistryInv, TypeOK, StrangersStay
<1> QED BY <1>1, <1>3 DEF RegistryInv, TypeOK, StrangersStay, Carrier

LEMMA IntakeStep == ASSUME RegistryInv, NEW s \in Slot, Intake(s) PROVE RegistryInv'
<1> PICK q \in SlotType : q = slot[s]
  BY DEF RegistryInv, TypeOK
<1>q. Carries(q, record)
  BY DEF RegistryInv
<1>1. ASSUME NEW k \in Key, NEW ts \in 1..MaxTs, NEW failed \in BOOLEAN, Report(s, k, ts, failed)
      PROVE  RegistryInv'
  <2>0. ts \in 0..MaxTs
    BY CarrierAssumption
  <2>1. PICK job \in SlotType : job = [Free EXCEPT !.at = "record", !.key = k, !.ts = ts]
    BY <2>0, FreeType DEF SlotType
  <2>2. job.at = "record" /\ job.key = k /\ job.ts = ts
    BY <2>1 DEF Free
  <2>3. Carries(job, record)
    BY <2>2 DEF Carries
  <2> QED BY <1>1, <2>1, <2>3, QuietStep DEF Report, kv, RegistryInv, TypeOK
<1>2. CASE ReportRecord(s)
  <2>1. /\ q.at = "record" /\ record' = [record EXCEPT ![q.key] = q.ts]
        /\ Go(s, IF q.key \in Squadron THEN [q EXCEPT !.at = "lookup"] ELSE Free, FALSE)
        /\ UNCHANGED <<index, stamped, raven, history>>
    BY <1>2 DEF ReportRecord, At, Then
  <2>2. q.key \in Key /\ q.ts >= 1 /\ q.ts \in 0..MaxTs
    BY <1>q, <2>1 DEF Carries, SlotType
  <2>3. /\ record' \in [Key -> 0..MaxTs] /\ record'[q.key] = q.ts
        /\ \A k \in Key : record[k] > 0 => record'[k] > 0
    BY <2>1, <2>2 DEF RegistryInv, TypeOK
  <2>4. [q EXCEPT !.at = "lookup"] \in SlotType
    BY DEF SlotType
  <2>5. PICK job \in SlotType : /\ job = IF q.key \in Squadron THEN [q EXCEPT !.at = "lookup"] ELSE Free
                                /\ Go(s, job, FALSE)
    BY <2>1, <2>4, FreeType
  <2>6. Carries(job, record')
    <3>1. CASE q.key \in Squadron
      <4>1. job.at = "lookup" /\ job.key = q.key /\ job.ts = q.ts
        BY <2>5, <3>1 DEF SlotType
      <4>2. record'[q.key] > 0
        BY <2>2, <2>3
      <4> QED BY <2>2, <3>1, <4>1, <4>2 DEF Carries
    <3> QED BY <2>5, <3>1, FreeType
  <2>7. /\ slot' \in [Slot -> SlotType] /\ disturbed' \in BOOLEAN
        /\ \A r \in Slot : Carries(slot[r], record)'
    BY <2>3, <2>5, <2>6, SlotStep
  <2> QED BY <2>1, <2>3, <2>7 DEF RegistryInv, TypeOK, IndexLeadsHome, StrangersStay, raven,
        history, Key
<1>3. ASSUME NEW failed \in BOOLEAN, ReportLookup(s, failed) PROVE RegistryInv'
  <2>1. /\ q.at = "lookup" /\ UNCHANGED <<kv, raven, history>>
        /\ Go(s, Free, failed) \/ Go(s, [q EXCEPT !.at = "index"], failed)
    BY <1>3 DEF ReportLookup, At, Then
  <2>2. PICK job \in SlotType : job = [q EXCEPT !.at = "index"]
    BY DEF SlotType
  <2>3. job.at = "index" /\ job.key = q.key /\ job.ts = q.ts
    BY <2>2 DEF SlotType
  <2>4. Carries(job, record)
    BY <1>q, <2>1, <2>3 DEF Carries
  <2> QED BY <2>1, <2>2, <2>4, FreeType, QuietStep DEF kv, RegistryInv, TypeOK
<1>4. CASE ReportIndex(s)
  <2>1. /\ q.at = "index"
        /\ index' = [index EXCEPT ![Owner[q.key]] = [carrier |-> q.key, ts |-> q.ts]]
        /\ Go(s, Free, FALSE) /\ UNCHANGED <<record, stamped, raven, history>>
    BY <1>4 DEF ReportIndex, At
  <2>2. q.key \in Squadron /\ record[q.key] > 0 /\ q.ts \in 0..MaxTs /\ Owner[q.key] \in Cmdr
    BY <1>q, <2>1, CarrierAssumption DEF Carries, SlotType
  <2>3. /\ slot' \in [Slot -> SlotType] /\ disturbed' \in BOOLEAN
        /\ \A r \in Slot : Carries(slot[r], record)'
    BY <2>1, FreeType, SlotStep
  <2>4. index' \in [Cmdr -> [carrier : Squadron \cup {None}, ts : 0..MaxTs]]
    BY <2>1, <2>2 DEF RegistryInv, TypeOK
  <2>5. IndexLeadsHome'
    BY <2>1, <2>2 DEF RegistryInv, TypeOK, IndexLeadsHome
  <2> QED BY <2>1, <2>3, <2>4, <2>5 DEF RegistryInv, TypeOK, StrangersStay, raven, history
<1> QED BY <1>1, <1>2, <1>3, <1>4 DEF Intake

LEMMA RelayStep == ASSUME RegistryInv, NEW s \in Slot, Relay(s) PROVE RegistryInv'
<1> PICK q \in SlotType : q = slot[s]
  BY DEF RegistryInv, TypeOK
<1>q. Carries(q, record)
  BY DEF RegistryInv
<1>1. ASSUME NEW c \in Cmdr, NEW b \in Build, NEW pc \in {"check", "unlink"}, Resolve(s, c, b, pc)
      PROVE  RegistryInv'
  <2>1. OwnCarrier(c) \in Squadron /\ record[OwnCarrier(c)] > 0
    BY <1>1 DEF Resolve, OwnCarrier, RegistryInv, TypeOK, IndexLeadsHome
  <2>2. PICK job \in SlotType : job = [Free EXCEPT !.at = pc, !.key = OwnCarrier(c), !.build = b]
    BY <2>1, FreeType DEF SlotType, Key
  <2>3. job.at = pc /\ job.key = OwnCarrier(c) /\ job.build = b
    BY <2>2 DEF Free
  <2>4. Carries(job, record)
    BY <2>1, <2>3 DEF Carries
  <2> QED BY <1>1, <2>2, <2>4, QuietStep DEF Resolve, kv, RegistryInv, TypeOK
<1>2. ASSUME NEW failed \in BOOLEAN, LinkCheck(s, failed) PROVE RegistryInv'
  <2>1. /\ q.at = "check" /\ NoteEarly(q.build, q.key) /\ UNCHANGED <<kv, raven, own, strangers>>
        /\ Go(s, Free, failed) \/ Go(s, [q EXCEPT !.at = "link"], failed)
    BY <1>2 DEF LinkCheck, At, Then
  <2>2. PICK job \in SlotType : job = [q EXCEPT !.at = "link"]
    BY DEF SlotType
  <2>3. job.at = "link" /\ job.key = q.key /\ job.build = q.build
    BY <2>2 DEF SlotType
  <2>4. Carries(job, record)
    BY <1>q, <2>1, <2>3 DEF Carries
  <2>5. early' \in [Build -> SUBSET Squadron]
    BY <1>q, <2>1 DEF NoteEarly, Kept, Carries, RegistryInv, TypeOK
  <2>6. /\ linked' \in [Build -> SUBSET Carrier] /\ own' \in [Build -> SUBSET Squadron]
        /\ late' \subseteq Build \X Squadron /\ StrangersStay'
    BY <2>1 DEF raven, StrangersStay, RegistryInv, TypeOK
  <2> QED BY <2>1, <2>2, <2>4, <2>5, <2>6, FreeType, LinkStep DEF raven
<1>3. ASSUME NEW answered \in BOOLEAN, LinkPut(s, answered) PROVE RegistryInv'
  <2>1. /\ q.at = "link" /\ Link(q.build, q.key) /\ Go(s, Free, ~answered)
        /\ UNCHANGED <<kv, complete, late, early, strangers>>
    BY <1>3 DEF LinkPut, At
  <2>2. q.build \in Build /\ q.key \in Squadron
    BY <1>q, <2>1 DEF Carries
  <2>3. (~answered) \in BOOLEAN
    OBVIOUS
  <2>4. /\ linked' \in [Build -> SUBSET Carrier] /\ own' \in [Build -> SUBSET Squadron]
        /\ StrangersStay'
    BY <2>1, <2>2, LinkType
  <2> QED BY <2>1, <2>3, <2>4, FreeType, LinkStep DEF RegistryInv, TypeOK
<1>4. CASE LinkPutLate(s)
  <2>1. /\ q.at = "link" /\ late' = late \cup {<<q.build, q.key>>} /\ Go(s, Free, TRUE)
        /\ UNCHANGED <<kv, complete, linked, history>>
    BY <1>4 DEF LinkPutLate, At
  <2>2. q.build \in Build /\ q.key \in Squadron
    BY <1>q, <2>1 DEF Carries
  <2>3. late' \subseteq Build \X Squadron
    BY <2>1, <2>2 DEF RegistryInv, TypeOK
  <2>4. /\ linked' \in [Build -> SUBSET Carrier] /\ own' \in [Build -> SUBSET Squadron]
        /\ early' \in [Build -> SUBSET Squadron]
        /\ StrangersStay' /\ UNCHANGED <<kv, complete, strangers>>
    BY <2>1 DEF RegistryInv, TypeOK, StrangersStay, history, kv
  <2> QED BY <2>1, <2>3, <2>4, FreeType, LinkStep
<1>5. CASE UnlinkDelete(s)
  <2>1. /\ q.at = "unlink" /\ Unlink(q.build, q.key) /\ Go(s, Free, FALSE)
        /\ UNCHANGED <<kv, complete, late>>
    BY <1>5 DEF UnlinkDelete, At
  <2>2. q.build \in Build /\ q.key \in Squadron
    BY <1>q, <2>1 DEF Carries
  <2> QED BY <2>1, <2>2, FreeType, UnlinkType, LinkStep DEF RegistryInv, TypeOK
<1> QED BY <1>1, <1>2, <1>3, <1>4, <1>5 DEF Relay

LEMMA CompletionStep == ASSUME RegistryInv, NEW s \in Slot, Completion(s) PROVE RegistryInv'
<1> PICK q \in SlotType : q = slot[s]
  BY DEF RegistryInv, TypeOK
<1>q. Carries(q, record)
  BY DEF RegistryInv
<1>1. ASSUME NEW b \in Build, StampRead(s, b) PROVE RegistryInv'
  <2>1. PICK job \in SlotType :
           job = [Free EXCEPT !.at = "stamp", !.build = b,
                 !.todo = IF b \in stamped THEN {} ELSE Carrier]
    BY FreeType DEF SlotType
  <2>2. job.at = "stamp" /\ job.build = b
    BY <2>1 DEF Free
  <2>3. Carries(job, record)
    BY <2>2 DEF Carries
  <2> QED BY <1>1, <2>1, <2>3, QuietStep DEF StampRead, kv, RegistryInv, TypeOK
<1>2. ASSUME NEW b \in Build, Unstamp(s, b) PROVE RegistryInv'
  BY <1>2, FreeType, QuietStep DEF Unstamp, RegistryInv, TypeOK
<1>3. CASE Stamp(s)
  <2>1. /\ q.at = "stamp" /\ stamped' = stamped \cup {q.build}
        /\ UNCHANGED <<record, index, raven, history>>
        /\ Go(s, Free, FALSE) \/ Go(s, [q EXCEPT !.at = "sweep"], FALSE)
    BY <1>3 DEF Stamp, At, Then
  <2>2. PICK job \in SlotType : job = [q EXCEPT !.at = "sweep"]
    BY DEF SlotType
  <2>3. job.at = "sweep" /\ job.build = q.build /\ q.build \in Build
    BY <1>q, <2>1, <2>2 DEF SlotType, Carries
  <2>4. Carries(job, record) /\ stamped' \subseteq Build
    BY <2>1, <2>3 DEF Carries, RegistryInv, TypeOK
  <2> QED BY <2>1, <2>2, <2>4, FreeType, QuietStep
<1>4. CASE SweepRead(s)
  <2>1. /\ q.at = "sweep" /\ UNCHANGED <<kv, raven, history>>
        /\ \/ Go(s, Free, FALSE)
           \/ Go(s, [[q EXCEPT !.at = "clear"] EXCEPT !.todo = linked[q.build]], FALSE)
    BY <1>4 DEF SweepRead, At, Then
  <2>2. q.build \in Build
    BY <1>q, <2>1 DEF Carries
  <2>3. PICK job \in SlotType : job = [[q EXCEPT !.at = "clear"] EXCEPT !.todo = linked[q.build]]
    BY <2>2 DEF SlotType, RegistryInv, TypeOK
  <2>4. job.at = "clear" /\ job.build = q.build
    BY <2>3 DEF SlotType
  <2>5. Carries(job, record)
    BY <2>2, <2>4 DEF Carries
  <2> QED BY <2>1, <2>3, <2>5, FreeType, QuietStep DEF kv, RegistryInv, TypeOK
<1>5. ASSUME NEW m \in Carrier, NEW failed \in BOOLEAN, SweepOne(s, m, failed) PROVE RegistryInv'
  <2>1. /\ q.at = "clear" /\ UNCHANGED <<kv, complete, late>>
        /\ \/ m \in Squadron /\ Unlink(q.build, m)
           \/ UNCHANGED <<linked, history>>
        /\ Go(s, Swept(s, m), failed)
    BY <1>5 DEF SweepOne, At, Known
  <2>2. q.build \in Build
    BY <1>q, <2>1 DEF Carries
  <2>3. PICK job \in SlotType : job = Swept(s, m) /\ Carries(job, record)
    <3>1. PICK n \in SlotType : n = [q EXCEPT !.todo = @ \ {m}]
      BY DEF SlotType
    <3>2. n.at = "clear" /\ n.build = q.build
      BY <2>1, <3>1 DEF SlotType
    <3>3. Carries(n, record)
      BY <2>2, <3>2 DEF Carries
    <3> QED BY <3>1, <3>3, FreeType DEF Swept
  <2>4. CASE m \in Squadron /\ Unlink(q.build, m)
    BY <2>1, <2>2, <2>3, <2>4, UnlinkType, LinkStep DEF RegistryInv, TypeOK
  <2>5. CASE UNCHANGED <<linked, history>>
    BY <2>1, <2>3, <2>5, LinkStep DEF RegistryInv, TypeOK, StrangersStay, history
  <2> QED BY <2>1, <2>4, <2>5
<1> QED BY <1>1, <1>2, <1>3, <1>4, <1>5 DEF Completion

LEMMA RegistryStep == RegistryInv /\ [Next]_vars => RegistryInv'
<1> SUFFICES ASSUME RegistryInv, [Next]_vars PROVE RegistryInv'
  OBVIOUS
<1>1. ASSUME NEW s \in Slot, GiveUp(s) PROVE RegistryInv'
  BY <1>1, FreeType, QuietStep DEF GiveUp, kv, RegistryInv, TypeOK
<1>2. ASSUME NEW b \in Build, Completes(b) PROVE RegistryInv'
  BY <1>2 DEF Completes, kv, history, RegistryInv, TypeOK, IndexLeadsHome, StrangersStay
<1>3. ASSUME NEW b \in Build, NEW m \in Carrier, LinkedThere(b, m) PROVE RegistryInv'
  <2>1. /\ linked' = [linked EXCEPT ![b] = @ \cup {m}]
        /\ strangers' = [strangers EXCEPT ![b] = IF m \in Outsider THEN @ \cup {m} ELSE @]
        /\ UNCHANGED <<kv, complete, late, slot, own, early, disturbed>>
    BY <1>3 DEF LinkedThere
  <2>2. /\ linked' \in [Build -> SUBSET Carrier] /\ strangers' \in [Build -> SUBSET Outsider]
        /\ StrangersStay'
    BY <2>1 DEF RegistryInv, TypeOK, StrangersStay
  <2> QED BY <2>1, <2>2 DEF kv, RegistryInv, TypeOK, IndexLeadsHome
<1>4. ASSUME NEW b \in Build, NEW m \in Carrier, ActLate(b, m) PROVE RegistryInv'
  <2>1. m \in Squadron /\ Link(b, m) /\ late' \subseteq late
        /\ UNCHANGED <<kv, complete, slot, early, strangers, disturbed>>
    BY <1>4 DEF ActLate, RegistryInv, TypeOK
  <2>2. /\ linked' \in [Build -> SUBSET Carrier] /\ own' \in [Build -> SUBSET Squadron]
        /\ StrangersStay'
    BY <2>1, LinkType
  <2> QED BY <2>1, <2>2 DEF kv, RegistryInv, TypeOK, IndexLeadsHome
<1>5. CASE UNCHANGED vars
  BY <1>5 DEF vars, kv, raven, history, RegistryInv, TypeOK, IndexLeadsHome, StrangersStay
<1> QED BY <1>1, <1>2, <1>3, <1>4, <1>5, IntakeStep, RelayStep, CompletionStep DEF Next

LEMMA RegistryHolds == Spec => []RegistryInv
<1>1. Init => RegistryInv
  <2> SUFFICES ASSUME Init PROVE RegistryInv
    OBVIOUS
  <2>1. slot \in [Slot -> SlotType] /\ \A s \in Slot : Carries(slot[s], record)
    BY FreeType DEF Init
  <2>2. index \in [Cmdr -> [carrier : Squadron \cup {None}, ts : 0..MaxTs]]
    BY CarrierAssumption DEF Init, NoEntry
  <2>3. record \in [Key -> 0..MaxTs]
    BY CarrierAssumption DEF Init
  <2>4. IndexLeadsHome /\ StrangersStay
    BY DEF Init, NoEntry, IndexLeadsHome, StrangersStay
  <2> QED BY <2>1, <2>2, <2>3, <2>4 DEF Init, RegistryInv, TypeOK
<1> QED BY <1>1, RegistryStep, PTL DEF Spec

(* Every variable of the registry keeps its type.                           *)
THEOREM RegistryTypeCorrect == Spec => []TypeOK
<1>1. RegistryInv => TypeOK
  BY DEF RegistryInv
<1> QED BY <1>1, RegistryHolds, PTL

(* The index by owner never ends at a stranger's carrier or at nothing      *)
(* (carrier.js, resolveSelf), whatever overlaps or fails.                   *)
THEOREM IndexAlwaysLeadsHome == Spec => []IndexLeadsHome
<1>1. RegistryInv => IndexLeadsHome
  BY DEF RegistryInv
<1> QED BY <1>1, RegistryHolds, PTL

(* No outsider's link is ever taken off (unassignSquadCarriers, handleRelay)*)
(* whatever overlaps or fails.                                              *)
THEOREM StrangersLeftAlone == Spec => []StrangersStay
<1>1. RegistryInv => StrangersStay
  BY DEF RegistryInv
<1> QED BY <1>1, RegistryHolds, PTL

-----------------------------------------------------------------------------
(* As long as nothing overlaps or fails, one handler at most is in flight,  *)
(* and a report about to be written is as new as the record still is.       *)
Fresh ==
    ~disturbed =>
        /\ \A r, s \in Slot : r # s => At(r, "idle") \/ At(s, "idle")
        /\ \A s \in Slot : At(s, "record") => slot[s].ts >= record[slot[s].key]

(* A handler that goes on undisturbed is alone.                             *)
LEMMA Alone ==
    ASSUME RegistryInv, Fresh, NEW s \in Slot, NEW job \in SlotType, NEW failed \in BOOLEAN,
           Go(s, job, failed), ~disturbed'
    PROVE  /\ ~disturbed /\ ~failed /\ slot'[s] = job
           /\ \A r \in Slot \ {s} : slot'[r] = slot[r] /\ slot'[r].at = "idle"
<1>1. ~disturbed /\ ~failed /\ ~(At(s, "idle") /\ Overlaps(s))
  BY DEF Go
<1>2. slot'[s] = job /\ \A r \in Slot \ {s} : slot'[r] = slot[r]
  BY DEF Go, RegistryInv, TypeOK
<1>3. \A r \in Slot \ {s} : slot[r].at = "idle"
  BY <1>1 DEF Fresh, At, Overlaps
<1> QED BY <1>1, <1>2, <1>3

LEMMA FreshStep ==
    ASSUME RegistryInv, Fresh, NEW s \in Slot, NEW job \in SlotType, NEW failed \in BOOLEAN,
           Go(s, job, failed),
           job.at = "record" => record' = record /\ (failed \/ job.ts >= record[job.key])
    PROVE  Fresh'
<1> SUFFICES ASSUME ~disturbed'
             PROVE  /\ \A r, t \in Slot : r # t => At(r, "idle")' \/ At(t, "idle")'
                    /\ \A t \in Slot : At(t, "record")' => slot'[t].ts >= record'[slot'[t].key]
  BY DEF Fresh
<1>1. /\ ~failed /\ slot'[s] = job
      /\ \A r \in Slot \ {s} : slot'[r].at = "idle"
  BY Alone
<1> QED BY <1>1 DEF At

(* The handler does nothing that concerns a record.                         *)
LEMMA AsideStep ==
    ASSUME RegistryInv, Fresh, NEW s \in Slot, NEW job, NEW failed \in BOOLEAN,
           Go(s, job, failed), RegistryInv', job.at # "record"
    PROVE  Fresh'
<1>1. job \in SlotType
  BY DEF Go, RegistryInv, TypeOK
<1> QED BY <1>1, FreshStep

LEMMA ThenAt == ASSUME RegistryInv, NEW s \in Slot, NEW pc PROVE Then(s, pc).at = pc
  BY DEF RegistryInv, TypeOK, SlotType, Then

LEMMA IntakeFresh ==
    ASSUME RegistryInv, Fresh, NEW s \in Slot, Intake(s), RegistryInv'
    PROVE  Fresh' /\ (Register!Next \/ disturbed' \/ record' = record)
<1>1. ASSUME NEW k \in Key, NEW ts \in 1..MaxTs, NEW failed \in BOOLEAN, Report(s, k, ts, failed)
      PROVE  Fresh' /\ record' = record
  <2>0. ts \in 0..MaxTs
    BY CarrierAssumption
  <2>1. PICK job \in SlotType : job = [Free EXCEPT !.at = "record", !.key = k, !.ts = ts]
    BY <2>0, FreeType DEF SlotType
  <2>2. job.key = k /\ job.ts = ts
    BY <2>1 DEF Free
  <2>3. record' = record /\ Go(s, job, failed)
    BY <1>1, <2>1 DEF Report, kv
  <2>4. failed \/ job.ts >= record[job.key]
    BY <1>1, <2>2, CarrierAssumption DEF Report, Stale, Read, RegistryInv, TypeOK
  <2> QED BY <2>3, <2>4, FreshStep
<1>2. ASSUME ReportRecord(s)
      PROVE  Fresh' /\ (Register!Next \/ disturbed' \/ record' = record)
  <2> PICK q \in SlotType : q = slot[s]
    BY DEF RegistryInv, TypeOK
  <2>1. /\ q.at = "record" /\ record' = [record EXCEPT ![q.key] = q.ts]
        /\ \E job : Go(s, job, FALSE) /\ job.at # "record"
    BY <1>2, ThenAt, FreeType DEF ReportRecord, At
  <2>2. q.key \in Key
    BY <2>1 DEF RegistryInv, Carries
  <2>3. Fresh'
    BY <2>1, AsideStep
  <2>4. CASE ~disturbed'
    <3>1. ~disturbed
      BY <2>1, <2>4 DEF Go
    <3>2. q.ts >= record[q.key]
      BY <2>1, <3>1 DEF Fresh, At
    <3>3. CASE q.ts = record[q.key]
      <4>1. record \in [Key -> 0..MaxTs] /\ record' = [record EXCEPT ![q.key] = record[q.key]]
        BY <2>1, <3>3 DEF RegistryInv, TypeOK
      <4>2. record' = record
        BY <4>1
      <4> QED BY <2>3, <4>2
    <3>4. CASE q.ts # record[q.key]
      <4>1. record[q.key] \in Nat /\ q.ts \in Nat /\ record'[q.key] = q.ts
        BY <2>1, <2>2, CarrierAssumption DEF RegistryInv, TypeOK, SlotType
      <4>2. record'[q.key] > record[q.key]
        BY <3>2, <3>4, <4>1
      <4>3. record' = [record EXCEPT ![q.key] = record'[q.key]]
        BY <2>1, <4>1
      <4>4. Register!Report(q.key)
        BY <4>2, <4>3 DEF Register!Report
      <4> QED BY <2>2, <2>3, <4>4 DEF Register!Next
    <3> QED BY <3>3, <3>4
  <2> QED BY <2>3, <2>4
<1>3. ASSUME NEW failed \in BOOLEAN, ReportLookup(s, failed) PROVE Fresh' /\ record' = record
  BY <1>3, ThenAt, FreeType, AsideStep DEF ReportLookup, kv
<1>4. CASE ReportIndex(s)
  BY <1>4, FreeType, AsideStep DEF ReportIndex
<1> QED BY <1>1, <1>2, <1>3, <1>4 DEF Intake

LEMMA RelayFresh ==
    ASSUME RegistryInv, Fresh, NEW s \in Slot, Relay(s), RegistryInv'
    PROVE  Fresh' /\ record' = record
<1>1. ASSUME NEW c \in Cmdr, NEW b \in Build, NEW pc \in {"check", "unlink"}, Resolve(s, c, b, pc)
      PROVE  Fresh' /\ record' = record
  <2>1. [Free EXCEPT !.at = pc, !.key = OwnCarrier(c), !.build = b].at # "record"
    BY DEF Free
  <2> QED BY <1>1, <2>1, AsideStep DEF Resolve, kv
<1>2. ASSUME NEW failed \in BOOLEAN, LinkCheck(s, failed) PROVE Fresh' /\ record' = record
  BY <1>2, ThenAt, FreeType, AsideStep DEF LinkCheck, kv
<1>3. ASSUME NEW answered \in BOOLEAN, LinkPut(s, answered) PROVE Fresh' /\ record' = record
  <2>1. (~answered) \in BOOLEAN /\ Go(s, Free, ~answered) /\ record' = record
    BY <1>3 DEF LinkPut, kv
  <2> QED BY <2>1, FreeType, AsideStep
<1>4. CASE LinkPutLate(s)
  BY <1>4, FreeType, AsideStep DEF LinkPutLate, kv
<1>5. CASE UnlinkDelete(s)
  BY <1>5, FreeType, AsideStep DEF UnlinkDelete, kv
<1> QED BY <1>1, <1>2, <1>3, <1>4, <1>5 DEF Relay

LEMMA CompletionFresh ==
    ASSUME RegistryInv, Fresh, NEW s \in Slot, Completion(s), RegistryInv'
    PROVE  Fresh' /\ record' = record
<1>1. ASSUME NEW b \in Build, StampRead(s, b) PROVE Fresh' /\ record' = record
  <2>1. [Free EXCEPT !.at = "stamp", !.build = b,
                     !.todo = IF b \in stamped THEN {} ELSE Carrier].at # "record"
    BY DEF Free
  <2> QED BY <1>1, <2>1, AsideStep DEF StampRead, kv
<1>2. ASSUME NEW b \in Build, Unstamp(s, b) PROVE Fresh' /\ record' = record
  BY <1>2, FreeType, AsideStep DEF Unstamp
<1>3. CASE Stamp(s)
  BY <1>3, ThenAt, FreeType, AsideStep DEF Stamp
<1>4. CASE SweepRead(s)
  <2>1. PICK q \in SlotType : q = slot[s]
    BY DEF RegistryInv, TypeOK
  <2>2. [[q EXCEPT !.at = "clear"] EXCEPT !.todo = linked[q.build]].at # "record"
    BY DEF SlotType
  <2>3. /\ record' = record
        /\ \/ Go(s, Free, FALSE)
           \/ Go(s, [[q EXCEPT !.at = "clear"] EXCEPT !.todo = linked[q.build]], FALSE)
    BY <1>4, <2>1 DEF SweepRead, Then, kv
  <2> QED BY <2>2, <2>3, FreeType, AsideStep
<1>5. ASSUME NEW m \in Carrier, NEW failed \in BOOLEAN, SweepOne(s, m, failed)
      PROVE  Fresh' /\ record' = record
  <2>1. Swept(s, m).at # "record"
    BY <1>5, FreeType DEF SweepOne, Swept, At, RegistryInv, TypeOK, SlotType
  <2> QED BY <1>5, <2>1, AsideStep DEF SweepOne, kv
<1> QED BY <1>1, <1>2, <1>3, <1>4, <1>5 DEF Completion

LEMMA FreshKept ==
    RegistryInv /\ RegistryInv' /\ Fresh /\ [Next]_vars
        => Fresh' /\ [Register!Next \/ disturbed']_record
<1> SUFFICES ASSUME RegistryInv, RegistryInv', Fresh, [Next]_vars
             PROVE  Fresh' /\ (Register!Next \/ disturbed' \/ record' = record)
  OBVIOUS
<1>1. ASSUME NEW s \in Slot, GiveUp(s) PROVE Fresh' /\ record' = record
  BY <1>1, FreeType, AsideStep DEF GiveUp, kv
<1>2. ASSUME UNCHANGED <<record, slot, disturbed>> PROVE Fresh'
  BY <1>2 DEF Fresh, At
<1>3. ASSUME NEW b \in Build, Completes(b) PROVE Fresh' /\ record' = record
  BY <1>2, <1>3 DEF Completes, kv
<1>4. ASSUME NEW b \in Build, NEW m \in Carrier, LinkedThere(b, m) \/ ActLate(b, m)
      PROVE  Fresh' /\ record' = record
  BY <1>2, <1>4 DEF LinkedThere, ActLate, kv
<1>5. CASE UNCHANGED vars
  BY <1>2, <1>5 DEF vars, kv
<1> QED BY <1>1, <1>3, <1>4, <1>5, IntakeFresh, RelayFresh, CompletionFresh DEF Next

(* The registry's records implement NewestReport for as long as nothing     *)
(* overlaps or fails (carrier.js, loadout.js, station-type.js, observe.js). *)
THEOREM NewestReportWins == Spec => NewestWins
<1>1. Init => Register!Init /\ Fresh
  BY FreeType DEF Init, Register!Init, Fresh, At
<1> QED BY <1>1, RegistryHolds, FreshKept, PTL DEF Spec, NewestWins

-----------------------------------------------------------------------------
(* What this board linked, or may yet have linked, is linked and known.     *)
Knows ==
    /\ \A b \in Build : own[b] \subseteq linked[b]
    /\ \A b \in Build : \A m \in own[b] : record[m] > 0
    /\ \A b \in Build, m \in Squadron : <<b, m>> \in late => record[m] > 0

(* The links that should be gone once a build is stamped.                   *)
Left(b) == own[b] \ early[b]

(* A handler that is sweeping a build, and has these links before it.       *)
Sweeping(q, b, links) ==
    q.build = b /\ (q.at = "sweep" \/ (q.at = "clear" /\ links \subseteq q.todo))

(* As long as nothing overlaps or fails: nothing may come late, a stamp is  *)
(* put where one is or else sweeps everything, a link under way to a stamped*)
(* build is an early one, and what should be gone from one is being swept.  *)
Orderly(q) ==
    /\ late = {}
    /\ q.at = "stamp" => q.build \in stamped \/ q.todo = Carrier
    /\ q.at = "link" /\ q.build \in stamped => q.key \in early[q.build]
    /\ \A b \in stamped : Left(b) = {} \/ Sweeping(q, b, Left(b))

Exact ==
    ~disturbed =>
        /\ late = {}
        /\ \A s \in Slot : At(s, "stamp") => slot[s].build \in stamped \/ slot[s].todo = Carrier
        /\ \A s \in Slot : At(s, "link") /\ slot[s].build \in stamped
                               => slot[s].key \in early[slot[s].build]
        /\ \A b \in stamped : Left(b) = {} \/ \E s \in Slot : Sweeping(slot[s], b, Left(b))

LEMMA KnowsStep ==
    ASSUME RegistryInv, Knows, [Next]_vars, RegistryInv'
    PROVE  Knows'
<1> USE DEF kv, raven, history
<1>1. ASSUME UNCHANGED <<linked, own, late>>, \A k \in Key : record[k] > 0 => record'[k] > 0
      PROVE  Knows'
  BY <1>1 DEF Knows, RegistryInv, TypeOK, Key
<1>2. ASSUME NEW b \in Build, NEW m \in Squadron, Link(b, m), record[m] > 0,
             late' \subseteq late, record' = record
      PROVE  Knows'
  BY <1>2 DEF Knows, Link, Kept, RegistryInv, TypeOK
<1>3. ASSUME NEW b \in Build, NEW m \in Squadron, Unlink(b, m), late' = late, record' = record
      PROVE  Knows'
  BY <1>3 DEF Knows, Unlink, Kept, RegistryInv, TypeOK
<1>4. ASSUME NEW s \in Slot PROVE Carries(slot[s], record) /\ slot[s] \in SlotType
  BY DEF RegistryInv, TypeOK
<1>5. ASSUME NEW s \in Slot, Intake(s) PROVE Knows'
  <2>1. CASE ReportRecord(s)
    <3>1. /\ slot[s].key \in Key /\ slot[s].ts >= 1
          /\ record' = [record EXCEPT ![slot[s].key] = slot[s].ts]
          /\ UNCHANGED <<linked, own, late>>
      BY <1>4, <2>1 DEF ReportRecord, At, Carries
    <3>2. slot[s].ts \in 0..MaxTs
      BY <1>4 DEF SlotType
    <3>3. \A k \in Key : record[k] > 0 => record'[k] > 0
      BY <3>1, <3>2 DEF RegistryInv, TypeOK
    <3> QED BY <1>1, <3>1, <3>3
  <2>2. CASE ~ReportRecord(s)
    BY <1>1, <1>5, <2>2 DEF Intake, Report, ReportLookup, ReportIndex
  <2> QED BY <2>1, <2>2
<1>6. ASSUME NEW s \in Slot, Relay(s) PROVE Knows'
  <2>1. CASE \E answered \in BOOLEAN : LinkPut(s, answered)
    BY <1>2, <1>4, <2>1 DEF LinkPut, At, Carries
  <2>2. CASE LinkPutLate(s)
    <3>1. /\ slot[s].key \in Squadron /\ record[slot[s].key] > 0
          /\ late' = late \cup {<<slot[s].build, slot[s].key>>}
          /\ UNCHANGED <<linked, own, record>>
      BY <1>4, <2>2 DEF LinkPutLate, At, Carries
    <3> QED BY <3>1 DEF Knows
  <2>3. CASE UnlinkDelete(s)
    BY <1>3, <1>4, <2>3 DEF UnlinkDelete, At, Carries
  <2>4. CASE ~LinkPutLate(s) /\ ~UnlinkDelete(s) /\ ~\E answered \in BOOLEAN : LinkPut(s, answered)
    BY <1>1, <1>6, <2>4 DEF Relay, Resolve, LinkCheck
  <2> QED BY <2>1, <2>2, <2>3, <2>4
<1>7. ASSUME NEW s \in Slot, Completion(s) PROVE Knows'
  <2>1. ASSUME NEW m \in Carrier, NEW failed \in BOOLEAN, SweepOne(s, m, failed) PROVE Knows'
    <3>1. slot[s].build \in Build /\ late' = late /\ record' = record
      BY <1>4, <2>1 DEF SweepOne, At, Carries
    <3>2. (m \in Squadron /\ Unlink(slot[s].build, m)) \/ UNCHANGED <<linked, own>>
      BY <2>1 DEF SweepOne, Known
    <3> QED BY <1>1, <1>3, <3>1, <3>2
  <2>2. CASE ~\E m \in Carrier, failed \in BOOLEAN : SweepOne(s, m, failed)
    BY <1>1, <1>7, <2>2 DEF Completion, StampRead, Unstamp, Stamp, SweepRead
  <2> QED BY <2>1, <2>2
<1>8. ASSUME NEW s \in Slot, GiveUp(s) PROVE Knows'
  BY <1>1, <1>8 DEF GiveUp
<1>9. ASSUME NEW b \in Build, Completes(b) PROVE Knows'
  BY <1>1, <1>9 DEF Completes
<1>10. ASSUME NEW b \in Build, NEW m \in Carrier, LinkedThere(b, m) PROVE Knows'
  BY <1>10 DEF LinkedThere, Knows, RegistryInv, TypeOK
<1>11. ASSUME NEW b \in Build, NEW m \in Carrier, ActLate(b, m) PROVE Knows'
  <2>1. m \in Squadron /\ record[m] > 0 /\ Link(b, m) /\ late' \subseteq late /\ record' = record
    BY <1>11 DEF ActLate, Knows, RegistryInv, TypeOK
  <2> QED BY <1>2, <2>1
<1>12. CASE UNCHANGED vars
  BY <1>1, <1>12 DEF vars
<1> QED BY <1>5, <1>6, <1>7, <1>8, <1>9, <1>10, <1>11, <1>12 DEF Next

(* Before an undisturbed step all is in order for the handler that takes it,*)
(* and after it if it is for what the handler goes on with.                 *)
LEMMA Before ==
    ASSUME RegistryInv, Fresh, Exact, NEW s \in Slot, NEW job \in SlotType, NEW failed \in BOOLEAN,
           Go(s, job, failed), ~disturbed', NEW q, q = slot[s]
    PROVE  ~failed /\ Orderly(q)
<1>1. /\ ~disturbed /\ ~failed
      /\ \A r \in Slot \ {s} : slot[r].at = "idle"
  BY Alone
<1>2. \A r \in Slot \ {s}, b \in stamped : ~Sweeping(slot[r], b, Left(b))
  BY <1>1 DEF Sweeping
<1> QED BY <1>1, <1>2 DEF Exact, Orderly, At

LEMMA After ==
    ASSUME RegistryInv, Fresh, NEW s \in Slot, NEW job \in SlotType, NEW failed \in BOOLEAN,
           Go(s, job, failed), ~disturbed' => Orderly(job)'
    PROVE  Exact'
<1> SUFFICES ASSUME ~disturbed'
             PROVE  /\ late' = {}
                    /\ \A r \in Slot : slot'[r].at = "stamp" =>
                          slot'[r].build \in stamped' \/ slot'[r].todo = Carrier
                    /\ \A r \in Slot : slot'[r].at = "link" /\ slot'[r].build \in stamped'
                                          => slot'[r].key \in early'[slot'[r].build]
                    /\ \A b \in stamped' :
                          Left(b)' = {} \/ \E r \in Slot : Sweeping(slot'[r], b, Left(b)')
  BY DEF Exact, At, Sweeping
<1>1. slot'[s] = job /\ \A r \in Slot \ {s} : slot'[r].at = "idle"
  BY Alone
<1>2. /\ late' = {}
      /\ job.at = "stamp" => job.build \in stamped' \/ job.todo = Carrier
      /\ job.at = "link" /\ job.build \in stamped' => job.key \in early'[job.build]
      /\ \A b \in stamped' : Left(b)' = {} \/ Sweeping(job, b, Left(b)')
  BY DEF Orderly, Sweeping
<1> QED BY <1>1, <1>2

(* A handler that was not sweeping, and goes on to neither a stamp nor a    *)
(* link, with nothing left on a stamped build that was not before.          *)
LEMMA Beside ==
    ASSUME RegistryInv, Fresh, Exact, NEW s \in Slot, NEW job \in SlotType, NEW failed \in BOOLEAN,
           Go(s, job, failed), slot[s].at \notin {"sweep", "clear"},
           job.at \notin {"stamp", "link"},
           UNCHANGED late, stamped' \subseteq stamped,
           disturbed \/ \A b \in stamped : Left(b)' \subseteq Left(b)
    PROVE  Exact'
<1> PICK q \in SlotType : q = slot[s]
  BY DEF RegistryInv, TypeOK
<1>1. ASSUME ~disturbed' PROVE Orderly(job)'
  <2>1. Orderly(q) /\ ~disturbed
    BY <1>1, Before, Alone
  <2>2. \A b \in stamped : Left(b) = {}
    BY <2>1 DEF Orderly, Sweeping
  <2>3. \A b \in stamped' : Left(b)' = {}
    BY <2>1, <2>2
  <2> QED BY <2>1, <2>3 DEF Orderly
<1> QED BY <1>1, After

LEMMA ExactStep ==
    ASSUME RegistryInv, Fresh, Knows, Exact, NEW s \in Slot,
           Intake(s) \/ Relay(s) \/ Completion(s) \/ GiveUp(s), RegistryInv'
    PROVE  Exact'
<1> USE DEF kv, raven, history
<1> PICK q \in SlotType : q = slot[s]
  BY DEF RegistryInv, TypeOK
<1>q. Carries(q, record)
  BY DEF RegistryInv
<1>g. ASSUME NEW job, NEW failed, Go(s, job, failed) PROVE job \in SlotType
  BY <1>g DEF Go, RegistryInv, TypeOK
<1>1. CASE Intake(s)
  <2>1. \E job, failed : /\ Go(s, job, failed) /\ failed \in BOOLEAN
                         /\ job.at \notin {"stamp", "link"}
    <3>1. ASSUME NEW k \in Key, NEW ts \in 1..MaxTs
          PROVE  [Free EXCEPT !.at = "record", !.key = k, !.ts = ts].at = "record"
      BY DEF Free
    <3> QED BY <1>1, <3>1, ThenAt, FreeType DEF Intake, Report, ReportRecord, ReportLookup,
          ReportIndex
  <2>2. q.at \in {"idle", "record", "lookup", "index"} /\ UNCHANGED <<late, stamped, own, early>>
    BY <1>1 DEF Intake, Report, ReportRecord, ReportLookup, ReportIndex, At
  <2> QED BY <1>g, <2>1, <2>2, Beside DEF Left
<1>2. ASSUME NEW c \in Cmdr, NEW b \in Build, NEW pc \in {"check", "unlink"}, Resolve(s, c, b, pc)
      PROVE  Exact'
  <2>1. [Free EXCEPT !.at = pc, !.key = OwnCarrier(c), !.build = b].at = pc
    BY DEF Free
  <2>2. q.at = "idle" /\ UNCHANGED <<late, stamped, own, early>>
        /\ \E job : Go(s, job, FALSE) /\ job.at \notin {"stamp", "link"}
    BY <1>2, <2>1 DEF Resolve, At
  <2> QED BY <1>g, <2>2, Beside DEF Left
<1>3. ASSUME NEW failed \in BOOLEAN, LinkCheck(s, failed) PROVE Exact'
  <2>1. q.at = "check" /\ NoteEarly(q.build, q.key) /\ UNCHANGED <<late, stamped, own>>
    BY <1>3 DEF LinkCheck, At
  <2>b. q.build \in Build
    BY <1>q, <2>1 DEF Carries
  <2>e. disturbed \/ \A b \in stamped : early[b] \subseteq early'[b]
    BY <2>1 DEF NoteEarly, Kept, RegistryInv, TypeOK
  <2>2. CASE Go(s, Free, failed)
    <3>1. disturbed \/ \A b \in stamped : Left(b)' \subseteq Left(b)
      BY <2>1, <2>e DEF Left
    <3> QED BY <2>1, <2>2, <3>1, FreeType, Beside
  <2>3. CASE Go(s, [q EXCEPT !.at = "link"], failed) /\ (failed \/ q.build \notin complete)
    <3>1. PICK job \in SlotType : job = [q EXCEPT !.at = "link"]
      BY DEF SlotType
    <3>2. job.at = "link" /\ job.build = q.build /\ job.key = q.key
      BY <3>1 DEF SlotType
    <3>3. ASSUME ~disturbed' PROVE Orderly(job)'
      <4>1. ~failed /\ ~disturbed /\ Orderly(q)
        BY <2>3, <3>1, <3>3, Before, Alone
      <4>2. q.build \in stamped => q.key \in early'[q.build]
        BY <2>1, <2>3, <2>b, <4>1 DEF NoteEarly, Kept, RegistryInv, TypeOK
      <4>3. \A b \in stamped : Left(b)' = {}
        BY <2>1, <2>e, <4>1 DEF Orderly, Sweeping, Left
      <4> QED BY <2>1, <3>2, <4>1, <4>2, <4>3 DEF Orderly
    <3> QED BY <2>3, <3>1, <3>3, After
  <2> QED BY <1>3, <2>2, <2>3 DEF LinkCheck, BuildState, Then
<1>4. ASSUME NEW answered \in BOOLEAN, LinkPut(s, answered) PROVE Exact'
  <2>1. /\ q.at = "link" /\ Link(q.build, q.key) /\ Go(s, Free, ~answered)
        /\ UNCHANGED <<late, stamped, early>> /\ (~answered) \in BOOLEAN
    BY <1>4 DEF LinkPut, At
  <2>2. ASSUME ~disturbed' PROVE Orderly(Free)'
    <3>1. Orderly(q)
      BY <2>1, <2>2, FreeType, Before
    <3>2. /\ \A b \in stamped : Left(b) = {}
          /\ q.build \in stamped => q.key \in early[q.build]
      BY <2>1, <3>1 DEF Orderly, Sweeping
    <3>3. \A b \in stamped' : Left(b)' = {}
      BY <2>1, <3>2 DEF Link, Kept, Left, RegistryInv, TypeOK
    <3> QED BY <2>1, <3>1, <3>3, FreeType DEF Orderly
  <2> QED BY <2>1, <2>2, FreeType, After
<1>5. CASE LinkPutLate(s)
  <2>1. Go(s, Free, TRUE)
    BY <1>5 DEF LinkPutLate
  <2>2. disturbed'
    BY <2>1 DEF Go
  <2> QED BY <2>2 DEF Exact
<1>6. CASE UnlinkDelete(s)
  <2>1. /\ q.at = "unlink" /\ Unlink(q.build, q.key) /\ Go(s, Free, FALSE)
        /\ UNCHANGED <<late, stamped>>
    BY <1>6 DEF UnlinkDelete, At
  <2>2. \A b \in stamped : Left(b)' \subseteq Left(b)
    BY <2>1 DEF Unlink, Kept, Left, RegistryInv, TypeOK
  <2> QED BY <2>1, <2>2, FreeType, Beside
<1>7. ASSUME NEW b \in Build, StampRead(s, b) PROVE Exact'
  <2>1. PICK job \in SlotType :
           job = [Free EXCEPT !.at = "stamp", !.build = b,
                 !.todo = IF b \in stamped THEN {} ELSE Carrier]
    BY FreeType DEF SlotType
  <2>2. job.at = "stamp" /\ job.build = b /\ (b \in stamped \/ job.todo = Carrier)
    BY <2>1 DEF Free
  <2>3. /\ q.at = "idle" /\ Go(s, job, FALSE)
        /\ UNCHANGED <<late, stamped, own, early>>
    BY <1>7, <2>1 DEF StampRead, At
  <2>4. ASSUME ~disturbed' PROVE Orderly(job)'
    <3>1. Orderly(q)
      BY <2>3, <2>4, Before
    <3> QED BY <2>2, <2>3, <3>1 DEF Orderly, Sweeping, Left
  <2> QED BY <2>3, <2>4, After
<1>8. ASSUME NEW b \in Build, Unstamp(s, b) PROVE Exact'
  BY <1>8, FreeType, Beside DEF Unstamp, At, Left
<1>9. CASE Stamp(s)
  <2>1. /\ q.at = "stamp" /\ stamped' = stamped \cup {q.build} /\ UNCHANGED <<late, own, early>>
        /\ \/ q.todo = {} /\ Go(s, Free, FALSE)
           \/ Go(s, [q EXCEPT !.at = "sweep"], FALSE)
    BY <1>9 DEF Stamp, At, Then
  <2>2. q.build \in Build
    BY <1>q, <2>1 DEF Carries
  <2>3. CASE q.todo = {} /\ Go(s, Free, FALSE)
    <3>1. ASSUME ~disturbed' PROVE Orderly(Free)'
      <4>1. Orderly(q)
        BY <2>3, <3>1, FreeType, Before
      <4>2. \A b \in stamped : Left(b) = {}
        BY <2>1, <4>1 DEF Orderly, Sweeping
      <4>3. Left(q.build) = {}
        BY <2>1, <2>2, <2>3, <4>1, <4>2 DEF Orderly, Left, Carrier, RegistryInv, TypeOK
      <4>4. \A b \in stamped' : Left(b)' = {}
        BY <2>1, <4>2, <4>3 DEF Left
      <4> QED BY <2>1, <4>1, <4>4, FreeType DEF Orderly
    <3> QED BY <2>3, <3>1, FreeType, After
  <2>4. CASE Go(s, [q EXCEPT !.at = "sweep"], FALSE)
    <3>1. PICK job \in SlotType : job = [q EXCEPT !.at = "sweep"]
      BY DEF SlotType
    <3>2. job.at = "sweep" /\ job.build = q.build
      BY <3>1 DEF SlotType
    <3>3. ASSUME ~disturbed' PROVE Orderly(job)'
      <4>1. Orderly(q)
        BY <2>4, <3>1, <3>3, Before
      <4> QED BY <2>1, <3>2, <4>1 DEF Orderly, Sweeping, Left
    <3> QED BY <2>4, <3>1, <3>3, After
  <2> QED BY <2>1, <2>3, <2>4
<1>10. CASE SweepRead(s)
  <2>1. /\ q.at = "sweep" /\ UNCHANGED <<late, stamped, own, early>>
        /\ \/ linked[q.build] = {} /\ Go(s, Free, FALSE)
           \/ Go(s, [[q EXCEPT !.at = "clear"] EXCEPT !.todo = linked[q.build]], FALSE)
    BY <1>10 DEF SweepRead, At, Then
  <2>2. q.build \in Build /\ Left(q.build) \subseteq linked[q.build]
    BY <1>q, <2>1 DEF Carries, Knows, Left
  <2>3. CASE linked[q.build] = {} /\ Go(s, Free, FALSE)
    <3>1. ASSUME ~disturbed' PROVE Orderly(Free)'
      <4>1. Orderly(q)
        BY <2>3, <3>1, FreeType, Before
      <4>2. \A b \in stamped : Left(b) = {}
        BY <2>1, <2>2, <2>3, <4>1 DEF Orderly, Sweeping
      <4> QED BY <2>1, <4>1, <4>2, FreeType DEF Orderly, Left
    <3> QED BY <2>3, <3>1, FreeType, After
  <2>4. CASE Go(s, [[q EXCEPT !.at = "clear"] EXCEPT !.todo = linked[q.build]], FALSE)
    <3>1. PICK job \in SlotType : job = [[q EXCEPT !.at = "clear"] EXCEPT !.todo = linked[q.build]]
      BY <2>2 DEF SlotType, RegistryInv, TypeOK
    <3>2. job.at = "clear" /\ job.build = q.build /\ job.todo = linked[q.build]
      BY <3>1 DEF SlotType
    <3>3. ASSUME ~disturbed' PROVE Orderly(job)'
      <4>1. Orderly(q)
        BY <2>4, <3>1, <3>3, Before
      <4> QED BY <2>1, <2>2, <3>2, <4>1 DEF Orderly, Sweeping, Left
    <3> QED BY <2>4, <3>1, <3>3, After
  <2> QED BY <2>1, <2>3, <2>4
<1>11. ASSUME NEW m \in Carrier, NEW failed \in BOOLEAN, SweepOne(s, m, failed) PROVE Exact'
  <2>1. /\ q.at = "clear" /\ UNCHANGED <<late, stamped, record>>
        /\ Go(s, Swept(s, m), failed)
        /\ IF Known(m) /\ ~failed THEN Unlink(q.build, m) ELSE UNCHANGED <<own, early>>
    BY <1>11 DEF SweepOne, At
  <2>2. q.build \in Build
    BY <1>q, <2>1 DEF Carries
  <2>3. PICK job \in SlotType : job = Swept(s, m)
    BY <1>g, <2>1
  <2>4. \/ q.todo = {m} /\ job.at = "idle"
        \/ job.at = "clear" /\ job.build = q.build /\ job.todo = q.todo \ {m}
    BY <2>1, <2>3, FreeType DEF Swept, SlotType
  <2>5. ASSUME ~disturbed' PROVE Orderly(job)'
    <3>1. ~failed /\ ~disturbed /\ Orderly(q)
      BY <2>1, <2>3, <2>5, Before, Alone
    <3>2. Left(q.build)' = Left(q.build) \ {m} /\ \A b \in Build \ {q.build} : Left(b)' = Left(b)
      <4>1. CASE Known(m)
        BY <2>1, <2>2, <3>1, <4>1 DEF Unlink, Kept, Left, RegistryInv, TypeOK
      <4>2. CASE ~Known(m)
        BY <2>1, <2>2, <4>2 DEF Known, Knows, Left, RegistryInv, TypeOK
      <4> QED BY <4>1, <4>2
    <3>3. \A b \in stamped : Left(b) = {} \/ (b = q.build /\ Left(b) \subseteq q.todo)
      BY <2>1, <3>1 DEF Orderly, Sweeping
    <3>4. stamped \subseteq Build
      BY DEF RegistryInv, TypeOK
    <3>5. \A b \in stamped : Left(b)' = {} \/ Sweeping(job, b, Left(b)')
      BY <2>4, <3>2, <3>3, <3>4 DEF Sweeping
    <3> QED BY <2>1, <2>4, <3>1, <3>5 DEF Orderly
  <2> QED BY <2>1, <2>3, <2>5, After
<1>12. CASE GiveUp(s)
  <2>1. Go(s, Free, TRUE)
    BY <1>12 DEF GiveUp
  <2>2. disturbed'
    BY <2>1 DEF Go
  <2> QED BY <2>2 DEF Exact
<1> QED
  BY <1>1, <1>2, <1>3, <1>4, <1>5, <1>6, <1>7, <1>8, <1>9, <1>10, <1>11, <1>12 DEF Relay, Completion

(* While nothing overlaps or fails no link of this board's is left on a     *)
(* stamped build, but those asked for when it was stamped already and Raven *)
(* still called it open (blades/api/carrier.js, builds.js                   *)
(* unassignSquadCarriers), and no outsider's is ever taken off.             *)
THEOREM SweepLeavesNothing == Spec => []SweepIsExact
<1>1. Init => Fresh /\ Knows /\ Exact
  BY FreeType DEF Init, Fresh, Knows, Exact, At
<1>2. RegistryInv /\ RegistryInv' /\ Fresh /\ Knows /\ Exact /\ [Next]_vars => Exact'
  <2> SUFFICES ASSUME RegistryInv, RegistryInv', Fresh, Knows, Exact, [Next]_vars PROVE Exact'
    OBVIOUS
  <2>1. ASSUME NEW b \in Build, Completes(b) PROVE Exact'
    <3>1. UNCHANGED <<stamped, own, early, late, slot, disturbed>>
      BY <2>1 DEF Completes, kv, history
    <3> QED BY <3>1 DEF Exact, At, Left, Sweeping
  <2>2. ASSUME NEW b \in Build, NEW m \in Carrier, LinkedThere(b, m) PROVE Exact'
    BY <2>2 DEF LinkedThere, kv, Exact, At, Left, Sweeping
  <2>3. ASSUME NEW b \in Build, NEW m \in Carrier, ActLate(b, m) PROVE Exact'
    BY <2>3 DEF ActLate, Exact
  <2>4. CASE UNCHANGED vars
    BY <2>4 DEF vars, kv, raven, history, Exact, At, Left, Sweeping
  <2> QED BY <2>1, <2>2, <2>3, <2>4, ExactStep DEF Next
<1>3. RegistryInv /\ Exact => SweepIsExact
  BY DEF RegistryInv, Exact, SweepIsExact, Quiet, At, Left, Sweeping
<1> QED BY <1>1, <1>2, <1>3, RegistryHolds, FreshKept, KnowsStep, PTL DEF Spec
=============================================================================
