--------------------------- MODULE PilotFilesProofs ---------------------------
(***************************************************************************)
(* What PilotFiles promises, for any number of pilots, orders, preferences *)
(* and handlers in flight.                                                 *)
(*                                                                         *)
(* That nothing happens but by choice holds whatever overlaps or fails: a  *)
(* TRUE is only ever made by a pilot who turns his own switch on, and      *)
(* every copy of a row, in a handler, in a store or on a PC, is a copy of  *)
(* rows that held no other (ByChoice).  That a switch tells the truth      *)
(* needs the handlers of one file to be apart: then what a handler has     *)
(* read still stands when it writes (Faithful), and a switch differs from  *)
(* what is stored only while its change is on the way (Truthful).          *)
(*                                                                         *)
(* At the end, by way of an instance of MigrationGate: what a READY card   *)
(* of the admin console promises about the same pilots.                    *)
(***************************************************************************)
EXTENDS PilotFiles, TLAPS

-----------------------------------------------------------------------------
(* Types of the rows and of what the handlers do with them.                 *)
LEMMA Kinds ==
    /\ Order \subseteq Key /\ Pref \subseteq Key /\ OpenPref \subseteq Pref
    /\ Order \cap Pref = {} /\ Unset \notin Key /\ Unset \notin BOOLEAN
    /\ NoRow \notin [Order -> BOOLEAN] /\ NoRow \notin Record
    /\ Pressing \subseteq Order
  BY FilesAssumption DEF Key, Pref, Record

LEMMA ShownTypes ==
    /\ AllOff \in [Order -> BOOLEAN]
    /\ \A row \in [Order -> BOOLEAN] \cup {NoRow} : OrdersShown(row) \in [Order -> BOOLEAN]
    /\ \A rec \in Record \cup {NoRow} : PrefsShown(rec) \in [Pref -> BOOLEAN]
  BY DEF AllOff, OrdersShown, PrefsShown

LEMMA StampedTypes ==
    /\ Blank \in Record /\ Defaults \in Record
    /\ \A rec \in Record \cup {NoRow} : Stamped(rec) \in Record
  BY DEF Stamped, Defaults, Blank, Record

LEMMA FreeType == Free \in SlotType
<1>1. (CHOOSE p \in Pilot : TRUE) \in Pilot
  BY FilesAssumption
<1>2. NoOrders \in OrderMap
  BY DEF NoOrders, OrderMap
<1> QED BY <1>1, <1>2 DEF Free, SlotType

LEMMA SomePref == (CHOOSE k \in Pref : TRUE) \in Pref
  BY FilesAssumption

LEMMA MergedOrders ==
    ASSUME NEW row \in [Order -> BOOLEAN], NEW q \in SlotType
    PROVE  /\ Merged(row, q) \in [Order -> BOOLEAN]
           /\ \A o \in Order : Merged(row, q)[o] = IF o = q.key THEN q.value ELSE row[o]
  BY DEF Merged, SlotType

LEMMA MergedPrefs ==
    ASSUME NEW rec \in Record, NEW q \in SlotType
    PROVE  /\ Merged(rec, q) \in Record
           /\ \A k \in Pref : Merged(rec, q)[k] = IF k = q.key THEN q.value ELSE rec[k]
  BY DEF Merged, SlotType, Record

LEMMA ShownType ==
    ASSUME TypeOK, NEW q \in SlotType
    PROVE  /\ Shown(q) \in [Key -> BOOLEAN \cup {Unset}]
           /\ Reverted(q) \in [Key -> BOOLEAN \cup {Unset}]
<1>1. switch[q.who] \in [Key -> BOOLEAN \cup {Unset}]
  BY DEF TypeOK, SlotType
<1>2. OrdersShown(q.map[q.who]) \in [Order -> BOOLEAN]
  BY ShownTypes DEF SlotType, OrderMap
<1>3. PrefsShown(q.rec) \in [Pref -> BOOLEAN]
  BY ShownTypes DEF SlotType
<1>4. q.value \in BOOLEAN /\ (~q.value) \in BOOLEAN
  BY DEF SlotType
<1>5. Shown(q) \in [Key -> BOOLEAN \cup {Unset}]
  BY <1>1, <1>2, <1>3 DEF Shown
<1>6. Reverted(q) \in [Key -> BOOLEAN \cup {Unset}]
  <2>1. CASE q.op = "set"
    <3>1. Reverted(q) = [switch[q.who] EXCEPT ![q.key] = IF @ = Unset THEN @ ELSE ~q.value]
      BY <2>1 DEF Reverted
    <3> QED BY <1>1, <1>4, <3>1
  <2>2. CASE q.op # "set"
    BY <1>1, <2>2 DEF Reverted
  <2> QED BY <2>1, <2>2
<1> QED BY <1>5, <1>6

LEMMA TryType ==
    ASSUME glitches \in 0..MaxGlitches, disturbed \in BOOLEAN, NEW ok \in BOOLEAN, Try(ok)
    PROVE  glitches' \in 0..MaxGlitches /\ disturbed' \in BOOLEAN
  BY FilesAssumption DEF Try

LEMMA TryFalseType ==
    ASSUME glitches \in 0..MaxGlitches, disturbed \in BOOLEAN, Try(FALSE)
    PROVE  glitches' \in 0..MaxGlitches /\ disturbed' \in BOOLEAN
  BY TryType

LEMMA ArriveType ==
    ASSUME TypeOK, NEW s \in Slot, NEW q \in SlotType, Arrive(s, q)
    PROVE  /\ slot' \in [Slot -> SlotType] /\ events' \in 0..MaxEvents
           /\ disturbed' \in BOOLEAN
           /\ UNCHANGED <<files, able, refused, plugin, glitches>>
  BY FilesAssumption DEF Arrive, Happens, Go, TypeOK

LEMMA GoType ==
    ASSUME TypeOK, NEW s \in Slot, NEW q \in SlotType, Go(s, q)
    PROVE  slot' \in [Slot -> SlotType]
  BY DEF Go, TypeOK

-----------------------------------------------------------------------------
(* Every variable keeps its type.                                           *)
LEMMA InitTypes == Init => TypeOK
<1> SUFFICES ASSUME Init PROVE TypeOK
  OBVIOUS
<1>1. slot \in [Slot -> SlotType]
  BY FreeType DEF Init
<1>2. /\ plugin \in [PC -> [Order -> BOOLEAN \cup {Unset}]]
      /\ switch \in [Pilot -> [Key -> BOOLEAN \cup {Unset}]]
  BY DEF Init
<1>3. events \in 0..MaxEvents /\ glitches \in 0..MaxGlitches
  BY FilesAssumption DEF Init
<1> QED BY <1>1, <1>2, <1>3 DEF Init, TypeOK, OrderMap, NoOrders

LEMMA CommitType ==
    ASSUME TypeOK, NEW s \in Slot, NEW p \in Pilot, NEW k \in Key, Commit(s, p, k)
    PROVE  TypeOK'
<1> DEFINE next == ~switch[p][k]
<1> DEFINE q == [Free EXCEPT !.at = "read", !.op = "set", !.who = p, !.key = k, !.value = next]
<1>1. Arrive(s, q) /\ switch' = [switch EXCEPT ![p][k] = next]
  BY DEF Commit
<1>2. next \in BOOLEAN
  BY DEF Commit, TypeOK
<1>3. q \in SlotType
  BY <1>2, FreeType, Kinds DEF SlotType
<1>4. switch' \in [Pilot -> [Key -> BOOLEAN \cup {Unset}]]
  BY <1>1, <1>2 DEF TypeOK
<1>5. chosen' \in [Pilot -> SUBSET Key]
  <2>1. chosen' = IF next THEN [chosen EXCEPT ![p] = @ \cup {k}] ELSE chosen
    BY DEF Commit
  <2> QED BY <2>1 DEF TypeOK
<1> HIDE DEF q, next
<1>6. /\ slot' \in [Slot -> SlotType] /\ events' \in 0..MaxEvents /\ disturbed' \in BOOLEAN
      /\ UNCHANGED <<files, able, refused, plugin, glitches>>
  BY <1>1, <1>3, ArriveType
<1> QED BY <1>4, <1>5, <1>6 DEF TypeOK, files, able

LEMMA LookType ==
    ASSUME TypeOK, NEW s \in Slot, NEW p \in Pilot, LookAtOrders(s, p) \/ LookAtRecord(s, p)
    PROVE  TypeOK'
<1>1. PICK q \in SlotType : Arrive(s, q)
  <2>1. [Free EXCEPT !.at = "read", !.who = p] \in SlotType
    BY FreeType DEF SlotType
  <2>2. [Free EXCEPT !.at = "read", !.who = p, !.key = CHOOSE k \in Pref : TRUE] \in SlotType
    BY FreeType, SomePref, Kinds DEF SlotType
  <2> QED BY <2>1, <2>2 DEF LookAtOrders, LookAtRecord
<1>2. /\ slot' \in [Slot -> SlotType] /\ events' \in 0..MaxEvents /\ disturbed' \in BOOLEAN
      /\ UNCHANGED <<files, able, refused, plugin, glitches>>
  BY <1>1, ArriveType
<1>3. UNCHANGED <<switch, chosen>>
  BY DEF LookAtOrders, LookAtRecord
<1> QED BY <1>2, <1>3 DEF TypeOK, files, able

LEMMA ReadOrdersType ==
    ASSUME TypeOK, NEW s \in Slot, ReadOrders(s)
    PROVE  TypeOK'
<1> DEFINE q == slot[s]
<1>0. q \in SlotType
  BY DEF TypeOK
<1>1. PICK ok \in BOOLEAN :
         LET map == IF ok THEN orders ELSE NoOrders
             row == OrdersShown(map[q.who])
         IN  /\ Try(ok)
             /\ Go(s, IF q.op = "look" THEN [q EXCEPT !.at = "ready", !.map = map]
                      ELSE [q EXCEPT !.at = "write",
                                     !.map = [map EXCEPT ![q.who] = Merged(row, q)]])
  BY DEF ReadOrders
<1> DEFINE map == IF ok THEN orders ELSE NoOrders
           row == OrdersShown(map[q.who])
<1>2. map \in OrderMap
  BY DEF NoOrders, OrderMap, TypeOK
<1>3. q.who \in Pilot
  BY <1>0 DEF SlotType
<1>4. Merged(row, q) \in [Order -> BOOLEAN]
  BY <1>0, <1>2, <1>3, ShownTypes, MergedOrders DEF OrderMap
<1>5. [map EXCEPT ![q.who] = Merged(row, q)] \in OrderMap
  <2> HIDE DEF map, row, q
  <2> QED BY <1>2, <1>4 DEF OrderMap
<1>6. [q EXCEPT !.at = "ready", !.map = map] \in SlotType
  <2> HIDE DEF map, q
  <2> QED BY <1>0, <1>2 DEF SlotType
<1>7. [q EXCEPT !.at = "write", !.map = [map EXCEPT ![q.who] = Merged(row, q)]] \in SlotType
  <2> HIDE DEF map, row, q
  <2> QED BY <1>0, <1>5 DEF SlotType
<1>8. slot' \in [Slot -> SlotType]
  <2>1. CASE q.op = "look"
    BY <1>1, <1>6, <2>1, GoType
  <2>2. CASE q.op # "look"
    BY <1>1, <1>7, <2>2, GoType
  <2> QED BY <2>1, <2>2
<1>9. glitches' \in 0..MaxGlitches /\ disturbed' \in BOOLEAN
  BY <1>1, TryType DEF TypeOK
<1>10. UNCHANGED <<files, able, refused, switch, plugin, events, chosen>>
  BY DEF ReadOrders
<1> QED BY <1>8, <1>9, <1>10 DEF TypeOK, files, able

LEMMA ReadReadinessType ==
    ASSUME TypeOK, NEW s \in Slot, ReadReadiness(s)
    PROVE  TypeOK'
<1>0. slot[s] \in SlotType /\ slot[s].who \in Pilot
  BY DEF TypeOK, SlotType
<1>1. PICK ok \in BOOLEAN :
         /\ Try(ok)
         /\ Go(s, [slot[s] EXCEPT !.at = "answer",
                             !.no = IF ok /\ ready[slot[s].who] # NoRow
                                    THEN Pressing \ ready[slot[s].who] ELSE {}])
  BY DEF ReadReadiness
<1>2. [slot[s] EXCEPT !.at = "answer",
                      !.no = IF ok /\ ready[slot[s].who] # NoRow
                             THEN Pressing \ ready[slot[s].who] ELSE {}] \in SlotType
  BY <1>0 DEF SlotType
<1>3. slot' \in [Slot -> SlotType]
  BY <1>1, <1>2, GoType
<1>4. glitches' \in 0..MaxGlitches /\ disturbed' \in BOOLEAN
  BY <1>1, TryType DEF TypeOK
<1>5. UNCHANGED <<files, able, refused, switch, plugin, events, chosen>>
  BY DEF ReadReadiness
<1> QED BY <1>3, <1>4, <1>5 DEF TypeOK, files, able

LEMMA ReadRecordType ==
    ASSUME TypeOK, NEW s \in Slot, ReadRecord(s)
    PROVE  TypeOK'
<1> DEFINE q == slot[s]
<1>0. q \in SlotType /\ q.who \in Pilot
  BY DEF TypeOK, SlotType
<1>1. PICK ok \in BOOLEAN :
         LET rec == IF ok THEN member[q.who] ELSE NoRow IN
         /\ Try(ok)
         /\ Go(s, [q EXCEPT !.at = "write",
                            !.rec = IF q.op = "look" THEN Stamped(rec)
                                    ELSE Merged(IF rec = NoRow THEN Blank ELSE rec, q)])
  BY DEF ReadRecord
<1> DEFINE rec == IF ok THEN member[q.who] ELSE NoRow
           new == IF q.op = "look" THEN Stamped(rec)
                  ELSE Merged(IF rec = NoRow THEN Blank ELSE rec, q)
<1>2. rec \in Record \cup {NoRow}
  BY <1>0 DEF TypeOK
<1>3. new \in Record
  BY <1>0, <1>2, StampedTypes, MergedPrefs
<1>4. [q EXCEPT !.at = "write", !.rec = new] \in SlotType
  <2> HIDE DEF new, q
  <2> QED BY <1>0, <1>3 DEF SlotType
<1>5. slot' \in [Slot -> SlotType]
  BY <1>1, <1>4, GoType
<1>6. glitches' \in 0..MaxGlitches /\ disturbed' \in BOOLEAN
  BY <1>1, TryType DEF TypeOK
<1>7. UNCHANGED <<files, able, refused, switch, plugin, events, chosen>>
  BY DEF ReadRecord
<1> QED BY <1>5, <1>6, <1>7 DEF TypeOK, files, able

LEMMA SaveType ==
    ASSUME TypeOK, NEW s \in Slot, Save(s)
    PROVE  TypeOK'
<1> DEFINE q == slot[s]
<1>0. q \in SlotType
  BY DEF TypeOK
<1>1. PICK ok \in BOOLEAN :
         /\ Try(ok)
         /\ orders' = IF ok /\ q.key \in Order THEN q.map ELSE orders
         /\ member' = IF ok /\ q.key \in Pref THEN [member EXCEPT ![q.who] = q.rec] ELSE member
         /\ Go(s, [q EXCEPT !.at = IF ok \/ q.op = "look" THEN "answer" ELSE "refuse"])
  BY DEF Save
<1>2. orders' \in OrderMap /\ member' \in [Pilot -> Record \cup {NoRow}]
  BY <1>0, <1>1 DEF SlotType, TypeOK
<1>3. [q EXCEPT !.at = IF ok \/ q.op = "look" THEN "answer" ELSE "refuse"] \in SlotType
  BY <1>0 DEF SlotType
<1>4. slot' \in [Slot -> SlotType]
  BY <1>1, <1>3, GoType
<1>5. glitches' \in 0..MaxGlitches /\ disturbed' \in BOOLEAN
  BY <1>1, TryType DEF TypeOK
<1>6. UNCHANGED <<able, refused, switch, plugin, events, chosen>>
  BY DEF Save
<1> QED BY <1>2, <1>4, <1>5, <1>6 DEF TypeOK, able

LEMMA RefusingType ==
    ASSUME TypeOK, NEW q \in SlotType, NEW no \in SUBSET Pressing
    PROVE  Refusing(q, no) \in [Pilot -> SUBSET Pressing]
  BY DEF TypeOK, Refusing, SlotType

LEMMA AnswerType ==
    ASSUME TypeOK, NEW s \in Slot, Answer(s) \/ Refuse(s)
    PROVE  TypeOK'
<1>0. slot[s] \in SlotType
  BY DEF TypeOK
<1>1. slot' \in [Slot -> SlotType]
  BY FreeType, GoType DEF Answer, Refuse
<1>2. CASE Answer(s)
  <2>1. Shown(slot[s]) \in [Key -> BOOLEAN \cup {Unset}]
    BY <1>0, ShownType
  <2>2. switch' \in [Pilot -> [Key -> BOOLEAN \cup {Unset}]]
    BY <1>2, <2>1 DEF Answer, TypeOK
  <2>3. refused' \in [Pilot -> SUBSET Pressing]
    BY <1>0, <1>2, RefusingType DEF Answer, SlotType
  <2> QED BY <1>1, <1>2, <2>2, <2>3 DEF Answer, TypeOK, files, able
<1>3. CASE Refuse(s)
  <2>1. Reverted(slot[s]) \in [Key -> BOOLEAN \cup {Unset}]
    BY <1>0, ShownType
  <2>2. switch' \in [Pilot -> [Key -> BOOLEAN \cup {Unset}]]
    BY <1>3, <2>1 DEF Refuse, TypeOK
  <2>3. refused' \in [Pilot -> SUBSET Pressing]
    BY <1>0, <1>3, RefusingType DEF Refuse
  <2>4. glitches' \in 0..MaxGlitches /\ disturbed' \in BOOLEAN
    BY <1>3, TryType DEF Refuse, TypeOK
  <2> QED BY <1>1, <1>3, <2>2, <2>3, <2>4 DEF Refuse, TypeOK, files, able
<1> QED BY <1>2, <1>3

LEMMA PluginType ==
    ASSUME TypeOK, NEW c \in PC,
           \/ \E p \in Pilot : Login(c, p)
           \/ Restart(c) \/ Rebind(c) \/ Poll(c) \/ LosePoll(c)
    PROVE  TypeOK'
<1>0. Happens => events' \in 0..MaxEvents
  BY FilesAssumption DEF Happens, TypeOK
<1>1. ASSUME NEW p \in Pilot, Login(c, p) PROVE TypeOK'
  BY <1>0, <1>1 DEF Login, TypeOK, files
<1>2. CASE Restart(c)
  BY <1>0, <1>2 DEF Restart, TypeOK, files
<1>3. CASE Rebind(c)
  <2>1. binds' \in [PC -> SUBSET Pressing]
    <3>1. PICK o \in Pressing :
             binds' = [binds EXCEPT ![c] = IF o \in @ THEN @ \ {o} ELSE @ \cup {o}]
      BY <1>3 DEF Rebind
    <3> QED BY <3>1 DEF TypeOK
  <2>2. doubt' \subseteq PC
    BY <1>3 DEF Rebind, TypeOK
  <2> QED BY <1>0, <1>3, <2>1, <2>2 DEF Rebind, TypeOK, files
<1>4. CASE Poll(c)
  <2>1. flying[c] \in Pilot /\ orders[flying[c]] \in [Order -> BOOLEAN] \cup {NoRow}
    BY <1>4 DEF Poll, TypeOK, OrderMap
  <2>2. Followed(c) \in [PC -> [Order -> BOOLEAN \cup {Unset}]]
    BY <2>1 DEF Followed, TypeOK
  <2>3. glitches' \in 0..MaxGlitches /\ disturbed' \in BOOLEAN
    BY <1>4, TryType DEF Poll, TypeOK
  <2>4. /\ ready' \in [Pilot -> {NoRow} \cup SUBSET Pressing]
        /\ sent' \in [PC -> {NoRow} \cup SUBSET Pressing]
        /\ captain' \in [PC -> Pilot \cup {Nobody}]
    BY <1>4, <2>1 DEF Poll, TypeOK
  <2>5. plugin' \in [PC -> [Order -> BOOLEAN \cup {Unset}]] /\ doubt' \subseteq PC
    BY <1>4, <2>2 DEF Poll, Elsewhere, TypeOK
  <2> QED BY <1>4, <2>3, <2>4, <2>5 DEF Poll, TypeOK, files
<1>5. CASE LosePoll(c)
  BY <1>5 DEF LosePoll, Elsewhere, TypeOK, files
<1> QED BY <1>1, <1>2, <1>3, <1>4, <1>5

LEMMA ExpireType == ASSUME TypeOK, NEW p \in Pilot, Expire(p) PROVE TypeOK'
<1>1. events' \in 0..MaxEvents
  BY FilesAssumption DEF Expire, Happens, TypeOK
<1> QED BY <1>1 DEF Expire, TypeOK, files

LEMMA TypeStep == TypeOK /\ [Next]_vars => TypeOK'
<1> SUFFICES ASSUME TypeOK, [Next]_vars PROVE TypeOK'
  OBVIOUS
<1>1. ASSUME NEW s \in Slot, NEW p \in Pilot, NEW k \in Key, Commit(s, p, k) PROVE TypeOK'
  BY <1>1, CommitType
<1>2. ASSUME NEW s \in Slot, NEW p \in Pilot, LookAtOrders(s, p) \/ LookAtRecord(s, p) PROVE TypeOK'
  BY <1>2, LookType
<1>3. ASSUME NEW s \in Slot, ReadOrders(s) PROVE TypeOK'
  BY <1>3, ReadOrdersType
<1>4. ASSUME NEW s \in Slot, ReadReadiness(s) PROVE TypeOK'
  BY <1>4, ReadReadinessType
<1>5. ASSUME NEW s \in Slot, ReadRecord(s) PROVE TypeOK'
  BY <1>5, ReadRecordType
<1>6. ASSUME NEW s \in Slot, Save(s) PROVE TypeOK'
  BY <1>6, SaveType
<1>7. ASSUME NEW s \in Slot, Answer(s) \/ Refuse(s) PROVE TypeOK'
  BY <1>7, AnswerType
<1>8. ASSUME NEW c \in PC,
             \/ \E p \in Pilot : Login(c, p)
             \/ Restart(c) \/ Rebind(c) \/ Poll(c) \/ LosePoll(c)
      PROVE  TypeOK'
  BY <1>8, PluginType
<1>9. ASSUME NEW p \in Pilot, Expire(p) PROVE TypeOK'
  BY <1>9, ExpireType
<1>10. CASE UNCHANGED vars
  BY <1>10 DEF vars, files, able, TypeOK
<1> QED BY <1>1, <1>2, <1>3, <1>4, <1>5, <1>6, <1>7, <1>8, <1>9, <1>10 DEF Next

(* Whatever overlaps, fails or is lost, what the pages, the handlers, the   *)
(* stores and the plugins hold keeps its type (plugin-settings.js,          *)
(* member.js, navpull.js, load.py _apply_srv).                              *)
THEOREM FilesTypeCorrect == Spec => []TypeOK
  BY InitTypes, TypeStep, PTL DEF Spec

-----------------------------------------------------------------------------
(* Rows that turn nothing on but what is in C.                              *)
Inside(row, C) == row # NoRow => \A o \in Order : row[o] => o \in C
Private(rec, C) == rec # NoRow => \A k \in ClosedPref : rec[k] = TRUE => k \in C

(* What a handler carries was chosen: the change it makes and every row     *)
(* that it has read.                                                        *)
Carried(q, by) ==
    /\ q.op = "set" => q.key \in Key /\ (q.value => q.key \in by[q.who])
    /\ \A p \in Pilot : Inside(q.map[p], by[p])
    /\ Private(q.rec, by[q.who])

Kept ==
    /\ \A c \in PC, o \in Order :
          plugin[c][o] = TRUE => captain[c] # Nobody /\ o \in chosen[captain[c]]
    /\ \A p \in Pilot : Inside(orders[p], chosen[p]) /\ Private(member[p], chosen[p])

ByChoice == Kept /\ \A s \in Slot : Carried(slot[s], chosen)

LEMMA CarriedGrows ==
    ASSUME NEW q \in SlotType, NEW C, NEW D, \A p \in Pilot : C[p] \subseteq D[p],
           Carried(q, C)
    PROVE  Carried(q, D)
  BY DEF Carried, Inside, Private, SlotType

LEMMA FreeCarried == ASSUME NEW C PROVE Carried(Free, C)
  BY DEF Free, Carried, NoOrders, Inside, Private

LEMMA MergedInside ==
    ASSUME NEW row \in [Order -> BOOLEAN] \cup {NoRow}, NEW q \in SlotType, NEW C, Inside(row, C),
           q.value => q.key \in C
    PROVE  Inside(Merged(OrdersShown(row), q), C)
<1>1. /\ OrdersShown(row) \in [Order -> BOOLEAN]
      /\ \A o \in Order : OrdersShown(row)[o] => o \in C
  BY ShownTypes DEF OrdersShown, AllOff, Inside
<1> QED BY <1>1, MergedOrders DEF Inside

LEMMA MergedPrivate ==
    ASSUME NEW rec \in Record \cup {NoRow}, NEW q \in SlotType, NEW C, Private(rec, C),
           q.value => q.key \in C
    PROVE  Private(Merged(IF rec = NoRow THEN Blank ELSE rec, q), C)
<1> DEFINE old == IF rec = NoRow THEN Blank ELSE rec
<1>1. old \in Record
  BY StampedTypes
<1>2. \A k \in ClosedPref : old[k] = TRUE => k \in C
  BY Kinds DEF Blank, Private, Pref
<1> HIDE DEF old
<1>3. \A k \in ClosedPref : Merged(old, q)[k] = TRUE => k \in C
  BY <1>1, <1>2, MergedPrefs DEF Pref
<1> QED BY <1>3 DEF Private, old

LEMMA StampedPrivate ==
    ASSUME NEW rec \in Record \cup {NoRow}, NEW C, Private(rec, C)
    PROVE  Private(Stamped(rec), C)
<1>1. \A k \in ClosedPref : k \in Pref /\ k \notin OpenPref
  BY FilesAssumption DEF Pref
<1> QED BY <1>1 DEF Private, Stamped, Defaults

(* One handler moves on, with nothing that was not chosen, and nobody       *)
(* chooses anything meanwhile.                                              *)
LEMMA CarryOn ==
    ASSUME TypeOK, ByChoice, NEW s \in Slot, NEW q \in SlotType, Carried(q, chosen), Go(s, q),
           chosen' = chosen
    PROVE  \A r \in Slot : Carried(slot'[r], chosen')
<1> TAKE r \in Slot
<1>1. slot'[r] = IF r = s THEN q ELSE slot[r]
  BY DEF Go, TypeOK
<1> QED BY <1>1 DEF ByChoice

LEMMA InitByChoice == Init => ByChoice
<1> SUFFICES ASSUME Init PROVE ByChoice
  OBVIOUS
<1>1. \A s \in Slot : Carried(slot[s], chosen)
  <2> TAKE s \in Slot
  <2>1. slot[s] = Free
    BY DEF Init
  <2> QED BY <2>1, FreeCarried
<1>2. \A c \in PC, o \in Order : plugin[c][o] # TRUE
  <2> TAKE c \in PC, o \in Order
  <2>1. plugin[c][o] = Unset
    BY DEF Init
  <2>2. Unset # TRUE
    BY Kinds
  <2> QED BY <2>1, <2>2
<1>3. \A p \in Pilot : orders[p] = NoRow /\ member[p] = NoRow
  BY DEF Init, NoOrders
<1>4. \A p \in Pilot : Inside(orders[p], chosen[p]) /\ Private(member[p], chosen[p])
  BY <1>3 DEF Inside, Private
<1> QED BY <1>1, <1>2, <1>4 DEF ByChoice, Kept

LEMMA CommitByChoice ==
    ASSUME TypeOK, ByChoice, NEW s \in Slot, NEW p \in Pilot, NEW k \in Key, Commit(s, p, k)
    PROVE  ByChoice'
<1> DEFINE next == ~switch[p][k]
<1> DEFINE q == [Free EXCEPT !.at = "read", !.op = "set", !.who = p, !.key = k, !.value = next]
<1>1. next \in BOOLEAN
  BY DEF Commit, TypeOK
<1>2. chosen' = IF next THEN [chosen EXCEPT ![p] = @ \cup {k}] ELSE chosen
  BY DEF Commit
<1>3. /\ slot' = [slot EXCEPT ![s] = q] /\ q \in SlotType
      /\ UNCHANGED <<files, plugin, captain>>
  BY <1>1, FreeType, Kinds DEF Commit, Arrive, Go, SlotType, able
<1>4. /\ q.op = "set" /\ q.key = k /\ q.value = next /\ q.who = p
      /\ q.map = NoOrders /\ q.rec = NoRow
  BY FreeType DEF SlotType, Free
<1> HIDE DEF q, next
<1>5. \A r \in Pilot : chosen[r] \subseteq chosen'[r]
  BY <1>1, <1>2 DEF TypeOK
<1>6. next => k \in chosen'[p]
  BY <1>2 DEF TypeOK
<1>7. Carried(q, chosen')
  BY <1>4, <1>6 DEF Carried, NoOrders, Inside, Private
<1>8. \A r \in Slot : Carried(slot'[r], chosen')
  <2> TAKE r \in Slot
  <2>1. Carried(slot[r], chosen')
    BY <1>5, CarriedGrows DEF ByChoice, TypeOK
  <2>2. slot'[r] = IF r = s THEN q ELSE slot[r]
    BY <1>3 DEF TypeOK
  <2> QED BY <1>7, <2>1, <2>2
<1>9. Kept'
  <2>1. \A c \in PC : captain[c] # Nobody => captain[c] \in Pilot
    BY DEF TypeOK
  <2>2. \A c \in PC, o \in Order :
           plugin'[c][o] = TRUE => captain'[c] # Nobody /\ o \in chosen'[captain'[c]]
    BY <1>3, <1>5, <2>1 DEF ByChoice, Kept
  <2>3. \A r \in Pilot : Inside(orders[r], chosen[r])' /\ Private(member[r], chosen[r])'
    BY <1>3, <1>5 DEF ByChoice, Kept, Inside, Private, files
  <2> QED BY <2>2, <2>3 DEF Kept
<1> QED BY <1>8, <1>9 DEF ByChoice

LEMMA LookByChoice ==
    ASSUME TypeOK, ByChoice, NEW s \in Slot, NEW p \in Pilot,
           LookAtOrders(s, p) \/ LookAtRecord(s, p)
    PROVE  ByChoice'
<1>1. ASSUME NEW q \in SlotType, q.op = "look", q.map = NoOrders, q.rec = NoRow
      PROVE  Carried(q, chosen)
  BY <1>1 DEF Carried, NoOrders, Inside, Private
<1>2. PICK q \in SlotType : Carried(q, chosen) /\ Go(s, q)
  <2>1. CASE LookAtOrders(s, p)
    <3>1. PICK q : q = [Free EXCEPT !.at = "read", !.who = p]
      OBVIOUS
    <3>2. q \in SlotType /\ q.op = "look" /\ q.map = NoOrders /\ q.rec = NoRow
      BY <3>1, FreeType DEF SlotType, Free
    <3> QED BY <1>1, <2>1, <3>1, <3>2 DEF LookAtOrders, Arrive
  <2>2. CASE LookAtRecord(s, p)
    <3>1. PICK q : q = [Free EXCEPT !.at = "read", !.who = p, !.key = CHOOSE k \in Pref : TRUE]
      OBVIOUS
    <3>2. q \in SlotType /\ q.op = "look" /\ q.map = NoOrders /\ q.rec = NoRow
      BY <3>1, FreeType, SomePref, Kinds DEF SlotType, Free
    <3> QED BY <1>1, <2>2, <3>1, <3>2 DEF LookAtRecord, Arrive
  <2> QED BY <2>1, <2>2
<1>3. UNCHANGED <<chosen, files, plugin, captain>>
  BY DEF LookAtOrders, LookAtRecord, Arrive, able
<1>4. \A r \in Slot : Carried(slot'[r], chosen')
  BY <1>2, <1>3, CarryOn
<1> QED BY <1>3, <1>4 DEF ByChoice, Kept, files

LEMMA ReadOrdersByChoice ==
    ASSUME TypeOK, ByChoice, NEW s \in Slot, ReadOrders(s)
    PROVE  ByChoice'
<1> DEFINE q == slot[s]
<1>0. q \in SlotType /\ q.who \in Pilot /\ Carried(q, chosen)
  BY DEF TypeOK, SlotType, ByChoice
<1>1. PICK ok \in BOOLEAN :
         LET map == IF ok THEN orders ELSE NoOrders
             row == OrdersShown(map[q.who])
         IN  Go(s, IF q.op = "look" THEN [q EXCEPT !.at = "ready", !.map = map]
                   ELSE [q EXCEPT !.at = "write",
                                  !.map = [map EXCEPT ![q.who] = Merged(row, q)]])
  BY DEF ReadOrders
<1> DEFINE map == IF ok THEN orders ELSE NoOrders
           new == Merged(OrdersShown(map[q.who]), q)
<1>2. /\ map \in OrderMap
      /\ \A p \in Pilot : Inside(map[p], chosen[p])
  BY DEF NoOrders, OrderMap, TypeOK, ByChoice, Kept, Inside
<1>3. map[q.who] \in [Order -> BOOLEAN] \cup {NoRow}
  BY <1>0, <1>2 DEF OrderMap
<1>4. q.op = "set" => Inside(new, chosen[q.who])
  BY <1>0, <1>2, <1>3, MergedInside DEF Carried
<1>5. new \in [Order -> BOOLEAN]
  BY <1>0, <1>3, ShownTypes, MergedOrders
<1>6. PICK m \in OrderMap : /\ \A p \in Pilot : Inside(m[p], chosen[p])
                            /\ \E pc \in {"ready", "write"} : Go(s, [q EXCEPT !.at = pc, !.map = m])
  <2>1. CASE q.op = "look"
    BY <1>1, <1>2, <2>1
  <2>2. CASE q.op # "look"
    <3>1. q.op = "set"
      BY <1>0, <2>2 DEF SlotType
    <3>2. PICK m : m = [map EXCEPT ![q.who] = new]
      OBVIOUS
    <3>3. Go(s, [q EXCEPT !.at = "write", !.map = m])
      BY <1>1, <2>2, <3>2
    <3> HIDE DEF map, new
    <3>4. m \in OrderMap /\ \A p \in Pilot : m[p] = IF p = q.who THEN new ELSE map[p]
      BY <1>2, <1>5, <3>2 DEF OrderMap
    <3>5. \A p \in Pilot : Inside(m[p], chosen[p])
      BY <1>2, <1>4, <3>1, <3>4
    <3> QED BY <3>3, <3>4, <3>5
  <2> QED BY <2>1, <2>2
<1>7. PICK pc \in {"ready", "write"} : Go(s, [q EXCEPT !.at = pc, !.map = m])
  BY <1>6
<1>8. PICK w : w = [q EXCEPT !.at = pc, !.map = m]
  OBVIOUS
<1> HIDE DEF q
<1>9. /\ w \in SlotType
      /\ w.op = q.op /\ w.key = q.key /\ w.value = q.value /\ w.who = q.who
      /\ w.map = m /\ w.rec = q.rec
  BY <1>0, <1>6, <1>8 DEF SlotType
<1>10. Carried(w, chosen)
  BY <1>0, <1>6, <1>9 DEF Carried
<1>11. UNCHANGED <<chosen, files, plugin, captain>>
  BY DEF ReadOrders, able
<1>12. \A r \in Slot : Carried(slot'[r], chosen')
  BY <1>7, <1>8, <1>9, <1>10, <1>11, CarryOn
<1> QED BY <1>11, <1>12 DEF ByChoice, Kept, files

LEMMA ReadRecordByChoice ==
    ASSUME TypeOK, ByChoice, NEW s \in Slot, ReadRecord(s)
    PROVE  ByChoice'
<1> DEFINE q == slot[s]
<1>0. q \in SlotType /\ q.who \in Pilot /\ Carried(q, chosen)
  BY DEF TypeOK, SlotType, ByChoice
<1>1. PICK ok \in BOOLEAN :
         LET rec == IF ok THEN member[q.who] ELSE NoRow IN
         Go(s, [q EXCEPT !.at = "write",
                         !.rec = IF q.op = "look" THEN Stamped(rec)
                                 ELSE Merged(IF rec = NoRow THEN Blank ELSE rec, q)])
  BY DEF ReadRecord
<1> DEFINE rec == IF ok THEN member[q.who] ELSE NoRow
           new == IF q.op = "look" THEN Stamped(rec)
                  ELSE Merged(IF rec = NoRow THEN Blank ELSE rec, q)
<1>2. rec \in Record \cup {NoRow} /\ Private(rec, chosen[q.who])
  BY <1>0 DEF TypeOK, ByChoice, Kept, Private
<1>3. new \in Record
  BY <1>0, <1>2, StampedTypes, MergedPrefs
<1>4. Private(new, chosen[q.who])
  <2>1. CASE q.op = "look"
    BY <1>2, <2>1, StampedPrivate
  <2>2. CASE q.op # "look"
    <3>1. q.op = "set"
      BY <1>0, <2>2 DEF SlotType
    <3> QED BY <1>0, <1>2, <2>2, <3>1, MergedPrivate DEF Carried
  <2> QED BY <2>1, <2>2
<1>5. PICK w : w = [q EXCEPT !.at = "write", !.rec = new]
  OBVIOUS
<1>6. Go(s, w)
  BY <1>1, <1>5
<1> HIDE DEF q, new
<1>7. /\ w \in SlotType
      /\ w.op = q.op /\ w.key = q.key /\ w.value = q.value /\ w.who = q.who
      /\ w.map = q.map /\ w.rec = new
  BY <1>0, <1>3, <1>5 DEF SlotType
<1>8. Carried(w, chosen)
  BY <1>0, <1>4, <1>7 DEF Carried
<1>9. UNCHANGED <<chosen, files, plugin, captain>>
  BY DEF ReadRecord, able
<1>10. \A r \in Slot : Carried(slot'[r], chosen')
  BY <1>6, <1>7, <1>8, <1>9, CarryOn
<1> QED BY <1>9, <1>10 DEF ByChoice, Kept, files

(* A handler that moves on with what it carries.                            *)
LEMMA SameCarried ==
    ASSUME NEW q \in SlotType, NEW w \in SlotType, NEW C, Carried(q, C),
           w.op = q.op, w.key = q.key, w.value = q.value, w.who = q.who,
           w.map = q.map, w.rec = q.rec
    PROVE  Carried(w, C)
  BY DEF Carried

LEMMA SaveByChoice ==
    ASSUME TypeOK, ByChoice, NEW s \in Slot, Save(s)
    PROVE  ByChoice'
<1> DEFINE q == slot[s]
<1>0. q \in SlotType /\ q.who \in Pilot /\ Carried(q, chosen)
  BY DEF TypeOK, SlotType, ByChoice
<1>1. PICK ok \in BOOLEAN :
         /\ orders' = IF ok /\ q.key \in Order THEN q.map ELSE orders
         /\ member' = IF ok /\ q.key \in Pref THEN [member EXCEPT ![q.who] = q.rec] ELSE member
         /\ Go(s, [q EXCEPT !.at = IF ok \/ q.op = "look" THEN "answer" ELSE "refuse"])
  BY DEF Save
<1>2. UNCHANGED <<chosen, plugin, captain>>
  BY DEF Save, able
<1>3. PICK pc \in {"answer", "refuse"} : Go(s, [q EXCEPT !.at = pc])
  BY <1>1
<1>4. \A r \in Slot : Carried(slot'[r], chosen')
  <2>1. PICK w : w = [q EXCEPT !.at = pc]
    OBVIOUS
  <2> HIDE DEF q
  <2>2. /\ w \in SlotType
        /\ w.op = q.op /\ w.key = q.key /\ w.value = q.value /\ w.who = q.who
        /\ w.map = q.map /\ w.rec = q.rec
    BY <1>0, <2>1 DEF SlotType
  <2>3. Carried(w, chosen)
    BY <1>0, <2>2, SameCarried
  <2> QED BY <1>2, <1>3, <2>1, <2>2, <2>3, CarryOn
<1>5. Kept'
  <2>1. \A p \in Pilot : Inside(orders'[p], chosen[p])
    BY <1>0, <1>1 DEF Carried, ByChoice, Kept
  <2>2. \A p \in Pilot : Private(member'[p], chosen[p])
    BY <1>0, <1>1 DEF Carried, ByChoice, Kept, TypeOK
  <2> QED BY <1>2, <2>1, <2>2 DEF ByChoice, Kept, Inside, Private
<1> QED BY <1>4, <1>5 DEF ByChoice

LEMMA RestByChoice ==
    ASSUME TypeOK, ByChoice, [Next]_vars,
           ~ \E s \in Slot, p \in Pilot :
                \/ \E k \in Key : Commit(s, p, k)
                \/ LookAtOrders(s, p) \/ LookAtRecord(s, p),
           ~ \E s \in Slot : ReadOrders(s) \/ ReadRecord(s) \/ Save(s)
    PROVE  ByChoice'
<1>1. ASSUME NEW s \in Slot, ReadReadiness(s) PROVE ByChoice'
  <2>0. slot[s] \in SlotType /\ Carried(slot[s], chosen) /\ slot[s].who \in Pilot
    BY DEF TypeOK, ByChoice, SlotType
  <2>1. PICK no \in SUBSET Pressing : Go(s, [slot[s] EXCEPT !.at = "answer", !.no = no])
    BY <1>1, <2>0 DEF ReadReadiness, TypeOK
  <2>2. PICK q : q = slot[s]
    OBVIOUS
  <2>3. PICK w : w = [q EXCEPT !.at = "answer", !.no = no]
    OBVIOUS
  <2>4. /\ w \in SlotType
        /\ w.op = q.op /\ w.key = q.key /\ w.value = q.value /\ w.who = q.who
        /\ w.map = q.map /\ w.rec = q.rec
    BY <2>0, <2>2, <2>3 DEF SlotType
  <2>5. Carried(w, chosen)
    BY <2>0, <2>2, <2>4, SameCarried
  <2>6. UNCHANGED <<chosen, files, plugin, captain>>
    BY <1>1 DEF ReadReadiness, able
  <2>7. \A r \in Slot : Carried(slot'[r], chosen')
    BY <2>1, <2>2, <2>3, <2>4, <2>5, <2>6, CarryOn
  <2> QED BY <2>6, <2>7 DEF ByChoice, Kept, files
<1>2. ASSUME NEW s \in Slot, Answer(s) \/ Refuse(s) PROVE ByChoice'
  <2>1. Go(s, Free) /\ UNCHANGED <<chosen, files, plugin, captain>>
    BY <1>2 DEF Answer, Refuse, able
  <2>2. \A r \in Slot : Carried(slot'[r], chosen')
    BY <2>1, FreeType, FreeCarried, CarryOn
  <2> QED BY <2>1, <2>2 DEF ByChoice, Kept, files
<1>3. ASSUME NEW c \in PC,
             \/ \E p \in Pilot : Login(c, p)
             \/ Restart(c) \/ Rebind(c) \/ LosePoll(c)
      PROVE  ByChoice'
  BY <1>3 DEF Login, Restart, Rebind, LosePoll, ByChoice, Kept, files
<1>4. ASSUME NEW p \in Pilot, Expire(p) PROVE ByChoice'
  BY <1>4 DEF Expire, ByChoice, Kept, files
<1>5. ASSUME NEW c \in PC, Poll(c) PROVE ByChoice'
  <2>1. PICK read \in BOOLEAN :
           /\ plugin' = IF read THEN Followed(c) ELSE plugin
           /\ captain' = IF read /\ orders[flying[c]] # NoRow
                         THEN [captain EXCEPT ![c] = flying[c]] ELSE captain
    BY <1>5 DEF Poll
  <2>2. /\ UNCHANGED <<chosen, files, slot>>
        /\ flying[c] \in Pilot /\ flying[c] # Nobody
    BY <1>5 DEF Poll, TypeOK
  <2>3. ASSUME NEW d \in PC, NEW o \in Order, plugin'[d][o] = TRUE
        PROVE  captain'[d] # Nobody /\ o \in chosen[captain'[d]]
    <3>1. CASE read /\ orders[flying[c]] # NoRow /\ d = c
      <4>1. plugin'[d] = orders[flying[c]] /\ captain'[d] = flying[c]
        BY <2>1, <3>1 DEF Followed, TypeOK
      <4>2. Inside(orders[flying[c]], chosen[flying[c]])
        BY <2>2 DEF ByChoice, Kept
      <4> QED BY <2>2, <2>3, <3>1, <4>1, <4>2 DEF Inside
    <3>2. CASE ~(read /\ orders[flying[c]] # NoRow /\ d = c)
      <4>1. plugin'[d] = plugin[d] /\ captain'[d] = captain[d]
        BY <2>1, <3>2 DEF Followed, TypeOK
      <4> QED BY <2>3, <4>1 DEF ByChoice, Kept
    <3> QED BY <3>1, <3>2
  <2>4. Kept'
    BY <2>2, <2>3 DEF ByChoice, Kept, files
  <2> QED BY <2>2, <2>4 DEF ByChoice
<1>6. CASE UNCHANGED vars
  BY <1>6 DEF vars, files, able, ByChoice, Kept
<1> QED BY <1>1, <1>2, <1>3, <1>4, <1>5, <1>6 DEF Next

LEMMA ByChoiceStep == TypeOK /\ ByChoice /\ [Next]_vars => ByChoice'
<1> SUFFICES ASSUME TypeOK, ByChoice, [Next]_vars PROVE ByChoice'
  OBVIOUS
<1>1. ASSUME NEW s \in Slot, NEW p \in Pilot, NEW k \in Key, Commit(s, p, k) PROVE ByChoice'
  BY <1>1, CommitByChoice
<1>2. ASSUME NEW s \in Slot, NEW p \in Pilot, LookAtOrders(s, p) \/ LookAtRecord(s, p)
      PROVE  ByChoice'
  BY <1>2, LookByChoice
<1>3. ASSUME NEW s \in Slot, ReadOrders(s) \/ ReadRecord(s) \/ Save(s) PROVE ByChoice'
  BY <1>3, ReadOrdersByChoice, ReadRecordByChoice, SaveByChoice
<1> QED BY <1>1, <1>2, <1>3, RestByChoice

LEMMA ByChoiceIsEnough == TypeOK /\ ByChoice => OnlyByChoice
<1> SUFFICES ASSUME TypeOK, ByChoice, NEW p \in Pilot, NEW k \in ClosedPref, PrefsShown(member[p])[k]
             PROVE  k \in chosen[p]
  BY DEF OnlyByChoice, ByChoice, Kept
<1>1. member[p] # NoRow /\ member[p][k] = TRUE
  BY DEF PrefsShown, Pref
<1> QED BY <1>1 DEF ByChoice, Kept, Private

(* However handlers overlap, saves of the whole map race, writes fail,      *)
(* polls are lost and commanders take turns on a PC: a PC follows no order  *)
(* that the one commander whose orders it took last did not give            *)
(* (plugin-settings.js, navpull.js settingsFor, load.py _apply_srv), and no *)
(* record shows a private preference that its member did not turn on        *)
(* (member.js).                                                             *)
THEOREM NothingUnordered == Spec => []OnlyByChoice
<1>1. TypeOK /\ ByChoice /\ [Next]_vars => ByChoice'
  BY ByChoiceStep
<1>2. TypeOK /\ ByChoice => OnlyByChoice
  BY ByChoiceIsEnough
<1> QED BY <1>1, <1>2, InitByChoice, FilesTypeCorrect, PTL DEF Spec

-----------------------------------------------------------------------------
(* What is stored of a switch, and what a handler of a record is to write.  *)
Stored(p, k) == IF k \in Order THEN OrdersShown(orders[p])[k] ELSE PrefsShown(member[p])[k]
Intended(q) == IF q.op = "look" THEN Stamped(member[q.who]) ELSE Merged(member[q.who], q)

(* While nothing overlaps or fails: no two handlers of one file are in      *)
(* flight;                                                                  *)
Apart ==
    \A s, r \in Slot : s # r /\ ~At(s, "idle") /\ ~At(r, "idle") => ~Clash(slot[s], slot[r])

(* what a handler has read still stands;                                    *)
Faithful(q) ==
    q.at # "idle" =>
    /\ q.at # "refuse"
    /\ q.op = "set" => q.key \in Key /\ switch[q.who][q.key] = q.value
    /\ q.key \notin Pref =>
          /\ q.at = "write" => /\ q.op = "set"
                               /\ q.map = [orders EXCEPT ![q.who] = Merged(OrdersShown(orders[q.who]), q)]
          /\ q.at \in {"ready", "answer"} => q.map[q.who] = orders[q.who]
    /\ q.key \in Pref =>
          /\ q.at # "ready"
          /\ q.at = "write" => q.rec = Intended(q)
          /\ q.at = "answer" => q.rec = member[q.who] /\ q.rec # NoRow

(* and a switch that shows anything shows what is stored, or its change is  *)
(* on the way.  A preference is shown only of a member who has a record.    *)
Sends(q, p, k) == q.at \in {"read", "write"} /\ q.op = "set" /\ q.who = p /\ q.key = k
Sending(p, k) == \E s \in Slot : Sends(slot[s], p, k)

Truthful ==
    \A p \in Pilot, k \in Key : switch[p][k] # Unset =>
       /\ Sending(p, k) \/ switch[p][k] = Stored(p, k)
       /\ k \in Pref => member[p] # NoRow

Calm == Apart /\ Truthful /\ \A s \in Slot : Faithful(slot[s])
Undisturbed == ~disturbed => Calm

LEMMA ClashIsMutual ==
    ASSUME NEW q \in SlotType, NEW r \in SlotType
    PROVE  Clash(q, r) <=> Clash(r, q)
  BY DEF Clash, SlotType

(* A handler of the same pilot's other file, or of another pilot's.         *)
LEMMA Others ==
    ASSUME NEW q \in SlotType, NEW r \in SlotType, ~Clash(q, r)
    PROVE  /\ q.who = r.who => (q.key \in Pref <=> r.key \notin Pref)
           /\ q.key \in Order => r.key \notin Order
  BY Kinds DEF Clash, SlotType

(* Handlers stay apart while they move on and when they end.                *)
LEMMA ApartGo ==
    ASSUME TypeOK, Apart, NEW s \in Slot, NEW w \in SlotType, Go(s, w),
           \/ w.at = "idle"
           \/ slot[s].at # "idle" /\ w.key = slot[s].key /\ w.who = slot[s].who
    PROVE  Apart'
<1> SUFFICES ASSUME NEW x \in Slot, NEW y \in Slot, x # y, slot'[x].at # "idle",
      slot'[y].at # "idle"
             PROVE  ~Clash(slot'[x], slot'[y])
  BY DEF Apart, At
<1>1. /\ slot'[x] = IF x = s THEN w ELSE slot[x]
      /\ slot'[y] = IF y = s THEN w ELSE slot[y]
  BY DEF Go, TypeOK
<1>2. slot[x].at # "idle" /\ slot[y].at # "idle"
  BY <1>1
<1>3. ~Clash(slot[x], slot[y])
  BY <1>2 DEF Apart, At
<1>4. /\ slot'[x].key = slot[x].key /\ slot'[x].who = slot[x].who
      /\ slot'[y].key = slot[y].key /\ slot'[y].who = slot[y].who
  BY <1>1
<1> QED BY <1>3, <1>4 DEF Clash

LEMMA ApartArrive ==
    ASSUME TypeOK, Calm, NEW s \in Slot, NEW w \in SlotType, Arrive(s, w), ~disturbed'
    PROVE  /\ ~disturbed /\ Apart'
           /\ \A r \in Slot : slot[r].at # "idle" => ~Clash(slot[r], w)
<1>1. ~disturbed /\ \A r \in Slot : slot[r].at # "idle" => ~Clash(slot[r], w)
  BY DEF Arrive, At
<1>2. ASSUME NEW x \in Slot, NEW y \in Slot, x # y, slot'[x].at # "idle", slot'[y].at # "idle"
      PROVE  ~Clash(slot'[x], slot'[y])
  <2>1. /\ slot'[x] = IF x = s THEN w ELSE slot[x]
        /\ slot'[y] = IF y = s THEN w ELSE slot[y]
    BY DEF Arrive, Go, TypeOK
  <2>2. slot[x] \in SlotType /\ slot[y] \in SlotType
    BY DEF TypeOK
  <2> QED BY <1>1, <1>2, <2>1, <2>2, ClashIsMutual DEF Calm, Apart, At
<1> QED BY <1>1, <1>2 DEF Apart, At

(* The arrival of a handler disturbs nobody whom it does not clash with.    *)
LEMMA CommitCalm ==
    ASSUME TypeOK, Calm, NEW s \in Slot, NEW p \in Pilot, NEW k \in Key, Commit(s, p, k),
          ~disturbed'
    PROVE  Calm'
<1> DEFINE next == ~switch[p][k]
<1>1. PICK q : q = [Free EXCEPT !.at = "read", !.op = "set", !.who = p, !.key = k, !.value = next]
  OBVIOUS
<1>2. next \in BOOLEAN
  BY DEF Commit, TypeOK
<1>3. /\ q \in SlotType
      /\ q.at = "read" /\ q.op = "set" /\ q.who = p /\ q.key = k /\ q.value = next
  BY <1>1, <1>2, FreeType, Kinds DEF SlotType
<1>4. Arrive(s, q) /\ switch' = [switch EXCEPT ![p][k] = next] /\ switch[p][k] # Unset
  BY <1>1 DEF Commit
<1> HIDE DEF next
<1>5. Apart' /\ \A r \in Slot : slot[r].at # "idle" => ~Clash(slot[r], q)
  BY <1>3, <1>4, ApartArrive
<1>6. /\ \A r \in Slot : slot'[r] = IF r = s THEN q ELSE slot[r]
      /\ slot[s].at = "idle" /\ orders' = orders /\ member' = member
  BY <1>4 DEF Arrive, Go, At, TypeOK, files
<1>7. \A r \in Pilot, j \in Key : switch'[r][j] = IF r = p /\ j = k THEN next ELSE switch[r][j]
  BY <1>4 DEF TypeOK
<1>8. \A r \in Slot : Faithful(slot[r]) /\ slot[r] \in SlotType
  BY DEF Calm, TypeOK
<1>9. ASSUME NEW w \in SlotType, Faithful(w), w.at # "idle" => ~Clash(w, q)
      PROVE  Faithful(w)'
  <2> SUFFICES ASSUME w.at # "idle" PROVE Faithful(w)'
    BY DEF Faithful
  <2>1. w.op = "set" => w.key \in Key /\ switch'[w.who][w.key] = w.value
    <3> SUFFICES ASSUME w.op = "set" PROVE w.key \in Key /\ switch'[w.who][w.key] = w.value
      OBVIOUS
    <3>1. ~(w.who = p /\ w.key = k)
      BY <1>3, <1>9 DEF Clash
    <3> QED BY <1>7, <1>9, <3>1 DEF Faithful, SlotType
  <2> QED BY <1>6, <1>9, <2>1 DEF Faithful, Intended
<1>10. Faithful(q)'
  BY <1>3, <1>7 DEF Faithful
<1>11. \A r \in Slot : Faithful(slot[r])'
  <2> TAKE r \in Slot
  <2>1. CASE r = s
    <3>1. slot'[r] = q
      BY <1>6, <2>1
    <3> QED BY <1>10, <3>1 DEF Faithful, Intended
  <2>2. CASE r # s
    <3>1. PICK w \in SlotType : w = slot[r] /\ w = slot'[r]
      BY <1>6, <1>8, <2>2
    <3>2. Faithful(w)'
      BY <1>5, <1>8, <1>9, <3>1
    <3> QED BY <3>1, <3>2 DEF Faithful, Intended
  <2> QED BY <2>1, <2>2
<1>12. Truthful'
  <2> SUFFICES ASSUME NEW r \in Pilot, NEW j \in Key, switch'[r][j] # Unset
               PROVE  /\ Sending(r, j)' \/ switch'[r][j] = Stored(r, j)'
                      /\ j \in Pref => member'[r] # NoRow
    BY DEF Truthful
  <2>1. CASE r = p /\ j = k
    <3>1. Sends(slot'[s], r, j)
      BY <1>3, <1>6, <2>1 DEF Sends
    <3> QED BY <1>4, <1>6, <2>1, <3>1 DEF Calm, Truthful, Sending
  <2>2. CASE ~(r = p /\ j = k)
    <3>1. switch'[r][j] = switch[r][j] /\ Stored(r, j)' = Stored(r, j)
      BY <1>6, <1>7, <2>2 DEF Stored
    <3>2. Sending(r, j) => Sending(r, j)'
      BY <1>6 DEF Sending, Sends
    <3> QED BY <1>6, <3>1, <3>2 DEF Calm, Truthful
  <2> QED BY <2>1, <2>2
<1> QED BY <1>5, <1>11, <1>12 DEF Calm

LEMMA LookCalm ==
    ASSUME TypeOK, Calm, NEW s \in Slot, NEW p \in Pilot,
           LookAtOrders(s, p) \/ LookAtRecord(s, p), ~disturbed'
    PROVE  Calm'
<1>1. PICK q \in SlotType : Arrive(s, q) /\ q.at = "read" /\ q.op = "look"
  <2>1. CASE LookAtOrders(s, p)
    <3>1. PICK q : q = [Free EXCEPT !.at = "read", !.who = p]
      OBVIOUS
    <3>2. q \in SlotType /\ q.op = "look" /\ q.at = "read"
      BY <3>1, FreeType DEF SlotType, Free
    <3> QED BY <2>1, <3>1, <3>2 DEF LookAtOrders
  <2>2. CASE LookAtRecord(s, p)
    <3>1. PICK q : q = [Free EXCEPT !.at = "read", !.who = p, !.key = CHOOSE k \in Pref : TRUE]
      OBVIOUS
    <3>2. q \in SlotType /\ q.op = "look" /\ q.at = "read"
      BY <3>1, FreeType, SomePref, Kinds DEF SlotType, Free
    <3> QED BY <2>2, <3>1, <3>2 DEF LookAtRecord
  <2> QED BY <2>1, <2>2
<1>2. Apart'
  BY <1>1, ApartArrive
<1>3. /\ \A r \in Slot : slot'[r] = IF r = s THEN q ELSE slot[r]
      /\ slot[s].at = "idle" /\ orders' = orders /\ member' = member /\ switch' = switch
  BY <1>1 DEF LookAtOrders, LookAtRecord, Arrive, Go, At, TypeOK, files
<1>4. \A r \in Slot : Faithful(slot[r])'
  <2> TAKE r \in Slot
  <2>1. Faithful(slot'[r])
    BY <1>1, <1>3 DEF Faithful, Calm
  <2> QED BY <1>3, <2>1 DEF Faithful, Intended
<1>5. \A r \in Pilot, j \in Key : Sending(r, j) => Sending(r, j)'
  BY <1>3 DEF Sending, Sends
<1>6. Truthful'
  BY <1>3, <1>5 DEF Calm, Truthful, Stored
<1> QED BY <1>2, <1>4, <1>6 DEF Calm

(* A read takes its handler on and touches nothing else.                    *)
LEMMA ReadOn ==
    ASSUME TypeOK, Calm, NEW s \in Slot, NEW w \in SlotType, Go(s, w), Faithful(w),
           UNCHANGED <<files, switch>>,
           slot[s].at # "idle", w.key = slot[s].key, w.who = slot[s].who, w.op = slot[s].op,
           Sends(slot[s], w.who, w.key) => w.at \in {"read", "write"}
    PROVE  Calm'
<1>1. Apart'
  BY ApartGo DEF Calm
<1>2. /\ \A r \in Slot : slot'[r] = IF r = s THEN w ELSE slot[r]
      /\ orders' = orders /\ member' = member /\ switch' = switch
  BY DEF Go, TypeOK, files
<1>3. \A r \in Slot : Faithful(slot[r])'
  <2> TAKE r \in Slot
  <2>1. Faithful(slot'[r])
    BY <1>2 DEF Calm
  <2> QED BY <1>2, <2>1 DEF Faithful, Intended
<1>4. \A p \in Pilot, k \in Key : Sending(p, k) => Sending(p, k)'
  BY <1>2 DEF Sending, Sends
<1>5. Truthful'
  BY <1>2, <1>4 DEF Calm, Truthful, Stored
<1> QED BY <1>1, <1>3, <1>5 DEF Calm

LEMMA ReadOrdersCalm ==
    ASSUME TypeOK, Calm, NEW s \in Slot, ReadOrders(s), ~disturbed'
    PROVE  Calm'
<1>0. PICK q \in SlotType : q = slot[s]
  BY DEF TypeOK
<1>1. /\ q.at = "read" /\ q.key \notin Pref /\ Faithful(q)
      /\ UNCHANGED <<files, switch>>
  BY <1>0 DEF ReadOrders, Calm, At
<1>2. Go(s, IF q.op = "look" THEN [q EXCEPT !.at = "ready", !.map = orders]
            ELSE [q EXCEPT !.at = "write",
                           !.map = [orders EXCEPT
                                      ![q.who] = Merged(OrdersShown(orders[q.who]), q)]])
  BY <1>0 DEF ReadOrders, Try
<1>3. orders \in OrderMap
  BY DEF TypeOK
<1>4. CASE q.op = "look"
  <2>1. PICK w : w = [q EXCEPT !.at = "ready", !.map = orders]
    OBVIOUS
  <2>2. /\ w \in SlotType
        /\ w.op = q.op /\ w.key = q.key /\ w.who = q.who /\ w.at = "ready" /\ w.map = orders
    BY <1>3, <2>1 DEF SlotType
  <2>3. Faithful(w)
    BY <1>1, <1>4, <2>2 DEF Faithful
  <2> QED BY <1>0, <1>1, <1>2, <1>4, <2>1, <2>2, <2>3, ReadOn DEF Sends
<1>5. CASE q.op # "look"
  <2>1. q.op = "set"
    BY <1>5 DEF SlotType
  <2>2. PICK m : m = [orders EXCEPT ![q.who] = Merged(OrdersShown(orders[q.who]), q)]
    OBVIOUS
  <2>3. Merged(OrdersShown(orders[q.who]), q) \in [Order -> BOOLEAN]
    BY <1>3, ShownTypes, MergedOrders DEF OrderMap, SlotType
  <2>4. m \in OrderMap
    BY <1>3, <2>2, <2>3 DEF OrderMap
  <2>5. PICK w : w = [q EXCEPT !.at = "write", !.map = m]
    OBVIOUS
  <2>6. /\ w \in SlotType
        /\ w.op = q.op /\ w.key = q.key /\ w.who = q.who /\ w.value = q.value
        /\ w.at = "write" /\ w.map = m
    BY <2>4, <2>5 DEF SlotType
  <2>7. Merged(OrdersShown(orders[q.who]), q) = Merged(OrdersShown(orders[w.who]), w)
    BY <2>6 DEF Merged
  <2>8. Faithful(w)
    BY <1>1, <2>1, <2>2, <2>6, <2>7 DEF Faithful
  <2>9. Go(s, w)
    BY <1>2, <1>5, <2>2, <2>5
  <2> QED BY <1>0, <1>1, <2>6, <2>8, <2>9, ReadOn DEF Sends
<1> QED BY <1>4, <1>5

LEMMA ReadReadinessCalm ==
    ASSUME TypeOK, Calm, NEW s \in Slot, ReadReadiness(s), ~disturbed'
    PROVE  Calm'
<1>0. PICK q \in SlotType : q = slot[s]
  BY DEF TypeOK
<1>1. /\ q.at = "ready" /\ Faithful(q) /\ UNCHANGED <<files, switch>>
  BY <1>0 DEF ReadReadiness, Calm, At
<1>2. PICK no \in SUBSET Pressing : Go(s, [q EXCEPT !.at = "answer", !.no = no])
  BY <1>0 DEF ReadReadiness
<1>3. PICK w : w = [q EXCEPT !.at = "answer", !.no = no]
  OBVIOUS
<1>4. /\ w \in SlotType
      /\ w.op = q.op /\ w.key = q.key /\ w.who = q.who /\ w.value = q.value
      /\ w.at = "answer" /\ w.map = q.map
  BY <1>3 DEF SlotType
<1>5. Faithful(w)
  BY <1>1, <1>4 DEF Faithful
<1> QED BY <1>0, <1>1, <1>2, <1>3, <1>4, <1>5, ReadOn DEF Sends

LEMMA ReadRecordCalm ==
    ASSUME TypeOK, Calm, NEW s \in Slot, ReadRecord(s), ~disturbed'
    PROVE  Calm'
<1>0. PICK q \in SlotType : q = slot[s]
  BY DEF TypeOK
<1>1. /\ q.at = "read" /\ q.key \in Pref /\ Faithful(q) /\ q.who \in Pilot
      /\ UNCHANGED <<files, switch>>
  BY <1>0 DEF ReadRecord, Calm, At, SlotType
<1> DEFINE rec == member[q.who]
           new == IF q.op = "look" THEN Stamped(rec)
                  ELSE Merged(IF rec = NoRow THEN Blank ELSE rec, q)
<1>2. Go(s, [q EXCEPT !.at = "write", !.rec = new])
  BY <1>0 DEF ReadRecord, Try
<1>3. q.op = "set" => rec # NoRow
  <2>1. q.op = "set" => switch[q.who][q.key] # Unset
    BY <1>1, Kinds DEF Faithful, SlotType
  <2> QED BY <1>1, <2>1, Kinds DEF Calm, Truthful
<1>4. rec \in Record \cup {NoRow} /\ new = Intended(q)
  BY <1>1, <1>3 DEF TypeOK, Intended, SlotType
<1>5. new \in Record
  BY <1>4, StampedTypes, MergedPrefs
<1>6. PICK w : w = [q EXCEPT !.at = "write", !.rec = new]
  OBVIOUS
<1> HIDE DEF rec, new
<1>7. /\ w \in SlotType
      /\ w.op = q.op /\ w.key = q.key /\ w.who = q.who /\ w.value = q.value
      /\ w.at = "write" /\ w.rec = new
  BY <1>5, <1>6 DEF SlotType
<1>8. Intended(w) = Intended(q)
  BY <1>7 DEF Intended, Merged
<1>9. Faithful(w)
  BY <1>1, <1>4, <1>7, <1>8 DEF Faithful
<1> QED BY <1>0, <1>1, <1>2, <1>6, <1>7, <1>9, ReadOn DEF Sends

(* A save: of the orders, where no other handler is saving them ...         *)
LEMMA SaveOrdersCalm ==
    ASSUME TypeOK, Calm, NEW s \in Slot, Save(s), ~disturbed', slot[s].key \notin Pref
    PROVE  Calm'
<1>0. PICK q \in SlotType : q = slot[s]
  BY DEF TypeOK
<1>1. q.at = "write" /\ Faithful(q) /\ q.who \in Pilot
  BY <1>0 DEF Save, Calm, At, SlotType
<1>2. /\ q.op = "set" /\ q.key \in Order /\ switch[q.who][q.key] = q.value
      /\ q.map = [orders EXCEPT ![q.who] = Merged(OrdersShown(orders[q.who]), q)]
  BY <1>0, <1>1 DEF Faithful, Key
<1>3. /\ orders' = q.map /\ member' = member /\ switch' = switch
      /\ Go(s, [q EXCEPT !.at = "answer"])
  BY <1>0, <1>2, Kinds DEF Save, Try
<1>4. PICK w : w = [q EXCEPT !.at = "answer"]
  OBVIOUS
<1>5. /\ w \in SlotType
      /\ w.op = q.op /\ w.key = q.key /\ w.who = q.who /\ w.value = q.value
      /\ w.at = "answer" /\ w.map = q.map
  BY <1>4 DEF SlotType
<1>6. Apart'
  BY <1>0, <1>1, <1>3, <1>4, <1>5, ApartGo DEF Calm
<1>7. \A r \in Slot : slot'[r] = IF r = s THEN w ELSE slot[r]
  BY <1>3, <1>4 DEF Go, TypeOK
<1>8. /\ \A p \in Pilot \ {q.who} : orders'[p] = orders[p]
      /\ orders'[q.who] = Merged(OrdersShown(orders[q.who]), q)
  BY <1>1, <1>2, <1>3 DEF TypeOK, OrderMap
<1>a. \A p \in Pilot : OrdersShown(orders[p]) \in [Order -> BOOLEAN]
  BY ShownTypes DEF TypeOK, OrderMap
<1>9. Faithful(w)'
  <2>1. w.op = "set" /\ w.key \in Key /\ w.key \notin Pref
    BY <1>0, <1>2, <1>5, Kinds
  <2>2. switch'[w.who][w.key] = w.value /\ w.map[w.who] = orders'[w.who]
    BY <1>2, <1>3, <1>5
  <2> QED BY <1>5, <2>1, <2>2 DEF Faithful
<1>10. ASSUME NEW r \in SlotType, Faithful(r), r.at # "idle" => ~Clash(r, q)
       PROVE  Faithful(r)'
  <2> SUFFICES ASSUME r.at # "idle" PROVE Faithful(r)'
    BY DEF Faithful
  <2>1. r.key \notin Pref => r.who # q.who /\ r.op # "set"
    BY <1>0, <1>2, <1>10, Others DEF Faithful, Key
  <2>2. r.key \notin Pref => orders'[r.who] = orders[r.who]
    BY <1>8, <2>1 DEF SlotType
  <2> QED BY <1>3, <1>10, <2>1, <2>2 DEF Faithful, Intended
<1>11. \A r \in Slot : Faithful(slot[r])'
  <2> TAKE r \in Slot
  <2>1. CASE r = s
    <3>1. slot'[r] = w
      BY <1>7, <2>1
    <3> QED BY <1>9, <3>1 DEF Faithful, Intended
  <2>2. CASE r # s
    <3>1. PICK v \in SlotType : v = slot[r] /\ v = slot'[r]
      BY <1>7, <2>2 DEF TypeOK
    <3>2. v.at # "idle" => ~Clash(v, q)
      BY <1>0, <1>1, <2>2, <3>1 DEF Calm, Apart, At
    <3>3. Faithful(v)'
      BY <1>10, <3>1, <3>2 DEF Calm
    <3> QED BY <3>1, <3>3 DEF Faithful, Intended
  <2> QED BY <2>1, <2>2
<1>12. Truthful'
  <2> SUFFICES ASSUME NEW p \in Pilot, NEW k \in Key, switch[p][k] # Unset
               PROVE  /\ Sending(p, k)' \/ switch[p][k] = Stored(p, k)'
                      /\ k \in Pref => member'[p] # NoRow
    BY <1>3 DEF Truthful
  <2>0. k \in Pref => member'[p] # NoRow
    BY <1>3 DEF Calm, Truthful
  <2>1. CASE p = q.who /\ k = q.key
    <3>1. orders'[p][k] = q.value /\ orders'[p] # NoRow
      <4>1. Merged(OrdersShown(orders[p]), q) \in [Order -> BOOLEAN]
            /\ Merged(OrdersShown(orders[p]), q)[k] = q.value
        BY <1>2, <1>a, <2>1, MergedOrders
      <4> QED BY <1>8, <2>1, <4>1, Kinds
    <3>2. Stored(p, k)' = q.value
      BY <1>2, <2>1, <3>1 DEF Stored, OrdersShown
    <3> QED BY <1>2, <2>0, <2>1, <3>2
  <2>2. CASE ~(p = q.who /\ k = q.key)
    <3>1. Stored(p, k)' = Stored(p, k)
      <4>1. CASE p # q.who \/ k \notin Order
        BY <1>3, <1>8, <4>1 DEF Stored
      <4>2. CASE p = q.who /\ k \in Order
        <5>1. /\ OrdersShown(orders[p]) \in [Order -> BOOLEAN]
              /\ Merged(OrdersShown(orders[p]), q) \in [Order -> BOOLEAN]
              /\ Merged(OrdersShown(orders[p]), q)[k] = OrdersShown(orders[p])[k]
          BY <1>a, <2>2, <4>2, MergedOrders
        <5>2. orders'[p] # NoRow /\ orders'[p][k] = OrdersShown(orders[p])[k]
          BY <1>8, <4>2, <5>1, Kinds
        <5> QED BY <4>2, <5>2 DEF Stored, OrdersShown
      <4> QED BY <4>1, <4>2
    <3>2. Sending(p, k) => Sending(p, k)'
      BY <1>0, <1>7, <2>2 DEF Sending, Sends
    <3> QED BY <2>0, <3>1, <3>2 DEF Calm, Truthful
  <2> QED BY <2>1, <2>2
<1> QED BY <1>6, <1>11, <1>12 DEF Calm

(* ... of a record, which only its own member's handlers touch.             *)
LEMMA SaveRecordCalm ==
    ASSUME TypeOK, Calm, NEW s \in Slot, Save(s), ~disturbed', slot[s].key \in Pref
    PROVE  Calm'
<1>0. PICK q \in SlotType : q = slot[s]
  BY DEF TypeOK
<1>1. q.at = "write" /\ Faithful(q) /\ q.who \in Pilot /\ q.key \in Pref /\ q.key \notin Order
  BY <1>0, Kinds DEF Save, Calm, At, SlotType
<1>2. /\ q.rec = Intended(q)
      /\ q.op = "set" => switch[q.who][q.key] = q.value
  BY <1>1 DEF Faithful
<1>3. /\ orders' = orders /\ switch' = switch
      /\ member' = [member EXCEPT ![q.who] = q.rec]
      /\ Go(s, [q EXCEPT !.at = "answer"])
  BY <1>0, <1>1 DEF Save, Try
<1>4. PICK w : w = [q EXCEPT !.at = "answer"]
  OBVIOUS
<1>5. /\ w \in SlotType
      /\ w.op = q.op /\ w.key = q.key /\ w.who = q.who /\ w.value = q.value
      /\ w.at = "answer" /\ w.rec = q.rec
  BY <1>4 DEF SlotType
<1>6. Apart'
  BY <1>0, <1>1, <1>3, <1>4, <1>5, ApartGo DEF Calm
<1>7. \A r \in Slot : slot'[r] = IF r = s THEN w ELSE slot[r]
  BY <1>3, <1>4 DEF Go, TypeOK
<1>8. \A p \in Pilot : member'[p] = IF p = q.who THEN q.rec ELSE member[p]
  BY <1>3 DEF TypeOK
<1>9. q.op = "set" => member[q.who] # NoRow
  BY <1>1, <1>2, Kinds DEF Calm, Truthful, SlotType
<1>10. q.rec \in Record
  <2>1. CASE q.op = "look"
    BY <1>1, <1>2, <2>1, StampedTypes DEF Intended, TypeOK
  <2>2. CASE q.op = "set"
    <3>1. member[q.who] \in Record
      BY <1>1, <1>9, <2>2 DEF TypeOK
    <3> QED BY <1>2, <2>2, <3>1, MergedPrefs DEF Intended
  <2> QED BY <2>1, <2>2 DEF SlotType
<1>11. Faithful(w)'
  <2>1. w.op = "set" => w.key \in Key /\ switch'[w.who][w.key] = w.value
    BY <1>1, <1>2, <1>3, <1>5, Kinds
  <2>2. w.rec = member'[w.who] /\ w.rec # NoRow
    BY <1>1, <1>5, <1>8, <1>10, Kinds
  <2> QED BY <1>1, <1>5, <2>1, <2>2 DEF Faithful
<1>12. ASSUME NEW r \in SlotType, Faithful(r), r.at # "idle" => ~Clash(r, q)
       PROVE  Faithful(r)'
  <2> SUFFICES ASSUME r.at # "idle" PROVE Faithful(r)'
    BY DEF Faithful
  <2>1. r.key \in Pref => r.who # q.who
    BY <1>1, <1>12, Others
  <2>2. r.key \in Pref => member'[r.who] = member[r.who]
    BY <1>8, <2>1 DEF SlotType
  <2> QED BY <1>3, <1>12, <2>2 DEF Faithful, Intended
<1>13. \A r \in Slot : Faithful(slot[r])'
  <2> TAKE r \in Slot
  <2>1. CASE r = s
    <3>1. slot'[r] = w
      BY <1>7, <2>1
    <3> QED BY <1>11, <3>1 DEF Faithful, Intended
  <2>2. CASE r # s
    <3>1. PICK v \in SlotType : v = slot[r] /\ v = slot'[r]
      BY <1>7, <2>2 DEF TypeOK
    <3>2. v.at # "idle" => ~Clash(v, q)
      BY <1>0, <1>1, <2>2, <3>1 DEF Calm, Apart, At
    <3>3. Faithful(v)'
      BY <1>12, <3>1, <3>2 DEF Calm
    <3> QED BY <3>1, <3>3 DEF Faithful, Intended
  <2> QED BY <2>1, <2>2
<1>14. Truthful'
  <2> SUFFICES ASSUME NEW p \in Pilot, NEW k \in Key, switch[p][k] # Unset
               PROVE  /\ Sending(p, k)' \/ switch[p][k] = Stored(p, k)'
                      /\ k \in Pref => member'[p] # NoRow
    BY <1>3 DEF Truthful
  <2>0. k \in Pref => member[p] # NoRow /\ member'[p] # NoRow
    BY <1>8, <1>10, Kinds DEF Calm, Truthful
  <2>1. CASE q.op = "set" /\ p = q.who /\ k = q.key
    <3>1. member[p] \in Record
      BY <1>9, <2>1 DEF TypeOK
    <3>2. member'[p][k] = q.value
      BY <1>1, <1>2, <1>8, <2>1, <3>1, MergedPrefs DEF Intended
    <3>3. q.value \in BOOLEAN
      BY DEF SlotType
    <3>4. Stored(p, k)' = q.value
      BY <1>1, <2>0, <2>1, <3>2, <3>3 DEF Stored, PrefsShown
    <3> QED BY <1>2, <2>0, <2>1, <3>4
  <2>2. CASE ~(q.op = "set" /\ p = q.who /\ k = q.key)
    <3>1. Stored(p, k)' = Stored(p, k)
      <4>1. CASE p # q.who \/ k \in Order
        BY <1>3, <1>8, <4>1 DEF Stored
      <4>2. CASE p = q.who /\ k \notin Order
        <5>1. k \in Pref /\ member[p] \in Record
          BY <2>0, <4>2 DEF Key, TypeOK
        <5>2. member'[p][k] = member[p][k]
          <6>1. CASE q.op = "look"
            BY <1>2, <1>8, <4>2, <5>1, <6>1, Kinds DEF Intended, Stamped
          <6>2. CASE q.op = "set"
            BY <1>2, <1>8, <2>2, <4>2, <5>1, <6>2, MergedPrefs DEF Intended
          <6> QED BY <6>1, <6>2 DEF SlotType
        <5> QED BY <2>0, <4>2, <5>1, <5>2 DEF Stored, PrefsShown
      <4> QED BY <4>1, <4>2
    <3>2. Sending(p, k) => Sending(p, k)'
      BY <1>0, <1>7, <2>2 DEF Sending, Sends
    <3> QED BY <2>0, <3>1, <3>2 DEF Calm, Truthful
  <2> QED BY <2>1, <2>2
<1> QED BY <1>6, <1>13, <1>14 DEF Calm

(* What an answer shows: of the file it is of, what is stored.              *)
LEMMA AnswerShows ==
    ASSUME TypeOK, Calm, NEW q \in SlotType, q.at = "answer", Faithful(q), NEW k \in Key
    PROVE  /\ \/ Shown(q)[k] = switch[q.who][k] /\ ~(q.op = "set" /\ k = q.key)
              \/ Shown(q)[k] = Stored(q.who, k) /\ (k \in Order <=> q.key \notin Pref)
           /\ Shown(q)[k] # Unset /\ k \in Pref => member[q.who] # NoRow
<1> DEFINE now == switch[q.who]
           gone == q.op = "set" /\ now[q.key] = Unset
           mounted == q.key \in Pref /\ q.op = "look"
<1>1. Shown(q)[k] =
         CASE k \in Order /\ q.key \notin Pref /\ ~gone -> OrdersShown(q.map[q.who])[k]
           [] k \in Pref /\ IF mounted THEN now[k] = Unset ELSE k = q.key -> PrefsShown(q.rec)[k]
           [] OTHER -> now[k]
  BY DEF Shown
<1>2. ~gone /\ q.who \in Pilot
  BY Kinds DEF Faithful, SlotType
<1>3. k \in Order <=> k \notin Pref
  BY Kinds DEF Key
<1>4. now[k] # Unset /\ k \in Pref => member[q.who] # NoRow
  BY <1>2 DEF Calm, Truthful
<1>5. CASE k \in Order /\ q.key \notin Pref
  <2>1. Shown(q)[k] = OrdersShown(orders[q.who])[k]
    BY <1>1, <1>2, <1>3, <1>5 DEF Faithful
  <2> QED BY <1>3, <1>5, <2>1 DEF Stored
<1>6. CASE k \in Pref /\ IF mounted THEN now[k] = Unset ELSE k = q.key
  <2>1. q.key \in Pref
    BY <1>6
  <2>2. Shown(q)[k] = PrefsShown(member[q.who])[k] /\ member[q.who] # NoRow
    BY <1>1, <1>3, <1>6, <2>1 DEF Faithful
  <2> QED BY <1>3, <1>6, <2>1, <2>2 DEF Stored
<1>7. CASE ~(k \in Order /\ q.key \notin Pref) /\ ~(k \in Pref /\ IF mounted THEN now[k] = Unset ELSE k = q.key)
  <2>1. Shown(q)[k] = now[k]
    BY <1>1, <1>7
  <2>2. ~(q.op = "set" /\ k = q.key)
    BY <1>3, <1>7
  <2> QED BY <1>4, <2>1, <2>2
<1> QED BY <1>5, <1>6, <1>7

LEMMA AnswerCalm ==
    ASSUME TypeOK, Calm, NEW s \in Slot, Answer(s)
    PROVE  Calm'
<1>0. PICK q \in SlotType : q = slot[s]
  BY DEF TypeOK
<1>1. q.at = "answer" /\ Faithful(q) /\ q.who \in Pilot
  BY <1>0 DEF Answer, Calm, At, SlotType
<1>2. /\ orders' = orders /\ member' = member
      /\ switch' = [switch EXCEPT ![q.who] = Shown(q)]
      /\ Go(s, Free) /\ Free \in SlotType
  BY <1>0, FreeType DEF Answer, files
<1>3. Free.at = "idle"
  BY DEF Free
<1>4. Apart'
  BY <1>2, <1>3, ApartGo DEF Calm
<1>5. \A r \in Slot : slot'[r] = IF r = s THEN Free ELSE slot[r]
  BY <1>2 DEF Go, TypeOK
<1>6. \A p \in Pilot : switch'[p] = IF p = q.who THEN Shown(q) ELSE switch[p]
  BY <1>2 DEF TypeOK
<1>7. ASSUME NEW r \in SlotType, Faithful(r), r.at # "idle" => ~Clash(r, q)
      PROVE  Faithful(r)'
  <2> SUFFICES ASSUME r.at # "idle" PROVE Faithful(r)'
    BY DEF Faithful
  <2>1. r.op = "set" => r.key \in Key /\ switch'[r.who][r.key] = r.value
    <3> SUFFICES ASSUME r.op = "set" PROVE r.key \in Key /\ switch'[r.who][r.key] = r.value
      OBVIOUS
    <3>1. r.key \in Key /\ switch[r.who][r.key] = r.value /\ r.who \in Pilot
      BY <1>7 DEF Faithful, SlotType
    <3>2. CASE r.who = q.who
      <4>1. q.key \in Pref <=> r.key \notin Pref
        BY <1>7, <3>2, Others
      <4>2. r.key \in Order <=> r.key \notin Pref
        BY <3>1, Kinds DEF Key
      <4>3. Shown(q)[r.key] = switch[q.who][r.key]
        BY <1>1, <3>1, <4>1, <4>2, AnswerShows
      <4> QED BY <1>6, <3>1, <3>2, <4>3
    <3>3. CASE r.who # q.who
      BY <1>6, <3>1, <3>3
    <3> QED BY <3>2, <3>3
  <2> QED BY <1>2, <1>7, <2>1 DEF Faithful, Intended
<1>8. \A r \in Slot : Faithful(slot[r])'
  <2> TAKE r \in Slot
  <2>1. CASE r = s
    <3>1. slot'[r].at = "idle"
      BY <1>3, <1>5, <2>1
    <3> QED BY <3>1 DEF Faithful
  <2>2. CASE r # s
    <3>1. PICK v \in SlotType : v = slot[r] /\ v = slot'[r]
      BY <1>5, <2>2 DEF TypeOK
    <3>2. v.at # "idle" => ~Clash(v, q)
      BY <1>0, <1>1, <2>2, <3>1 DEF Calm, Apart, At
    <3>3. Faithful(v)'
      BY <1>7, <3>1, <3>2 DEF Calm
    <3> QED BY <3>1, <3>3 DEF Faithful, Intended
  <2> QED BY <2>1, <2>2
<1>9. Truthful'
  <2> SUFFICES ASSUME NEW p \in Pilot, NEW k \in Key, switch'[p][k] # Unset
               PROVE  /\ Sending(p, k)' \/ switch'[p][k] = Stored(p, k)'
                      /\ k \in Pref => member'[p] # NoRow
    BY DEF Truthful
  <2>1. Stored(p, k)' = Stored(p, k)
    BY <1>2 DEF Stored
  <2>2. Sending(p, k) => Sending(p, k)'
    BY <1>0, <1>1, <1>5 DEF Sending, Sends
  <2>3. CASE p # q.who
    BY <1>2, <1>6, <2>1, <2>2, <2>3 DEF Calm, Truthful
  <2>4. CASE p = q.who
    <3>1. switch'[p][k] = Shown(q)[k]
      BY <1>6, <2>4
    <3>2. /\ Shown(q)[k] = switch[p][k] \/ Shown(q)[k] = Stored(p, k)
          /\ k \in Pref => member[p] # NoRow
      BY <1>1, <2>4, <3>1, AnswerShows
    <3> QED BY <1>2, <2>1, <2>2, <3>1, <3>2 DEF Calm, Truthful
  <2> QED BY <2>3, <2>4
<1> QED BY <1>4, <1>8, <1>9 DEF Calm

LEMMA CalmStep == TypeOK /\ Undisturbed /\ [Next]_vars => Undisturbed'
<1> SUFFICES ASSUME TypeOK, Undisturbed, [Next]_vars, ~disturbed' PROVE Calm'
  BY DEF Undisturbed
<1>1. ASSUME NEW s \in Slot, NEW p \in Pilot, NEW k \in Key, Commit(s, p, k) PROVE Calm'
  <2>1. ~disturbed
    BY <1>1 DEF Commit, Arrive
  <2> QED BY <1>1, <2>1, CommitCalm DEF Undisturbed
<1>2. ASSUME NEW s \in Slot, NEW p \in Pilot, LookAtOrders(s, p) \/ LookAtRecord(s, p) PROVE Calm'
  <2>1. ~disturbed
    BY <1>2 DEF LookAtOrders, LookAtRecord, Arrive
  <2> QED BY <1>2, <2>1, LookCalm DEF Undisturbed
<1>3. ASSUME NEW s \in Slot, ReadOrders(s) \/ ReadReadiness(s) \/ ReadRecord(s) PROVE Calm'
  <2>1. ~disturbed
    BY <1>3 DEF ReadOrders, ReadReadiness, ReadRecord, Try
  <2> QED BY <1>3, <2>1, ReadOrdersCalm, ReadReadinessCalm, ReadRecordCalm DEF Undisturbed
<1>4. ASSUME NEW s \in Slot, Save(s) PROVE Calm'
  <2>1. ~disturbed
    BY <1>4 DEF Save, Try
  <2> QED BY <1>4, <2>1, SaveOrdersCalm, SaveRecordCalm DEF Undisturbed
<1>5. ASSUME NEW s \in Slot, Answer(s) PROVE Calm'
  <2>1. ~disturbed
    BY <1>5 DEF Answer
  <2> QED BY <1>5, <2>1, AnswerCalm DEF Undisturbed
<1>6. ASSUME NEW s \in Slot, Refuse(s) PROVE Calm'
  <2>1. ~disturbed /\ slot[s].at = "refuse"
    BY <1>6 DEF Refuse, Try, At
  <2> QED BY <2>1 DEF Undisturbed, Calm, Faithful
<1>7. ASSUME \/ \E c \in PC, p \in Pilot : Login(c, p)
             \/ \E c \in PC : Restart(c) \/ Rebind(c) \/ Poll(c) \/ LosePoll(c)
             \/ \E p \in Pilot : Expire(p)
      PROVE  Calm'
  <2>1. UNCHANGED <<orders, member, switch, slot>>
    BY <1>7 DEF Login, Restart, Rebind, Poll, LosePoll, Expire, files
  <2>2. ~disturbed
    <3>1. CASE \E c \in PC : Poll(c)
      BY <3>1 DEF Poll, Try
    <3>2. CASE ~\E c \in PC : Poll(c)
      BY <1>7, <3>2 DEF Login, Restart, Rebind, LosePoll, Expire
    <3> QED BY <3>1, <3>2
  <2> QED BY <2>1, <2>2 DEF Undisturbed, Calm, Apart, At, Clash, Truthful, Sending, Sends, Stored,
                           Faithful, Intended
<1>8. CASE UNCHANGED vars
  BY <1>8 DEF vars, files, Undisturbed, Calm, Apart, At, Clash, Truthful, Sending, Sends, Stored,
              Faithful, Intended
<1> QED BY <1>1, <1>2, <1>3, <1>4, <1>5, <1>6, <1>7, <1>8 DEF Next

LEMMA InitUndisturbed == Init => Undisturbed
<1> SUFFICES ASSUME Init PROVE Calm
  BY DEF Undisturbed
<1>1. \A s \in Slot : slot[s].at = "idle"
  BY DEF Init, Free
<1>2. Truthful
  <2> SUFFICES ASSUME NEW p \in Pilot, NEW k \in Key, switch[p][k] # Unset
               PROVE  switch[p][k] = Stored(p, k) /\ k \notin Pref
    BY DEF Truthful
  <2>1. k \in Order /\ switch[p][k] = FALSE
    BY DEF Init
  <2> QED BY <2>1, Kinds DEF Init, NoOrders, Stored, OrdersShown, AllOff
<1> QED BY <1>1, <1>2 DEF Calm, Apart, At, Faithful

LEMMA CalmIsEnough == Undisturbed => SwitchTellsTruth
<1> SUFFICES ASSUME Calm, NEW p \in Pilot, NEW k \in Key, switch[p][k] # Unset,
                    \A s \in Slot : slot[s].at = "idle" \/ slot[s].who # p
             PROVE  switch[p][k] = (IF k \in Order THEN OrdersShown(orders[p])[k]
                                    ELSE PrefsShown(member[p])[k])
  BY DEF Undisturbed, SwitchTellsTruth, At
<1>1. ~Sending(p, k)
  BY DEF Sending, Sends
<1> QED BY <1>1 DEF Calm, Truthful, Stored

(* While no two handlers of one file overlap and nothing fails, a switch at *)
(* rest shows what is stored: what a pilot set stands through the saves of  *)
(* all the others, which rewrite the whole map, and through every sighting, *)
(* which rewrites his record (plugin-settings.js, member.js).               *)
THEOREM SwitchesAreTrue == Spec => []SwitchTellsTruth
<1>1. TypeOK /\ Undisturbed /\ [Next]_vars => Undisturbed'
  BY CalmStep
<1>2. Undisturbed => SwitchTellsTruth
  BY CalmIsEnough
<1> QED BY <1>1, <1>2, InitUndisturbed, FilesTypeCorrect, PTL DEF Spec

-----------------------------------------------------------------------------
(* The same pilots in front of the gate of the admin console: what a READY  *)
(* card of MigrationGate does promise.  A commander whose heartbeat stays   *)
(* on record is in both readings of it that the request makes, so he is a   *)
(* member and has a plugin: his row can only be retired, ready or blocked.  *)
VARIABLES bound, devices, listed, ver, retired, legacyOff, gate, card, seen

G == INSTANCE MigrationGate WITH Cmdr <- Pilot

-----------------------------------------------------------------------------
(* Every variable of the gate keeps its type.                               *)
THEOREM GateTypeCorrect == G!Spec => []G!TypeOK
<1>1. G!Init => G!TypeOK
  <2>1. G!Idle \in [at : G!Reads \cup {"idle", "answer"}, got : [G!Reads -> SUBSET Pilot],
                  recent : SUBSET Pilot, seen : SUBSET Pilot, steady : SUBSET Pilot,
                        failed : SUBSET G!Reads]
    BY DEF G!Idle, G!NoReads
  <2>2. G!NoCard \in [ready : BOOLEAN, row : [Pilot -> G!States], ghosts : SUBSET Pilot,
                    seen : SUBSET Pilot, steady : SUBSET Pilot, failed : SUBSET G!Reads]
    BY DEF G!NoCard, G!States
  <2> QED BY <2>1, <2>2 DEF G!Init, G!TypeOK
<1>2. G!TypeOK /\ [G!Next]_(G!vars) => G!TypeOK'
  <2> SUFFICES ASSUME G!TypeOK, [G!Next]_(G!vars) PROVE G!TypeOK'
    OBVIOUS
  <2> USE DEF G!TypeOK
  <2>b. G!Begin \in [at : G!Reads \cup {"idle", "answer"}, got : [G!Reads -> SUBSET Pilot],
                   recent : SUBSET Pilot, seen : SUBSET Pilot, steady : SUBSET Pilot,
                         failed : SUBSET G!Reads]
    BY DEF G!Begin, G!Idle, G!NoReads, G!Reads, G!Reporting
  <2>1. ASSUME NEW c \in Pilot, G!Bind(c) \/ G!Pair(c) \/ G!List(c) PROVE G!TypeOK'
    BY <2>1 DEF G!Bind, G!Pair, G!List
  <2>2. ASSUME NEW c \in Pilot, G!Report(c) PROVE G!TypeOK'
    BY <2>2 DEF G!Report
  <2>3. ASSUME NEW c \in Pilot, G!Away(c) PROVE G!TypeOK'
    BY <2>3 DEF G!Away
  <2>4. ASSUME NEW c \in Pilot, G!Retire(c) PROVE G!TypeOK'
    BY <2>4, <2>b DEF G!Retire
  <2>5. CASE G!OpenConsole
    BY <2>5, <2>b DEF G!OpenConsole, G!kv
  <2>6. CASE G!Read
    <3>1. G!Source \in [G!Reads -> SUBSET Pilot]
      BY DEF G!Source, G!Reads, G!Reporting
    <3>2. G!NextRead \in [G!Reads -> G!Reads \cup {"answer"}]
      BY DEF G!NextRead, G!Reads
    <3>3. PICK part \in SUBSET G!Source[gate.at] :
             gate' = [gate EXCEPT !.at = G!NextRead[gate.at], !.got[gate.at] = part,
                                  !.recent = IF gate.at = "vers" THEN part \cap G!Recent ELSE @,
                                  !.failed = IF part = G!Source[gate.at] THEN @ ELSE @ \cup {gate.at}]
      BY <2>6 DEF G!Read
    <3>4. gate.at \in G!Reads /\ UNCHANGED <<G!kv, legacyOff, card, seen>>
      BY <2>6 DEF G!Read
    <3>5. part \in SUBSET Pilot
      BY <3>1, <3>3, <3>4
    <3>6. gate' \in [at : G!Reads \cup {"idle", "answer"}, got : [G!Reads -> SUBSET Pilot],
                     recent : SUBSET Pilot, seen : SUBSET Pilot, steady : SUBSET Pilot,
                     failed : SUBSET G!Reads]
      BY <3>2, <3>3, <3>4, <3>5
    <3> QED BY <3>4, <3>6 DEF G!kv
  <2>7. CASE G!Answer
    <3>1. \A c \in Pilot : G!RowOf(gate.got, c) \in G!States
      BY DEF G!RowOf, G!States
    <3>2. G!Members(gate.got) \cap gate.got["retired"] \cap gate.recent \subseteq Pilot
      OBVIOUS
    <3>3. G!Idle \in [at : G!Reads \cup {"idle", "answer"}, got : [G!Reads -> SUBSET Pilot],
                    recent : SUBSET Pilot, seen : SUBSET Pilot, steady : SUBSET Pilot,
                          failed : SUBSET G!Reads]
      BY DEF G!Idle, G!NoReads
    <3> QED BY <2>7, <3>1, <3>2, <3>3 DEF G!Answer, G!kv
  <2>8. CASE G!Flip
    BY <2>8 DEF G!Flip, G!kv
  <2>9. CASE UNCHANGED G!vars
    BY <2>9 DEF G!vars, G!kv
  <2> QED BY <2>1, <2>2, <2>3, <2>4, <2>5, <2>6, <2>7, <2>8, <2>9 DEF G!Next
<1> QED BY <1>1, <1>2, PTL DEF G!Spec

-----------------------------------------------------------------------------
(* While the request runs, the steady are on record, and they are in what   *)
(* it read of the heartbeats.                                               *)
SteadyRead ==
    /\ gate.at # "idle" => gate.steady \subseteq G!Reporting
    /\ gate.failed = {} /\ gate.at \notin {"idle", "links", "reports"} =>
          gate.steady \subseteq gate.got["reports"]
    /\ gate.failed = {} /\ gate.at = "answer" => gate.steady \subseteq gate.got["vers"]

(* A commander in both readings has a row, and it is not n/a.               *)
LEMMA SteadyHasRow ==
    ASSUME NEW got \in [G!Reads -> SUBSET Pilot], NEW c \in got["reports"] \cap got["vers"]
    PROVE  G!RowOf(got, c) \in {"retired", "ready", "blocked"}
  BY DEF G!RowOf, G!Members, G!HasPlugin

LEMMA SteadyStep == G!TypeOK /\ SteadyRead /\ [G!Next]_(G!vars) => SteadyRead'
<1> SUFFICES ASSUME G!TypeOK, SteadyRead, [G!Next]_(G!vars) PROVE SteadyRead'
  OBVIOUS
<1> USE DEF G!TypeOK, SteadyRead
<1>1. ASSUME NEW c \in Pilot, G!Bind(c) \/ G!Pair(c) \/ G!List(c) PROVE SteadyRead'
  BY <1>1 DEF G!Bind, G!Pair, G!List, G!Reporting
<1>2. ASSUME NEW c \in Pilot, G!Report(c) PROVE SteadyRead'
  BY <1>2 DEF G!Report, G!Reporting
<1>3. ASSUME NEW c \in Pilot, G!Away(c) PROVE SteadyRead'
  <2>1. gate'.at = gate.at /\ gate'.got = gate.got /\ gate'.failed = gate.failed
    BY <1>3 DEF G!Away
  <2>2. gate'.steady = IF ver[c] = "old" THEN gate.steady \ {c} ELSE gate.steady
    BY <1>3 DEF G!Away
  <2>3. G!Reporting' = IF ver[c] = "old" THEN G!Reporting \ {c} ELSE G!Reporting
    BY <1>3 DEF G!Away, G!Reporting
  <2> QED BY <2>1, <2>2, <2>3
<1>4. ASSUME NEW c \in Pilot, G!Retire(c) PROVE SteadyRead'
  BY <1>4 DEF G!Retire, G!Begin, G!Idle, G!Reporting
<1>5. CASE G!OpenConsole
  BY <1>5 DEF G!OpenConsole, G!kv, G!Begin, G!Idle, G!Reporting
<1>6. CASE G!Read
  <2>1. PICK part \in SUBSET G!Source[gate.at] :
           gate' = [gate EXCEPT !.at = G!NextRead[gate.at], !.got[gate.at] = part,
                                !.recent = IF gate.at = "vers" THEN part \cap G!Recent ELSE @,
                                !.failed = IF part = G!Source[gate.at] THEN @ ELSE @ \cup {gate.at}]
    BY <1>6 DEF G!Read
  <2>2. gate.at \in G!Reads /\ G!Reporting' = G!Reporting
    BY <1>6 DEF G!Read, G!kv, G!Reporting
  <2>3. gate'.steady = gate.steady /\ gate'.at = G!NextRead[gate.at]
    BY <2>1
  <2>4. gate'.got = [gate.got EXCEPT ![gate.at] = part]
    BY <2>1
  <2>5. gate'.failed = {} => gate.failed = {} /\ part = G!Source[gate.at]
    BY <2>1
  <2>6. G!Source["reports"] = G!Reporting /\ G!Source["vers"] = G!Reporting
    BY DEF G!Source
  <2> QED BY <2>2, <2>3, <2>4, <2>5, <2>6 DEF G!NextRead, G!Reads
<1>7. CASE G!Answer
  BY <1>7 DEF G!Answer, G!kv, G!Idle
<1>8. CASE G!Flip
  BY <1>8 DEF G!Flip, G!kv, G!Reporting
<1>9. CASE UNCHANGED G!vars
  BY <1>9 DEF G!vars, G!kv, G!Reporting
<1> QED BY <1>1, <1>2, <1>3, <1>4, <1>5, <1>6, <1>7, <1>8, <1>9 DEF G!Next

LEMMA CardStep ==
    G!TypeOK /\ SteadyRead /\ G!ReadyMeansRecentPaired /\ [G!Next]_(G!vars) => G!ReadyMeansRecentPaired'
<1> SUFFICES ASSUME G!TypeOK, SteadyRead, G!ReadyMeansRecentPaired, [G!Next]_(G!vars)
             PROVE  G!ReadyMeansRecentPaired'
  OBVIOUS
<1>1. CASE G!Answer
  <2> SUFFICES ASSUME card'.ready, card'.failed = {}, NEW c \in card'.steady
               PROVE  G!Settled(c)'
    BY DEF G!ReadyMeansRecentPaired
  <2>1. /\ c \in gate.steady /\ gate.failed = {} /\ gate.at = "answer"
        /\ \A d \in Pilot : G!RowOf(gate.got, d) # "blocked"
    BY <1>1 DEF G!Answer
  <2>2. c \in gate.got["reports"] \cap gate.got["vers"]
    BY <2>1 DEF SteadyRead
  <2>3. c \in Pilot /\ gate.got \in [G!Reads -> SUBSET Pilot]
    BY <2>1 DEF G!TypeOK
  <2>4. G!RowOf(gate.got, c) \in {"retired", "ready"}
    BY <2>1, <2>2, <2>3, SteadyHasRow
  <2>5. card'.row[c] = G!RowOf(gate.got, c)
    BY <1>1, <2>3 DEF G!Answer
  <2> QED BY <2>4, <2>5 DEF G!Settled
<1>2. CASE UNCHANGED card
  BY <1>2 DEF G!ReadyMeansRecentPaired, G!Settled
<1> QED BY <1>1, <1>2 DEF G!Next, G!vars, G!Bind, G!Pair, G!List, G!Report, G!Away, G!Retire,
      G!OpenConsole, G!Read, G!Flip

(* A READY card none of whose reads failed leaves out nobody whose          *)
(* heartbeat was on record while it was computed: what it forgets, it       *)
(* forgets only with the heartbeat (migrationReadiness).                    *)
THEOREM ReadyIsHonest == G!Spec => []G!ReadyMeansRecentPaired
<1>1. G!Init => SteadyRead /\ G!ReadyMeansRecentPaired
  BY DEF G!Init, G!Idle, G!NoCard, SteadyRead, G!ReadyMeansRecentPaired
<1>2. G!TypeOK /\ (SteadyRead /\ G!ReadyMeansRecentPaired) /\ [G!Next]_(G!vars)
         => (SteadyRead /\ G!ReadyMeansRecentPaired)'
  BY SteadyStep, CardStep
<1> QED BY <1>1, <1>2, GateTypeCorrect, PTL DEF G!Spec

=============================================================================
