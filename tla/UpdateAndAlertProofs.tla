------------------------ MODULE UpdateAndAlertProofs ------------------------
(***************************************************************************)
(* The two threads of the plugin that share no state with each other, and  *)
(* what each promises: its update (PluginUpdate) and its alerts            *)
(* (AlertLane).                                                            *)
(*                                                                         *)
(* The update, for any builds and versions: the code a plugin puts on its  *)
(* PC was cut by the owner, and on the shipped track it moves forward      *)
(* only.  Both rest on what the update thread was handed: a release, so a  *)
(* build that was cut; one of the test track only while that pilot was on  *)
(* it; and on the shipped track one newer than what runs.                  *)
(*                                                                         *)
(* The alerts, for any ring, log, page and number of alerts: what a page   *)
(* has sounded it remembers, so it sounds it once.  That it sounds nothing *)
(* stored before it was opened is an argument of counting: an alert of     *)
(* that backlog is in the first list the page is given, or it is out of    *)
(* reach of every later one, because a page of newer alerts is in the log  *)
(* (Deep), or because it has left the log and the plugin has since raised  *)
(* a ring of newer ones (Buried).  The log is cut to its newest, so a log  *)
(* that is cut still has a page of them.                                   *)
(***************************************************************************)
EXTENDS PluginUpdate, AlertLane, FiniteSetTheorems, WellFoundedInduction, TLAPS

-----------------------------------------------------------------------------
(* Every variable of the update model keeps its type.                       *)
THEOREM UpdateTypeCorrect == Spec => []TypeOK
<1>1. Init => TypeOK
  <2>1. Idle \in ThreadType /\ Idle.at = "idle"
    BY DEF Idle, ThreadType
  <2>2. 0 \in 0..MaxEvents /\ 0 \in 0..MaxGlitches
    BY UpdateAssumption
  <2> QED BY <2>1, <2>2, UpdateAssumption DEF Init, TypeOK
<1>2. TypeOK /\ [Next]_vars => TypeOK'
  <2> SUFFICES ASSUME TypeOK, [Next]_vars PROVE TypeOK'
    OBVIOUS
  <2> USE DEF TypeOK
  <2>i. Idle \in ThreadType /\ Idle.at = "idle"
    BY DEF Idle, ThreadType
  <2>1. ASSUME NEW c \in Channel, NEW b \in Build, Deploy(c, b) PROVE TypeOK'
    BY <2>1, UpdateAssumption DEF Deploy, Event, pc, history
  <2>2. ASSUME NEW c \in Channel, Cut(c) PROVE TypeOK'
    <3>1. deployed[c] \in Build
      BY <2>2 DEF Cut, Detect
    <3> QED BY <2>2, <3>1, UpdateAssumption DEF Cut, Event, Detect, pc
  <2>3. CASE Switch
    BY <2>3, UpdateAssumption DEF Switch, Event, pc
  <2>4. ASSUME NEW bad \in SUBSET Key, Poll(bad) PROVE TypeOK'
    <3> DEFINE c == TierChannel(bad)
               b == LatestFor(c, bad)
    <3>1. c \in Channel /\ LatestUrl(c, bad) \in Channel
      BY DEF TierChannel, LatestUrl, Channel
    <3>2. b \in Build \cup {None}
      BY <3>1 DEF LatestFor
    <3>3. Wanted(c, b) => b \in Build
      BY <3>2 DEF Wanted
    <3>4. staged' \in Build \cup {None}
      BY <2>4, <3>2 DEF Poll
    <3>5. thread' \in ThreadType /\ (thread'.at # "idle" => thread'.build \in Build /\ thread'.url \in Channel)
      <4>1. CASE Wanted(c, b) /\ ~Ready(b) /\ thread.at = "idle"
        <5>1. thread' = [at |-> "fetch", build |-> b, url |-> LatestUrl(c, bad)]
          BY <2>4, <4>1 DEF Poll
        <5> HIDE DEF b, c
        <5> QED BY <5>1, <4>1, <3>1, <3>3 DEF ThreadType
      <4>2. CASE ~(Wanted(c, b) /\ ~Ready(b) /\ thread.at = "idle")
        <5>1. thread' = thread
          BY <2>4, <4>2 DEF Poll
        <5> QED BY <5>1
      <4> QED BY <4>1, <4>2
    <3>6. glitches' \in 0..MaxGlitches
      BY <2>4, UpdateAssumption DEF Poll
    <3>7. /\ reported' = running
          /\ UNCHANGED <<deployed, release, armed, disk, running, marker, events, history>>
      BY <2>4 DEF Poll
    <3> QED BY <3>4, <3>5, <3>6, <3>7 DEF history
  <2>5. CASE Replace
    <3>1. thread' = [thread EXCEPT !.at = "replaced"] /\ thread.at = "fetch" /\ disk' = thread.build
      BY <2>5 DEF Replace
    <3>2. thread' \in ThreadType /\ thread'.build = thread.build /\ thread'.url = thread.url
      BY <3>1 DEF ThreadType
    <3> QED BY <2>5, <3>1, <3>2 DEF Replace, board, history
  <2>6. CASE FetchFails
    BY <2>6, <2>i DEF FetchFails, board, history
  <2>7. CASE Mark
    BY <2>7, <2>i DEF Mark, board
  <2>8. CASE Restart
    BY <2>8, <2>i DEF Restart, board
  <2>9. CASE InstallByHand
    <3> DEFINE c == IF armed /\ deployed["beta"] # None THEN "beta" ELSE "stable"
    <3>1. deployed[c] \in Build
      BY <2>9 DEF InstallByHand, Channel
    <3>2. disk' = deployed[c] /\ byHand' = byHand \cup {deployed[c]}
      BY <2>9 DEF InstallByHand
    <3> HIDE DEF c
    <3> QED BY <2>9, <3>1, <3>2, UpdateAssumption DEF InstallByHand, Event, board
  <2>10. CASE UNCHANGED vars
    BY <2>10 DEF vars, board, pc, history
  <2> QED BY <2>1, <2>2, <2>3, <2>4, <2>5, <2>6, <2>7, <2>8, <2>9, <2>10 DEF Next
<1> QED BY <1>1, <1>2, PTL DEF Spec

-----------------------------------------------------------------------------
(* A release was cut, and for the channel its version designates.           *)
ReleasesCut ==
    \A c \in Channel : release[c] # None => release[c] \in cut /\ ChannelOf(release[c]) = c

(* The thread was handed a build that was cut, of the test track only if    *)
(* the pilot asked for it.                                                  *)
HandedOut ==
    /\ armed => asked
    /\ thread.at # "idle" => thread.build \in cut /\ (Version[thread.build].beta => asked)

CutInv == ReleasesCut /\ HandedOut /\ OnlyCutCode

(* What a poll is answered with was cut, and is of the test track only for  *)
(* a pilot who is on it.                                                    *)
LEMMA AnswerWasCut ==
    ASSUME TypeOK, CutInv, NEW bad \in SUBSET Key,
           LatestFor(TierChannel(bad), bad) # None
    PROVE  /\ LatestFor(TierChannel(bad), bad) \in cut
           /\ Version[LatestFor(TierChannel(bad), bad)].beta => asked
<1> DEFINE url == LatestUrl(TierChannel(bad), bad)
<1>1. url \in Channel /\ release[url] # None /\ LatestFor(TierChannel(bad), bad) = release[url]
  BY DEF LatestFor, LatestUrl, TierChannel, Channel
<1>2. url = "beta" => asked
  BY DEF LatestUrl, TierChannel, CutInv, HandedOut
<1>3. release[url] \in cut /\ ChannelOf(release[url]) = url
  BY <1>1 DEF CutInv, ReleasesCut
<1>4. Version[release[url]].beta => url = "beta"
  BY <1>3 DEF ChannelOf
<1> QED BY <1>1, <1>2, <1>3, <1>4

LEMMA CutStep == TypeOK /\ CutInv /\ [Next]_vars => CutInv'
<1> SUFFICES ASSUME TypeOK, CutInv, [Next]_vars PROVE CutInv'
  OBVIOUS
<1> USE DEF CutInv, ReleasesCut, HandedOut, OnlyCutCode
<1>1. ASSUME NEW c \in Channel, NEW b \in Build, Deploy(c, b) PROVE CutInv'
  BY <1>1 DEF Deploy, pc, history
<1>2. ASSUME NEW c \in Channel, Cut(c) PROVE CutInv'
  <2>1. release' = [release EXCEPT ![c] = deployed[c]] /\ cut' = cut \cup {deployed[c]}
    BY <1>2 DEF Cut, Detect
  <2>2. ChannelOf(deployed[c]) = c
    BY <1>2 DEF Cut, Detect
  <2>3. ReleasesCut'
    BY <2>1, <2>2 DEF TypeOK, ChannelOf
  <2> QED BY <1>2, <2>1, <2>3 DEF Cut, pc
<1>3. CASE Switch
  BY <1>3 DEF Switch, pc
<1>4. ASSUME NEW bad \in SUBSET Key, Poll(bad) PROVE CutInv'
  <2> DEFINE b == LatestFor(TierChannel(bad), bad)
  <2>1. UNCHANGED <<deployed, release, armed, disk, cut, byHand, asked>>
    BY <1>4 DEF Poll, history
  <2>2. \/ thread' = thread
        \/ /\ thread' = [at |-> "fetch", build |-> b,
                         url |-> LatestUrl(TierChannel(bad), bad)]
           /\ b # None
    BY <1>4 DEF Poll, Wanted
  <2>3. b # None => b \in cut /\ (Version[b].beta => asked)
    BY AnswerWasCut
  <2> HIDE DEF b
  <2>4. thread'.at # "idle" => thread'.build \in cut /\ (Version[thread'.build].beta => asked)
    BY <2>2, <2>3
  <2> QED BY <2>1, <2>4
<1>5. CASE Replace
  <2>1. /\ thread.at # "idle" /\ disk' = thread.build
        /\ thread' = [thread EXCEPT !.at = "replaced"]
        /\ UNCHANGED <<board, history>>
    BY <1>5 DEF Replace
  <2>2. thread'.build = thread.build
    BY <2>1 DEF TypeOK, ThreadType
  <2> QED BY <2>1, <2>2 DEF board, history
<1>6. CASE FetchFails
  BY <1>6 DEF FetchFails, Idle, board, history
<1>7. CASE Mark
  BY <1>7 DEF Mark, Idle, board
<1>8. CASE Restart
  BY <1>8 DEF Restart, Idle, board
<1>9. CASE InstallByHand
  <2>1. PICK c \in Channel : disk' = deployed[c] /\ byHand' = byHand \cup {deployed[c]}
    BY <1>9 DEF InstallByHand, Channel
  <2> QED BY <1>9, <2>1 DEF InstallByHand, board
<1>10. CASE UNCHANGED vars
  BY <1>10 DEF vars, board, pc, history
<1> QED BY <1>1, <1>2, <1>3, <1>4, <1>5, <1>6, <1>7, <1>8, <1>9, <1>10 DEF Next

(* The code on a PC is code the owner cut, and test code only where the     *)
(* pilot asked for it (plugin-release.js, _do_update), under every          *)
(* redeployment, race of a cut with a download, and failing read.           *)
THEOREM OnlyCutCodeRuns == Spec => []OnlyCutCode
<1>1. Init => CutInv
  BY UpdateAssumption DEF Init, CutInv, ReleasesCut, HandedOut, OnlyCutCode, Idle, Channel
<1>2. TypeOK /\ CutInv /\ [Next]_vars => CutInv'
  BY CutStep
<1>3. CutInv => OnlyCutCode
  BY DEF CutInv
<1> QED BY <1>1, <1>2, <1>3, UpdateTypeCorrect, PTL DEF Spec

-----------------------------------------------------------------------------
(* For a pilot on the shipped track: what runs is of that track, what is on *)
(* the disk is no older, and what the thread was handed is newer.           *)
Shipped == ~asked /\ byHand = {}
Forward ==
    Shipped => /\ ~Version[running].beta
               /\ ~Newer(running, disk)
               /\ thread.at # "idle" => Newer(thread.build, running)

LEMMA Numbers == \A b \in Build : Version[b].number \in Nat /\ Version[b].beta \in BOOLEAN
  BY UpdateAssumption

LEMMA ForwardStep == TypeOK /\ CutInv /\ Forward /\ [Next]_vars => Forward'
<1> SUFFICES ASSUME TypeOK, CutInv, Forward, [Next]_vars, Shipped' PROVE Forward'
  BY DEF Forward
<1>0. Shipped /\ UNCHANGED <<asked, byHand>>
  BY DEF Shipped, Next, vars, board, pc, history, Deploy, Cut, Switch, Poll, Replace, FetchFails,
         Mark, Restart, InstallByHand
<1>1. CASE UNCHANGED <<running, disk, thread>>
  BY <1>0, <1>1 DEF Forward, Newer
<1>2. ASSUME NEW bad \in SUBSET Key, Poll(bad) PROVE Forward'
  <2> DEFINE c == TierChannel(bad)
             b == LatestFor(c, bad)
  <2>1. c = "stable"
    BY <1>0 DEF TierChannel, Shipped, CutInv, HandedOut
  <2>2. Wanted(c, b) => Newer(b, running)
    <3>1. Version[running].beta = FALSE
      BY <1>0, Numbers DEF Forward, TypeOK
    <3> HIDE DEF b, c
    <3> QED BY <2>1, <3>1 DEF Wanted
  <2>3. UNCHANGED <<running, disk>>
    BY <1>2 DEF Poll
  <2>4. \/ thread' = thread
        \/ Wanted(c, b) /\ thread' = [at |-> "fetch", build |-> b, url |-> LatestUrl(c, bad)]
    BY <1>2 DEF Poll
  <2> HIDE DEF b, c
  <2>5. thread'.at # "idle" => Newer(thread'.build, running)
    BY <1>0, <2>2, <2>4 DEF Forward
  <2> QED BY <1>0, <2>3, <2>5 DEF Forward, Newer
<1>3. CASE Replace
  <2>1. /\ thread.at # "idle" /\ disk' = thread.build /\ running' = running
        /\ thread' = [thread EXCEPT !.at = "replaced"]
    BY <1>3 DEF Replace
  <2>2. thread'.build = thread.build /\ thread.build \in Build /\ running \in Build
    BY <2>1 DEF TypeOK, ThreadType
  <2>3. Newer(thread.build, running) /\ ~Version[running].beta
    BY <1>0, <2>1 DEF Forward
  <2>4. ~Newer(running, thread.build)
    BY <2>2, <2>3, Numbers DEF Newer
  <2> QED BY <2>1, <2>2, <2>3, <2>4 DEF Forward, Newer
<1>4. CASE FetchFails \/ Mark
  BY <1>0, <1>4 DEF FetchFails, Mark, Forward, Newer, Idle
<1>5. CASE Restart
  <2>1. running' = disk /\ disk' = disk /\ thread'.at = "idle"
    BY <1>5 DEF Restart, Idle
  <2>2. ~Version[disk].beta
    BY <1>0 DEF CutInv, OnlyCutCode, Shipped
  <2>3. ~Newer(disk, disk)
    BY Numbers DEF TypeOK, Newer
  <2> QED BY <2>1, <2>2, <2>3 DEF Forward, Newer
<1>6. CASE InstallByHand
  BY <1>0, <1>6 DEF InstallByHand, Shipped
<1> QED
  BY <1>1, <1>2, <1>3, <1>4, <1>5, <1>6
  DEF Next, vars, pc, Deploy, Cut, Switch

(* On the shipped track no restart runs an older version than the one       *)
(* before, whatever the owner cuts (_maybe_update).                         *)
THEOREM ShippedTrackMovesForward == Spec => RetailMovesForward
<1>1. Init => CutInv /\ Forward
  <2>1. Factory \in Build /\ ~Version[Factory].beta
    BY UpdateAssumption
  <2>2. ~Newer(Factory, Factory)
    BY <2>1, Numbers DEF Newer
  <2> QED
    BY <2>1, <2>2
    DEF Init, CutInv, ReleasesCut, HandedOut, OnlyCutCode, Idle, Channel, Forward, Shipped
<1>2. TypeOK /\ (CutInv /\ Forward) /\ [Next]_vars => (CutInv /\ Forward)'
  BY CutStep, ForwardStep
<1>3. Forward /\ [Next]_vars => [~asked /\ byHand' = {} => ~Newer(running, running')]_running
  <2> SUFFICES ASSUME Forward, Next, running' # running, ~asked, byHand' = {}
               PROVE  ~Newer(running, running')
    BY DEF vars, pc
  <2>1. Restart
    BY DEF Next, Deploy, Cut, Switch, Poll, Replace, FetchFails, Mark, InstallByHand, pc
  <2> QED BY <2>1 DEF Restart, Forward, Shipped
<1> QED BY <1>1, <1>2, <1>3, UpdateTypeCorrect, PTL DEF Spec, RetailMovesForward

-----------------------------------------------------------------------------
(* Sets of alerts: their least and their greatest.                          *)
Above(S, a) == {b \in S : b > a}

LEMMA LeastAlert ==
    ASSUME NEW n \in Nat, NEW T \in SUBSET (1..n), T # {}
    PROVE  \E x \in T : \A y \in T : x <= y
<1>1. T \subseteq Nat
  OBVIOUS
<1>2. PICK x \in T : \A y \in T : ~ (<<y, x>> \in OpToRel(<, Nat))
  BY <1>1, NatLessThanWellFounded, WFMin
<1>3. \A y \in T : ~ (y < x)
  BY <1>1, <1>2 DEF OpToRel
<1> QED BY <1>1, <1>3

LEMMA GreatestAlert ==
    ASSUME NEW n \in Nat, NEW T \in SUBSET (1..n), T # {}
    PROVE  \E x \in T : \A y \in T : y <= x
<1> DEFINE U == {i \in 1..n : (n + 1) - i \in T}
<1>1. U # {} /\ U \in SUBSET (1..n)
  <2>1. PICK x \in T : TRUE
    OBVIOUS
  <2>2. (n + 1) - x \in 1..n /\ (n + 1) - ((n + 1) - x) = x
    OBVIOUS
  <2> QED BY <2>1, <2>2
<1> HIDE DEF U
<1>2. PICK u \in U : \A v \in U : u <= v
  BY <1>1, LeastAlert
<1>3. \A y \in T : (n + 1) - y \in U
  BY DEF U
<1>4. (n + 1) - u \in T
  BY <1>2 DEF U
<1>5. \A y \in T : y <= (n + 1) - u
  BY <1>1, <1>2, <1>3
<1> QED BY <1>4, <1>5

LEMMA FiniteAlerts ==
    ASSUME NEW n \in Nat, NEW T \in SUBSET (1..n)
    PROVE  IsFiniteSet(T) /\ Cardinality(T) \in Nat
<1>1. IsFiniteSet(1..n)
  BY FS_Interval
<1> QED BY <1>1, FS_Subset, FS_CardinalityType

LEMMA FewerAlerts ==
    ASSUME NEW n \in Nat, NEW T \in SUBSET (1..n), NEW S \in SUBSET T
    PROVE  Cardinality(S) <= Cardinality(T)
  BY FiniteAlerts, FS_Subset

(* The newest of a set are at most as many as asked for.                    *)
LEMMA NewestAreFew ==
    ASSUME NEW m \in Nat, NEW S \in SUBSET (1..m), NEW n \in Nat
    PROVE  Newest(S, n) \subseteq S /\ Cardinality(Newest(S, n)) <= n
<1> DEFINE T == Newest(S, n)
<1>1. T \subseteq S
  BY DEF Newest
<1>2. CASE T = {}
  BY <1>1, <1>2, FS_EmptySet
<1>3. CASE T # {}
  <2>1. PICK x \in T : \A y \in T : x <= y
    BY <1>1, <1>3, LeastAlert
  <2>2. Cardinality(Above(S, x)) < n
    BY <2>1 DEF Newest, Above
  <2>3. T \ {x} \subseteq Above(S, x) /\ Above(S, x) \in SUBSET (1..m)
    <3> HIDE DEF T
    <3>1. ASSUME NEW y \in T \ {x} PROVE y > x
      <4>1. x <= y /\ x # y /\ x \in Nat /\ y \in Nat
        BY <1>1, <2>1
      <4> QED BY <4>1
    <3> QED BY <1>1, <3>1 DEF Above
  <2>4. Cardinality(T \ {x}) <= Cardinality(Above(S, x))
    BY <2>3, FewerAlerts
  <2>5. IsFiniteSet(T) /\ Cardinality(T) \in Nat
    BY <1>1, FiniteAlerts
  <2>6. Cardinality(T \ {x}) = Cardinality(T) - 1
    BY <2>1, <2>5, FS_RemoveElement
  <2>7. Cardinality(Above(S, x)) \in Nat
    BY <2>3, FiniteAlerts
  <2> QED BY <1>1, <2>2, <2>4, <2>5, <2>6, <2>7
<1> QED BY <1>2, <1>3

(* One that is left out is left behind by as many.                          *)
LEMMA LeftOut ==
    ASSUME NEW m \in Nat, NEW S \in SUBSET (1..m), NEW n \in Nat, NEW a \in S \ Newest(S, n)
    PROVE  Cardinality(Above(S, a)) >= n
<1>1. Above(S, a) \in SUBSET (1..m)
  BY DEF Above
<1>2. Cardinality(Above(S, a)) \in Nat
  BY <1>1, FiniteAlerts
<1> QED BY <1>2 DEF Newest, Above

LEMMA TakenIn ==
    ASSUME NEW m \in Nat, NEW S \in SUBSET (1..m), NEW n \in Nat, NEW a \in Newest(S, n)
    PROVE  a \in S /\ ~(Cardinality(Above(S, a)) >= n)
<1>1. Above(S, a) \in SUBSET (1..m)
  BY DEF Above
<1>2. Cardinality(Above(S, a)) \in Nat
  BY <1>1, FiniteAlerts
<1> QED BY <1>2 DEF Newest, Above

LEMMA CutIsDeep ==
    ASSUME NEW m \in Nat, NEW S \in SUBSET (1..m), NEW n \in Nat, NEW a \in S \ Newest(S, n)
    PROVE  Cardinality(Above(Newest(S, n), a)) >= n
<1> DEFINE T == Newest(S, n)
<1>1. T \subseteq S /\ S \ T \in SUBSET (1..m) /\ S \ T # {}
  BY NewestAreFew
<1>2. PICK b \in S \ T : \A y \in S \ T : y <= b
  BY <1>1, GreatestAlert
<1>3. Cardinality(Above(S, b)) >= n
  BY <1>2, LeftOut
<1>4. Above(S, b) \subseteq Above(T, a) /\ Above(T, a) \in SUBSET (1..m)
  <2> HIDE DEF T
  <2>1. a \in Nat /\ b \in Nat /\ a <= b
    BY <1>2 DEF T
  <2>2. ASSUME NEW y \in S, y > b PROVE y \in T /\ y > a
    <3>1. y \in Nat
      OBVIOUS
    <3>2. ~(y <= b)
      BY <2>1, <2>2, <3>1
    <3> QED BY <1>2, <2>1, <2>2, <3>1, <3>2
  <2> QED BY <1>1, <2>2 DEF Above
<1>5. Cardinality(Above(S, b)) <= Cardinality(Above(T, a))
  BY <1>4, FewerAlerts
<1>6. Cardinality(Above(S, b)) \in Nat /\ Cardinality(Above(T, a)) \in Nat
  BY <1>4, FiniteAlerts
<1> QED BY <1>3, <1>5, <1>6

LEMMA StaysDeep ==
    ASSUME NEW m \in Nat, NEW S \in SUBSET (1..m), NEW L \in SUBSET S,
           NEW n \in Nat, NEW k \in Nat, k <= n, NEW a \in Nat, Cardinality(Above(L, a)) >= k
    PROVE  Cardinality(Above(Newest(S, n), a)) >= k
<1> DEFINE T == Newest(S, n)
<1>0. T \subseteq S /\ Above(T, a) \in SUBSET (1..m) /\ Above(L, a) \in SUBSET (1..m)
  BY NewestAreFew DEF Above
<1> HIDE DEF T
<1>1. Cardinality(Above(T, a)) \in Nat /\ Cardinality(Above(L, a)) \in Nat
  BY <1>0, FiniteAlerts
<1>2. CASE Above(L, a) \subseteq T
  <2>1. Above(L, a) \subseteq Above(T, a)
    BY <1>2 DEF Above
  <2>2. Cardinality(Above(L, a)) <= Cardinality(Above(T, a))
    BY <1>0, <2>1, FewerAlerts
  <2> QED BY <1>1, <2>2 DEF T
<1>3. CASE ~(Above(L, a) \subseteq T)
  <2>1. PICK b \in S \ T : b > a
    BY <1>3 DEF Above
  <2>2. Cardinality(Above(T, b)) >= n
    BY <2>1, CutIsDeep DEF T
  <2>3. Above(T, b) \subseteq Above(T, a)
    <3>1. b \in Nat
      OBVIOUS
    <3>2. \A y \in Nat : y > b => y > a
      BY <2>1, <3>1
    <3>3. T \subseteq Nat
      BY <1>0
    <3> QED BY <3>2, <3>3 DEF Above
  <2>4. Cardinality(Above(T, b)) <= Cardinality(Above(T, a))
    BY <1>0, <2>3, FewerAlerts
  <2>5. Cardinality(Above(T, b)) \in Nat
    BY <1>0, <2>3, FiniteAlerts
  <2> QED BY <1>1, <2>2, <2>4, <2>5 DEF T
<1> QED BY <1>2, <1>3

-----------------------------------------------------------------------------
(* Every variable keeps its type.                                           *)
SlotType == [at : {"idle", "read", "put", "answer"}, al : SUBSET Alert,
             have : SUBSET Alert, awaited : BOOLEAN]
PageType == [at : {"dark", "boot", "up"}, hidden : BOOLEAN, tries : 0..BootTries,
             seen : SUBSET Alert, fetch : {Nothing} \cup SUBSET Alert, blind : BOOLEAN,
             backlog : SUBSET Alert, heard : [Alert -> 0..2]]

LEMMA Sizes ==
    /\ Ring \in Nat /\ Show \in Nat /\ Keep \in Nat /\ BootTries \in Nat
    /\ MaxAlerts \in Nat /\ MaxMishaps \in Nat
    /\ 1 <= Ring /\ Ring <= Show /\ Show <= Keep
    /\ \A S \in SUBSET Alert : Nothing # S
  BY LaneAssumption DEF Alert

LEMMA Unpacked == AlertTypeOK <=>
    /\ raised \in 0..MaxAlerts
    /\ ring \subseteq Alert /\ Cardinality(ring) <= Ring
    /\ alSent \subseteq Alert
    /\ poll \in {Nothing} \cup SUBSET Alert
    /\ slot \in [Slot -> SlotType]
    /\ log \subseteq Alert /\ Cardinality(log) <= Keep
    /\ page \in PageType
    /\ mishaps \in 0..MaxMishaps
    /\ stored \subseteq Alert /\ lost \subseteq Alert /\ clobbered \subseteq Alert
  BY DEF AlertTypeOK, SlotType, PageType

LEMMA FreeType == Free \in SlotType
  BY DEF Free, SlotType

LEMMA DarkType == Dark \in PageType
  BY Sizes DEF Dark, PageType

LEMMA TryType ==
    ASSUME mishaps \in 0..MaxMishaps, NEW ok \in BOOLEAN, Try(ok)
    PROVE  mishaps' \in 0..MaxMishaps
  BY Sizes DEF Try

LEMMA NewestType ==
    ASSUME NEW S \in SUBSET Alert, NEW n \in Nat
    PROVE  Newest(S, n) \in SUBSET Alert /\ Cardinality(Newest(S, n)) <= n
  BY Sizes, NewestAreFew DEF Alert

LEMMA NoneType == {} \subseteq Alert /\ Cardinality({}) = 0
  BY FS_EmptySet

LEMMA InitType == AlertInit => AlertTypeOK
<1> SUFFICES ASSUME AlertInit PROVE AlertTypeOK
  OBVIOUS
<1>1. slot \in [Slot -> SlotType] /\ page \in PageType
  BY FreeType, DarkType DEF AlertInit
<1> QED BY <1>1, Sizes, NoneType, Unpacked DEF AlertInit

LEMMA RingType ==
    ASSUME AlertTypeOK, Raise \/ RestartPlugin PROVE AlertTypeOK'
<1>0. ring \subseteq Alert /\ log \subseteq Alert /\ lost \subseteq Alert /\ raised \in 0..MaxAlerts
      /\ slot \in [Slot -> SlotType] /\ mishaps \in 0..MaxMishaps
  BY Unpacked
<1>1. CASE Raise
  <2>1. raised' \in 0..MaxAlerts /\ raised' \in Alert
    BY <1>0, <1>1, Sizes DEF Raise, Alert
  <2>2. ring' \subseteq Alert /\ Cardinality(ring') <= Ring
    BY <1>0, <1>1, <2>1, Sizes, NewestType DEF Raise
  <2> QED BY <1>1, <2>1, <2>2 DEF Raise, past, AlertTypeOK, SlotType, PageType
<1>2. CASE RestartPlugin
  <2>1. slot' \in [Slot -> SlotType]
    <3>1. \A s \in Slot : [slot[s] EXCEPT !.awaited = FALSE] \in SlotType
      BY <1>0 DEF SlotType
    <3> QED BY <1>0, <1>2, <3>1 DEF RestartPlugin
  <2>2. mishaps' \in 0..MaxMishaps
    BY <1>0, <1>2, TryType DEF RestartPlugin
  <2>3. lost' \subseteq Alert /\ Cardinality(ring') <= Ring
    BY <1>0, <1>2, Sizes, NoneType DEF RestartPlugin
  <2> QED BY <1>2, <2>1, <2>2, <2>3 DEF RestartPlugin, AlertTypeOK, SlotType, PageType
<1> QED BY <1>1, <1>2

(* What a handler makes of the poll it was given, step by step.             *)
LEMMA SlotSteps ==
    ASSUME NEW q \in SlotType, NEW S \in SUBSET Alert, NEW b \in BOOLEAN
    PROVE  /\ [q EXCEPT !.awaited = FALSE] \in SlotType
           /\ [q EXCEPT !.at = "answer"] \in SlotType
           /\ [q EXCEPT !.at = "put", !.have = S] \in SlotType
           /\ [q EXCEPT !.at = "answer", !.have = {}] \in SlotType
           /\ [at |-> "read", al |-> S, have |-> {}, awaited |-> TRUE] \in SlotType
  BY DEF SlotType

(* The same steps, of the handlers; v is the log as it was read.            *)
LEMMA HandlerMoves ==
    ASSUME AlertTypeOK, NEW s \in Slot,
           PollAlerts(s) \/ TimeOut(s) \/ Drop(s) \/ ReadLog(s) \/ PutLog(s) \/ Answer(s)
    PROVE  \E w \in SlotType :
              /\ slot' = [slot EXCEPT ![s] = w]
              /\ w.al \subseteq slot[s].al \cup (IF PollAlerts(s) THEN ring ELSE {})
              /\ w.have \subseteq slot[s].have \cup log
              /\ PutLog(s) => w.have = {}
<1>0. PICK q \in SlotType : q = slot[s]
  BY Unpacked
<1>1. ring \in SUBSET Alert /\ log \in SUBSET Alert /\ slot \in [Slot -> SlotType]
  BY Unpacked
<1>2. CASE PollAlerts(s)
  <2>1. PICK w : w = [at |-> "read", al |-> ring, have |-> {}, awaited |-> TRUE]
    OBVIOUS
  <2>2. w \in SlotType
    BY <1>0, <1>1, <2>1, SlotSteps
  <2> QED BY <1>0, <1>2, <2>1, <2>2 DEF PollAlerts, PutLog
<1>3. CASE TimeOut(s) /\ ~PollAlerts(s) /\ ~PutLog(s)
  <2>1. slot' \in {[slot EXCEPT ![s].awaited = FALSE], [slot EXCEPT ![s] = Free]}
    BY <1>3 DEF TimeOut
  <2>2. CASE slot' = [slot EXCEPT ![s].awaited = FALSE]
    <3>1. PICK w : w = [q EXCEPT !.awaited = FALSE]
      OBVIOUS
    <3>2. w \in SlotType /\ w.al = q.al /\ w.have = q.have
      BY <3>1, SlotSteps DEF SlotType
    <3>3. slot' = [slot EXCEPT ![s] = w]
      BY <1>0, <2>2, <3>1
    <3>4. ~PutLog(s)
      BY <1>3
    <3> QED BY <1>0, <3>2, <3>3, <3>4
  <2>3. CASE slot' = [slot EXCEPT ![s] = Free]
    BY <2>3, FreeType DEF Free
  <2> QED BY <2>1, <2>2, <2>3
<1>4. CASE ReadLog(s) /\ ~PollAlerts(s)
  <2>1. PICK ok \in BOOLEAN :
           LET have == IF ok THEN log ELSE {} IN
           slot' = [slot EXCEPT ![s] = IF @.al \subseteq have THEN [@ EXCEPT !.at = "answer"]
                                       ELSE [@ EXCEPT !.at = "put", !.have = have]]
    BY <1>4 DEF ReadLog
  <2> DEFINE have == IF ok THEN log ELSE {}
  <2>2. have \in SUBSET Alert /\ have \subseteq log
    BY <1>1
  <2>3. PICK w : w = IF q.al \subseteq have THEN [q EXCEPT !.at = "answer"]
                     ELSE [q EXCEPT !.at = "put", !.have = have]
    OBVIOUS
  <2>4. slot' = [slot EXCEPT ![s] = w]
    BY <1>0, <2>1, <2>3
  <2>5. w \in SlotType /\ w.al = q.al /\ w.have \subseteq q.have \cup have
    <3> HIDE DEF have
    <3>1. CASE q.al \subseteq have
      BY <2>2, <2>3, <3>1, SlotSteps DEF SlotType
    <3>2. CASE ~(q.al \subseteq have)
      BY <2>2, <2>3, <3>2, SlotSteps DEF SlotType
    <3> QED BY <3>1, <3>2
  <2>6. ~PutLog(s)
    BY <1>4 DEF ReadLog, PutLog
  <2> QED BY <1>0, <2>2, <2>4, <2>5, <2>6
<1>5. CASE PutLog(s) /\ ~PollAlerts(s)
  <2>1. slot' = [slot EXCEPT ![s].at = "answer", ![s].have = {}]
    BY <1>5 DEF PutLog
  <2>2. PICK w : w = [q EXCEPT !.at = "answer", !.have = {}]
    OBVIOUS
  <2>3. w \in SlotType /\ w.al = q.al /\ w.have = {}
    BY <2>2, SlotSteps DEF SlotType
  <2>4. slot' = [slot EXCEPT ![s] = w]
    BY <1>0, <1>1, <2>1, <2>2
  <2> QED BY <1>0, <2>3, <2>4
<1>6. CASE Answer(s) /\ ~PollAlerts(s)
  BY <1>6, FreeType DEF Answer, Free
<1>7. CASE Drop(s) /\ ~PollAlerts(s)
  <2>1. PICK w : w = [q EXCEPT !.at = "answer"]
    OBVIOUS
  <2>2. w \in SlotType /\ w.al = q.al /\ w.have = q.have
    BY <2>1, SlotSteps DEF SlotType
  <2>3. slot' = [slot EXCEPT ![s] = w] /\ ~PutLog(s)
    BY <1>0, <1>7, <2>1 DEF Drop, PutLog
  <2> QED BY <1>0, <1>7, <2>2, <2>3
<1> QED BY <1>2, <1>3, <1>4, <1>5, <1>6, <1>7

(* The poll a handler answers to is in flight, and it is the only one.      *)
Awaited ==
    \A s \in Slot : slot[s].awaited => poll # Nothing /\ \A r \in Slot : slot[r].awaited => r = s

LEMMA AwaitedStep == AlertTypeOK /\ Awaited /\ [AlertNext]_alertVars => Awaited'
<1> SUFFICES ASSUME AlertTypeOK, Awaited, [AlertNext]_alertVars PROVE Awaited'
  OBVIOUS
<1>0. slot \in [Slot -> SlotType] /\ ring \in SUBSET Alert
  BY Unpacked
<1>1. ASSUME NEW s \in Slot, PollAlerts(s) PROVE Awaited'
  <2>1. poll' # Nothing
    BY <1>0, <1>1, Sizes DEF PollAlerts
  <2>2. \A r \in Slot : slot'[r].awaited => r = s
    BY <1>0, <1>1 DEF PollAlerts, Awaited
  <2> QED BY <2>1, <2>2 DEF Awaited
<1>2. ASSUME NEW s \in Slot, TimeOut(s) PROVE Awaited'
  <2>1. slot[s].awaited /\ slot' \in {[slot EXCEPT ![s].awaited = FALSE], [slot EXCEPT ![s] = Free]}
    BY <1>2 DEF TimeOut
  <2>2. \A r \in Slot : ~slot'[r].awaited
    BY <1>0, <2>1 DEF Awaited, Free, SlotType
  <2> QED BY <2>2 DEF Awaited
<1>3. ASSUME NEW s \in Slot, ReadLog(s) PROVE Awaited'
  <2>1. PICK w : /\ slot' = [slot EXCEPT ![s] = w]
                 /\ w.awaited = slot[s].awaited
    <3>1. PICK q \in SlotType : q = slot[s]
      BY <1>0
    <3>2. PICK ok \in BOOLEAN :
             LET have == IF ok THEN log ELSE {} IN
             slot' = [slot EXCEPT ![s] = IF @.al \subseteq have THEN [@ EXCEPT !.at = "answer"]
                                         ELSE [@ EXCEPT !.at = "put", !.have = have]]
      BY <1>3 DEF ReadLog
    <3>3. [q EXCEPT !.at = "answer"].awaited = q.awaited
      BY DEF SlotType
    <3>4. \A S : [q EXCEPT !.at = "put", !.have = S].awaited = q.awaited
      BY DEF SlotType
    <3> QED BY <3>1, <3>2, <3>3, <3>4
  <2>2. \A r \in Slot : slot'[r].awaited = slot[r].awaited
    BY <1>0, <2>1
  <2> QED BY <1>3, <2>2 DEF Awaited, ReadLog, plugin
<1>4. ASSUME NEW s \in Slot, PutLog(s) PROVE Awaited'
  <2>1. \A r \in Slot : slot'[r].awaited = slot[r].awaited
    BY <1>0, <1>4 DEF PutLog, SlotType
  <2> QED BY <1>4, <2>1 DEF Awaited, PutLog, plugin
<1>5. ASSUME NEW s \in Slot, Answer(s) PROVE Awaited'
  <2>1. \A r \in Slot : slot'[r] = IF r = s THEN Free ELSE slot[r]
    BY <1>0, <1>5 DEF Answer
  <2>2. ~Free.awaited
    BY DEF Free
  <2>3. CASE slot[s].awaited
    <3>1. \A r \in Slot : ~slot'[r].awaited
      BY <2>1, <2>2, <2>3 DEF Awaited
    <3> QED BY <3>1 DEF Awaited
  <2>4. CASE ~slot[s].awaited
    <3>1. poll' = poll
      BY <1>5, <2>4 DEF Answer
    <3> QED BY <2>1, <2>2, <3>1 DEF Awaited
  <2> QED BY <2>3, <2>4
<1>6. CASE RestartPlugin
  <2>1. \A r \in Slot : ~slot'[r].awaited
    BY <1>0, <1>6 DEF RestartPlugin, SlotType
  <2> QED BY <2>1 DEF Awaited
<1>7. CASE UNCHANGED <<slot, poll>>
  BY <1>7 DEF Awaited
<1>8. ASSUME NEW s \in Slot, Drop(s) PROVE Awaited'
  <2>1. \A r \in Slot : slot'[r].awaited = slot[r].awaited
    BY <1>0, <1>8 DEF Drop, SlotType
  <2> QED BY <1>8, <2>1 DEF Awaited, Drop, plugin
<1> QED BY <1>1, <1>2, <1>3, <1>4, <1>5, <1>6, <1>7, <1>8
        DEF AlertNext, alertVars, plugin, Raise, Expire, OpenPage, Background, Ask, AskFails,
              FirstList, NextList

LEMMA HandlerType ==
    ASSUME AlertTypeOK, Awaited, NEW s \in Slot,
          PollAlerts(s) \/ TimeOut(s) \/ Drop(s) \/ ReadLog(s) \/ PutLog(s) \/ Answer(s)
    PROVE  AlertTypeOK'
<1>0. /\ ring \subseteq Alert /\ alSent \subseteq Alert /\ log \subseteq Alert
      /\ poll \in {Nothing} \cup SUBSET Alert
      /\ Cardinality(log) <= Keep /\ Cardinality(ring) <= Ring
      /\ stored \subseteq Alert /\ lost \subseteq Alert /\ clobbered \subseteq Alert
      /\ slot \in [Slot -> SlotType] /\ mishaps \in 0..MaxMishaps
  BY Unpacked
<1>1. slot' \in [Slot -> SlotType]
  BY <1>0, HandlerMoves
<1>2. mishaps' \in 0..MaxMishaps
  BY <1>0, TryType DEF PollAlerts, TimeOut, Drop, ReadLog, PutLog, Answer
<1>3. CASE PollAlerts(s)
  BY <1>0, <1>1, <1>2, <1>3 DEF PollAlerts, past, AlertTypeOK, SlotType, PageType
<1>4. CASE TimeOut(s) \/ Drop(s) \/ ReadLog(s)
  BY <1>0, <1>1, <1>2, <1>4 DEF TimeOut, Drop, ReadLog, plugin, past, AlertTypeOK, SlotType, PageType
<1>5. CASE PutLog(s)
  <2>1. slot[s].al \subseteq Alert /\ slot[s].have \subseteq Alert
    BY <1>0 DEF SlotType
  <2>2. Merged(s) \subseteq Alert /\ Cardinality(Merged(s)) <= Keep
    BY <2>1, Sizes, NewestType DEF Merged
  <2>3. /\ log' \subseteq Alert /\ Cardinality(log') <= Keep
        /\ stored' \subseteq Alert /\ lost' \subseteq Alert /\ clobbered' \subseteq Alert
    BY <1>0, <1>5, <2>1, <2>2 DEF PutLog
  <2> QED BY <1>1, <1>2, <1>5, <2>3 DEF PutLog, plugin, AlertTypeOK, SlotType, PageType
<1>6. CASE Answer(s)
  <2>1. alSent' \subseteq Alert /\ poll' \in {Nothing} \cup SUBSET Alert
    BY <1>0, <1>6 DEF Answer, Awaited
  <2> QED BY <1>0, <1>1, <1>2, <1>6, <2>1 DEF Answer, past, AlertTypeOK, SlotType, PageType
<1> QED BY <1>3, <1>4, <1>5, <1>6

LEMMA ExpireType ==
    ASSUME AlertTypeOK, Expire PROVE AlertTypeOK'
<1>1. log' = {} /\ lost' \subseteq Alert
  BY Unpacked DEF Expire
<1>2. Cardinality(log') <= Keep
  BY <1>1, Sizes, NoneType
<1> QED BY <1>1, <1>2 DEF Expire, plugin, AlertTypeOK

(* What each step of the page does to it.                                   *)
LEMMA PageMoves ==
    ASSUME AlertTypeOK,
           OpenPage \/ Background \/ Ask \/ AskFails \/ FirstList \/ NextList
    PROVE  page' \in PageType
<1>0. page \in PageType /\ log \in SUBSET Alert /\ stored \in SUBSET Alert
  BY Unpacked
<1>1. CASE OpenPage
  BY <1>1, DarkType DEF OpenPage, PageType
<1>2. CASE Background
  <2>1. page' = [page EXCEPT !.hidden = ~page.hidden]
    BY <1>2 DEF Background
  <2> QED BY <1>0, <2>1 DEF PageType
<1>3. CASE Ask
  <2>1. PICK ok \in BOOLEAN :
           page' = [page EXCEPT !.fetch = IF ok THEN Newest(log, Show) ELSE {},
                                !.backlog = IF page.at = "boot" THEN stored ELSE @,
                                !.blind = IF page.at = "boot" THEN ~ok ELSE @]
    BY <1>3 DEF Ask
  <2> DEFINE S == IF ok THEN Newest(log, Show) ELSE {}
             B == IF page.at = "boot" THEN stored ELSE page.backlog
             b == IF page.at = "boot" THEN ~ok ELSE page.blind
  <2>2. S \in SUBSET Alert /\ B \in SUBSET Alert /\ b \in BOOLEAN
    BY <1>0, Sizes, NewestType DEF PageType
  <2>3. page' = [page EXCEPT !.fetch = S, !.backlog = B, !.blind = b]
    BY <2>1
  <2> HIDE DEF S, B, b
  <2> QED BY <1>0, <2>2, <2>3 DEF PageType
<1>4. CASE AskFails
  <2>1. page' = IF page.at = "up" THEN [page EXCEPT !.fetch = Nothing]
                ELSE IF page.tries < BootTries
                     THEN [page EXCEPT !.fetch = Nothing, !.tries = page.tries + 1]
                ELSE Dark
    BY <1>4 DEF AskFails
  <2>2. [page EXCEPT !.fetch = Nothing] \in PageType
    BY <1>0 DEF PageType
  <2>3. page.tries < BootTries =>
           [page EXCEPT !.fetch = Nothing, !.tries = page.tries + 1] \in PageType
    <3>1. page.tries < BootTries => page.tries + 1 \in 0..BootTries
      BY <1>0, Sizes DEF PageType
    <3> QED BY <1>0, <3>1 DEF PageType
  <2> QED BY <2>1, <2>2, <2>3, DarkType
<1>5. CASE FirstList
  <2>1. /\ page' = [page EXCEPT !.at = "up", !.seen = page.fetch, !.fetch = Nothing]
        /\ page.fetch # Nothing
    BY <1>5 DEF FirstList
  <2> QED BY <1>0, <2>1 DEF PageType
<1>6. CASE NextList
  <2> DEFINE h == [a \in Alert |-> IF a \in page.fetch \ page.seen /\ page.heard[a] < 2
                                   THEN page.heard[a] + 1 ELSE page.heard[a]]
  <2>1. page' = [page EXCEPT !.fetch = Nothing, !.seen = Seen(page.fetch), !.heard = h]
    BY <1>6 DEF NextList
  <2>2. Seen(page.fetch) \in SUBSET Alert
    BY <1>0, <1>6 DEF NextList, Seen, PageType
  <2>3. h \in [Alert -> 0..2]
    BY <1>0 DEF PageType
  <2> HIDE DEF h
  <2> QED BY <1>0, <2>1, <2>2, <2>3 DEF PageType
<1> QED BY <1>1, <1>2, <1>3, <1>4, <1>5, <1>6

LEMMA PageTypeStep ==
    ASSUME AlertTypeOK,
           OpenPage \/ Background \/ Ask \/ AskFails \/ FirstList \/ NextList
    PROVE  AlertTypeOK'
<1>1. page' \in PageType
  BY PageMoves
<1>2. mishaps' \in 0..MaxMishaps
  BY Unpacked, TryType DEF OpenPage, Background, Ask, AskFails, FirstList, NextList
<1>3. UNCHANGED <<raised, plugin, slot, log, past>>
  BY DEF OpenPage, Background, Ask, AskFails, FirstList, NextList
<1> QED BY <1>1, <1>2, <1>3 DEF AlertTypeOK, PageType, plugin, past

LEMMA TypeStep == AlertTypeOK /\ Awaited /\ [AlertNext]_alertVars => AlertTypeOK'
<1> SUFFICES ASSUME AlertTypeOK, Awaited, [AlertNext]_alertVars PROVE AlertTypeOK'
  OBVIOUS
<1>1. CASE Raise \/ RestartPlugin
  BY <1>1, RingType
<1>2. ASSUME NEW s \in Slot,
           PollAlerts(s) \/ TimeOut(s) \/ Drop(s) \/ ReadLog(s) \/ PutLog(s) \/ Answer(s)
      PROVE  AlertTypeOK'
  BY <1>2, HandlerType
<1>3. CASE Expire
  BY <1>3, ExpireType
<1>4. CASE OpenPage \/ Background \/ Ask \/ AskFails \/ FirstList \/ NextList
  BY <1>4, PageTypeStep
<1>5. CASE UNCHANGED alertVars
  BY <1>5 DEF alertVars, plugin, past, AlertTypeOK
<1> QED BY <1>1, <1>2, <1>3, <1>4, <1>5 DEF AlertNext

(* Ring, log and page stay within their limits, and what the plugin takes   *)
(* for delivered was sent: an answer is only ever awaited by the one poll   *)
(* in flight (load.py _alert_raise, navpull.js storeAlerts).                *)
THEOREM AlertTypeCorrect == AlertSpec => []AlertTypeOK
<1>1. AlertInit => AlertTypeOK /\ Awaited
  BY InitType DEF AlertInit, Free, Awaited
<1>2. (AlertTypeOK /\ Awaited) /\ [AlertNext]_alertVars => (AlertTypeOK /\ Awaited)'
  BY TypeStep, AwaitedStep
<1> QED BY <1>1, <1>2, PTL DEF AlertSpec

-----------------------------------------------------------------------------
(* An alert that the page will not be shown any more: as many newer ones as *)
(* the route shows are in the log, or it is out of the log and too old for  *)
(* the ring to bring it back.                                               *)
Deep(a) == Cardinality(Above(log, a)) >= Show
Buried(a) == /\ a + Ring <= raised /\ a \notin log
             /\ \A s \in Slot : a \notin slot[s].al \cup slot[s].have
Shelved(a) == Deep(a) \/ Buried(a)
Excused(a) == a \in lost \/ clobbered # {}

(* The ring is the last of what was raised, in one piece.                   *)
Numbered ==
    /\ ring \subseteq 1..raised /\ log \subseteq 1..raised
    /\ \A x \in ring : x + Ring > raised /\ x..raised \subseteq ring
    /\ \A s \in Slot : slot[s].al \cup slot[s].have \subseteq 1..raised

LEMMA LastInOnePiece ==
    ASSUME NEW r \in Nat, NEW U \in SUBSET (1..r), NEW n \in Nat, NEW x \in Newest(U, n),
           \A y \in U : y..r \subseteq U
    PROVE  x + n > r /\ x..r \subseteq Newest(U, n)
<1>1. x \in U /\ ~(Cardinality(Above(U, x)) >= n)
  BY TakenIn
<1>2. Above(U, x) \in SUBSET (1..r)
  BY DEF Above
<1>3. Cardinality(Above(U, x)) \in Nat
  BY <1>2, FiniteAlerts
<1>4. (x + 1)..r \subseteq Above(U, x)
  <2>1. x \in Nat /\ x..r \subseteq U
    BY <1>1
  <2> QED BY <2>1 DEF Above
<1>5. Cardinality((x + 1)..r) <= Cardinality(Above(U, x))
  BY <1>2, <1>4, FewerAlerts
<1>6. Cardinality((x + 1)..r) = IF x + 1 > r THEN 0 ELSE r - (x + 1) + 1
  BY <1>1, FS_Interval
<1>7. x + n > r
  BY <1>1, <1>3, <1>5, <1>6
<1>8. ASSUME NEW y \in x..r PROVE y \in Newest(U, n)
  <2>1. y \in U /\ x \in Nat /\ y \in Nat /\ x <= y
    BY <1>1
  <2>2. Above(U, y) \subseteq Above(U, x)
    <3>1. \A b \in Nat : b > y => b > x
      BY <2>1
    <3>2. U \subseteq Nat
      OBVIOUS
    <3> QED BY <3>1, <3>2 DEF Above
  <2>3. Cardinality(Above(U, y)) <= Cardinality(Above(U, x)) /\ Cardinality(Above(U, y)) \in Nat
    BY <1>2, <2>2, FewerAlerts, FiniteAlerts
  <2>4. Cardinality(Above(U, y)) < n
    BY <1>1, <1>3, <2>3
  <2> QED BY <2>1, <2>4 DEF Newest, Above
<1> QED BY <1>7, <1>8

LEMMA NumberedStep == AlertTypeOK /\ Numbered /\ [AlertNext]_alertVars => Numbered'
<1> SUFFICES ASSUME AlertTypeOK, Numbered, [AlertNext]_alertVars PROVE Numbered'
  OBVIOUS
<1>0. raised \in Nat /\ ring \in SUBSET Alert /\ slot \in [Slot -> SlotType]
  BY Sizes, Unpacked
<1>1. CASE Raise
  <2> DEFINE U == ring \cup {raised'}
  <2>1. raised' = raised + 1 /\ raised' \in Nat /\ ring' = Newest(U, Ring)
    BY <1>0, <1>1 DEF Raise
  <2>2. U \in SUBSET (1..raised')
    BY <1>0, <2>1 DEF Numbered
  <2>3. \A y \in U : y..raised' \subseteq U
    BY <1>0, <2>1 DEF Numbered
  <2> HIDE DEF U
  <2>4. \A x \in ring' : x + Ring > raised' /\ x..raised' \subseteq ring'
    BY <2>1, <2>2, <2>3, Sizes, LastInOnePiece
  <2>5. ring' \subseteq 1..raised'
    BY <2>1, <2>2, Sizes, NewestAreFew
  <2>6. 1..raised \subseteq 1..raised'
    BY <1>0, <2>1
  <2> QED BY <1>1, <2>4, <2>5, <2>6 DEF Raise, Numbered
<1>2. CASE RestartPlugin
  <2>1. \A s \in Slot : slot'[s].al = slot[s].al /\ slot'[s].have = slot[s].have
    BY <1>0, <1>2 DEF RestartPlugin, SlotType
  <2>2. raised' = raised /\ log' = log /\ ring' = {}
    BY <1>2 DEF RestartPlugin
  <2> QED BY <2>1, <2>2 DEF Numbered
<1>3. ASSUME NEW s \in Slot,
           PollAlerts(s) \/ TimeOut(s) \/ Drop(s) \/ ReadLog(s) \/ PutLog(s) \/ Answer(s)
      PROVE  Numbered'
  <2>1. raised' = raised /\ ring' = ring
    BY <1>3 DEF PollAlerts, TimeOut, Drop, ReadLog, PutLog, Answer, plugin
  <2>2. PICK w \in SlotType :
           /\ slot' = [slot EXCEPT ![s] = w]
           /\ w.al \subseteq slot[s].al \cup (IF PollAlerts(s) THEN ring ELSE {})
           /\ w.have \subseteq slot[s].have \cup log
    BY <1>3, HandlerMoves
  <2>3. w.al \cup w.have \subseteq 1..raised
    BY <2>2 DEF Numbered
  <2>4. \A r \in Slot : slot'[r].al \cup slot'[r].have \subseteq 1..raised
    BY <1>0, <2>2, <2>3 DEF Numbered
  <2>5. log' \subseteq 1..raised
    <3>1. CASE PutLog(s)
      <4>1. slot[s].have \cup slot[s].al \in SUBSET (1..raised)
        BY DEF Numbered
      <4>2. Merged(s) \subseteq 1..raised
        BY <1>0, <4>1, Sizes, NewestAreFew DEF Merged
      <4> QED BY <3>1, <4>2 DEF PutLog, Numbered
    <3>2. CASE ~PutLog(s)
      BY <1>3, <3>2 DEF PollAlerts, TimeOut, Drop, ReadLog, Answer, Numbered
    <3> QED BY <3>1, <3>2
  <2> QED BY <2>1, <2>4, <2>5 DEF Numbered
<1>4. CASE Expire
  BY <1>4 DEF Expire, plugin, Numbered
<1>5. CASE UNCHANGED <<raised, ring, log, slot>>
  BY <1>5 DEF Numbered
<1> QED BY <1>1, <1>2, <1>3, <1>4, <1>5
        DEF AlertNext, alertVars, plugin, OpenPage, Background, Ask, AskFails, FirstList, NextList

LEMMA ExcusesStay ==
    ASSUME [AlertNext]_alertVars, NEW a, Excused(a)
    PROVE  Excused(a)'
<1>1. lost \subseteq lost' /\ clobbered \subseteq clobbered'
  BY DEF AlertNext, alertVars, plugin, past, Raise, RestartPlugin, PollAlerts, TimeOut,
        Drop, ReadLog, PutLog, Answer, Expire,
         OpenPage, Background, Ask, AskFails, FirstList, NextList
<1> QED BY <1>1 DEF Excused

(* Once in the log an alert leaves it by being cut from it, which shelves   *)
(* it, or else for one of the reasons that are no promise; and what is on   *)
(* the shelf stays there.                                                   *)
LEMMA ShelfStep ==
    ASSUME AlertTypeOK, Numbered, [AlertNext]_alertVars, NEW a \in Alert, ~Excused(a)',
          a \in log \/ Shelved(a)
    PROVE  /\ a \in log' \/ Shelved(a)'
           /\ Shelved(a) => Shelved(a)'
<1>0. /\ a \in Nat /\ raised \in Nat /\ slot \in [Slot -> SlotType] /\ log \in SUBSET Alert
      /\ Above(log, a) \in SUBSET (1..raised)
  <2>1. a \in Nat /\ raised \in Nat
    BY Sizes, Unpacked DEF Alert
  <2>2. slot \in [Slot -> SlotType] /\ log \in SUBSET Alert
    BY Unpacked
  <2> QED BY <2>1, <2>2 DEF Above, Numbered
<1>1. a \notin lost' /\ clobbered' = {}
  BY DEF Excused
<1>2. ASSUME NEW s \in Slot, PutLog(s) PROVE (a \in log' \/ Shelved(a)') /\ (Shelved(a) => Shelved(a)')
  <2> DEFINE M == slot[s].have \cup slot[s].al
  <2>1. PICK w \in SlotType :
           /\ slot' = [slot EXCEPT ![s] = w] /\ w.al \subseteq slot[s].al /\ w.have \subseteq {}
    <3>1. ~PollAlerts(s)
      BY <1>2 DEF PutLog, PollAlerts
    <3> QED BY <1>2, <3>1, HandlerMoves
  <2>2. PICK ok \in BOOLEAN :
           /\ log' = IF ok THEN Merged(s) ELSE log
           /\ clobbered' = IF ok THEN clobbered \cup (log \ M) ELSE clobbered
    BY <1>2 DEF PutLog
  <2>3. raised' = raised
    BY <1>2 DEF PutLog
  <2>4. CASE ~ok
    <3>1. log' = log
      BY <2>2, <2>4
    <3>2. Buried(a) => Buried(a)'
      BY <1>0, <2>1, <2>3, <3>1 DEF Buried
    <3> QED BY <3>1, <3>2 DEF Shelved, Deep
  <2>5. CASE ok
    <3>1. log \subseteq M /\ log' = Newest(M, Keep) /\ M \in SUBSET (1..raised)
      BY <1>1, <2>2, <2>5 DEF Merged, Numbered
    <3> HIDE DEF M
    <3>2. Deep(a) => Deep(a)'
      BY <1>0, <3>1, Sizes, StaysDeep DEF Deep
    <3>3. Buried(a) => Buried(a)'
      <4> SUFFICES ASSUME Buried(a) PROVE Buried(a)'
        OBVIOUS
      <4>1. a \notin M
        BY DEF Buried, M
      <4>2. log' \subseteq M
        BY <1>0, <3>1, Sizes, NewestAreFew
      <4> QED BY <1>0, <2>1, <2>3, <4>1, <4>2 DEF Buried
    <3>4. a \in log /\ a \notin log' => Deep(a)'
      <4> SUFFICES ASSUME a \in log, a \notin log' PROVE Cardinality(Above(log', a)) >= Show
        BY DEF Deep
      <4>1. Cardinality(Above(log', a)) >= Keep
        BY <1>0, <3>1, Sizes, CutIsDeep
      <4>2. log' \in SUBSET (1..raised)
        BY <1>0, <3>1, Sizes, NewestAreFew
      <4>3. Above(log', a) \in SUBSET (1..raised)
        BY <4>2 DEF Above
      <4>4. Cardinality(Above(log', a)) \in Nat
        BY <1>0, <4>3, FiniteAlerts
      <4> QED BY <4>1, <4>4, Sizes
    <3> QED BY <3>2, <3>3, <3>4 DEF Shelved
  <2> QED BY <2>4, <2>5
<1>3. ASSUME NEW s \in Slot, PollAlerts(s) \/ TimeOut(s) \/ Drop(s) \/ ReadLog(s) \/ Answer(s), ~PutLog(s)
      PROVE  (a \in log' \/ Shelved(a)') /\ (Shelved(a) => Shelved(a)')
  <2>1. PICK w \in SlotType :
           /\ slot' = [slot EXCEPT ![s] = w]
           /\ w.al \subseteq slot[s].al \cup ring /\ w.have \subseteq slot[s].have \cup log
    BY <1>3, HandlerMoves
  <2>2. log' = log /\ raised' = raised
    BY <1>3 DEF PollAlerts, TimeOut, Drop, ReadLog, Answer, plugin
  <2>3. Buried(a) => Buried(a)'
    <3> SUFFICES ASSUME Buried(a) PROVE Buried(a)'
      OBVIOUS
    <3>1. a \notin ring
      BY <1>0, Sizes DEF Buried, Numbered
    <3> QED BY <1>0, <2>1, <2>2, <3>1 DEF Buried
  <2> QED BY <2>2, <2>3 DEF Shelved, Deep
<1>4. CASE Expire
  <2>1. a \notin log /\ log' = {} /\ raised' = raised /\ slot' = slot /\ slot = [s \in Slot |-> Free]
    BY <1>1, <1>4 DEF Expire
  <2>2. a + Ring <= raised
    <3>1. CASE Deep(a)
      <4>1. Above(log, a) \subseteq (a + 1)..raised /\ (a + 1)..raised \in SUBSET (1..raised)
        BY <1>0 DEF Above
      <4>2. Cardinality(Above(log, a)) <= Cardinality((a + 1)..raised)
        BY <1>0, <4>1, FewerAlerts
      <4>3. Cardinality((a + 1)..raised) = IF a + 1 > raised THEN 0 ELSE raised - (a + 1) + 1
        BY <1>0, FS_Interval
      <4>4. Cardinality(Above(log, a)) \in Nat
        BY <1>0, FiniteAlerts
      <4> QED BY <1>0, <3>1, <4>2, <4>3, <4>4, Sizes DEF Deep
    <3>2. CASE Buried(a)
      BY <3>2 DEF Buried
    <3> QED BY <2>1, <3>1, <3>2 DEF Shelved
  <2>3. Buried(a)'
    BY <2>1, <2>2 DEF Buried, Free
  <2> QED BY <2>3 DEF Shelved
<1>5. CASE Raise \/ RestartPlugin
  <2>1. log' = log
    BY <1>5 DEF Raise, RestartPlugin
  <2>2. \A s \in Slot : slot'[s].al = slot[s].al /\ slot'[s].have = slot[s].have
    BY <1>0, <1>5 DEF Raise, RestartPlugin, SlotType
  <2>3. raised' \in Nat /\ raised' >= raised
    <3>1. raised' = raised + 1 \/ raised' = raised
      BY <1>5 DEF Raise, RestartPlugin
    <3> QED BY <1>0, <3>1
  <2>4. Buried(a) => Buried(a)'
    BY <1>0, <2>1, <2>2, <2>3, Sizes DEF Buried
  <2> QED BY <2>1, <2>4 DEF Shelved, Deep
<1>6. CASE UNCHANGED <<raised, log, slot>>
  BY <1>6 DEF Shelved, Deep, Buried
<1> QED BY <1>2, <1>3, <1>4, <1>5, <1>6
        DEF AlertNext, alertVars, OpenPage, Background, Ask, AskFails, FirstList, NextList

-----------------------------------------------------------------------------
(* Of what was ever in the log, the page knows where it is.                 *)
Remembered == \A a \in stored : Excused(a) \/ a \in log \/ Shelved(a)

(* What has sounded was seen and has sounded once.                          *)
Sounded ==
    /\ \A a \in Alert : page.heard[a] > 0 => page.heard[a] = 1 /\ a \in page.seen
    /\ page.at # "up" => \A a \in Alert : page.heard[a] = 0
    /\ page.at = "dark" => page.backlog = {}

(* An alert of the backlog is in the first list, or shelved for good.       *)
Known(a) ==
    /\ page.at = "boot" /\ page.fetch # Nothing => a \in page.fetch \/ Shelved(a)
    /\ page.at = "up" => /\ a \in page.seen \/ Shelved(a)
                         /\ page.fetch # Nothing /\ a \in page.fetch => a \in page.seen
                         /\ page.heard[a] = 0
Backlogged == \A a \in page.backlog : page.blind \/ Excused(a) \/ Known(a)

LEMMA RememberedStep == AlertTypeOK /\ Numbered /\ Remembered /\ [AlertNext]_alertVars => Remembered'
<1> SUFFICES ASSUME AlertTypeOK, Numbered, Remembered, [AlertNext]_alertVars,
      NEW a \in stored', ~Excused(a)'
             PROVE  a \in log' \/ Shelved(a)'
  BY DEF Remembered
<1>1. CASE a \in stored
  <2>1. a \in Alert
    BY <1>1, Unpacked
  <2>2. a \in log \/ Shelved(a)
    BY <1>1, ExcusesStay DEF Remembered
  <2> QED BY <2>1, <2>2, ShelfStep
<1>2. CASE a \notin stored
  <2>1. stored' \subseteq stored \cup log'
    BY DEF AlertNext, alertVars, past, Raise, RestartPlugin, PollAlerts, TimeOut, Drop, ReadLog,
          PutLog, Answer, Expire,
           OpenPage, Background, Ask, AskFails, FirstList, NextList
  <2> QED BY <1>2, <2>1
<1> QED BY <1>1, <1>2

(* What the page is shown is not on the shelf.                              *)
LEMMA ShownIsNotShelved ==
    ASSUME AlertTypeOK, NEW a \in Newest(log, Show)
    PROVE  ~Shelved(a)
<1>1. log \in SUBSET (1..MaxAlerts)
  BY Unpacked DEF Alert
<1>2. a \in log /\ ~(Cardinality(Above(log, a)) >= Show)
  BY <1>1, Sizes, TakenIn
<1> QED BY <1>2 DEF Shelved, Deep, Buried

LEMMA InTheLog ==
    ASSUME AlertTypeOK, NEW a \in log
    PROVE  a \in Newest(log, Show) \/ Shelved(a)
<1>1. log \in SUBSET (1..MaxAlerts)
  BY Unpacked DEF Alert
<1>2. CASE a \notin Newest(log, Show)
  BY <1>1, <1>2, Sizes, LeftOut DEF Shelved, Deep
<1> QED BY <1>2

LEMMA SoundedStep == AlertTypeOK /\ Sounded /\ [AlertNext]_alertVars => Sounded'
<1> SUFFICES ASSUME AlertTypeOK, Sounded, [AlertNext]_alertVars PROVE Sounded'
  OBVIOUS
<1>0. page \in PageType
  BY Unpacked
<1>1. CASE UNCHANGED page
  BY <1>1 DEF Sounded
<1>2. CASE page' = Dark \/ OpenPage
  <2>1. page'.at # "up" /\ page'.heard = [a \in Alert |-> 0] /\ page'.backlog = {}
    BY <1>2 DEF OpenPage, Dark
  <2> QED BY <2>1 DEF Sounded
<1>3. CASE /\ page'.at = page.at /\ page'.heard = page.heard /\ page'.seen = page.seen
           /\ page.at = "dark" => page'.backlog = page.backlog
  BY <1>3 DEF Sounded
<1>4. CASE FirstList
  <2>1. page'.at = "up" /\ page'.heard = page.heard /\ page.at = "boot"
    BY <1>0, <1>4 DEF FirstList, PageType
  <2> QED BY <2>1 DEF Sounded
<1>5. CASE NextList
  <2>1. /\ page'.at = "up" /\ page'.seen = page.seen \cup page.fetch
        /\ \A a \in Alert : page'.heard[a] = IF a \in page.fetch \ page.seen /\ page.heard[a] < 2
                                             THEN page.heard[a] + 1 ELSE page.heard[a]
    BY <1>0, <1>5 DEF NextList, Seen, PageType
  <2>2. \A a \in Alert : page.heard[a] \in 0..2
    BY <1>0 DEF PageType
  <2>3. ASSUME NEW a \in Alert, page'.heard[a] > 0 PROVE page'.heard[a] = 1 /\ a \in page'.seen
    <3>1. CASE a \in page.seen
      BY <2>1, <2>3, <3>1 DEF Sounded
    <3>2. CASE a \notin page.seen
      <4>1. page.heard[a] = 0
        BY <2>2, <3>2 DEF Sounded
      <4> QED BY <2>1, <2>3, <3>2, <4>1
    <3> QED BY <3>1, <3>2
  <2> QED BY <2>1, <2>3 DEF Sounded
<1>6. CASE Background \/ Ask
  BY <1>0, <1>3, <1>6 DEF Background, Ask, PageType
<1>7. CASE AskFails
  BY <1>0, <1>2, <1>3, <1>7 DEF AskFails, PageType
<1> QED BY <1>1, <1>2, <1>4, <1>5, <1>6, <1>7
        DEF AlertNext, alertVars, Raise, RestartPlugin, PollAlerts, TimeOut, Drop, ReadLog, PutLog,
              Answer, Expire

LEMMA BackloggedStep ==
    AlertTypeOK /\ Numbered /\ Remembered /\ Sounded /\ Backlogged /\ [AlertNext]_alertVars => Backlogged'
<1> SUFFICES ASSUME AlertTypeOK, Numbered, Remembered, Sounded, Backlogged, [AlertNext]_alertVars,
                    NEW a \in page'.backlog, ~page'.blind, ~Excused(a)'
             PROVE  Known(a)'
  BY DEF Backlogged
<1>0. page \in PageType /\ stored \in SUBSET Alert
  BY Unpacked
<1>a. ~Excused(a)
  BY ExcusesStay
<1>1. CASE UNCHANGED page
  <2>1. a \in Alert /\ Known(a)
    BY <1>0, <1>1, <1>a DEF Backlogged, PageType
  <2>2. Shelved(a) => Shelved(a)'
    BY <2>1, ShelfStep
  <2> QED BY <1>1, <2>1, <2>2 DEF Known
<1>b. ASSUME OpenPage \/ Background \/ Ask \/ AskFails \/ FirstList \/ NextList
      PROVE  Shelved(a)' <=> Shelved(a)
  BY <1>b DEF OpenPage, Background, Ask, AskFails, FirstList, NextList, Shelved, Deep, Buried
<1>2. CASE page' = Dark \/ OpenPage
  <2>1. page'.backlog = {}
    BY <1>2 DEF OpenPage, Dark
  <2> QED BY <2>1
<1>3. CASE Background
  <2>1. /\ page'.backlog = page.backlog /\ page'.blind = page.blind /\ page'.at = page.at
        /\ page'.fetch = page.fetch /\ page'.seen = page.seen /\ page'.heard = page.heard
    BY <1>0, <1>3 DEF Background, PageType
  <2>2. Known(a)
    BY <1>a, <2>1 DEF Backlogged
  <2> QED BY <1>3, <1>b, <2>1, <2>2 DEF Known
<1>4. CASE Ask
  <2>1. PICK ok \in BOOLEAN :
           page' = [page EXCEPT !.fetch = IF ok THEN Newest(log, Show) ELSE {},
                                !.backlog = IF page.at = "boot" THEN stored ELSE @,
                                !.blind = IF page.at = "boot" THEN ~ok ELSE @]
    BY <1>4 DEF Ask
  <2>2. /\ page'.at = page.at /\ page'.seen = page.seen /\ page'.heard = page.heard
        /\ page'.fetch = IF ok THEN Newest(log, Show) ELSE {}
        /\ page'.backlog = IF page.at = "boot" THEN stored ELSE page.backlog
        /\ page'.blind = IF page.at = "boot" THEN ~ok ELSE page.blind
    BY <1>0, <2>1 DEF PageType
  <2>3. CASE page.at = "boot"
    <3>1. ok /\ a \in stored
      BY <2>2, <2>3
    <3>2. a \in log \/ Shelved(a)
      BY <1>a, <3>1 DEF Remembered
    <3>3. a \in Newest(log, Show) \/ Shelved(a)
      BY <3>2, InTheLog
    <3> QED BY <1>4, <1>b, <2>2, <2>3, <3>1, <3>3 DEF Known
  <2>4. CASE page.at # "boot"
    <3>1. Known(a) /\ page.at = "up"
      BY <1>4, <1>a, <2>2, <2>4 DEF Backlogged, Ask, Watching
    <3>2. a \in page'.fetch => ~Shelved(a)
      BY <2>2, ShownIsNotShelved
    <3> QED BY <1>4, <1>b, <2>2, <3>1, <3>2 DEF Known
  <2> QED BY <2>3, <2>4
<1>5. CASE AskFails
  <2>1. CASE page'.at # "dark"
    <3>1. /\ page'.backlog = page.backlog /\ page'.blind = page.blind /\ page'.at = page.at
          /\ page'.fetch = Nothing /\ page'.seen = page.seen /\ page'.heard = page.heard
      BY <1>0, <1>5, <2>1 DEF AskFails, PageType, Dark
    <3>2. Known(a)
      BY <1>a, <3>1 DEF Backlogged
    <3> QED BY <1>5, <1>b, <3>1, <3>2 DEF Known
  <2>2. CASE page'.at = "dark"
    BY <2>2 DEF Known
  <2> QED BY <2>1, <2>2
<1>6. CASE FirstList
  <2>1. /\ page'.backlog = page.backlog /\ page'.blind = page.blind /\ page'.at = "up"
        /\ page'.fetch = Nothing /\ page'.seen = page.fetch /\ page'.heard = page.heard
        /\ page.at = "boot" /\ page.fetch # Nothing
    BY <1>0, <1>6 DEF FirstList, PageType
  <2>2. Known(a) /\ a \in Alert
    BY <1>0, <1>a, <2>1 DEF Backlogged, PageType
  <2>3. page'.heard[a] = 0
    BY <2>1, <2>2 DEF Sounded
  <2> QED BY <1>6, <1>b, <2>1, <2>2, <2>3 DEF Known
<1>7. CASE NextList
  <2>1. /\ page'.backlog = page.backlog /\ page'.blind = page.blind
        /\ page'.at = "up" /\ page.at = "up" /\ page.fetch # Nothing
        /\ page'.fetch = Nothing /\ page'.seen = page.seen \cup page.fetch
        /\ \A b \in Alert : page'.heard[b] = IF b \in page.fetch \ page.seen /\ page.heard[b] < 2
                                             THEN page.heard[b] + 1 ELSE page.heard[b]
    BY <1>0, <1>7 DEF NextList, Seen, PageType
  <2>2. Known(a) /\ a \in Alert
    BY <1>0, <1>a, <2>1 DEF Backlogged, PageType
  <2> QED BY <1>7, <1>b, <2>1, <2>2 DEF Known
<1> QED BY <1>1, <1>2, <1>3, <1>4, <1>5, <1>6, <1>7
        DEF AlertNext, alertVars, Raise, RestartPlugin, PollAlerts, TimeOut, Drop, ReadLog, PutLog,
              Answer, Expire

LEMMA NoFalseAlarmHere == AlertTypeOK /\ Sounded /\ Backlogged => NoFalseAlarm
<1> SUFFICES ASSUME AlertTypeOK, Sounded, Backlogged, NEW a \in Alert, page.heard[a] > 0
             PROVE  /\ page.heard[a] = 1
                    /\ a \notin page.backlog \/ page.blind \/ a \in lost \/ clobbered # {}
  BY DEF NoFalseAlarm
<1>1. page.heard[a] = 1 /\ page.at = "up"
  <2>1. page \in PageType
    BY Unpacked
  <2> QED BY <2>1 DEF Sounded, PageType
<1>2. ~Known(a)
  BY <1>1 DEF Known
<1> QED BY <1>1, <1>2 DEF Backlogged, Excused

(* However the ring is sent again, answers are lost and alerts roll over,   *)
(* no alert sounds twice on a page, and none of the backlog does, unless    *)
(* the backlog could not be read, the alert's record has run out or was     *)
(* forgotten, or a late handler wrote an older log back (navpull.js         *)
(* storeAlerts, telemetry.js pubAlerts, _shell/telemetry.js handleAlerts).  *)
THEOREM NothingSoundsTwice == AlertSpec => []NoFalseAlarm
<1> DEFINE Inv == Numbered /\ Remembered /\ Sounded /\ Backlogged
<1>1. AlertInit => Inv
  <2> SUFFICES ASSUME AlertInit PROVE Inv
    OBVIOUS
  <2>1. Numbered /\ Remembered
    BY DEF AlertInit, Numbered, Remembered, Free
  <2>2. page.at = "dark" /\ page.backlog = {} /\ page.heard = [a \in Alert |-> 0]
    BY DEF AlertInit, Dark
  <2> QED BY <2>1, <2>2 DEF Sounded, Backlogged
<1>2. AlertTypeOK /\ Inv /\ [AlertNext]_alertVars => Inv'
  BY NumberedStep, RememberedStep, SoundedStep, BackloggedStep
<1>3. AlertTypeOK /\ Inv => NoFalseAlarm
  BY NoFalseAlarmHere
<1> HIDE DEF Inv
<1> QED BY <1>1, <1>2, <1>3, AlertTypeCorrect, PTL DEF AlertSpec

=============================================================================
