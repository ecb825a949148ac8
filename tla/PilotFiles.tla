----------------------------- MODULE PilotFiles ------------------------------
(***************************************************************************)
(* What a pilot sets for himself: the standing orders his plugin follows   *)
(* and the privacy preferences of his record.                              *)
(*                                                                         *)
(* The orders of all pilots are one map that every save rewrites whole     *)
(* (blades/api/plugin-settings.js).  A PC runs one plugin, whoever flies   *)
(* on it: it polls as the commander who is logged in, and keeps one copy   *)
(* of the orders, in memory and on disk, that the next commander's replace *)
(* if he has any (navpull.js settingsFor, load.py _apply_srv).  A member   *)
(* record is a value of its own (blades/api/member.js): the first look at  *)
(* it writes the policy's defaults and every later look rewrites it with a *)
(* new last-seen time.                                                     *)
(* The switches on the pages move at once and then take the server's       *)
(* answer, or go back (_shell/adjutant.js, _shell/ob1.js).                 *)
(*                                                                         *)
(* The same poll carries up which of the orders that press a key have      *)
(* their key bound in the game, when that has changed since the PC last    *)
(* reported, for whomever; the page refuses the others.  The report is     *)
(* kept for two weeks.                                                     *)
(*                                                                         *)
(* A read that fails counts as no value.  Two handlers of the pages can    *)
(* overlap; a poll's handler is one step.                                  *)
(***************************************************************************)
EXTENDS Naturals

CONSTANTS
    Pilot,
    PC,            \* gaming PCs, each with one plugin
    Nobody,        \* no commander is logged in
    Order,         \* plugin settings: all off until ordered
    Pressing,      \* the orders that press a key in the game
    OpenPref,      \* preferences that are on by default
    ClosedPref,    \* preferences that are off by default
    Slot,          \* handlers in flight
    NoRow,         \* no record, or no entry in the map
    Unset,         \* a preference a record does not hold, a switch not loaded
    MaxEvents,     \* bound on requests of the pages and on what happens at a PC
    MaxGlitches    \* bound on failing operations and lost answers

Pref == OpenPref \cup ClosedPref
Key == Order \cup Pref

ASSUME FilesAssumption ==
    /\ Pressing \subseteq Order
    /\ Order \cap Pref = {} /\ OpenPref \cap ClosedPref = {}
    /\ Pilot # {} /\ Pref # {}
    /\ Unset \notin BOOLEAN \cup Key
    /\ NoRow \notin [Order -> BOOLEAN] \cup [Pref -> BOOLEAN \cup {Unset}]
    /\ \A reported \in SUBSET Pressing : NoRow # reported
    /\ Nobody \notin Pilot
    /\ MaxEvents \in Nat /\ MaxGlitches \in Nat

VARIABLES
    orders,      \* KV plugin:settings
    member,      \* KV member:{email}
    ready,       \* KV plugin:readiness:{cmdr}: the orders reported able
    flying,      \* who is logged in on each PC: _nav["cmdr"]
    binds,       \* the orders whose key is bound on each PC
    sent,        \* the report each PC last got an answer for: _nav["ready_sent"]
    plugin,      \* what each PC follows: _srv, server_settings.json
    refused,     \* the orders each pilot's page refuses to switch
    switch,      \* what the switches of each pilot's pages show
    slot,        \* the handlers in flight and what they have read
    events,      \* requests, logins, restarts, rebindings and expiries so far
    glitches,    \* failures so far
    captain,     \* history: whose orders came down to each PC last
    doubt,       \* history: the PCs whose last answered report may not be what
                 \* the board holds of the commander
    chosen,      \* history: what each pilot ever turned on
    disturbed    \* history: two handlers of one file overlapped, or a failure

files == <<orders, member>>
able == <<ready, flying, binds, sent, captain, doubt>>
vars == <<files, able, refused, switch, plugin, slot, events, glitches, chosen, disturbed>>

-----------------------------------------------------------------------------
AllOff == [o \in Order |-> FALSE]
OrderMap == [Pilot -> [Order -> BOOLEAN] \cup {NoRow}]
NoOrders == [p \in Pilot |-> NoRow]
Record == [Pref -> BOOLEAN \cup {Unset}]
(* Mutant: what was read is stored as it is, without its shape.             *)
Shapeless == [k \in {} |-> Unset]

Blank == [k \in Pref |-> Unset]
Defaults == [k \in Pref |-> k \in OpenPref]

(* pubSettings, and the strict gate a preference is shown by.               *)
OrdersShown(row) == IF row = NoRow THEN AllOff ELSE row
PrefsShown(rec) == [k \in Pref |-> rec # NoRow /\ rec[k] = TRUE]

Free == [at |-> "idle", op |-> "look", who |-> CHOOSE p \in Pilot : TRUE,
         key |-> Unset, value |-> FALSE, map |-> NoOrders, rec |-> NoRow, no |-> {}]
SlotType == [at : {"idle", "read", "ready", "write", "answer", "refuse"}, op : {"look", "set"},
             who : Pilot, key : Key \cup {Unset}, value : BOOLEAN,
             map : OrderMap, rec : Record \cup {NoRow}, no : SUBSET Pressing]

(* Nothing is stored yet, and every pilot has the page with his orders open. *)
Init ==
    /\ orders = NoOrders
    /\ member = [p \in Pilot |-> NoRow]
    /\ ready = [p \in Pilot |-> NoRow] /\ refused = [p \in Pilot |-> {}]
    /\ switch = [p \in Pilot |-> [k \in Key |-> IF k \in Order THEN FALSE ELSE Unset]]
    /\ flying = [c \in PC |-> Nobody] /\ captain = flying
    /\ binds = [c \in PC |-> {}] /\ sent = [c \in PC |-> NoRow]
    /\ plugin = [c \in PC |-> [o \in Order |-> Unset]]
    /\ slot = [s \in Slot |-> Free]
    /\ events = 0 /\ glitches = 0
    /\ doubt = {} /\ chosen = [p \in Pilot |-> {}]
    /\ disturbed = FALSE

At(s, pc) == slot[s].at = pc
Go(s, q) == slot' = [slot EXCEPT ![s] = q]

(* Two handlers of one file: of one pilot, or two saves of the orders.  A   *)
(* look at the orders carries no key.                                       *)
Clash(q, r) ==
    /\ q.key \in Pref <=> r.key \in Pref
    /\ q.who = r.who \/ {q.key, r.key} \subseteq Order

Try(ok) ==
    /\ ok \/ glitches < MaxGlitches
    /\ glitches' = IF ok THEN glitches ELSE glitches + 1
    /\ disturbed' = (disturbed \/ ~ok)

Happens == events < MaxEvents /\ events' = events + 1

Arrive(s, q) ==
    /\ At(s, "idle")
    /\ Happens
    /\ Go(s, q)
    /\ disturbed' = (disturbed \/ \E r \in Slot : ~At(r, "idle") /\ Clash(slot[r], q))
    /\ UNCHANGED <<files, able, refused, plugin, glitches>>

-----------------------------------------------------------------------------
(* commit: the switch moves at once, and the change is sent.  An order that *)
(* is refused moves neither on nor off.                                     *)
Commit(s, p, k) ==
    LET next == ~switch[p][k] IN
    /\ switch[p][k] # Unset /\ k \notin refused[p]
    /\ Arrive(s, [Free EXCEPT !.at = "read", !.op = "set", !.who = p,
                              !.key = k, !.value = next])
    /\ switch' = [switch EXCEPT ![p][k] = next]
    /\ chosen' = IF next THEN [chosen EXCEPT ![p] = @ \cup {k}] ELSE chosen

(* A page asks for the orders, every ten seconds, or for the record, when   *)
(* it is mounted.                                                           *)
LookAtOrders(s, p) ==
    /\ Arrive(s, [Free EXCEPT !.at = "read", !.who = p])
    /\ UNCHANGED <<switch, chosen>>
LookAtRecord(s, p) ==
    /\ Arrive(s, [Free EXCEPT !.at = "read", !.who = p, !.key = CHOOSE k \in Pref : TRUE])
    /\ UNCHANGED <<switch, chosen>>

(* Mutant: what is sent replaces what was stored.                           *)
Replaced(row, q) ==
    [k \in DOMAIN row |-> IF k = q.key THEN q.value ELSE IF k \in Pref THEN Unset ELSE FALSE]

(* What a save stores: what was there, and the one key that was sent.       *)
Merged(row, q) == [row EXCEPT ![q.key] = q.value]

(* The read.  An order goes into the commander's entry over the defaults.   *)
ReadOrders(s) ==
    LET q == slot[s] IN
    /\ At(s, "read") /\ q.key \notin Pref
    /\ \E ok \in BOOLEAN :
          LET map == IF ok THEN orders ELSE NoOrders
              row == OrdersShown(map[q.who])
          IN  /\ Try(ok)
              /\ Go(s, IF q.op = "look" THEN [q EXCEPT !.at = "ready", !.map = map]
                       ELSE [q EXCEPT !.at = "write",
                                      !.map = [map EXCEPT ![q.who] = Merged(row, q)]])
    /\ UNCHANGED <<files, able, refused, switch, plugin, events, chosen>>

(* A page refuses what was reported unable; if there is no report, or it    *)
(* cannot be read, nothing.                                                 *)
ReadReadiness(s) ==
    LET q == slot[s] IN
    /\ At(s, "ready")
    /\ \E ok \in BOOLEAN :
          /\ Try(ok)
          /\ Go(s, [q EXCEPT !.at = "answer",
                             !.no = IF ok /\ ready[q.who] # NoRow
                                    THEN Pressing \ ready[q.who] ELSE {}])
    /\ UNCHANGED <<files, able, refused, switch, plugin, events, chosen>>

(* Mutant: a record written without its preferences is given the defaults.  *)
StampedOpen(rec) == IF rec = NoRow THEN [k \in Pref |-> TRUE] ELSE rec

(* A look at a record writes the defaults if there is none, and otherwise   *)
(* what it read, with the time of the sighting.                             *)
Stamped(rec) == IF rec = NoRow THEN Defaults ELSE rec

ReadRecord(s) ==
    LET q == slot[s] IN
    /\ At(s, "read") /\ q.key \in Pref
    /\ \E ok \in BOOLEAN :
          LET rec == IF ok THEN member[q.who] ELSE NoRow IN
          /\ Try(ok)
          /\ Go(s, [q EXCEPT !.at = "write",
                             !.rec = IF q.op = "look" THEN Stamped(rec)
                                     ELSE Merged(IF rec = NoRow THEN Blank ELSE rec, q)])
    /\ UNCHANGED <<files, able, refused, switch, plugin, events, chosen>>

(* The write.  A save that fails is refused; a look answers all the same.   *)
Save(s) ==
    LET q == slot[s] IN
    /\ At(s, "write")
    /\ \E ok \in BOOLEAN :
          /\ Try(ok)
          /\ orders' = IF ok /\ q.key \in Order THEN q.map ELSE orders
          /\ member' = IF ok /\ q.key \in Pref THEN [member EXCEPT ![q.who] = q.rec] ELSE member
          /\ Go(s, [q EXCEPT !.at = IF ok \/ q.op = "look" THEN "answer" ELSE "refuse"])
    /\ UNCHANGED <<able, refused, switch, plugin, events, chosen>>

(* What the switches show after an answer: all the orders, or the one       *)
(* preference that was set.  A record is shown once, when its page is       *)
(* mounted; a look at it from elsewhere leaves this page alone.  Orders     *)
(* that could not be fetched are not shown at all.                          *)
Shown(q) ==
    LET now == switch[q.who]
        gone == q.op = "set" /\ now[q.key] = Unset
        mounted == q.key \in Pref /\ q.op = "look"
    IN  [k \in Key |->
           CASE k \in Order /\ q.key \notin Pref /\ ~gone -> OrdersShown(q.map[q.who])[k]
             [] k \in Pref /\ IF mounted THEN now[k] = Unset ELSE k = q.key
                -> PrefsShown(q.rec)[k]
             [] OTHER -> now[k]]

Reverted(q) ==
    LET now == switch[q.who] IN
    CASE q.op = "set" -> [now EXCEPT ![q.key] = IF @ = Unset THEN @ ELSE ~q.value]
      [] q.op = "look" /\ q.key \in Pref -> now
      [] OTHER -> [k \in Key |-> IF k \in Order THEN Unset ELSE now[k]]

(* The answer to a look at the orders says what the page refuses; one that  *)
(* failed leaves nothing to refuse.                                         *)
Refusing(q, no) ==
    IF q.op = "look" /\ q.key \notin Pref THEN [refused EXCEPT ![q.who] = no] ELSE refused

Answer(s) ==
    /\ At(s, "answer")
    /\ refused' = Refusing(slot[s], slot[s].no)
    /\ switch' = [switch EXCEPT ![slot[s].who] = Shown(slot[s])]
    /\ Go(s, Free)
    /\ UNCHANGED <<files, able, plugin, events, glitches, chosen, disturbed>>

(* Refused, or the answer never came: the switch goes back to where it was. *)
Refuse(s) ==
    /\ \/ At(s, "refuse") /\ Try(TRUE)
       \/ At(s, "answer") /\ Try(FALSE)
    /\ switch' = [switch EXCEPT ![slot[s].who] = Reverted(slot[s])]
    /\ refused' = Refusing(slot[s], {})
    /\ Go(s, Free)
    /\ UNCHANGED <<files, able, plugin, events, chosen>>

-----------------------------------------------------------------------------
(* A journal event names another commander: he polls from now on, and what  *)
(* the PC follows and what it has reported are left as they were.           *)
Login(c, p) ==
    /\ Happens
    /\ p # flying[c]
    /\ flying' = [flying EXCEPT ![c] = p]
    /\ doubt' = doubt \cup {c}
    /\ UNCHANGED <<files, ready, binds, sent, captain, plugin, refused, switch, slot, glitches,
                   chosen, disturbed>>

(* EDMC starts again: the orders are read from disk, the rest is forgotten. *)
Restart(c) ==
    /\ Happens
    /\ flying' = [flying EXCEPT ![c] = Nobody]
    /\ sent' = [sent EXCEPT ![c] = NoRow]
    /\ UNCHANGED <<files, ready, binds, captain, doubt, plugin, refused, switch, slot, glitches,
                   chosen, disturbed>>

(* Whoever flies binds a key in the game, or clears it.                     *)
Rebind(c) ==
    /\ Happens
    /\ \E o \in Pressing :
          binds' = [binds EXCEPT ![c] = IF o \in @ THEN @ \ {o} ELSE @ \cup {o}]
    /\ doubt' = IF flying[c] # Nobody /\ ready[flying[c]] # sent[c] THEN doubt \cup {c} ELSE doubt
    /\ UNCHANGED <<files, ready, flying, sent, captain, plugin, refused, switch, slot, glitches,
                   chosen, disturbed>>

(* The PCs other than c that p flies on.                                    *)
Elsewhere(c, p) == {d \in PC \ {c} : flying[d] = p}

(* Two weeks after it was written a report is gone.  Nothing renews it.     *)
Expire(p) ==
    /\ Happens
    /\ ready[p] # NoRow
    /\ ready' = [ready EXCEPT ![p] = NoRow]
    /\ doubt' = doubt \cup {c \in PC : flying[c] = p}
    /\ UNCHANGED <<files, flying, binds, sent, captain, plugin, refused, switch, slot, glitches,
                   chosen, disturbed>>

(* Mutant: only what was turned on is passed on.                            *)
FollowedOn(c) ==
    LET row == orders[flying[c]] IN
    [plugin EXCEPT ![c] = [o \in Order |-> (row # NoRow /\ row[o]) \/ @[o] = TRUE]]

(* What the PC follows after a poll.  If its commander has no entry it      *)
(* keeps what it follows, whoever ordered that.                             *)
Followed(c) ==
    LET row == orders[flying[c]] IN
    [plugin EXCEPT ![c] = IF row = NoRow THEN @ ELSE row]

(* The plugin's poll: a report that is not the one last answered goes up    *)
(* and is stored, a write that fails being swallowed; the orders come down. *)
Poll(c) ==
    LET p == flying[c]
        fresh == binds[c] # sent[c]
    IN  /\ p # Nobody
        /\ \E stored, read \in BOOLEAN :
              /\ stored \/ fresh
              /\ Try(stored /\ read)
              /\ ready' = IF stored /\ fresh THEN [ready EXCEPT ![p] = binds[c]] ELSE ready
              /\ plugin' = IF read THEN Followed(c) ELSE plugin
              /\ captain' = IF read /\ orders[p] # NoRow THEN [captain EXCEPT ![c] = p] ELSE captain
        /\ sent' = [sent EXCEPT ![c] = binds[c]]
        /\ doubt' = IF fresh THEN (doubt \ {c}) \cup Elsewhere(c, p) ELSE doubt
        /\ UNCHANGED <<files, flying, binds, refused, switch, slot, events, chosen>>

(* Mutant: what was sent is taken for received.                             *)
LosePollMarking(c) ==
    /\ flying[c] # Nobody /\ binds[c] # sent[c]
    /\ sent' = [sent EXCEPT ![c] = binds[c]]
    /\ UNCHANGED <<files, ready, flying, binds, captain, doubt, plugin, refused, switch,
                   slot, events, glitches, chosen, disturbed>>

(* The poll's answer is lost, so the plugin will send its report again.     *)
LosePoll(c) ==
    LET p == flying[c] IN
    /\ p # Nobody /\ binds[c] # sent[c]
    /\ ready' = [ready EXCEPT ![p] = binds[c]]
    /\ doubt' = doubt \cup Elsewhere(c, p)
    /\ UNCHANGED <<files, flying, binds, sent, captain, plugin, refused, switch, slot,
                   events, glitches, chosen, disturbed>>

Next ==
    \/ \E s \in Slot, p \in Pilot :
          \/ \E k \in Key : Commit(s, p, k)
          \/ LookAtOrders(s, p) \/ LookAtRecord(s, p)
    \/ \E s \in Slot :
          \/ ReadOrders(s) \/ ReadReadiness(s) \/ ReadRecord(s) \/ Save(s)
          \/ Answer(s) \/ Refuse(s)
    \/ \E c \in PC, p \in Pilot : Login(c, p)
    \/ \E c \in PC : Restart(c) \/ Rebind(c) \/ Poll(c) \/ LosePoll(c)
    \/ \E p \in Pilot : Expire(p)

(* A plugin polls every few seconds while somebody is logged in, and not    *)
(* every poll meets a failure.                                              *)
Spec == Init /\ [][Next]_vars /\ \A c \in PC : WF_vars(Poll(c) /\ UNCHANGED glitches)

-----------------------------------------------------------------------------
TypeOK ==
    /\ orders \in OrderMap
    /\ member \in [Pilot -> Record \cup {NoRow}]
    /\ switch \in [Pilot -> [Key -> BOOLEAN \cup {Unset}]]
    /\ plugin \in [PC -> [Order -> BOOLEAN \cup {Unset}]]
    /\ ready \in [Pilot -> {NoRow} \cup SUBSET Pressing]
    /\ flying \in [PC -> Pilot \cup {Nobody}] /\ captain \in [PC -> Pilot \cup {Nobody}]
    /\ binds \in [PC -> SUBSET Pressing] /\ sent \in [PC -> {NoRow} \cup SUBSET Pressing]
    /\ refused \in [Pilot -> SUBSET Pressing]
    /\ slot \in [Slot -> SlotType]
    /\ events \in 0..MaxEvents /\ glitches \in 0..MaxGlitches
    /\ chosen \in [Pilot -> SUBSET Key] /\ doubt \subseteq PC /\ disturbed \in BOOLEAN

(* Whatever overlaps, fails or gets lost, and whoever takes his seat on a   *)
(* PC: a PC does only what the one commander whose orders it took last has  *)
(* ordered, never what two of them ordered between them; and nothing that   *)
(* is private by default is shown of a member who never agreed to it.  That *)
(* one need not be the commander who flies: one without orders of his own   *)
(* flies under the last one's.                                              *)
OnlyByChoice ==
    /\ \A c \in PC, o \in Order :
          plugin[c][o] = TRUE => captain[c] # Nobody /\ o \in chosen[captain[c]]
    /\ \A p \in Pilot, k \in ClosedPref : PrefsShown(member[p])[k] => k \in chosen[p]

(* A switch at rest tells the truth, as long as no two handlers of one file *)
(* overlapped and nothing failed: what a pilot last set stands, through     *)
(* every save of another pilot and every sighting that rewrites his record. *)
SwitchTellsTruth ==
    disturbed \/ \A p \in Pilot, k \in Key :
       switch[p][k] # Unset /\ (\A s \in Slot : At(s, "idle") \/ slot[s].who # p)
       => switch[p][k] = (IF k \in Order THEN OrdersShown(orders[p])[k]
                          ELSE PrefsShown(member[p])[k])

(* Both sides learn what the other decided: if the commander who flies on a *)
(* PC in the end has orders stored, they are what the PC follows, and what  *)
(* is bound there in the end is what the board holds of him, however many   *)
(* polls are lost and whoever flew before.  The board is not told if a      *)
(* write failed; nor, until something is reported again, if the PC changed  *)
(* hands, the commander's report expired or came from another PC since, or  *)
(* the keys changed while the answer to a report was lost (doubt).          *)
BothSidesLearn ==
    \A c \in PC :
       <>[](flying[c] # Nobody =>
              /\ orders[flying[c]] = NoRow \/ plugin[c] = orders[flying[c]]
              /\ glitches > 0 \/ c \in doubt \/ ready[flying[c]] = binds[c])
=============================================================================
