---------------------------- MODULE PluginUpdate ----------------------------
(***************************************************************************)
(* How a build of the plugin reaches a pilot's PC.                         *)
(*                                                                         *)
(* A build is deployed as the zip of a channel, and the owner cuts it      *)
(* (blades/api/plugin-release.js): the release names the version and the   *)
(* checksum read from the deployed zip.  The pilot's own switch chooses    *)
(* the channel.  Every nav poll tells the plugin which release it should   *)
(* be on (ingest/navpull.js); the plugin (load.py: _maybe_update,          *)
(* _do_update) downloads that zip in a thread, checks it, replaces its own *)
(* file and leaves a marker until EDMC is restarted.  The board nags while *)
(* the version last reported is not the release's                          *)
(* (blades/api/plugin-status.js), and hands out the zip for installation   *)
(* by hand (blades/api/plugin-download.js).                                *)
(*                                                                         *)
(* One pilot and one PC: pilots share nothing but the releases.            *)
(***************************************************************************)
EXTENDS Naturals, FiniteSets

CONSTANTS
    Build,       \* builds of the plugin: what a checksum tells apart
    Version,     \* the version each build bears
    Factory,     \* the build the PC starts with
    None,        \* absent value
    MaxEvents,   \* bound on deployments, cuts, switches and hand installs
    MaxGlitches  \* bound on polls in which a KV read fails

ASSUME UpdateAssumption ==
    /\ Version \in [Build -> [number : Nat, beta : BOOLEAN]]
    /\ Factory \in Build /\ ~Version[Factory].beta
    /\ None \notin Build
    /\ None \notin [number : Nat, beta : BOOLEAN]
    /\ MaxEvents \in Nat /\ MaxGlitches \in Nat

Channel == {"stable", "beta"}

(* The channel a version designates, and the order of versions: the         *)
(* numbers alone count.                                                     *)
ChannelOf(b) == IF Version[b].beta THEN "beta" ELSE "stable"
Newer(b, c) == Version[b].number > Version[c].number
Same(b, c) == Version[b] = Version[c]

VARIABLES
    deployed,    \* the build in the zip of each channel
    release,     \* KV: the build each release was cut from
    armed,       \* KV: whether the pilot is on the test track
    reported,    \* KV: the build whose version the plugin last reported
    disk,        \* load.py
    running,     \* the build EDMC loaded
    marker,      \* update_pending.json: the build whose version it names
    staged,      \* _upd["staged"] (memory)
    thread,      \* _do_update: where it is and the release it was handed
    events, glitches,   \* how much of the bounds is used up
    cut,         \* history: builds the owner cut
    byHand,      \* history: builds installed by hand
    asked,       \* history: the pilot armed the test track at least once
    torn         \* history: file and marker were not left in step

board == <<deployed, release, armed, reported>>
pc == <<disk, running, marker, staged, thread>>
history == <<cut, byHand, asked, torn>>
vars == <<board, pc, events, glitches, history>>

Idle == [at |-> "idle", build |-> None, url |-> None]
ThreadType == [at : {"idle", "fetch", "replaced"}, build : Build \cup {None},
               url : Channel \cup {None}]

Init ==
    /\ deployed = [c \in Channel |-> None]
    /\ release = [c \in Channel |-> None]
    /\ armed = FALSE /\ reported = None
    /\ disk = Factory /\ running = Factory
    /\ marker = None /\ staged = None /\ thread = Idle
    /\ events = 0 /\ glitches = 0
    /\ cut = {} /\ byHand = {} /\ asked = FALSE /\ torn = FALSE

-----------------------------------------------------------------------------
(* The board.                                                               *)
Event == events < MaxEvents /\ events' = events + 1

(* Somebody puts a build at the address of a channel: nothing checks which. *)
Deploy(c, b) ==
    /\ Event
    /\ deployed[c] # b
    /\ deployed' = [deployed EXCEPT ![c] = b]
    /\ UNCHANGED <<release, armed, reported, pc, glitches, history>>

(* detect: the build the release route reads from the zip of a channel;     *)
(* None when there is no zip or no version can be read from it.             *)
Detect(c) == deployed[c]

(* Mutant: any build can be cut for any channel.                            *)
CutAny(c) ==
    /\ Event
    /\ Detect(c) # None
    /\ release' = [release EXCEPT ![c] = Detect(c)]
    /\ cut' = cut \cup {Detect(c)}
    /\ UNCHANGED <<deployed, armed, reported, pc, glitches, byHand, asked, torn>>

(* Mutant: a zip no version can be read from is cut all the same.           *)
CutNothing(c) ==
    /\ Event
    /\ Detect(c) # None => ChannelOf(Detect(c)) = c
    /\ release' = [release EXCEPT ![c] = Detect(c)]
    /\ cut' = cut \cup {Detect(c)}
    /\ UNCHANGED <<deployed, armed, reported, pc, glitches, byHand, asked, torn>>

(* The owner cuts what is deployed, if its version is of that channel.      *)
Cut(c) ==
    /\ Event
    /\ Detect(c) # None
    /\ ChannelOf(Detect(c)) = c
    /\ release' = [release EXCEPT ![c] = Detect(c)]
    /\ cut' = cut \cup {Detect(c)}
    /\ UNCHANGED <<deployed, armed, reported, pc, glitches, byHand, asked, torn>>

(* The pilot's switch.  A revoked clearance also disarms.                   *)
Switch ==
    /\ Event
    /\ armed' = ~armed
    /\ asked' = TRUE
    /\ UNCHANGED <<deployed, release, reported, pc, glitches, cut, byHand, torn>>

(* The channel and release navpull answers with; `lost` are the KV keys it  *)
(* could not read, each taken for an absent record.                         *)
Key == {"tier"} \cup Channel
TierChannel(lost) == IF armed /\ "tier" \notin lost THEN "beta" ELSE "stable"
LatestUrl(c, lost) ==
    IF c = "beta" /\ release["beta"] # None /\ "beta" \notin lost THEN "beta" ELSE "stable"
LatestFor(c, lost) ==
    LET url == LatestUrl(c, lost) IN IF url \in lost THEN None ELSE release[url]

-----------------------------------------------------------------------------
(* Mutant: whatever release the board names is wanted.                      *)
WantedAlways(c, b) == b # None /\ ~Same(b, running)

(* Mutant: a switch of the channel is honoured only if it is an upgrade.    *)
WantedNewer(c, b) == b # None /\ Newer(b, running)

(* The plugin.  _maybe_update: which release is wanted at all.  A switch of *)
(* the channel is honoured either way, within a channel only an upgrade is. *)
Wanted(c, b) ==
    /\ b # None
    /\ ~Same(b, running)
    /\ (c = "beta") = Version[running].beta => Newer(b, running)

Names(m, b) == m # None /\ Same(m, b)
Ready(b) == Names(staged, b) \/ Names(marker, b)

(* One nav poll: the version is reported, and the release answered is       *)
(* ignored, known to be staged, or handed to a thread.                      *)
Poll(lost) ==
    LET c == TierChannel(lost)
        b == LatestFor(c, lost)
    IN  /\ lost # {} => glitches < MaxGlitches
        /\ glitches' = IF lost = {} THEN glitches ELSE glitches + 1
        /\ reported' = running
        /\ staged' = IF Wanted(c, b) /\ Ready(b) THEN b ELSE staged
        /\ thread' = IF Wanted(c, b) /\ ~Ready(b) /\ thread.at = "idle"
                     THEN [at |-> "fetch", build |-> b, url |-> LatestUrl(c, lost)]
                     ELSE thread
        /\ UNCHANGED <<deployed, release, armed, disk, running, marker, events, history>>

(* Mutant: the checksum is not compared.                                    *)
ReplaceUnchecked ==
    /\ thread.at = "fetch"
    /\ deployed[thread.url] # None
    /\ disk' = deployed[thread.url]
    /\ thread' = [thread EXCEPT !.at = "replaced"]
    /\ UNCHANGED <<board, running, marker, staged, events, glitches, history>>

(* The download: refused unless the zip is the very build that was cut.     *)
(* The file is replaced ...                                                 *)
Replace ==
    /\ thread.at = "fetch"
    /\ deployed[thread.url] = thread.build
    /\ disk' = thread.build
    /\ thread' = [thread EXCEPT !.at = "replaced"]
    /\ UNCHANGED <<board, running, marker, staged, events, glitches, history>>

(* ... or not: no answer, or not the zip that was cut.                      *)
FetchFails ==
    /\ thread.at = "fetch"
    /\ thread' = Idle
    /\ UNCHANGED <<board, disk, running, marker, staged, events, glitches, history>>

(* The marker is written after the file is replaced; a failure to write it  *)
(* is swallowed.                                                            *)
Mark ==
    /\ thread.at = "replaced"
    /\ \/ marker' = thread.build /\ UNCHANGED torn
       \/ UNCHANGED marker /\ torn' = TRUE
    /\ staged' = thread.build
    /\ thread' = Idle
    /\ UNCHANGED <<board, disk, running, events, glitches, cut, byHand, asked>>

(* EDMC is restarted, or dies and is started again: memory and threads are  *)
(* gone, and a marker the running version has caught up with is removed.    *)
Restart ==
    /\ running' = disk
    /\ marker' = IF marker # None /\ ~Newer(marker, disk) THEN None ELSE marker
    /\ staged' = None
    /\ thread' = Idle
    /\ torn' = (torn \/ thread.at = "replaced")
    /\ UNCHANGED <<board, disk, events, glitches, cut, byHand, asked>>

(* The pilot unpacks the zip the board hands out for the channel, or for    *)
(* the stable channel while there is no beta zip: load.py changes, the      *)
(* marker beside it does not.                                               *)
InstallByHand ==
    LET c == IF armed /\ deployed["beta"] # None THEN "beta" ELSE "stable"
    IN  /\ Event
        /\ deployed[c] # None
        /\ disk' = deployed[c]
        /\ byHand' = byHand \cup {deployed[c]}
        /\ torn' = TRUE
        /\ UNCHANGED <<board, running, marker, staged, thread, glitches, cut, asked>>

Next ==
    \/ \E c \in Channel, b \in Build : Deploy(c, b)
    \/ \E c \in Channel : Cut(c)
    \/ Switch
    \/ \E lost \in SUBSET Key : Poll(lost)
    \/ Replace \/ FetchFails \/ Mark \/ Restart
    \/ InstallByHand

(* The plugin polls every five seconds; a pilot who is nagged restarts EDMC *)
(* some day; a download neither fails nor is cut short by a restart for     *)
(* ever.                                                                    *)
Fairness ==
    /\ WF_vars(Poll({})) /\ WF_vars(Restart)
    /\ SF_vars(Replace) /\ SF_vars(FetchFails) /\ SF_vars(Mark)

Spec == Init /\ [][Next]_vars /\ Fairness

-----------------------------------------------------------------------------
TypeOK ==
    /\ deployed \in [Channel -> Build \cup {None}]
    /\ release \in [Channel -> Build \cup {None}]
    /\ armed \in BOOLEAN /\ reported \in Build \cup {None}
    /\ disk \in Build /\ running \in Build
    /\ marker \in Build \cup {None} /\ staged \in Build \cup {None}
    /\ thread \in ThreadType
    /\ thread.at # "idle" => thread.build \in Build /\ thread.url \in Channel
    /\ events \in 0..MaxEvents /\ glitches \in 0..MaxGlitches
    /\ cut \subseteq Build /\ byHand \subseteq Build
    /\ asked \in BOOLEAN /\ torn \in BOOLEAN

(* The cut is "the highest blast-radius button on the site": code the       *)
(* plugin put on a PC by itself is code the owner cut, and beta code only   *)
(* where that pilot asked for the test track, however zips were redeployed, *)
(* downloads interleaved with cuts, or KV reads failed.                     *)
OnlyCutCode ==
    /\ disk \in cut \cup byHand \cup {Factory}
    /\ Version[disk].beta => asked \/ disk \in byHand

(* "WITHIN a channel we only ever move FORWARD": for a pilot who never      *)
(* armed the test track nor installed by hand, no restart runs an older     *)
(* version, whatever the owner cuts.                                        *)
RetailMovesForward ==
    [][~asked /\ byHand' = {} => ~Newer(running, running')]_running

(* plugin-status: the pilot is nagged while the version last reported is    *)
(* not the release's.                                                       *)
NeedsRestart ==
    LET b == LatestFor(TierChannel({}), {})
    IN  reported # None /\ b # None /\ ~Same(reported, b)

(* The one nag that is for ever: the owner took the channel back to a lower *)
(* version, and the plugin never moves back.                                *)
HeldBack ==
    LET c == TierChannel({})
    IN  (c = "beta") = Version[running].beta /\ ~Newer(LatestFor(c, {}), running)

(* The release is what is deployed, for both channels.                      *)
InStep == \A c \in Channel : release[c] # None => deployed[c] = release[c]

(* "Clears the instant the plugin reports the target version": once the     *)
(* releases match the zips for good, and file and marker were left in step, *)
(* the nag ends, unless the channel was taken back.                         *)
NagEnds ==
    <>[]InStep /\ []~torn => <>[](NeedsRestart => HeldBack)
=============================================================================
