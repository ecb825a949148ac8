# Formal model of the Onyx Blades board and its EDMC plugin

This directory models the server side of the squadron board (Cloudflare Pages
Functions under `functions/`, over one Workers KV namespace `BUILDS`) and the
part of the EDMC plugin (`plugin-src/BladesRegistrar/load.py`) that talks to it.
The modules are checked by TLC on small instances; the theorems are proved by
TLAPS for every value of the constants.

## 1. The system

### Processes and stores

| Part | State it keeps | Runs as |
|---|---|---|
| `functions/ingest/*` | none of its own; KV records | one request handler per HTTP call of a plugin; any number at once |
| `functions/blades/api/*` | none of its own; KV records, the colo edge cache | one request handler per call of a board page, behind Cloudflare Access |
| Workers KV (`BUILDS`) | all records | external: get, put, delete, list of single keys; no transaction, no compare-and-swap |
| RavenColonial | colonisation projects and carrier links | external: HTTP, cold-starts, times out |
| EDMC plugin (`load.py`) | `device.json`, seen/pending depots, update markers; status line and nav timestamps in memory | one 5 s poll thread, one thread per journal event it reports |
| Board pages (`docs/blades`) | none that outlives a tab | browser |

Every handler is a sequence of awaited KV (and Raven) calls. Nothing ties the
calls of one handler together: whatever was read may be out of date when it is
written back. That, failing calls, and the plugin's restarts are what is hard
about this system; the logic of each single step is simple.

### Components, their operations and what makes them correct

1. **Device pairing** (`_lib/ingest-auth.js`, `ingest/pair.js`,
   `blades/api/devices.js`, `whoami-cmdr.js`, `load.py` `_dev_*`). A plugin
   commits to the hash of a secret and gets a code; the pilot bound to that
   commander approves the code; from then on the plugin presents the secret.
   Correct when: a device speaks only for its own commander; nobody is locked
   out without being revoked; every live credential can be seen and revoked; a
   revoked one stays dead; ceilings hold.
2. **Claims ledger** (`ingest/claim.js`, `claims.js`, `my-claims.js`, claim
   events and backfill of `load.py`). The newest claim or release of a system
   decides its architect. Correct when: attributions are first-party, the newest
   event wins, nobody edits another's claim, the backfill gets done.
3. **Hot list** (`hotlist.js`). A cached scan of the ledger. Correct when an
   edit shows as soon as it is answered.
4. **Build registration** (`ingest/build.js`, `builds.js`, `load.py` `_post`,
   `_raven_create`). A depot's build is looked up in Raven, created if a pilot
   asked for that, and registered. Correct when: one project per market, the
   plugin stops asking only when the build is listed, a completion stamp is not
   lost, a build that exists is eventually listed.
5. **Carriers and observations** (`ingest/carrier.js`, `observe.js`,
   `loadout.js`, `station-type.js`, `blades/api/carrier.js`, the completion sweep
   of `builds.js`). Correct when the newest report stays, the index by owner
   leads to that owner's carrier, no link of ours stays on a finished site and
   no outsider's link is ever taken off.
6. **Plugin releases and updates** (`plugin-release.js`, `plugin-status.js`,
   `plugin-download.js`, `navpull.js` `latestFor`, `load.py` `_do_update`).
   Correct when a PC only runs code the owner cut, a pilot on the shipped track
   never goes back, and the nag ends.
7. **Tiers, roles and admins** (`testpilot.js`, `_shell/testpilot.js`,
   `plugin-roles.js`, `admins.js`, `access.js`). Correct when nobody is armed
   but by his own switch and with clearance, and nobody on the roster is shown
   out.
8. **Orders, preferences and readiness** (`plugin-settings.js`, `member.js`,
   `_shell/adjutant.js`, `_shell/ob1.js`, `navpull.js`, `load.py` `_apply_srv`).
   Correct when a plugin does nothing its pilot did not order, nothing private
   shows by accident, switches tell the truth, and board and plugin learn what
   the other decided.
9. **Nav push and refocus** (`navpush.js`, `act.js`, `navpull.js`, `load.py`
   poll loop, `_rf_activate`). Correct when a target is plotted, with its own
   reason, and the foreground is taken only for something just done.
10. **Alerts** (`load.py` `_alert_raise`, `navpull.js` `storeAlerts`,
    `telemetry.js`, `_shell/telemetry.js`). Correct when every alert sounds
    once in front of a page and no old one does.
11. **Migration gate** (`plugin-roles.js` readiness card, `ingest-auth.js`
    switch, `admin/index.html`). Correct when READY means that no plugin is
    left behind.
12. Backup, manifest projector and agent API, board read routes, board pages,
    the plugin's in-game assists, the rig helper: section 7.

Interactions: device pairing guards every `ingest/*` route, and the migration gate
decides when it alone does; the claims ledger feeds the hot list; the carrier
registry feeds the completion sweep of `builds.js`; the tier map decides which
release `navpull` offers; one and the same nav poll carries targets, presses,
orders, readiness, alerts and the release. Each module models the part of that poll
its own state travels in; the parts share no state on the server (each is a KV key
of its own), and in the plugin they share only the answer, which is whole or lost,
and who is logged in. A PC runs one plugin for whoever flies on it; what that does
to credentials is in `DevicePairing` (one entry per commander), to orders and
readiness in `PilotFiles` (one copy for all of them).

## 2. Plan

In order of importance, all done: `DevicePairing`; `ClaimsLedger` with the hot
list; `BuildRegistration`; `PluginUpdate`; `CarrierRegistry`, which is shown to
implement the abstract `NewestReport`; `WingTiers`; `PilotFiles`; `NavLane`;
`AlertLane`; `MigrationGate`. A module's proofs are in `<Module>Proofs`, and
`MC<Module>` is its instance for TLC; only the proofs about `PluginUpdate` and
`AlertLane` share a module, `UpdateAndAlertProofs`, and those about `MigrationGate`
stand at the end of `PilotFilesProofs`.

Every safety property that a passing run checks is proved (section 5). What could
follow: a common invariant of pairing and gate, so that what a READY card says is
tied to the devices `DevicePairing` lets through; the restore of a backup that fails
half way (`import.js`), which would need the other modules' records side by side.

## 3. What is modelled

In every module a handler in flight is a *slot* that takes one step per KV (or
Raven, or Cloudflare) operation and remembers what it has read; a read that
fails yields what the handler's catch-all takes it for, nearly always "no
record"; a write that fails ends the handler or is swallowed, as the code has
it. KV is linearizable per key: a put is seen by the next get. Workers KV is in
fact eventually consistent across sites, so the failures found here need less
than what production can do, and what holds here is a promise about the
handlers and not about propagation delay.

### DevicePairing

| Model | Code |
|---|---|
| `pair`, `expired` | `sq:onyx:pair:{code}` with its ten-minute TTL (`pair.js:26, 88`) |
| `devices` | `sq:onyx:devices:{cmdr}`, the index the device card renders |
| `token` | `sq:onyx:devtoken:{hash}`, the live credentials |
| `cmdrlink` | `cmdrlink:{email}` |
| `secret`, `approved` | `device.json` (`load.py:280-345`) |
| `code` | the code on the status line, in memory only (`load.py:281`) |
| `req` | request slots: which KV call each handler in flight makes next, and what it has read |
| `revoked` | history: hashes revoked and not approved again since |

One action per KV operation: `PairStart/Scan/Put/Reply`,
`ApproveStart/Pending/Devices/Token/Index/Done`,
`RevokeStart/Devices/Token/Index`, `AuthStart/Stamp/Refused`,
`CheckStart/Reply`, `Bind`, `Unbind`; the environment: `WriteFails`,
`ReplyLost`, `Expire`, `Restart`.

Abstractions:

- The scan of the pending rows (`pair.js:60-73`) is one step: it feeds only the
  count compared with the ceiling.
- Records carry no times, so a handler whose last-seen stamp is not due
  (`LASTSEEN_THROTTLE_MS`) is the same as one that never starts: `AuthStart` with
  a good credential is a request whose stamp is due.
- A device list is the set of its rows. Rows are found by `deviceId` and sorted
  for display.
- Codes and device ids are fresh when drawn (`Unused`); one name stands for the
  code and the device id drawn with it.
- A request the plugin makes right after another (`_dev_request_pairing` at the
  end of `_dev_check_approval` and `_dev_on_auth_fail`) is a network call of its
  own that may fail: it is the next `PairStart` of that entry.
- The shared legacy key (`ingest-auth.js:158-170`) grants no credential and
  writes nothing; only paired plugins authenticate here.

### ClaimsLedger

| Model | Code |
|---|---|
| `journal` | every claim and release in the commanders' journals |
| `post` | events whose `_send_claim` thread is not answered yet |
| `marker` | `claims_backfill.json` on a commander's PC |
| `ledger` | `claim:{systemAddress}` |
| `cache` | `hot:cache` |
| `clock` | time; an event and an admin's correction each take one unit |
| `calm` | whether this history is one in which requests never overlap and KV never fails |
| `named`, `heard`, `settled` | history for the properties: rows an admin entered, events answered per system, rows released or marked done |

Actions: `Happens`, `PostLost`, `Backfill`, `ForgetMarker`, `Tick`; `EventRead/
Put/Delete`, `EditRead/Put/Delete/Bust`, `AdminPut/Delete`, `PollMiss/Scan/Put`,
`CacheExpires`, `WriteFails`.

Abstractions: a batch of claims is applied item by item and equals single posts;
a pilot is the commander their binding names (binding is DevicePairing's); a
cache hit changes nothing and has no action; the tier of a hot-list row is left
out; the game's and the server's clocks agree; admins are not distinguished.
The scan of the ledger is one key per step in any order.

### BuildRegistration

| Model | Code |
|---|---|
| `project` | Raven: which market each project belongs to |
| `late` | Raven: PUTs that timed out and may still be carried out |
| `build` | the build records of the board, `done` with a `completedTs` |
| `slot` | handlers in flight: which Raven or KV call `handlePost` makes next, for which thread, what it has found (`id`), how its last create ended; or a PATCH between its read and its write |
| `thread` | the plugins' `_post` threads: about to post, waiting, or in `_raven_create` |
| `seen` | `seen.json`: markets never posted again (`load.py:487-500, 3303, 3650`) |
| `pending` | the grace period of each market, in memory |
| `made`, `removed` | history: projects one request's PUTs made (a field of the slot); builds taken off the list |

Actions: the plugin's `DepotEvent`, `GraceOver`, `PostLost`, `DirectCreate`,
`Restart`; the server's `Receive`, `ResolveMarket`, `CreateProject`, `Recheck`,
`Save`, `Get`, `Add`, `Deadline`, `HandlerError`; the board's `PatchRead`, `Patch`,
`AddByHand`, `Remove`; Raven's `Founded`, `ActLate`. An answer is heard in the
step that gives it (`Reply`), or lost in that step.

Abstractions:

- Raven is external. A lookup yields a project of the market or, with
  `RavenFails`, nothing (`ravenGet` makes an outage a null). A PUT may make a
  project, be refused, or fail: not carried out, carried out all the same, or,
  with `ActsLate`, carried out later. Raven takes a second project for a market:
  the code that avoids it (`build.js:183-185`) supposes so.
- Attribution (claims, siblings, fallback) decides no step and is left out, as
  are names, the edge cache of the list, and posts by build id, which `load.py`
  never makes.
- The plugin at this commit always posts `create: false` and creates in Raven
  itself; the server still serves plugins that ask it to. `Receive` lets a post
  of a thread that may create be of either kind.
- A grace period of zero and auto-create turned off are both covered: the first
  is a `GraceOver` right after the event, the second a `DepotEvent` that never
  asks.
- A PATCH is its effect on the stamp; one that corrects another field writes back
  the stamp it read. The sweep of the carriers after a new stamp touches none of
  this state: it is in `CarrierRegistry`.
- Answers that only go to the log (401, `raven_auth`, a body that is not `ok`)
  are lost answers.

### CarrierRegistry and NewestReport

| Model | Code |
|---|---|
| `record` | the records `carrier:`, `loadout:`, `stationmeta:` and `sq:onyx:req:`, as the timestamp they carry |
| `index` | the index by owner (`ingest/carrier.js:58-66`) |
| `stamped` | builds with a `completedTs` |
| `complete`, `linked`, `late` | Raven: what it calls complete, its carrier links, PUTs that timed out and may still be carried out |
| `slot` | handlers in flight |
| `own`, `early` | history, kept while `disturbed` is not set: links this board made; those among them that were asked for while the build had its stamp and Raven still called it open |
| `strangers`, `disturbed` | history: outsiders' links; whether handlers ever overlapped or an operation failed |

Actions: the intake (`Report`, `ReportRecord`, `ReportLookup`, `ReportIndex`),
the link relay (`Resolve`, `LinkCheck`, `LinkPut`, `LinkPutLate`,
`UnlinkDelete`), the completion (`StampRead`, `Stamp`, `Unstamp`, `SweepRead`,
`SweepOne`), Raven (`Completes`, `LinkedThere`, `ActLate`), and `GiveUp` for any
operation that throws. What is observed is a key and a timestamp; the content is
left out. A carrier has one owner for ever, as in the game. Any build may be stamped
at any time: the colonisation board does so when Raven calls it complete, the
admin console when its "done" box is ticked (`docs/blades/admin/index.html:375,
390`), and the route asks neither. The link relay goes by Raven and not by the stamp
(`blades/api/carrier.js:122`), so a link can be made to a stamped build that Raven
calls open, and nothing takes it off later: `SweepIsExact` allows those (`early`)
and no other.

`NewestReport` is the abstract register: of every key the timestamp on record
only grows. `CarrierRegistry` implements it with `newest <- record`
(`NewestWins`), for as long as no two handlers overlap and nothing fails: an
intake compares and writes in two operations, so two overlapping reports of one
key can leave the older.

### PluginUpdate

`deployed` (the zip of each channel), `release` (what was cut), `armed` (the
tier), `reported`; on the PC `disk`, `running`, `marker`
(`update_pending.json`), `staged` and the `_do_update` `thread`. Actions:
`Deploy`, `Cut`, `Switch`, `Poll` (with the set of KV keys whose read fails),
`Replace`, `FetchFails`, `Mark`, `Restart`, `InstallByHand`. A build is what its
checksum tells apart; its version is a number and whether it is a beta. Clearance
is in `WingTiers`: here the switch just turns. A release is cut with its version
and its checksum read from the same bytes, so it is the build it was cut from.

### WingTiers

`roster`, `testpilots`, `tier`, Cloudflare's `allowed` list, each page's idea of
its tier, handlers in flight. Requests: the switch and its page, grant and revoke
with the demotion that follows, seat and unseat an admin, admit to and bar from
the Access policy. `glitches` bounds failing operations.

### PilotFiles

| Model | Code |
|---|---|
| `orders`, `member`, `ready` | `plugin:settings` (one map of all pilots), `member:{email}`, `plugin:readiness:{cmdr}` with its 14 days |
| `switch`, `refused` | what each pilot's pages show and will not switch |
| `flying` | who is logged in on each PC (`_nav["cmdr"]`) |
| `plugin` | what the PC follows, whoever flies: `_srv` and `server_settings.json` (`load.py:137-178`) |
| `binds`, `sent` | what is bound in the game, and the report the PC last got an answer for (`_nav["ready_sent"]`) |
| `slot` | handlers of the pages in flight and what they have read |
| `captain`, `chosen`, `doubt`, `disturbed` | history: whose orders each PC took last; what each pilot ever turned on; PCs whose last report may not be what the board holds of the commander; whether handlers of one file overlapped or something failed |

Actions: loads and saves of both pages in one step per KV operation (`Commit`,
`LookAtOrders`, `LookAtRecord`, `ReadOrders`, `ReadReadiness`, `ReadRecord`, `Save`,
`Answer`, `Refuse`); at the PC `Login`, `Restart`, `Rebind`, `Poll`, `LosePoll`; and
`Expire` of a report. A pilot with two PCs is an instance with two `PC`; the theorems
cover it.

Abstractions: the poll's handler is one step: it writes nothing that a page's handler
writes, and what it reads of a pilot is one read of the map. An entry of the map has
all its orders, since a save writes it over the defaults. A write of
`server_settings.json` that fails is left out, so a restart finds what was followed.

### NavLane

`nav`, `rows` (intents), `act`, `orders` in KV with their times to live; pushes
in flight; a poll in flight with what it has read; the plugin's memory. A stamp
has a number, which orders it, and the tick it was taken in, which ages it; a
tick is longer than a poll. Actions: `Push`, `PushNav`, `ReadRows`, `PushRow`,
`Press`, `Toggle`, `Tick`, `Poll`, `ReadIntent`, `LosePoll`, `Receive`, `Restart`.

### AlertLane

The plugin's `ring`, the ring as last acknowledged, polls and their handlers
(which a timeout leaves running), the `log`, the route and the page with what it
has seen and sounded. Alerts are the numbers they were raised as; the `Long` ones are
those whose text grows when the poll escapes it (`load.py:989` writes six characters
for every letter that is not ASCII, and a pirate's hail comes in the language of the
game), and a ring with more than `Room` of them is past the 1600 characters at
which the handler drops it without a word (`Drop`, `navpull.js:198`). Mute, tone and
the browser's permission to sound are left out, and so is a change of commander:
like `ready_sent`, the ring last acknowledged (`al_sent`) is one for the PC.

### MigrationGate

Bindings, devices, heartbeats, claims' and roles' names, retired registrars, the
environment's `INGEST_LEGACY_OFF`, and the request that computes the card from
seven lists, each read in a step of its own and possibly in part. A heartbeat is
recent, old (more than two days) or expired (more than fourteen).

## 4. Runs

All instances are small because each hazard involves at most two requests and
two owners: two overlapping requests are enough to lose an update, two plugins
(or commanders) enough to confuse owners, and a ceiling of one or two is reached
like one of ten.

| Run | Instance | Shows |
|---|---|---|
| `pairing_overlap` | 1 plugin, 2 commanders, 2 slots, 2 codes, ceiling 1, KV fails | `TypeOK`, `OwnDevicesOnly`, `NoSelfLockout` |
| `pairing_serial` | 2 PCs of one commander, 1 slot, 2 codes, ceiling 1, KV works, fair | `NothingHidden`, `RevokedStaysDead`, `RevokeHidesNothing`, `LockoutNoticed`, `ApprovalNoticed` |
| `claims_ledger` | 2 commanders, 2 systems, 2 slots, time 2; calm histories and others | `TypeOK`, `FirstParty` in all, `NewestClaimStands`, `HotReflectsEdits` in calm ones |
| `build_overlap` | 1 plugin, 1 market, 2 projects, 2 threads, 2 slots, everything fails | `TypeOK`, `SeenMeansListed` |
| `build_serial` | 1 plugin, 1 market, 2 projects, 2 threads, 1 slot, lookups and KV work, fair | `RetryMakesNoTwin`, `CompletionStands`, `EventuallyListed` |
| `update_release` | 2 stable and 2 beta builds (one beta bears a stable number), 7 events, 2 failing polls, fair | `TypeOK`, `OnlyCutCode`, `RetailMovesForward`, `NagEnds` |
| `carrier_links` | 1 commander with 2 carriers, 1 outsider, 1 site, 1 build, 2 slots, timestamps to 2 | `TypeOK`, `IndexLeadsHome`, `SweepIsExact`, `NewestWins` (refinement) |
| `wing_tiers` | the owner and 2 members, 2 slots, 4 requests, 1 failing operation | `TypeOK`, `OwnSwitch`, `ArmedMeansCleared`, `AdminsKeepTheDoor` |
| `pilot_files` | 2 pilots on 1 PC, 2 orders (one presses a key), 2 preferences, 2 slots, 4 events, 1 failing operation, fair | `TypeOK`, `OnlyByChoice`, `SwitchTellsTruth`, `BothSidesLearn` |
| `nav_lane` | 1 system, 1 commodity, 2 slots, 2 clicks, 2 ticks, 1 mishap, fair | `TypeOK`, `IntentIsItsOwn`, `NoSnatch`, `TargetPlotted` |
| `alert_lane` | 3 alerts, 2 of them long, ring, log and route of 2, room for 1 long one, 2 handlers, 2 mishaps, fair | `AlertTypeOK`, `NoFalseAlarm`, `AlertHeard` |
| `gate_ready` | 2 commanders | **violated** (`ReadyMeansPaired`): a READY card forgets a plugin that has been away |

Most properties hold whatever overlaps and fails: those are the promises the code
keeps by its shape. Others hold of histories in which requests do not overlap
and nothing fails, and say so: through a single slot (`pairing_serial`,
`build_serial`), a `calm` history (`claims_ledger`) or a `disturbed` one
(`carrier_links`, `wing_tiers`, `pilot_files`) that is excepted. They show that
the sequential logic is right, and section 6 says what a missing atomicity does
to it. With a mark in the state instead of a smaller instance the same run covers
both.

Liveness is checked without symmetry. Deadlock is not checked where the system
may rest: every code or project id may be used up, requests and the clock are
bounded. It is checked in `update_release`, `carrier_links`, `alert_lane` and
`gate_ready`, which never stop.

**Bounds.** `Code` bounds how many codes are drawn at once (`PairNoCode` ends a
request when none is free); `Build` in `BuildRegistration` how many projects Raven
can hold, two being what a twin needs; `Thread` a plugin's posts in flight;
`MaxClock`, `MaxTime`, `MaxTs` time; `Window` is `WINDOW_MS`: it is
0 in `claims_ledger`, so a claim is on the hot list in the tick it was made in and has
left it one tick later. `MaxEvents`, `MaxRequests`, `MaxDeeds` and `MaxAlerts`
bound what people do: seven events deploy and cut twice, switch and cut back; the
four of `pilot_files` are requests, logins, restarts, rebindings and expiries
together: two pilots log in on one PC, one after another, and one of them has saved
an order before and binds a key; four requests of `wing_tiers` grant, arm, revoke and
look; two clicks are one push overtaking another; three alerts overflow a ring of
two. `MaxGlitches` and `MaxMishaps` bound failures: one failing operation per
history, or two, is what the exceptions of the properties are about. In
`nav_lane` a tick is the unit of freshness (`Fresh = 0`: the same tick) and of
expiry, so two ticks reach beyond both.

**Fairness.** `DevicePairing!FairSpec`: Pages runs a handler it has started to
its end (weak fairness on its steps); the plugin's loop presents its secret, or
checks its approval, again and again, and of infinitely many replies some arrive
(strong fairness, as slots are shared and replies may be lost). Nothing is
assumed of pilots, of expiry or of restarts. `BuildRegistration!FairSpec`:
handlers and threads that have started go on (weak fairness); the game repeats
the depot event while the pilot stays docked (`load.py:3643`), and of infinitely
many posts some are received, looked up and answered in time, with the answer
heard (strong fairness on each of these stages). Losses, deadlines and restarts
may still strike infinitely often, and nothing obliges a pilot's grace period to
end or anybody to create a project. `PluginUpdate`: the plugin polls every five
seconds and a poll without a failing read keeps coming (weak fairness); a pilot
who is nagged restarts EDMC some day; a download neither fails nor is cut short
for ever (strong fairness on `Replace`, `FetchFails`, `Mark`: each ends the
thread's stage). `PilotFiles`: while somebody is logged in, each plugin polls
every five seconds, and a poll whose read and write both work comes again and again
(weak fairness on `Poll(c) /\ UNCHANGED glitches`, the poll without a failure; losing
one takes nothing away from the next). `NavLane`: the poll loop never stops (weak
fairness on its three steps; losses are bounded by `MaxMishaps`). `AlertLane`: the
poll loop, each handler, and the ticks of a page in front of its reader (weak
fairness). `ClaimsLedger`, `CarrierRegistry`, `WingTiers` and `MigrationGate`
state no liveness.

## 5. Proofs

Every safety property that a passing run checks is proved for all values of the
constants. Three kinds of hypotheses occur, each named in the theorem or in its
property: the ASSUME of the component's module; for a property of histories without
overlap or failure, one slot and a store that works (`OneRequest`, `OneHandler`,
`KvFails = FALSE`, `RavenFails = FALSE`, met by the run's instance); or a mark in the
state (`calm`, `disturbed`) that the property itself excepts. The latter proofs have one
scheme: while the mark is not set, what a handler has read is still so when it writes.
That is the fact the code relies on, since no operation of KV reads and writes at
once, and where an overlap breaks it section 6 says what follows.

`DevicePairingProofs` (assumptions: `ConstantsAssumption`, `NoneAssumption`):

- `Ownership` is the inductive invariant: types, `StoreOK` (pending rows,
  credentials, index rows and plugin secrets all tie a hash to the commander who
  drew it), and `StageOK` for each slot (what a handler has read and checked by
  the time it stands at its pc). `OwnDevicesOnly` alone is not inductive: the
  write of an index row is right only because the slot carries a checked hash.
  `TypeCorrect` and `DevicesOwned` follow.
- `Trusting` adds that a positive answer in flight is about the secret the
  plugin still holds and that its credential is there or was revoked since.
  `NeverLockedOut` follows.
- `Short` adds that every list in a handler's hands is within the ceiling, and
  below it when the handler is about to add a row. `ListNeverOutgrows` follows;
  finiteness of lists is part of the invariant, so `Code` may be infinite.
- One request at a time: `Serial` says that a device id stands for one secret wherever
  it occurs (`Named`), that what a handler has read is what KV holds (`Current`), and
  that a revoked credential is dead. `RevokedIsDead` needs all three: a last-seen stamp
  writes a credential back, and only because it was read in this request is it not one
  that was revoked. `RevocationHidesNothing` follows as an action property, also when KV
  fails half way. `AllShownWhenQuiet` assumes a KV that does not fail and adds `Shown`: the
  one credential without a row is the one whose row is about to be written.

`ClaimsLedgerProofs` (assumption: `ClaimsAssumption`): `Provenance` is the inductive
invariant: types, posted events come from the journal, `FirstParty`, and `Carried`
for each slot (every record or row a handler holds is proven). `LedgerTypeCorrect`
and `AttributionsProven` follow. `Books` adds, for calm histories, that handlers are
alone, times tell events apart (`Dated`), the ledger holds the newest claim heard
and nothing that was not heard (`Latest`; the second half rules out a record later
than all that was heard, which would drop what is due), the cache agrees with what
was settled, and what a handler has read is still so (`Underway`). `NewestClaimHeld`
and `EditsReachHotList` follow.

`BuildRegistrationProofs` (assumption: `BuildAssumption`):

- `Registration` is the inductive invariant: types, `StageOK` for each handler
  (from the lookup on it holds a project of its market; before a create it has an
  attempt left), `ThreadOK`, `Awaits` (a thread that waits is waited for by one
  handler at most, which works on that thread's market) and `SeenMeansListed`.
  The last is not inductive alone: an "ok" is right only because the id in the
  handler's hands belongs to the market its thread asked for. The proof goes by
  what steps do to a handler: it goes on (`GoOn`), ends with an answer
  (`AnswerAndEnd`), or the step is elsewhere (`Elsewhere`).
  `RegistrationTypeCorrect` and `SeenListed` follow, under every failure.
- `NoTwinFromRetry` assumes that lookups work (`RavenFails = FALSE`), without which
  it is false: a handler that has made a project is between its recheck and its
  save (`MadeOK`), so it never stands at another create. Late PUTs are not
  excluded, but what they make is not counted as the request's own.
- `StampsStand` assumes working lookups and one handler (`OneHandler`): `Listings` says
  that what the board lists Raven has, and that a handler that creates, or adds what it
  found unlisted, finds it unlisted still when it writes. So a record that bears a stamp
  is never written over by one without.

`UpdateAndAlertProofs`, the update (assumption: `UpdateAssumption`): the strengthening says what
the update thread was handed. It is a release, so a build that was cut; one of the
test track only if that pilot asked for it; and, for a pilot who never did, one
newer than what runs, unless the thread has replaced the file already. With `disk`
newer or equal to `running` on the shipped track that is inductive, and
`OnlyCutCodeRuns` and `ShippedTrackMovesForward` follow for any builds and
versions. `UpdateTypeCorrect` is the type invariant.

`WingTiersProofs` (assumption: `WingAssumption`): a handler about to write carries a
whole tier map that it read some time ago. Every tier in that map is one its pilot
had asked for and been cleared for at the time; both are remembered for ever
(`asked`, `held` only grow), so writing an old map back resurrects nothing that was
never chosen. `ArmedByOneself` follows; `WingTypeCorrect` is the type invariant. `WingInv` adds, for
undisturbed histories, that no two clashing handlers are in flight (`Apart`), that
whoever is armed is cleared or about to be disarmed (`Armed`), and that what each handler
has read is still so, or still allows what it allowed (`Right`); and, for all histories,
that the owner is on every list a handler is about to write to the door. `TheArmedAreCleared`
and the action property `TheDoorIsKept` follow.

`CarrierRegistryProofs` (assumption: `CarrierAssumption`): `RegistryInv` joins the
types, what each handler carries (from the record on, a carrier that has one: a
record is never taken away), `IndexLeadsHome` and `StrangersStay`. Lemmas per kind
of step (a step that only goes on, one that changes links) do the bookkeeping.
`RegistryTypeCorrect` and `IndexAlwaysLeadsHome` follow under any overlap and
failure, and so does the half of `SweepIsExact` about outsiders' links.
`NewestReportWins` is the refinement: `Fresh` says that in an undisturbed history
one handler at most is in flight and a report about to be written is as new as the
record still is, so the write is a step of `NewestReport` or changes nothing.
`SweepLeavesNothing` is all of `SweepIsExact`: its strengthening `Exact` says of an
undisturbed history that nothing may come late, no link is under way to a stamped
build but an early one, and what else this board linked to one (`Left`) is in the
hands of a handler that is sweeping it; `Knows` adds that what this board linked is
linked and on record, so that the sweep neither misses it nor skips it.

`NavLaneProofs` (assumption: `LaneAssumption`): every target and row, stored, read
or in flight, is what was asked for under its stamp, with its reason or without
(`Exactly`, `ButForReason`); a click takes a stamp of its own and what was asked
under the others stands (`Later`). `ReasonIsTheClicks` follows. `LaneTypes` completes the
types (`LaneTypeCorrect`), and `LaneTimes` orders the times: no stamp is younger than the
pilot's last deed, a poll is answered within the tick after it was made, and orders that no
lost poll missed differ from the plugin's only if they were switched in this very tick.
`ForegroundIsAskedFor` follows as an action property.

`PilotFilesProofs` (assumption: `FilesAssumption`): `ByChoice` says that every row, stored
or in a handler, holds no TRUE but what its pilot once turned on, and what a PC follows none
but what its `captain` did (`Kept`);
`NothingUnordered` follows under any overlap, failure and change of commander: a save of the
whole map may write another pilot's old row back, but never one that he did not choose, and a
PC's copy is replaced as a whole, never mixed. `Undisturbed` says of undisturbed
histories that handlers of one file are apart (`Apart`), that a switch differs from what is
stored only while its change is on the way (`Truthful`), and that what a handler has read
still stands (`Faithful`). `SwitchesAreTrue` follows; `FilesTypeCorrect` is the type
invariant.

`UpdateAndAlertProofs`, the alerts (assumption: `LaneAssumption`): `AlertTypeCorrect` needs
that the answer awaited is that of the one poll in flight (`Awaited`), so that what counts
as delivered was sent. `NothingSoundsTwice` counts: an alert of the page's backlog is in the
first list it gets, or a page of newer ones is in the log (`Deep`), or it has left the log
while the plugin raised a ring of newer ones (`Buried`); either way no later list brings it.
`Deep` stands because the log is cut to its newest (`CutIsDeep`, `StaysDeep`), which is
where `Ring <= Show <= Keep` is needed; lemmas on `Newest` carry the counting.

`PilotFilesProofs`, the gate (no assumption is used): `ReadyIsHonest` says what a READY card does
promise. A commander whose heartbeat stays on record is found by the first and the
last of the reads, so he is a member with a plugin, and his row is retired, ready or
blocked. `GateTypeCorrect` is the type invariant.

Only model-checked: all liveness (`LockoutNoticed`, `ApprovalNoticed`,
`EventuallyListed`, `NagEnds`, `BothSidesLearn`, `TargetPlotted`, `AlertHeard`), as the prover
does not handle fairness and `ENABLED`; and `ReadyMeansPaired`, which is false. No module
uses recursion, which would also be out of its reach.

## 6. What the models say about the code

One disagreement between the code and what it says has a run (`gate_ready`,
PROJECT.json `findings`): the migration card says READY, "every reporting plugin
is paired", of a wing in which a plugin that has reported with the shared key was
away for two weeks: its heartbeat record has expired (`navpull.js:24`), the card
finds no trace of it, and the switch, once thrown, locks it out. In the same way a list that
could not be read looks like one with nobody on it.

The properties carry exceptions, and some promises of the code's comments are no
property of any run because the code does not keep them. Most of these came up as
counterexamples while the properties were written:

- Pairing: two overlapping approvals can leave a live credential that no card
  shows, and so can one whose index write fails (`devices.js:153-155`, `184-186`);
  a last-seen stamp that overlaps a revocation puts the credential back.
- Ledger: a release leaves no timestamp behind, so an older claim can follow it
  (`claim.js:17-18` and `:40`); the owner check of an edit is not tied to its write,
  so a claim that changed hands in between is overwritten (`my-claims.js:108`); a
  poll that began its scan before an edit fills the cache after the edit's bust
  (`hotlist.js:79-80`).
- Backfill: its POST reads a name that is never bound (`load.py:1266`), so it
  never gets done. `Backfill` models just that.
- Registration: a completion stamp set between another registration's look at the
  list and its write is lost (`build.js:230, 247`). The plugin's direct create
  repeats its PUT without looking whether the one before was carried out
  (`load.py:3155`), which the server's create takes care to do; `load.py:15` says
  auto-create only fires while the site is unregistered.
- Updates: a marker that could not be written, or an EDMC that dies between the
  file and the marker, or an install by hand over a marker leaves the two out of
  step, and the board says UPDATE READY for ever (`torn`). So it does when the owner
  cuts a lower version: the plugin never moves back within a channel and the nag
  never clears (`HeldBack`, against `plugin-status.js:79`). An armed pilot for whom
  no beta is cut follows the stable release in either direction, although
  `load.py:864` says forward; and one failed read of the tier makes an armed plugin
  stage the stable release.
- Carriers: a link that passes its check while the stamp's sweep runs stays on the
  finished build, and so does a PUT carried out late; two overlapping reports of one
  key can leave the older. Without any overlap, a build stamped by hand before Raven
  calls it complete has been swept already, takes links again and keeps them when it
  completes (`builds.js:177`: only a stamp that is new sweeps).
- Tiers: `navpull.js:43-48` follows the tier without asking for the role. An admin
  who is taken off the roster while armed is never demoted; an overlapping writer or
  a failed demotion leaves an armed pilot without clearance. `access.js:12` says
  admin-gated, the code asks for the owner.
- Files: a member's GET whose read fails overwrites the record with the defaults
  (`member.js:18-23`); a GET that stamps `last_seen` and a PATCH can undo each other;
  the pages say that nothing has changed when only the answer was lost; a plugin
  whose row vanishes from the map keeps its old orders.
- Shared PCs: a commander without orders of his own flies under those of whoever flew
  on the PC before, across restarts too, until he saves his own: no answer leaves
  the copy as it is (`load.py:166`), although `load.py:132-133` says that without a
  server value the EDMC checkbox or the default holds, and `navpull.js:65-66` that the
  plugin keeps its own fallback. A fresh install has that fallback; nothing ever brings
  it back.
- Readiness: a report is repeated only while no answer came. If the handler
  swallowed its failed write, or if the keys were changed back between a report
  whose answer was lost and the next poll, the board stays wrong until the keys
  change again (`load.py:972`, against "unblocks its order live", `adjutant.js:45`).
  The page refuses a blocked order in both directions, off included
  (`adjutant.js:95, 275`), although its header (line 22) speaks of switching on.
  A second commander on the PC with the same keys bound is not reported at all
  until they change or EDMC restarts, as the first one's report counts as sent
  (`load.py:972, 1003`). And a report expires two weeks after it was written, for a pilot
  who flies every day too: an unchanged one is neither sent nor written again,
  although `navpull.js:91` has the time to live for "a pilot who stops flying". The page
  then refuses nothing.
- Refocus: an order that was switched while no poll came through has no age and
  takes the foreground when it arrives (`load.py:197-201`); a press up to 20 s old
  acts again after a restart; two overlapping pushes can leave the older target.
- Alerts: a ring whose escaped text is over 1600 characters is dropped and answered
  with ok, the plugin counts it as delivered (`navpull.js:198`,
  `load.py:1007-1008`), and its alerts are heard only if it is sent again, shorter,
  with the next one. Also a write that failed, or a handler that timed out and
  writes later, loses an alert for good, although `load.py:987` says that resending
  is safe; a first list that could not be read makes the backlog sound; so does a
  ring that is resent after the log has expired.

## 7. Not modelled

- Backup (`export.js`, `import.js`): copies every key out and back, one independent
  write after another; what a half-done restore breaks is the relation between the
  other modules' records, and no module has them all.
- Manifest projector and agent API (`_lib/manifest.js`, `agent.js`): a read-only
  projection of stored state, formatted for an external agent.
- Board read routes (`checklist`, `presence`, `ticker`, `usage`, ...), telemetry
  tiles and the verdict whether a browser sits in the cockpit: they format stored
  state for display, and nothing is decided by it.
- The plugin's in-game assists (honk, fuel, pirates, window focus): timing against
  the game and the desktop, which the repository does not define.
- Board pages other than the switches, the alert page and the migration card:
  rendering and fetches of the routes above.
- Rig helper, tests, vendored and archived files.
- In modelled parts: a change of commander on the PC for targets and alerts, whose
  last stamp and last acknowledged ring are the PC's (`NavLane` and `AlertLane` are
  about one commander on his PC); entries of the orders with keys missing; a
  `server_settings.json` that cannot be written; the propagation delay of Workers KV
  between sites, wording and formatting, the content of observations, attribution of
  a build to an architect, and the retired-registrar notes' text.
