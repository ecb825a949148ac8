--------------------------- MODULE DevicePairing ---------------------------
(***************************************************************************)
(* Device pairing between the EDMC plugin and the board.                   *)
(*                                                                         *)
(* A plugin commits to sha256(secret) for its commander (ingest/pair.js),  *)
(* a signed-in pilot bound to that commander approves the pairing code     *)
(* (blades/api/devices.js), and from then on the plugin presents the       *)
(* secret on every /ingest/* request (_lib/ingest-auth.js).  The plugin    *)
(* side is load.py's _dev_* functions.                                     *)
(*                                                                         *)
(* The store is Workers KV: get, put and delete of one key at a time and   *)
(* no compare-and-swap.  A handler is therefore a request slot in Req that *)
(* takes one step per KV operation, and any other request may run between  *)
(* two of its steps.                                                       *)
(***************************************************************************)
EXTENDS Naturals, FiniteSets

CONSTANTS
    Cmdr,        \* commander names
    Pilot,       \* Access identities (emails)
    Plugin,      \* a (PC, commander) entry of some plugin's device.json
    CmdrOf,      \* the commander of each plugin entry
    Hash,        \* hashes of plugin secrets
    Owner,       \* the plugin entry that drew each secret (256 random bits)
    Code,        \* pairing codes; the deviceId drawn with a code is named by it
    Req,         \* request slots: how many handlers may be in flight at once
    None,        \* absent value
    MaxDevices,  \* 10 in the code
    MaxPending,  \* 5 in the code
    KvFails      \* whether a KV read or write may fail

ASSUME ConstantsAssumption ==
    /\ CmdrOf \in [Plugin -> Cmdr]
    /\ Owner \in [Hash -> Plugin]
    /\ None \notin Cmdr \cup Pilot \cup Plugin \cup Hash \cup Code
    /\ MaxDevices \in Nat \ {0}
    /\ MaxPending \in Nat \ {0}
    /\ KvFails \in BOOLEAN

VARIABLES
    cmdrlink,    \* cmdrlink:{email}: the commander a pilot has bound
    pair,        \* sq:onyx:pair:{code}: pending requests
    expired,     \* codes whose ten minutes have run out
    devices,     \* sq:onyx:devices:{cmdr}: the index the board renders
    token,       \* sq:onyx:devtoken:{hash}: the live credentials
    req,         \* the handlers in flight and what they have read so far
    secret,      \* device.json: the hash of each plugin entry's secret
    approved,    \* device.json: the entries that present their secret
    code,        \* the code on each plugin's status line (memory only)
    revoked      \* history: hashes revoked since they were last approved

kv == <<cmdrlink, pair, expired, devices, token, revoked>>
plugin == <<secret, approved, code>>
vars == <<cmdrlink, pair, expired, devices, token, req, secret, approved, code, revoked>>

-----------------------------------------------------------------------------
(* A credential record: whose it is and the device it was approved for.  A  *)
(* device list is the set of its rows: the card sorts them and finds them   *)
(* by deviceId, so their order is nothing to it.                            *)
Token == [cmdr : Cmdr, id : Code]
Row == [id : Code, hash : Hash]
Pending == [cmdr : Cmdr, hash : Hash]

ASSUME NoneAssumption == None \notin Token \cup Pending

(* Where a request stands: the KV operation or the reply it does next.      *)
PairPC == {"pair:scan", "pair:put", "pair:reply"}
ApprovePC == {"approve:pending", "approve:devices", "approve:token",
              "approve:index", "approve:done"}
RevokePC == {"revoke:devices", "revoke:token", "revoke:index"}
AuthPC == {"auth:stamp", "auth:refused"}
WritePC == {"pair:put", "approve:token", "approve:index", "approve:done",
            "revoke:token", "revoke:index", "auth:stamp"}
ReplyPC == {"pair:reply", "auth:refused", "check:reply"}
PC == {"idle", "check:reply"} \cup PairPC \cup ApprovePC \cup RevokePC \cup AuthPC

Request == [pc : PC, plugin : Plugin \cup {None}, cmdr : Cmdr \cup {None},
            id : Code \cup {None}, hash : Hash \cup {None},
            rec : Token \cup {None}, list : SUBSET Row]

Idle == [pc |-> "idle", plugin |-> None, cmdr |-> None, id |-> None,
         hash |-> None, rec |-> None, list |-> {}]

(* What a KV read may yield: the value, or the handler's catch-all default. *)
Got(value, default) == IF KvFails THEN {value, default} ELSE {value}

End(r) == req' = [req EXCEPT ![r] = Idle]

(* _dev_cred: the entry's secret, drawn and saved on first use.             *)
Secrets(p) == {h \in Hash : Owner[h] = p /\ secret[p] \in {None, h}}

(* A pairing code is six random characters and a deviceId eight random      *)
(* bytes: a new one is not in use anywhere.                                 *)
Unused(c) ==
    /\ pair[c] = None
    /\ \A p \in Plugin : code[p] # c
    /\ \A k \in Cmdr : \A row \in devices[k] : row.id # c
    /\ \A h \in Hash : token[h] # None => token[h].id # c
    /\ \A r \in Req : /\ req[r].id # c
                      /\ req[r].rec # None => req[r].rec.id # c
                      /\ \A row \in req[r].list : row.id # c

Init ==
    /\ cmdrlink = [u \in Pilot |-> None]
    /\ pair = [c \in Code |-> None]
    /\ expired = {}
    /\ devices = [k \in Cmdr |-> {}]
    /\ token = [h \in Hash |-> None]
    /\ req = [r \in Req |-> Idle]
    /\ secret = [p \in Plugin |-> None]
    /\ approved = {}
    /\ code = [p \in Plugin |-> None]
    /\ revoked = {}

-----------------------------------------------------------------------------
(* whoami-cmdr.js: a pilot binds or unbinds the commander they fly as.      *)
Bind(u, k) ==
    /\ cmdrlink' = [cmdrlink EXCEPT ![u] = k]
    /\ UNCHANGED <<pair, expired, devices, token, req, plugin, revoked>>

Unbind(u) ==
    /\ cmdrlink' = [cmdrlink EXCEPT ![u] = None]
    /\ UNCHANGED <<pair, expired, devices, token, req, plugin, revoked>>

-----------------------------------------------------------------------------
(* _dev_request_pairing -> POST /ingest/pair.  The plugin draws its secret  *)
(* on first use; the handler reads the index for the device ceiling, scans  *)
(* the pending rows for theirs, and writes the pending row under a new code.*)
PairStart(r, p) ==
    /\ req[r].pc = "idle"
    /\ p \notin approved
    /\ code[p] = None
    /\ \E h \in Secrets(p) :
        /\ secret' = [secret EXCEPT ![p] = h]
        /\ \E list \in Got(devices[CmdrOf[p]], {}) :
            IF Cardinality(list) >= MaxDevices
            THEN UNCHANGED req
            ELSE req' = [req EXCEPT ![r] = [Idle EXCEPT !.pc = "pair:scan",
                            !.plugin = p, !.cmdr = CmdrOf[p], !.hash = h]]
    /\ UNCHANGED <<kv, approved, code>>

PairScan(r) ==
    LET mine == {c \in Code : pair[c] # None /\ pair[c].cmdr = req[r].cmdr}
    IN  /\ req[r].pc = "pair:scan"
        /\ \E seen \in Got(Cardinality(mine), 0) :
            IF seen >= MaxPending
            THEN End(r)
            ELSE req' = [req EXCEPT ![r].pc = "pair:put"]
        /\ UNCHANGED <<kv, plugin>>

PairPut(r, c) ==
    /\ req[r].pc = "pair:put"
    /\ Unused(c)
    /\ pair' = [pair EXCEPT ![c] = [cmdr |-> req[r].cmdr, hash |-> req[r].hash]]
    /\ expired' = expired \ {c}
    /\ req' = [req EXCEPT ![r].pc = "pair:reply", ![r].id = c]
    /\ UNCHANGED <<cmdrlink, devices, token, plugin, revoked>>

(* Bound: when every code of the instance is in use, the request fails.     *)
PairNoCode(r) ==
    /\ req[r].pc = "pair:put"
    /\ \A c \in Code : ~Unused(c)
    /\ End(r)
    /\ UNCHANGED <<kv, plugin>>

(* Mutant: the plugin presents its secret as soon as it has a code.         *)
PairReplyTrusted(r) ==
    /\ req[r].pc = "pair:reply"
    /\ req[r].plugin # None
    /\ code' = [code EXCEPT ![req[r].plugin] = req[r].id]
    /\ approved' = approved \cup {req[r].plugin}
    /\ End(r)
    /\ UNCHANGED <<kv, secret>>

PairReply(r) ==
    /\ req[r].pc = "pair:reply"
    /\ req[r].plugin # None
    /\ code' = [code EXCEPT ![req[r].plugin] = req[r].id]
    /\ End(r)
    /\ UNCHANGED <<kv, secret, approved>>

-----------------------------------------------------------------------------
(* POST /blades/api/devices: approve a code.  The commander comes from the  *)
(* approver's own binding and must be the one the pending row names.        *)
ApproveStart(r, u, c) ==
    /\ req[r].pc = "idle"
    /\ cmdrlink[u] # None
    /\ req' = [req EXCEPT ![r] = [Idle EXCEPT !.pc = "approve:pending",
                    !.cmdr = cmdrlink[u], !.id = c]]
    /\ UNCHANGED <<kv, plugin>>

(* Mutant: any pilot may approve any code.                                  *)
ApproveAnybody(r) ==
    /\ req[r].pc = "approve:pending"
    /\ \E pend \in Got(pair[req[r].id], None) :
        IF pend = None
        THEN End(r)
        ELSE req' = [req EXCEPT ![r].pc = "approve:devices", ![r].hash = pend.hash]
    /\ UNCHANGED <<kv, plugin>>

ApprovePending(r) ==
    /\ req[r].pc = "approve:pending"
    /\ \E pend \in Got(pair[req[r].id], None) :
        IF pend = None \/ (pend # None /\ pend.cmdr # req[r].cmdr)
        THEN End(r)
        ELSE req' = [req EXCEPT ![r].pc = "approve:devices", ![r].hash = pend.hash]
    /\ UNCHANGED <<kv, plugin>>

ApproveDevices(r) ==
    /\ req[r].pc = "approve:devices"
    /\ \E list \in Got(devices[req[r].cmdr], {}) :
        IF Cardinality(list) >= MaxDevices
        THEN End(r)
        ELSE req' = [req EXCEPT ![r].pc = "approve:token", ![r].list = list]
    /\ UNCHANGED <<kv, plugin>>

(* Mutant: the credential is issued and the index forgotten.                *)
ApproveTokenOnly(r) ==
    /\ req[r].pc = "approve:token"
    /\ token' = [token EXCEPT ![req[r].hash] = [cmdr |-> req[r].cmdr, id |-> req[r].id]]
    /\ revoked' = revoked \ {req[r].hash}
    /\ req' = [req EXCEPT ![r].pc = "approve:done"]
    /\ UNCHANGED <<cmdrlink, pair, expired, devices, plugin>>

ApproveToken(r) ==
    LET h == req[r].hash
    IN  /\ req[r].pc = "approve:token"
        /\ token' = [token EXCEPT ![h] =
                        [cmdr |-> req[r].cmdr, id |-> req[r].id]]
        /\ revoked' = revoked \ {h}
        /\ req' = [req EXCEPT ![r].pc = "approve:index"]
        /\ UNCHANGED <<cmdrlink, pair, expired, devices, plugin>>

ApproveIndex(r) ==
    LET row == [id |-> req[r].id, hash |-> req[r].hash]
    IN  /\ req[r].pc = "approve:index"
        /\ devices' = [devices EXCEPT ![req[r].cmdr] = req[r].list \cup {row}]
        /\ req' = [req EXCEPT ![r].pc = "approve:done"]
        /\ UNCHANGED <<cmdrlink, pair, expired, token, plugin, revoked>>

ApproveDone(r) ==
    /\ req[r].pc = "approve:done"
    /\ pair' = [pair EXCEPT ![req[r].id] = None]
    /\ End(r)
    /\ UNCHANGED <<cmdrlink, expired, devices, token, plugin, revoked>>

-----------------------------------------------------------------------------
(* DELETE /blades/api/devices: the credential goes first, the row second.   *)
RevokeStart(r, u, c) ==
    /\ req[r].pc = "idle"
    /\ cmdrlink[u] # None
    /\ req' = [req EXCEPT ![r] = [Idle EXCEPT !.pc = "revoke:devices",
                    !.cmdr = cmdrlink[u], !.id = c]]
    /\ UNCHANGED <<kv, plugin>>

(* Mutant: an unknown device is not a 404.                                  *)
RevokeUnknown(r) ==
    /\ req[r].pc = "revoke:devices"
    /\ \E list \in Got(devices[req[r].cmdr], {}) :
        LET rows == {row \in list : row.id = req[r].id}
        IN  \E h \in IF rows = {} THEN {None} ELSE {row.hash : row \in rows} :
                req' = [req EXCEPT ![r].pc = "revoke:token", ![r].list = list, ![r].hash = h]
    /\ UNCHANGED <<kv, plugin>>

(* Mutant: the index row goes first.                                        *)
RevokeRowFirst(r) ==
    /\ req[r].pc = "revoke:devices"
    /\ \E list \in Got(devices[req[r].cmdr], {}) : \E row \in list :
        /\ row.id = req[r].id
        /\ req' = [req EXCEPT ![r].pc = "revoke:index", ![r].list = list,
                              ![r].hash = row.hash]
    /\ UNCHANGED <<kv, plugin>>

RevokeDevices(r) ==
    /\ req[r].pc = "revoke:devices"
    /\ \E list \in Got(devices[req[r].cmdr], {}) :
        \/ /\ \A row \in list : row.id # req[r].id
           /\ End(r)
        \/ \E row \in list :
            /\ row.id = req[r].id
            /\ req' = [req EXCEPT ![r].pc = "revoke:token", ![r].list = list,
                                  ![r].hash = row.hash]
    /\ UNCHANGED <<kv, plugin>>

(* Mutant: the delete names a key no credential is stored under.            *)
RevokeNothing(r) ==
    /\ req[r].pc = "revoke:token"
    /\ revoked' = revoked \cup {req[r].hash}
    /\ req' = [req EXCEPT ![r].pc = "revoke:index"]
    /\ UNCHANGED <<cmdrlink, pair, expired, devices, token, plugin>>

RevokeToken(r) ==
    /\ req[r].pc = "revoke:token"
    /\ token' = [token EXCEPT ![req[r].hash] = None]
    /\ revoked' = revoked \cup {req[r].hash}
    /\ req' = [req EXCEPT ![r].pc = "revoke:index"]
    /\ UNCHANGED <<cmdrlink, pair, expired, devices, plugin>>

RevokeIndex(r) ==
    /\ req[r].pc = "revoke:index"
    /\ devices' = [devices EXCEPT ![req[r].cmdr] =
                        {row \in req[r].list : row.id # req[r].id}]
    /\ End(r)
    /\ UNCHANGED <<cmdrlink, pair, expired, token, plugin, revoked>>

-----------------------------------------------------------------------------
(* authIngest: a paired plugin presents its secret.  An unknown token or    *)
(* one of another commander is refused.  A credential whose lastSeenTs is    *)
(* past LASTSEEN_THROTTLE_MS (a choice here) is written back as it was read,*)
(* stamped with the time.                                                   *)
AuthStart(r, p) ==
    LET h == secret[p]
    IN  /\ req[r].pc = "idle"
        /\ p \in approved
        /\ \E rec \in Got(token[h], None) :
            \/ /\ rec = None \/ (rec # None /\ rec.cmdr # CmdrOf[p])
               /\ req' = [req EXCEPT ![r] = [Idle EXCEPT !.pc = "auth:refused",
                               !.plugin = p]]
            \/ /\ rec # None /\ rec.cmdr = CmdrOf[p]
               /\ req' = [req EXCEPT ![r] = [Idle EXCEPT !.pc = "auth:stamp",
                               !.hash = h, !.rec = rec]]
        /\ UNCHANGED <<kv, plugin>>

AuthStamp(r) ==
    /\ req[r].pc = "auth:stamp"
    /\ token' = [token EXCEPT ![req[r].hash] = req[r].rec]
    /\ End(r)
    /\ UNCHANGED <<cmdrlink, pair, expired, devices, plugin, revoked>>

(* Mutant: the refused plugin keeps presenting its secret.                  *)
AuthRefusedIgnored(r) ==
    /\ req[r].pc = "auth:refused"
    /\ req[r].plugin # None
    /\ End(r)
    /\ UNCHANGED <<kv, plugin>>

(* _dev_on_auth_fail: the entry drops back to unpaired and asks again.      *)
AuthRefused(r) ==
    /\ req[r].pc = "auth:refused"
    /\ req[r].plugin # None
    /\ approved' = approved \ {req[r].plugin}
    /\ End(r)
    /\ UNCHANGED <<kv, secret, code>>

-----------------------------------------------------------------------------
(* _dev_check_approval -> GET /ingest/pair?hash=.  Approved as somebody     *)
(* else: drop the secret.  Approved: start using it.  Not yet: a code past  *)
(* its ten minutes leaves the status line, and the loop asks for another.   *)
CheckStart(r, p) ==
    /\ req[r].pc = "idle"
    /\ p \notin approved
    /\ \E h \in Secrets(p) : \E rec \in Got(token[h], None) :
        /\ secret' = [secret EXCEPT ![p] = h]
        /\ req' = [req EXCEPT ![r] = [Idle EXCEPT !.pc = "check:reply", !.plugin = p,
                        !.hash = h, !.rec = rec]]
    /\ UNCHANGED <<kv, approved, code>>

(* Mutant: the approval is shown and not saved.                             *)
CheckNotSaved(r) ==
    /\ req[r].pc = "check:reply"
    /\ req[r].plugin # None
    /\ code' = [code EXCEPT ![req[r].plugin] =
                    IF req[r].rec # None \/ @ \in expired THEN None ELSE @]
    /\ End(r)
    /\ UNCHANGED <<kv, secret, approved>>

CheckReply(r) ==
    LET p == req[r].plugin
        rec == req[r].rec
    IN  /\ req[r].pc = "check:reply"
        /\ p # None
        /\ \/ /\ rec = None
              /\ code' = [code EXCEPT ![p] = IF @ \in expired THEN None ELSE @]
              /\ UNCHANGED <<secret, approved>>
           \/ /\ rec # None /\ rec.cmdr # CmdrOf[p]
              /\ secret' = [secret EXCEPT ![p] = None]
              /\ approved' = approved \ {p}
              /\ UNCHANGED code
           \/ /\ rec # None /\ rec.cmdr = CmdrOf[p]
              /\ \E h \in Secrets(p) : secret' = [secret EXCEPT ![p] = h]
              /\ approved' = approved \cup {p}
              /\ code' = [code EXCEPT ![p] = None]
        /\ End(r)
        /\ UNCHANGED kv

-----------------------------------------------------------------------------
(* The environment: a failed write ends its handler, a reply is lost, a     *)
(* code's ten minutes run out, EDMC restarts (device.json survives, codes   *)
(* and outstanding calls do not).                                     *)
WriteFails(r) ==
    /\ KvFails
    /\ req[r].pc \in WritePC
    /\ End(r)
    /\ UNCHANGED <<kv, plugin>>

ReplyLost(r) ==
    /\ req[r].pc \in ReplyPC
    /\ End(r)
    /\ UNCHANGED <<kv, plugin>>

Expire(c) ==
    /\ c \notin expired
    /\ pair[c] # None \/ \E p \in Plugin : code[p] = c
    /\ pair' = [pair EXCEPT ![c] = None]
    /\ expired' = expired \cup {c}
    /\ UNCHANGED <<cmdrlink, devices, token, req, plugin, revoked>>

Restart(p) ==
    /\ code' = [code EXCEPT ![p] = None]
    /\ req' = [r \in Req |-> IF req[r].plugin = p
                             THEN [req[r] EXCEPT !.plugin = None] ELSE req[r]]
    /\ UNCHANGED <<kv, secret, approved>>

-----------------------------------------------------------------------------
PairSteps(r) ==
    \/ \E p \in Plugin : PairStart(r, p)
    \/ PairScan(r)
    \/ \E c \in Code : PairPut(r, c)
    \/ PairNoCode(r)
    \/ PairReply(r)

ApproveSteps(r) ==
    \/ \E u \in Pilot, c \in Code : ApproveStart(r, u, c)
    \/ ApprovePending(r)
    \/ ApproveDevices(r)
    \/ ApproveToken(r)
    \/ ApproveIndex(r)
    \/ ApproveDone(r)

RevokeSteps(r) ==
    \/ \E u \in Pilot, c \in Code : RevokeStart(r, u, c)
    \/ RevokeDevices(r)
    \/ RevokeToken(r)
    \/ RevokeIndex(r)

PluginSteps(r) ==
    \/ \E p \in Plugin : AuthStart(r, p) \/ CheckStart(r, p)
    \/ AuthStamp(r)
    \/ AuthRefused(r)
    \/ CheckReply(r)

Environment ==
    \/ \E u \in Pilot : Unbind(u) \/ \E k \in Cmdr : Bind(u, k)
    \/ \E r \in Req : WriteFails(r) \/ ReplyLost(r)
    \/ \E c \in Code : Expire(c)
    \/ \E p \in Plugin : Restart(p)

Next ==
    \/ \E r \in Req : PairSteps(r) \/ ApproveSteps(r) \/ RevokeSteps(r) \/ PluginSteps(r)
    \/ Environment

Spec == Init /\ [][Next]_vars

(* Fairness.  Pages runs a started handler to its end; the plugin's 5 s loop *)
(* keeps presenting, or keeps checking, and not every reply is lost.  Slots *)
(* are shared, so a start needs strong fairness.  Pilots owe nothing.       *)
Fairness ==
    /\ \A r \in Req : WF_vars(PairScan(r) \/ PairNoCode(r) \/ \E c \in Code : PairPut(r, c))
    /\ \A r \in Req : WF_vars(ApprovePending(r) \/ ApproveDevices(r) \/ ApproveToken(r)
                               \/ ApproveIndex(r) \/ ApproveDone(r))
    /\ \A r \in Req : WF_vars(RevokeDevices(r) \/ RevokeToken(r) \/ RevokeIndex(r))
    /\ \A r \in Req : WF_vars(AuthStamp(r) \/ PairReply(r) \/ ReplyLost(r))
    /\ \A p \in Plugin :
        /\ SF_vars(\E r \in Req : AuthStart(r, p))
        /\ SF_vars(\E r \in Req : CheckStart(r, p))
        /\ SF_vars(\E r \in Req : req[r].plugin = p /\ AuthRefused(r))
        /\ SF_vars(\E r \in Req : req[r].plugin = p /\ CheckReply(r))

FairSpec == Spec /\ Fairness

-----------------------------------------------------------------------------
(* Properties.                                                             *)

TypeOK ==
    /\ cmdrlink \in [Pilot -> Cmdr \cup {None}]
    /\ pair \in [Code -> Pending \cup {None}]
    /\ expired \in SUBSET Code
    /\ devices \in [Cmdr -> SUBSET Row]
    /\ token \in [Hash -> Token \cup {None}]
    /\ req \in [Req -> Request]
    /\ secret \in [Plugin -> Hash \cup {None}]
    /\ approved \in SUBSET Plugin
    /\ code \in [Plugin -> Code \cup {None}]
    /\ revoked \in SUBSET Hash

(* A device speaks for the commander it asked to be paired with and no      *)
(* other, and a commander's device list names only devices of theirs, so a  *)
(* pilot can only revoke their own.  "The check the whole design rests on"  *)
(* (devices.js:128) is what keeps it.                                       *)
OwnDevicesOnly ==
    /\ \A h \in Hash : token[h] # None => token[h].cmdr = CmdrOf[Owner[h]]
    /\ \A k \in Cmdr : \A row \in devices[k] : CmdrOf[Owner[row.hash]] = k

(* A plugin never locks itself out (load.py:266-269, pair.js:101-104): it    *)
(* presents its secret only when the board holds the credential, unless a   *)
(* pilot revoked it.                                                        *)
NoSelfLockout ==
    \A p \in Plugin : p \in approved =>
        token[secret[p]] # None \/ secret[p] \in revoked

(* The device list of a commander never outgrows the ceiling, however many  *)
(* approvals race for the last place (devices.js:134-135).                  *)
ListCeiling == \A k \in Cmdr : Cardinality(devices[k]) <= MaxDevices

(* Approved credentials the board's device card does not show.              *)
Visible(h) == \E row \in devices[token[h].cmdr] : row.hash = h
Hidden == {h \in Hash \ revoked : token[h] # None /\ ~Visible(h)}
Quiet == \A r \in Req : req[r].pc = "idle"

(* No live credential without a way to see it in the UI (devices.js:184-186). *)
NothingHidden == Quiet => Hidden = {}

(* No step of a revocation hides a credential, so that one which stops half *)
(* way hides none: that is why the token goes before the index row          *)
(* (devices.js:184-186).                                                    *)
RevokeHidesNothing ==
    [][\A r \in Req : req[r].pc \in RevokePC /\ req'[r] # req[r] => Hidden' \subseteq Hidden]_vars

(* A revoked credential stays dead until a pilot approves it again          *)
(* (load.py:461, ingest-auth.js:133 "unknown or revoked device token").     *)
RevokedStaysDead == \A h \in Hash : token[h] # None => h \notin revoked

(* A revoked plugin finds out and drops back to unpaired (load.py:464-467). *)
LockoutNoticed ==
    \A p \in Plugin : p \in approved /\ token[secret[p]] = None
                      ~> p \notin approved \/ token[secret[p]] # None

(* An approval is noticed by the plugin that asked (load.py:421-457).       *)
ApprovalNoticed ==
    \A h \in Hash : token[h] # None /\ secret[Owner[h]] = h
                    ~> Owner[h] \in approved \/ token[h] = None
=============================================================================
