------------------------ MODULE DevicePairingProofs ------------------------
(***************************************************************************)
(* What DevicePairing guarantees for every number of commanders, plugins,  *)
(* codes and requests in flight, every ceiling, and whatever KV fails.     *)
(***************************************************************************)
EXTENDS DevicePairing, FiniteSetTheorems, TLAPS

(* Secret h was drawn for commander k. *)
Owned(k, h) == CmdrOf[Owner[h]] = k

(* What a handler has read and checked by the time it stands at its pc.     *)
StageOK(q) ==
    /\ q.pc \in {"pair:scan", "pair:put"} =>
        q.cmdr \in Cmdr /\ q.hash \in Hash /\ Owned(q.cmdr, q.hash)
    /\ q.pc \in ApprovePC \cup RevokePC => q.cmdr \in Cmdr /\ q.id \in Code
    /\ q.pc = "pair:reply" => q.id \in Code
    /\ q.pc \in {"approve:devices", "approve:token", "approve:index"} =>
        q.hash \in Hash /\ Owned(q.cmdr, q.hash)
    /\ q.pc \in {"revoke:token", "revoke:index"} => q.hash \in Hash
    /\ q.pc = "auth:stamp" => q.hash \in Hash /\ q.rec # None /\ Owned(q.rec.cmdr, q.hash)
    /\ q.pc = "check:reply" => q.hash \in Hash /\ (q.rec # None => Owned(q.rec.cmdr, q.hash))
    /\ \A row \in q.list : Owned(q.cmdr, row.hash)

(* Wherever KV ties a commander to a secret, it is the secret's commander.  *)
StoreOK ==
    /\ \A c \in Code : pair[c] # None => Owned(pair[c].cmdr, pair[c].hash)
    /\ \A h \in Hash : token[h] # None => Owned(token[h].cmdr, h)
    /\ \A k \in Cmdr : \A row \in devices[k] : Owned(k, row.hash)
    /\ \A p \in Plugin : /\ secret[p] # None => Owner[secret[p]] = p
                         /\ p \in approved => secret[p] # None

Ownership == TypeOK /\ StoreOK /\ \A r \in Req : StageOK(req[r])

(* An idle slot is a well-typed request that carries nothing.                *)
LEMMA IdleOK == Idle \in Request /\ StageOK(Idle)
  BY DEF Idle, Request, PC, StageOK, ApprovePC, RevokePC

(* A handler that starts on a device id carries the commander it is for.    *)
LEMMA StartOK ==
    ASSUME NEW pc \in {"approve:pending", "revoke:devices"}, NEW k \in Cmdr, NEW c \in Code
    PROVE  LET q == [Idle EXCEPT !.pc = pc, !.cmdr = k, !.id = c]
           IN  q \in Request /\ StageOK(q)
<1> DEFINE q == [Idle EXCEPT !.pc = pc, !.cmdr = k, !.id = c]
<1>1. q.pc = pc /\ q.cmdr = k /\ q.id = c /\ q.list = {}
  BY DEF Idle
<1>2. q \in Request
  BY DEF Idle, Request, PC, ApprovePC, RevokePC
<1> HIDE DEF q
<1>3. StageOK(q)
  BY <1>1 DEF StageOK
<1> QED BY <1>2, <1>3 DEF q

(* Every step of every handler, of the plugin and of the environment keeps  *)
(* Ownership: one case per action.                                          *)
LEMMA OwnershipInductive == Ownership /\ [Next]_vars => Ownership'
<1> USE ConstantsAssumption, IdleOK
<1> SUFFICES ASSUME Ownership, [Next]_vars PROVE Ownership'
  OBVIOUS
<1>u. \A r \in Req : \A q \in Request :
        StageOK(q) /\ req' = [req EXCEPT ![r] = q] =>
          req' \in [Req -> Request] /\ \A s \in Req : StageOK(req'[s])
  BY DEF Ownership, TypeOK
<1>1. ASSUME NEW u \in Pilot, NEW k \in Cmdr, Bind(u, k) PROVE Ownership'
  BY <1>1 DEF Bind, kv, plugin, End, Ownership, TypeOK, StoreOK
<1>2. ASSUME NEW u \in Pilot, Unbind(u) PROVE Ownership'
  BY <1>2 DEF Unbind, kv, plugin, End, Ownership, TypeOK, StoreOK
<1>3. ASSUME NEW c \in Code, Expire(c) PROVE Ownership'
  BY <1>3 DEF Expire, kv, plugin, End, Ownership, TypeOK, StoreOK
<1>4. ASSUME NEW r \in Req, PairNoCode(r) PROVE Ownership'
  <2>1. req' \in [Req -> Request] /\ \A s \in Req : StageOK(req'[s])
    BY <1>4, <1>u DEF PairNoCode, End
  <2> QED
    BY <1>4, <2>1 DEF PairNoCode, kv, plugin, End, Ownership, TypeOK, StoreOK
<1>5. ASSUME NEW r \in Req, PairReply(r) PROVE Ownership'
  <2>1. req' \in [Req -> Request] /\ \A s \in Req : StageOK(req'[s])
    BY <1>5, <1>u DEF PairReply, End
  <2> QED
    BY <1>5, <2>1 DEF PairReply, kv, plugin, End, Ownership, TypeOK, StoreOK, StageOK
<1>6. ASSUME NEW r \in Req, ApproveDone(r) PROVE Ownership'
  <2>1. req' \in [Req -> Request] /\ \A s \in Req : StageOK(req'[s])
    BY <1>6, <1>u DEF ApproveDone, End
  <2> QED
    BY <1>6, <2>1 DEF ApproveDone, kv, plugin, End, Ownership, TypeOK, StoreOK, StageOK, ApprovePC
<1>7. ASSUME NEW r \in Req, WriteFails(r) PROVE Ownership'
  <2>1. req' \in [Req -> Request] /\ \A s \in Req : StageOK(req'[s])
    BY <1>7, <1>u DEF WriteFails, End
  <2> QED
    BY <1>7, <2>1 DEF WriteFails, kv, plugin, End, Ownership, TypeOK, StoreOK
<1>8. ASSUME NEW r \in Req, ReplyLost(r) PROVE Ownership'
  <2>1. req' \in [Req -> Request] /\ \A s \in Req : StageOK(req'[s])
    BY <1>8, <1>u DEF ReplyLost, End
  <2> QED
    BY <1>8, <2>1 DEF ReplyLost, kv, plugin, End, Ownership, TypeOK, StoreOK
<1>9. ASSUME NEW r \in Req, AuthStamp(r) PROVE Ownership'
  <2>1. req' \in [Req -> Request] /\ \A s \in Req : StageOK(req'[s])
    BY <1>9, <1>u DEF AuthStamp, End
  <2> QED
    BY <1>9, <2>1 DEF AuthStamp, kv, plugin, End, Ownership, TypeOK, StoreOK, StageOK, Request,
          Token
<1>10. ASSUME NEW r \in Req, RevokeIndex(r) PROVE Ownership'
  <2>1. req' \in [Req -> Request] /\ \A s \in Req : StageOK(req'[s])
    BY <1>10, <1>u DEF RevokeIndex, End
  <2> QED
    BY <1>10, <2>1 DEF RevokeIndex, kv, plugin, End, Ownership, TypeOK, StoreOK, StageOK,
          Request, RevokePC, Row
<1>11. ASSUME NEW r \in Req, AuthRefused(r) PROVE Ownership'
  <2>1. req' \in [Req -> Request] /\ \A s \in Req : StageOK(req'[s])
    BY <1>11, <1>u DEF AuthRefused, End
  <2> QED
    BY <1>11, <2>1 DEF AuthRefused, kv, plugin, End, Ownership, TypeOK, StoreOK
<1>12. ASSUME NEW r \in Req, CheckReply(r) PROVE Ownership'
  <2>1. req' \in [Req -> Request] /\ \A s \in Req : StageOK(req'[s])
    BY <1>12, <1>u DEF CheckReply, End
  <2> DEFINE asker == req[r].plugin
  <2>2. asker \in Plugin
    BY <1>12 DEF CheckReply, Ownership, TypeOK, Request
  <2>3. code' \in [Plugin -> Code \cup {None}]
    BY <1>12, <2>2 DEF CheckReply, Ownership, TypeOK
  <2>4. \/ UNCHANGED <<secret, approved>>
        \/ secret' = [secret EXCEPT ![asker] = None] /\ approved' = approved \ {asker}
        \/ /\ \E h \in Secrets(asker) : secret' = [secret EXCEPT ![asker] = h]
           /\ approved' = approved \cup {asker}
    BY <1>12 DEF CheckReply
  <2>5. /\ secret' \in [Plugin -> Hash \cup {None}]
        /\ approved' \in SUBSET Plugin
        /\ \A x \in Plugin : /\ secret'[x] # None => Owner[secret'[x]] = x
                             /\ x \in approved' => secret'[x] # None
    BY <2>2, <2>4 DEF Secrets, Ownership, TypeOK, StoreOK
  <2>6. UNCHANGED <<cmdrlink, pair, expired, devices, token, revoked>>
    BY <1>12 DEF CheckReply, kv
  <2>7. TypeOK'
    BY <2>1, <2>3, <2>5, <2>6 DEF Ownership, TypeOK
  <2>8. StoreOK'
    BY <2>5, <2>6 DEF Ownership, StoreOK
  <2> QED
    BY <2>1, <2>7, <2>8 DEF Ownership
<1>13. ASSUME NEW r \in Req, NEW c \in Code, PairPut(r, c) PROVE Ownership'
  <2> DEFINE q == [req[r] EXCEPT !.pc = "pair:reply", !.id = c]
  <2>1. q \in Request /\ StageOK(q)
    BY <1>13 DEF PairPut, kv, plugin, End, Ownership, TypeOK, StoreOK, StageOK, Request, Idle,
          PC, PairPC, ApprovePC, RevokePC, AuthPC
  <2>2. req' = [req EXCEPT ![r] = q]
    BY <1>13 DEF PairPut, kv, plugin, End, Ownership, TypeOK, Request
  <2>3. req' \in [Req -> Request] /\ \A s \in Req : StageOK(req'[s])
    BY <2>1, <2>2, <1>u
  <2> QED
    BY <1>13, <2>3 DEF PairPut, kv, plugin, End, Ownership, TypeOK, StoreOK, StageOK, Pending
<1>14. ASSUME NEW r \in Req, ApproveToken(r) PROVE Ownership'
  <2> DEFINE q == [req[r] EXCEPT !.pc = "approve:index"]
  <2>1. q \in Request /\ StageOK(q)
    BY <1>14 DEF ApproveToken, kv, plugin, End, Ownership, TypeOK, StoreOK, StageOK, Request,
          Idle, PC, PairPC, ApprovePC, RevokePC, AuthPC
  <2>2. req' = [req EXCEPT ![r] = q]
    BY <1>14 DEF ApproveToken, kv, plugin, End, Ownership, TypeOK, Request
  <2>3. req' \in [Req -> Request] /\ \A s \in Req : StageOK(req'[s])
    BY <2>1, <2>2, <1>u
  <2> QED
    BY <1>14, <2>3 DEF ApproveToken, kv, plugin, End, Ownership, TypeOK, StoreOK, StageOK, Token,
          ApprovePC
<1>15. ASSUME NEW r \in Req, ApproveIndex(r) PROVE Ownership'
  <2> DEFINE q == [req[r] EXCEPT !.pc = "approve:done"]
             k == req[r].cmdr
             row == [id |-> req[r].id, hash |-> req[r].hash]
  <2>1. req[r] \in Request /\ StageOK(req[r]) /\ req[r].pc = "approve:index"
    BY <1>15 DEF ApproveIndex, Ownership, TypeOK
  <2>2. q \in Request /\ StageOK(q)
    BY <2>1 DEF StageOK, Request, PC, ApprovePC, RevokePC
  <2>3. k \in Cmdr /\ row \in Row /\ Owned(k, row.hash)
    BY <2>1 DEF StageOK, ApprovePC, Row
  <2>4. req[r].list \in SUBSET Row /\ \A x \in req[r].list : Owned(k, x.hash)
    BY <2>1 DEF StageOK, Request
  <2>5. devices' = [devices EXCEPT ![k] = req[r].list \cup {row}]
    BY <1>15 DEF ApproveIndex
  <2>6. /\ devices' \in [Cmdr -> SUBSET Row]
        /\ \A x \in Cmdr : \A y \in devices'[x] : Owned(x, y.hash)
    BY <2>3, <2>4, <2>5 DEF Ownership, TypeOK, StoreOK
  <2>7. req' = [req EXCEPT ![r] = q]
    BY <1>15, <2>1 DEF ApproveIndex, Ownership, TypeOK
  <2>8. req' \in [Req -> Request] /\ \A s \in Req : StageOK(req'[s])
    BY <2>2, <2>7, <1>u
  <2> QED
    BY <1>15, <2>6, <2>8 DEF ApproveIndex, plugin, Ownership, TypeOK, StoreOK
<1>16. ASSUME NEW r \in Req, RevokeToken(r) PROVE Ownership'
  <2> DEFINE q == [req[r] EXCEPT !.pc = "revoke:index"]
  <2>1. q \in Request /\ StageOK(q)
    BY <1>16 DEF RevokeToken, kv, plugin, End, Ownership, TypeOK, StoreOK, StageOK, Request,
          Idle, PC, PairPC, ApprovePC, RevokePC, AuthPC
  <2>2. req' = [req EXCEPT ![r] = q]
    BY <1>16 DEF RevokeToken, kv, plugin, End, Ownership, TypeOK, Request
  <2>3. req' \in [Req -> Request] /\ \A s \in Req : StageOK(req'[s])
    BY <2>1, <2>2, <1>u
  <2> QED
    BY <1>16, <2>3 DEF RevokeToken, kv, plugin, End, Ownership, TypeOK, StoreOK, StageOK
<1>17. ASSUME NEW r \in Req, NEW u \in Pilot, NEW c \in Code, ApproveStart(r, u, c) PROVE Ownership'
  <2> DEFINE q == [Idle EXCEPT !.pc = "approve:pending", !.cmdr = cmdrlink[u], !.id = c]
  <2>1. q \in Request /\ StageOK(q)
    <3>1. cmdrlink[u] \in Cmdr
      BY <1>17 DEF ApproveStart, Ownership, TypeOK
    <3> QED BY <3>1, StartOK
  <2>2. req' = [req EXCEPT ![r] = q]
    BY <1>17 DEF ApproveStart, kv, plugin, End, Ownership, TypeOK, Request
  <2>3. req' \in [Req -> Request] /\ \A s \in Req : StageOK(req'[s])
    BY <2>1, <2>2, <1>u
  <2> QED
    BY <1>17, <2>3 DEF ApproveStart, kv, plugin, End, Ownership, TypeOK, StoreOK
<1>18. ASSUME NEW r \in Req, NEW u \in Pilot, NEW c \in Code, RevokeStart(r, u, c) PROVE Ownership'
  <2> DEFINE q == [Idle EXCEPT !.pc = "revoke:devices", !.cmdr = cmdrlink[u], !.id = c]
  <2>1. q \in Request /\ StageOK(q)
    <3>1. cmdrlink[u] \in Cmdr
      BY <1>18 DEF RevokeStart, Ownership, TypeOK
    <3> QED BY <3>1, StartOK
  <2>2. req' = [req EXCEPT ![r] = q]
    BY <1>18 DEF RevokeStart, kv, plugin, End, Ownership, TypeOK, Request
  <2>3. req' \in [Req -> Request] /\ \A s \in Req : StageOK(req'[s])
    BY <2>1, <2>2, <1>u
  <2> QED
    BY <1>18, <2>3 DEF RevokeStart, kv, plugin, End, Ownership, TypeOK, StoreOK
<1>19. ASSUME NEW r \in Req, PairScan(r) PROVE Ownership'
  <2>1. \E q \in Request : StageOK(q) /\ req' = [req EXCEPT ![r] = q]
    <3>1. CASE End(r)
      BY <1>19, <3>1 DEF End
    <3>2. CASE ~End(r)
      <4>1. PICK x \in {1} : req' = [req EXCEPT ![r].pc = "pair:put"]
        BY <1>19, <3>2 DEF PairScan
      <4> DEFINE q == [req[r] EXCEPT !.pc = "pair:put"]
      <4>2. q \in Request /\ StageOK(q)
        BY <1>19, <4>1 DEF PairScan, Ownership, TypeOK, StoreOK, StageOK, Request, Idle, PC,
              PairPC, ApprovePC, RevokePC, AuthPC, Got, Row, Token, Pending
      <4>3. req' = [req EXCEPT ![r] = q]
        BY <1>19, <4>1 DEF Ownership, TypeOK, StoreOK, StageOK, Request, Idle, PC, PairPC,
              ApprovePC, RevokePC, AuthPC, Got, Row, Token, Pending
      <4> QED
        BY <4>2, <4>3
    <3> QED
      BY <3>1, <3>2
  <2>2. req' \in [Req -> Request] /\ \A s \in Req : StageOK(req'[s])
    BY <2>1, <1>u
  <2> QED
    BY <1>19, <2>2 DEF PairScan, kv, plugin, End, Ownership, TypeOK, StoreOK
<1>20. ASSUME NEW r \in Req, ApprovePending(r) PROVE Ownership'
  <2>1. \E q \in Request : StageOK(q) /\ req' = [req EXCEPT ![r] = q]
    <3>1. CASE End(r)
      BY <1>20, <3>1 DEF End
    <3>2. CASE ~End(r)
      <4>1. PICK pend \in Got(pair[req[r].id], None) :
                    /\ pend # None /\ pend.cmdr = req[r].cmdr
                    /\ req' = [req EXCEPT ![r].pc = "approve:devices", ![r].hash = pend.hash]
        BY <1>20, <3>2 DEF ApprovePending
      <4>2. req[r] \in Request /\ StageOK(req[r]) /\ req[r].pc = "approve:pending"
        BY <1>20 DEF ApprovePending, Ownership, TypeOK
      <4>3. req[r].cmdr \in Cmdr /\ req[r].id \in Code
        BY <4>2 DEF StageOK, ApprovePC
      <4>4. pend \in Pending /\ Owned(pend.cmdr, pend.hash)
        BY <4>1, <4>3 DEF Got, Ownership, TypeOK, StoreOK
      <4> DEFINE q == [req[r] EXCEPT !.pc = "approve:devices", !.hash = pend.hash]
      <4>5. q \in Request
        BY <4>2, <4>4 DEF Request, PC, ApprovePC, Pending
      <4>6. StageOK(q)
        BY <4>1, <4>2, <4>3, <4>4 DEF StageOK, Request, ApprovePC, RevokePC, Pending
      <4>7. req' = [req EXCEPT ![r] = q]
        BY <4>1, <4>2 DEF Ownership, TypeOK
      <4> QED
        BY <4>5, <4>6, <4>7
    <3> QED
      BY <3>1, <3>2
  <2>2. req' \in [Req -> Request] /\ \A s \in Req : StageOK(req'[s])
    BY <2>1, <1>u
  <2> QED
    BY <1>20, <2>2 DEF ApprovePending, kv, plugin, End, Ownership, TypeOK, StoreOK
<1>21. ASSUME NEW r \in Req, ApproveDevices(r) PROVE Ownership'
  <2>1. \E q \in Request : StageOK(q) /\ req' = [req EXCEPT ![r] = q]
    <3>1. CASE End(r)
      BY <1>21, <3>1 DEF End
    <3>2. CASE ~End(r)
      <4>1. PICK list \in Got(devices[req[r].cmdr], {}) :
                    req' = [req EXCEPT ![r].pc = "approve:token", ![r].list = list]
        BY <1>21, <3>2 DEF ApproveDevices
      <4> DEFINE q == [req[r] EXCEPT !.pc = "approve:token", !.list = list]
      <4>2. q \in Request /\ StageOK(q)
        BY <1>21, <4>1 DEF ApproveDevices, Ownership, TypeOK, StoreOK, StageOK, Request, Idle,
              PC, PairPC, ApprovePC, RevokePC, AuthPC, Got, Row, Token, Pending
      <4>3. req' = [req EXCEPT ![r] = q]
        BY <1>21, <4>1 DEF Ownership, TypeOK, StoreOK, StageOK, Request, Idle, PC, PairPC,
              ApprovePC, RevokePC, AuthPC, Got, Row, Token, Pending
      <4> QED
        BY <4>2, <4>3
    <3> QED
      BY <3>1, <3>2
  <2>2. req' \in [Req -> Request] /\ \A s \in Req : StageOK(req'[s])
    BY <2>1, <1>u
  <2> QED
    BY <1>21, <2>2 DEF ApproveDevices, kv, plugin, End, Ownership, TypeOK, StoreOK
<1>22. ASSUME NEW r \in Req, RevokeDevices(r) PROVE Ownership'
  <2>1. \E q \in Request : StageOK(q) /\ req' = [req EXCEPT ![r] = q]
    <3>1. CASE End(r)
      BY <1>22, <3>1 DEF End
    <3>2. CASE ~End(r)
      <4>1. PICK list \in Got(devices[req[r].cmdr], {}) : \E row \in list :
                    req' = [req EXCEPT ![r].pc = "revoke:token", ![r].list = list,
                                       ![r].hash = row.hash]
        BY <1>22, <3>2 DEF RevokeDevices
      <4>2. PICK row \in list :
                    req' = [req EXCEPT ![r].pc = "revoke:token", ![r].list = list,
                                       ![r].hash = row.hash]
        BY <4>1
      <4> DEFINE q == [req[r] EXCEPT !.pc = "revoke:token", !.list = list, !.hash = row.hash]
      <4>3. req[r] \in Request /\ StageOK(req[r]) /\ req[r].pc = "revoke:devices"
        BY <1>22 DEF RevokeDevices, Ownership, TypeOK
      <4>4. req[r].cmdr \in Cmdr /\ req[r].id \in Code
        BY <4>3 DEF StageOK, RevokePC
      <4>5. list \in SUBSET Row /\ \A x \in list : Owned(req[r].cmdr, x.hash)
        BY <4>4 DEF Got, Ownership, TypeOK, StoreOK
      <4>6. q \in Request
        BY <4>3, <4>5 DEF Request, PC, RevokePC, Row
      <4>7. StageOK(q)
        BY <4>3, <4>4, <4>5 DEF StageOK, Request, ApprovePC, RevokePC, Row
      <4>8. req' = [req EXCEPT ![r] = q]
        BY <4>2, <4>3 DEF Ownership, TypeOK
      <4> QED
        BY <4>6, <4>7, <4>8
    <3> QED
      BY <3>1, <3>2
  <2>2. req' \in [Req -> Request] /\ \A s \in Req : StageOK(req'[s])
    BY <2>1, <1>u
  <2> QED
    BY <1>22, <2>2 DEF RevokeDevices, kv, plugin, End, Ownership, TypeOK, StoreOK
<1>23. ASSUME NEW r \in Req, NEW p \in Plugin, PairStart(r, p) PROVE Ownership'
  <2>1. \E q \in Request : StageOK(q) /\ req' = [req EXCEPT ![r] = q]
    <3>1. PICK h \in Secrets(p) :
              \/ UNCHANGED req
              \/ req' = [req EXCEPT ![r] = [Idle EXCEPT !.pc = "pair:scan",
                            !.plugin = p, !.cmdr = CmdrOf[p], !.hash = h]]
      BY <1>23 DEF PairStart
    <3>2. CASE UNCHANGED req
      BY <3>2 DEF Ownership, TypeOK
    <3> DEFINE q == [Idle EXCEPT !.pc = "pair:scan",
                            !.plugin = p, !.cmdr = CmdrOf[p], !.hash = h]
    <3>3. q \in Request /\ StageOK(q)
      BY DEF Secrets, Owned, Ownership, TypeOK, StoreOK, StageOK, Request, Idle, PC, PairPC,
            ApprovePC, RevokePC, AuthPC, Got, Row, Token, Pending
    <3> QED
      BY <3>1, <3>2, <3>3
  <2>2. req' \in [Req -> Request] /\ \A s \in Req : StageOK(req'[s])
    BY <2>1, <1>u
  <2> QED
    BY <1>23, <2>2 DEF PairStart, Secrets, kv, plugin, End, Ownership, TypeOK, StoreOK
<1>24. ASSUME NEW r \in Req, NEW p \in Plugin, CheckStart(r, p) PROVE Ownership'
  <2>1. \E q \in Request : StageOK(q) /\ req' = [req EXCEPT ![r] = q]
    <3>1. PICK h \in Secrets(p) : \E rec \in Got(token[h], None) :
              req' = [req EXCEPT ![r] = [Idle EXCEPT !.pc = "check:reply", !.plugin = p,
                        !.hash = h, !.rec = rec]]
      BY <1>24 DEF CheckStart
    <3>1a. PICK rec \in Got(token[h], None) :
              req' = [req EXCEPT ![r] = [Idle EXCEPT !.pc = "check:reply", !.plugin = p,
                        !.hash = h, !.rec = rec]]
      BY <3>1
    <3> DEFINE q == [Idle EXCEPT !.pc = "check:reply", !.plugin = p, !.hash = h, !.rec = rec]
    <3>1b. h \in Hash /\ rec \in Token \cup {None} /\ (rec # None => Owned(rec.cmdr, h))
      BY DEF Secrets, Got, Ownership, TypeOK, StoreOK
    <3>2. q \in Request /\ StageOK(q)
      BY <3>1b DEF Request, Idle, PC, StageOK, ApprovePC, RevokePC
    <3> QED
      BY <3>1a, <3>2
  <2>2. req' \in [Req -> Request] /\ \A s \in Req : StageOK(req'[s])
    BY <2>1, <1>u
  <2> QED
    BY <1>24, <2>2 DEF CheckStart, Secrets, kv, plugin, End, Ownership, TypeOK, StoreOK
<1>25. ASSUME NEW r \in Req, NEW p \in Plugin, AuthStart(r, p) PROVE Ownership'
  <2>1. \E q \in Request : StageOK(q) /\ req' = [req EXCEPT ![r] = q]
    <3> DEFINE h == secret[p]
    <3>1. PICK rec \in Got(token[h], None) :
              \/ req' = [req EXCEPT ![r] = [Idle EXCEPT !.pc = "auth:refused", !.plugin = p]]
              \/ /\ rec # None
                 /\ req' = [req EXCEPT ![r] = [Idle EXCEPT !.pc = "auth:stamp",
                               !.hash = h, !.rec = rec]]
      BY <1>25 DEF AuthStart
    <3>2. [Idle EXCEPT !.pc = "auth:refused", !.plugin = p] \in Request
          /\ StageOK([Idle EXCEPT !.pc = "auth:refused", !.plugin = p])
      BY DEF Ownership, TypeOK, StoreOK, StageOK, Request, Idle, PC, PairPC, ApprovePC, RevokePC,
            AuthPC, Got, Row, Token, Pending
    <3>1b. h \in Hash /\ rec \in Token \cup {None} /\ (rec # None => Owned(rec.cmdr, h))
      BY <1>25 DEF AuthStart, Got, Ownership, TypeOK, StoreOK
    <3>3. ASSUME rec # None
          PROVE  [Idle EXCEPT !.pc = "auth:stamp", !.hash = h, !.rec = rec] \in Request
                 /\ StageOK([Idle EXCEPT !.pc = "auth:stamp", !.hash = h, !.rec = rec])
      BY <3>1b, <3>3 DEF Request, Idle, PC, AuthPC, StageOK, ApprovePC, RevokePC
    <3> QED
      BY <3>1, <3>2, <3>3
  <2>2. req' \in [Req -> Request] /\ \A s \in Req : StageOK(req'[s])
    BY <2>1, <1>u
  <2> QED
    BY <1>25, <2>2 DEF AuthStart, kv, plugin, End, Ownership, TypeOK, StoreOK
<1>26. ASSUME NEW p \in Plugin, Restart(p) PROVE Ownership'
  <2>1. ASSUME NEW s \in Req PROVE req'[s] \in Request /\ StageOK(req'[s])
    BY <1>26, <2>1 DEF Restart, Ownership, TypeOK, StoreOK, StageOK, Request, Idle, PC, PairPC,
          ApprovePC, RevokePC, AuthPC, Got, Row, Token, Pending
  <2>2. req' \in [Req -> Request]
    BY <1>26, <2>1 DEF Restart
  <2> QED
    BY <1>26, <2>1, <2>2 DEF Restart, kv, plugin, End, Ownership, TypeOK, StoreOK
<1>27. CASE UNCHANGED vars
  BY <1>27 DEF vars, Ownership, TypeOK, StoreOK
<1> QED
  BY <1>1, <1>2, <1>3, <1>4, <1>5, <1>6, <1>7, <1>8, <1>9, <1>10,
     <1>11, <1>12, <1>13, <1>14, <1>15, <1>16, <1>17, <1>18, <1>19,
     <1>20, <1>21, <1>22, <1>23, <1>24, <1>25, <1>26, <1>27
    DEF Next, PairSteps, ApproveSteps, RevokeSteps, PluginSteps, Environment

(* Ownership is an invariant: at every moment, in the store and in the hands *)
(* of every handler in flight, a hash travels with its own commander.       *)
THEOREM OwnershipHolds == Spec => []Ownership
<1>1. Init => Ownership
  BY ConstantsAssumption, IdleOK DEF Init, Ownership, TypeOK, StoreOK
<1> QED
  BY <1>1, OwnershipInductive, PTL DEF Spec

(* Every variable keeps its type, whatever the handlers interleave.          *)
THEOREM TypeCorrect == Spec => []TypeOK
  BY OwnershipHolds, PTL DEF Ownership

(* A credential is only ever held for the commander its plugin asked for,   *)
(* and a device list names only its own commander's devices: the check of   *)
(* devices.js:128-132 is enough, under every interleaving and KV failure.   *)
THEOREM DevicesOwned == Spec => []OwnDevicesOnly
<1>1. Ownership => OwnDevicesOnly
  BY DEF Ownership, StoreOK, Owned, OwnDevicesOnly
<1> QED
  BY <1>1, OwnershipHolds, PTL

-----------------------------------------------------------------------------
(* A check that found the credential is about the secret its plugin holds,  *)
(* and the credential is still there unless it was revoked meanwhile.       *)
Answered(q) ==
    q.pc = "check:reply" =>
        /\ q.plugin # None => secret[q.plugin] = q.hash
        /\ q.rec # None => token[q.hash] # None \/ q.hash \in revoked

Trusting == NoSelfLockout /\ \A r \in Req : Answered(req[r])

(* The credential of h never vanishes without being marked revoked.         *)
Kept == \A h \in Hash : token[h] # None \/ h \in revoked
                         => token'[h] # None \/ h \in revoked'
(* A secret once drawn stays.                                               *)
Settled == \A p \in Plugin : secret[p] # None => secret'[p] = secret[p]

(* A step that leaves a check alone, or only forgets who asked for it (a     *)
(* restart), leaves its answer true.                                        *)
LEMMA AnswerStep ==
    ASSUME Ownership, Trusting, Kept, Settled, NEW s \in Req,
           req'[s] = req[s] \/ req'[s] = [req[s] EXCEPT !.plugin = None]
    PROVE  Answered(req[s])'
<1>1. req[s] \in Request /\ StageOK(req[s]) /\ Answered(req[s])
  BY DEF Ownership, TypeOK, Trusting
<1>2. req[s].plugin \in Plugin \cup {None}
  BY <1>1 DEF Request
<1>3. req[s].pc = "check:reply" => req[s].hash \in Hash
  BY <1>1 DEF StageOK
<1>4. /\ req'[s].pc = req[s].pc /\ req'[s].hash = req[s].hash /\ req'[s].rec = req[s].rec
      /\ req'[s].plugin \in {None, req[s].plugin}
  BY <1>1 DEF Request
<1> QED
  BY <1>1, <1>2, <1>3, <1>4, ConstantsAssumption DEF Answered, Kept, Settled

(* A step that approves nobody locks nobody out.                            *)
LEMMA LockoutStep ==
    ASSUME Ownership, NoSelfLockout, Kept, Settled, approved' \subseteq approved
    PROVE  NoSelfLockout'
  BY ConstantsAssumption DEF Ownership, TypeOK, StoreOK, NoSelfLockout, Kept, Settled

(* A step that starts no check and approves no plugin.                      *)
Steady ==
    /\ Kept
    /\ Settled
    /\ approved' \subseteq approved
    /\ \A s \in Req : \/ req'[s] = req[s]
                      \/ req'[s] = [req[s] EXCEPT !.plugin = None]
                      \/ req'[s].pc # "check:reply"

(* Steady steps keep Trusting: most actions need nothing more.              *)
LEMMA SteadyStep == Ownership /\ Trusting /\ Steady => Trusting'
<1> SUFFICES ASSUME Ownership, Trusting, Steady PROVE Trusting'
  OBVIOUS
<1>1. NoSelfLockout'
  BY LockoutStep DEF Trusting, Steady
<1>2. ASSUME NEW s \in Req PROVE Answered(req[s])'
  <2>1. CASE req'[s].pc # "check:reply"
    BY <2>1 DEF Answered
  <2>2. CASE req'[s] = req[s] \/ req'[s] = [req[s] EXCEPT !.plugin = None]
    BY <2>2, AnswerStep DEF Steady
  <2> QED
    BY <2>1, <2>2 DEF Steady
<1> QED
  BY <1>1, <1>2 DEF Trusting

(* Every step keeps Trusting: one case per action.                          *)
LEMMA TrustingInductive == Ownership /\ Trusting /\ [Next]_vars => Trusting'
<1> USE ConstantsAssumption
<1> SUFFICES ASSUME Ownership, Trusting, [Next]_vars PROVE Trusting'
  OBVIOUS
<1>t. TypeOK /\ StoreOK
  BY DEF Ownership
<1>1. ASSUME NEW u \in Pilot, NEW k \in Cmdr, Bind(u, k) PROVE Steady
  BY <1>1, <1>t DEF Bind, kv, plugin, End, Kept, Settled, Steady, TypeOK
<1>2. ASSUME NEW u \in Pilot, Unbind(u) PROVE Steady
  BY <1>2, <1>t DEF Unbind, kv, plugin, End, Kept, Settled, Steady, TypeOK
<1>3. ASSUME NEW c \in Code, Expire(c) PROVE Steady
  BY <1>3, <1>t DEF Expire, kv, plugin, End, Kept, Settled, Steady, TypeOK
<1>4. ASSUME NEW p \in Plugin, Restart(p) PROVE Steady
  BY <1>4, <1>t DEF Restart, kv, plugin, End, Kept, Settled, Steady, TypeOK
<1>5. ASSUME NEW r \in Req, NEW p \in Plugin, PairStart(r, p) PROVE Steady
  <2>1. PICK h \in Secrets(p) :
          /\ secret' = [secret EXCEPT ![p] = h]
          /\ \/ UNCHANGED req
             \/ req' = [req EXCEPT ![r] = [Idle EXCEPT !.pc = "pair:scan",
                            !.plugin = p, !.cmdr = CmdrOf[p], !.hash = h]]
    BY <1>5 DEF PairStart
  <2>2. Kept /\ Settled /\ approved' = approved
    BY <1>5, <1>t, <2>1 DEF PairStart, Secrets, kv, Kept, Settled, TypeOK
  <2>3. UNCHANGED req \/ \E q : q.pc # "check:reply" /\ req' = [req EXCEPT ![r] = q]
    BY <2>1 DEF Idle
  <2>4. ASSUME NEW s \in Req PROVE req'[s] = req[s] \/ req'[s].pc # "check:reply"
    BY <1>t, <2>3 DEF TypeOK
  <2> QED
    BY <2>2, <2>4 DEF Steady
<1>6. ASSUME NEW r \in Req, PairScan(r) PROVE Steady
  BY <1>6, <1>t DEF PairScan, Idle, Request, kv, plugin, End, Kept, Settled, Steady, TypeOK
<1>7. ASSUME NEW r \in Req, PairNoCode(r) PROVE Steady
  BY <1>7, <1>t DEF PairNoCode, Idle, Request, kv, plugin, End, Kept, Settled, Steady, TypeOK
<1>8. ASSUME NEW r \in Req, PairReply(r) PROVE Steady
  BY <1>8, <1>t DEF PairReply, Idle, Request, kv, plugin, End, Kept, Settled, Steady, TypeOK
<1>9. ASSUME NEW r \in Req, ApprovePending(r) PROVE Steady
  BY <1>9, <1>t DEF ApprovePending, Idle, Request, kv, plugin, End, Kept, Settled, Steady, TypeOK
<1>10. ASSUME NEW r \in Req, ApproveDevices(r) PROVE Steady
  BY <1>10, <1>t DEF ApproveDevices, Idle, Request, kv, plugin, End, Kept, Settled, Steady, TypeOK
<1>11. ASSUME NEW r \in Req, ApproveIndex(r) PROVE Steady
  BY <1>11, <1>t DEF ApproveIndex, Idle, Request, kv, plugin, End, Kept, Settled, Steady, TypeOK
<1>12. ASSUME NEW r \in Req, ApproveDone(r) PROVE Steady
  BY <1>12, <1>t DEF ApproveDone, Idle, Request, kv, plugin, End, Kept, Settled, Steady, TypeOK
<1>13. ASSUME NEW r \in Req, RevokeDevices(r) PROVE Steady
  BY <1>13, <1>t DEF RevokeDevices, Idle, Request, kv, plugin, End, Kept, Settled, Steady, TypeOK
<1>14. ASSUME NEW r \in Req, RevokeToken(r) PROVE Steady
  BY <1>14, <1>t DEF RevokeToken, Idle, Request, kv, plugin, End, Kept, Settled, Steady, TypeOK
<1>15. ASSUME NEW r \in Req, RevokeIndex(r) PROVE Steady
  BY <1>15, <1>t DEF RevokeIndex, Idle, Request, kv, plugin, End, Kept, Settled, Steady, TypeOK
<1>16. ASSUME NEW r \in Req, AuthRefused(r) PROVE Steady
  BY <1>16, <1>t DEF AuthRefused, Idle, Request, kv, plugin, End, Kept, Settled, Steady, TypeOK
<1>17. ASSUME NEW r \in Req, WriteFails(r) PROVE Steady
  BY <1>17, <1>t DEF WriteFails, Idle, Request, kv, plugin, End, Kept, Settled, Steady, TypeOK
<1>18. ASSUME NEW r \in Req, ReplyLost(r) PROVE Steady
  BY <1>18, <1>t DEF ReplyLost, Idle, Request, kv, plugin, End, Kept, Settled, Steady, TypeOK
<1>19. ASSUME NEW r \in Req, NEW c \in Code, PairPut(r, c) PROVE Steady
  BY <1>19, <1>t DEF PairPut, Request, kv, plugin, End, Kept, Settled, Steady, TypeOK
<1>20. ASSUME NEW r \in Req, NEW u \in Pilot, NEW c \in Code, ApproveStart(r, u, c) PROVE Steady
  BY <1>20, <1>t DEF ApproveStart, Idle, kv, plugin, End, Kept, Settled, Steady, TypeOK
<1>21. ASSUME NEW r \in Req, NEW u \in Pilot, NEW c \in Code, RevokeStart(r, u, c) PROVE Steady
  BY <1>21, <1>t DEF RevokeStart, Idle, kv, plugin, End, Kept, Settled, Steady, TypeOK
<1>22. ASSUME NEW r \in Req, ApproveToken(r) PROVE Steady
  <2>1. req[r] \in Request /\ StageOK(req[r]) /\ req[r].pc = "approve:token"
    BY <1>22, <1>t DEF ApproveToken, Ownership, TypeOK
  <2>2. [cmdr |-> req[r].cmdr, id |-> req[r].id] # None
    BY <2>1, NoneAssumption DEF StageOK, ApprovePC, Token
  <2> QED
    BY <1>22, <1>t, <2>1, <2>2 DEF ApproveToken, Request, kv, plugin, End, Kept, Settled, Steady,
          TypeOK
<1>23. ASSUME NEW r \in Req, AuthStamp(r) PROVE Steady
  <2>1. req[r].rec # None
    BY <1>23 DEF AuthStamp, Ownership, StageOK
  <2> QED
    BY <1>23, <1>t, <2>1 DEF AuthStamp, Idle, kv, plugin, End, Kept, Settled, Steady, TypeOK
<1>24. ASSUME NEW r \in Req, NEW p \in Plugin, AuthStart(r, p) PROVE Steady
  <2>1. \E q : q.pc # "check:reply" /\ req' = [req EXCEPT ![r] = q]
    <3>1. PICK rec :
            \/ req' = [req EXCEPT ![r] = [Idle EXCEPT !.pc = "auth:refused", !.plugin = p]]
            \/ req' = [req EXCEPT ![r] = [Idle EXCEPT !.pc = "auth:stamp",
                              !.hash = secret[p], !.rec = rec]]
      BY <1>24 DEF AuthStart
    <3> QED
      BY <3>1 DEF Idle
  <2> QED
    BY <1>24, <1>t, <2>1 DEF AuthStart, kv, plugin, End, Kept, Settled, Steady, TypeOK
<1>25. CASE UNCHANGED vars
  BY <1>25, <1>t DEF vars, Trusting, NoSelfLockout, Answered
<1>26. ASSUME NEW r \in Req, NEW p \in Plugin, CheckStart(r, p) PROVE Trusting'
  <2>1. PICK h \in Secrets(p) :
          /\ secret' = [secret EXCEPT ![p] = h]
          /\ \E rec \in Got(token[h], None) :
                req' = [req EXCEPT ![r] = [Idle EXCEPT !.pc = "check:reply", !.plugin = p,
                            !.hash = h, !.rec = rec]]
    BY <1>26 DEF CheckStart
  <2>2. h \in Hash /\ secret[p] \in {None, h}
    BY DEF Secrets
  <2>3. Kept /\ Settled /\ approved' = approved /\ secret'[p] = h /\ UNCHANGED <<token, revoked>>
    BY <1>26, <1>t, <2>1, <2>2 DEF CheckStart, kv, Kept, Settled, TypeOK
  <2>4. NoSelfLockout'
    BY <2>3, LockoutStep DEF Trusting
  <2>5. Answered(req[r])'
    <3>1. PICK rec \in Got(token[h], None) :
            req' = [req EXCEPT ![r] = [Idle EXCEPT !.pc = "check:reply", !.plugin = p,
                        !.hash = h, !.rec = rec]]
      BY <2>1
    <3>2. req'[r].plugin = p /\ req'[r].hash = h /\ req'[r].rec = rec
      BY <1>t, <3>1 DEF TypeOK, Idle
    <3>3. rec # None => token'[h] # None
      BY <2>3 DEF Got
    <3> QED
      BY <2>3, <3>2, <3>3 DEF Answered
  <2>6. ASSUME NEW s \in Req, s # r PROVE Answered(req[s])'
    <3>1. req'[s] = req[s]
      BY <1>t, <2>1, <2>6 DEF TypeOK
    <3> QED
      BY <2>3, <3>1, AnswerStep
  <2> QED
    BY <2>4, <2>5, <2>6 DEF Trusting
<1>27. ASSUME NEW r \in Req, CheckReply(r) PROVE Trusting'
  <2> DEFINE asker == req[r].plugin
             h == req[r].hash
             rec == req[r].rec
  <2>1. req[r] \in Request /\ StageOK(req[r]) /\ Answered(req[r]) /\ req[r].pc = "check:reply"
    BY <1>27, <1>t DEF CheckReply, Ownership, Trusting, TypeOK
  <2>2. asker \in Plugin /\ h \in Hash /\ secret[asker] = h
    BY <1>27, <2>1 DEF CheckReply, StageOK, Request, Answered
  <2>3. rec # None => rec.cmdr = CmdrOf[asker]
    BY <1>t, <2>1, <2>2 DEF StageOK, StoreOK, Owned
  <2>4. /\ secret' = secret
        /\ approved' \subseteq approved \/ (rec # None /\ approved' = approved \cup {asker})
    BY <1>27, <1>t, <2>2, <2>3 DEF CheckReply, Secrets, TypeOK
  <2>5. UNCHANGED <<token, revoked>>
    BY <1>27 DEF CheckReply, kv
  <2>6. Kept /\ Settled
    BY <2>4, <2>5 DEF Kept, Settled
  <2>7. rec # None => token[h] # None \/ h \in revoked
    BY <2>1 DEF Answered
  <2>8. NoSelfLockout'
    BY <2>2, <2>4, <2>5, <2>7 DEF Trusting, NoSelfLockout
  <2>9. ASSUME NEW s \in Req PROVE Answered(req[s])'
    <3>1. req'[s] = req[s] \/ req'[s] = Idle
      BY <1>27, <1>t DEF CheckReply, End, TypeOK
    <3>2. CASE req'[s] = req[s]
      BY <2>6, <3>2, AnswerStep
    <3>3. CASE req'[s] = Idle
      BY <3>3 DEF Answered, Idle
    <3> QED
      BY <3>1, <3>2, <3>3
  <2> QED
    BY <2>8, <2>9 DEF Trusting
<1> QED
  BY <1>1, <1>2, <1>3, <1>4, <1>5, <1>6, <1>7, <1>8, <1>9, <1>10,
     <1>11, <1>12, <1>13, <1>14, <1>15, <1>16, <1>17, <1>18, <1>19,
     <1>20, <1>21, <1>22, <1>23, <1>24, <1>25, <1>26, <1>27, SteadyStep
    DEF Next, PairSteps, ApproveSteps, RevokeSteps, PluginSteps, Environment

(* The plugin polls for its approval before it presents its secret          *)
(* (load.py:266-269), and that is enough: whatever revocations, stamps and  *)
(* re-approvals run between the answer and its use, a plugin that presents  *)
(* its secret is refused only because a pilot revoked it.                   *)
THEOREM NeverLockedOut == Spec => []NoSelfLockout
<1>1. Init => Trusting
  BY DEF Init, Trusting, NoSelfLockout, Answered, Idle
<1>2. Spec => []Trusting
  BY <1>1, OwnershipHolds, TrustingInductive, PTL DEF Spec
<1> QED
  BY <1>2, PTL DEF Trusting

-----------------------------------------------------------------------------
(* The ceiling.  An index is only ever written from a list a handler read,  *)
(* and a handler on its way to add a row read a list with room in it.       *)
Bounded(list) == IsFiniteSet(list) /\ Cardinality(list) <= MaxDevices

Adding == {"approve:token", "approve:index"}

Room(q) == Bounded(q.list) /\ (q.pc \in Adding => Cardinality(q.list) < MaxDevices)

Short == (\A k \in Cmdr : Bounded(devices[k])) /\ \A r \in Req : Room(req[r])

(* A step that writes no index and reads none.                              *)
Calm ==
    /\ devices' = devices
    /\ \A s \in Req :
        \/ req'[s].list = req[s].list /\ (req'[s].pc \in Adding => req[s].pc \in Adding)
        \/ req'[s].list = {}

(* An empty list has room, since the ceiling is not zero.                   *)
LEMMA EmptyRoom == Bounded({}) /\ Cardinality({}) < MaxDevices
  BY ConstantsAssumption, FS_EmptySet DEF Bounded

(* Calm steps keep Short: most actions need nothing more.                   *)
LEMMA CalmStep == Short /\ Calm => Short'
  BY EmptyRoom DEF Short, Calm, Room, Bounded

(* Every step keeps Short: one case per action.                             *)
LEMMA ShortInductive == Ownership /\ Short /\ [Next]_vars => Short'
<1> SUFFICES ASSUME Ownership, Short, [Next]_vars PROVE Short'
  OBVIOUS
<1>t. TypeOK
  BY DEF Ownership
<1>1. ASSUME NEW u \in Pilot, NEW k \in Cmdr, Bind(u, k) PROVE Calm
  BY <1>1, <1>t DEF Bind, Idle, Request, kv, End, Calm, TypeOK, Adding
<1>2. ASSUME NEW u \in Pilot, Unbind(u) PROVE Calm
  BY <1>2, <1>t DEF Unbind, Idle, Request, kv, End, Calm, TypeOK, Adding
<1>3. ASSUME NEW c \in Code, Expire(c) PROVE Calm
  BY <1>3, <1>t DEF Expire, Idle, Request, kv, End, Calm, TypeOK, Adding
<1>4. ASSUME NEW p \in Plugin, Restart(p) PROVE Calm
  BY <1>4, <1>t DEF Restart, Idle, Request, kv, End, Calm, TypeOK, Adding
<1>5. ASSUME NEW r \in Req, PairScan(r) PROVE Calm
  BY <1>5, <1>t DEF PairScan, Idle, Request, kv, End, Calm, TypeOK, Adding
<1>6. ASSUME NEW r \in Req, PairNoCode(r) PROVE Calm
  BY <1>6, <1>t DEF PairNoCode, Idle, Request, kv, End, Calm, TypeOK, Adding
<1>7. ASSUME NEW r \in Req, PairReply(r) PROVE Calm
  BY <1>7, <1>t DEF PairReply, Idle, Request, kv, End, Calm, TypeOK, Adding
<1>8. ASSUME NEW r \in Req, ApprovePending(r) PROVE Calm
  BY <1>8, <1>t DEF ApprovePending, Idle, Request, kv, End, Calm, TypeOK, Adding
<1>9. ASSUME NEW r \in Req, ApproveToken(r) PROVE Calm
  BY <1>9, <1>t DEF ApproveToken, Idle, Request, kv, End, Calm, TypeOK, Adding
<1>10. ASSUME NEW r \in Req, ApproveDone(r) PROVE Calm
  BY <1>10, <1>t DEF ApproveDone, Idle, Request, kv, End, Calm, TypeOK, Adding
<1>11. ASSUME NEW r \in Req, RevokeToken(r) PROVE Calm
  BY <1>11, <1>t DEF RevokeToken, Idle, Request, kv, End, Calm, TypeOK, Adding
<1>12. ASSUME NEW r \in Req, AuthStamp(r) PROVE Calm
  BY <1>12, <1>t DEF AuthStamp, Idle, Request, kv, End, Calm, TypeOK, Adding
<1>13. ASSUME NEW r \in Req, AuthRefused(r) PROVE Calm
  BY <1>13, <1>t DEF AuthRefused, Idle, Request, kv, End, Calm, TypeOK, Adding
<1>14. ASSUME NEW r \in Req, CheckReply(r) PROVE Calm
  BY <1>14, <1>t DEF CheckReply, Idle, Request, kv, End, Calm, TypeOK, Adding
<1>15. ASSUME NEW r \in Req, WriteFails(r) PROVE Calm
  BY <1>15, <1>t DEF WriteFails, Idle, Request, kv, End, Calm, TypeOK, Adding
<1>16. ASSUME NEW r \in Req, ReplyLost(r) PROVE Calm
  BY <1>16, <1>t DEF ReplyLost, Idle, Request, kv, End, Calm, TypeOK, Adding
<1>17. ASSUME NEW r \in Req, NEW c \in Code, PairPut(r, c) PROVE Calm
  BY <1>17, <1>t DEF PairPut, Idle, Request, kv, End, Calm, TypeOK, Adding
<1>18. ASSUME NEW r \in Req, NEW u \in Pilot, NEW c \in Code, ApproveStart(r, u, c) PROVE Calm
  BY <1>18, <1>t DEF ApproveStart, Idle, Request, kv, End, Calm, TypeOK, Adding
<1>19. ASSUME NEW r \in Req, NEW u \in Pilot, NEW c \in Code, RevokeStart(r, u, c) PROVE Calm
  BY <1>19, <1>t DEF RevokeStart, Idle, Request, kv, End, Calm, TypeOK, Adding
<1>20. ASSUME NEW r \in Req, NEW p \in Plugin, PairStart(r, p) PROVE Calm
  <2>1. UNCHANGED req \/ \E q : q.list = {} /\ req' = [req EXCEPT ![r] = q]
    BY <1>20, <1>t DEF PairStart, Idle
  <2> QED
    BY <1>20, <1>t, <2>1 DEF PairStart, kv, Calm, TypeOK
<1>21. ASSUME NEW r \in Req, NEW p \in Plugin, AuthStart(r, p) PROVE Calm
  <2>1. UNCHANGED req \/ \E q : q.list = {} /\ req' = [req EXCEPT ![r] = q]
    BY <1>21, <1>t DEF AuthStart, Idle
  <2> QED
    BY <1>21, <1>t, <2>1 DEF AuthStart, kv, Calm, TypeOK
<1>22. ASSUME NEW r \in Req, NEW p \in Plugin, CheckStart(r, p) PROVE Calm
  <2>1. UNCHANGED req \/ \E q : q.list = {} /\ req' = [req EXCEPT ![r] = q]
    BY <1>22, <1>t DEF CheckStart, Idle
  <2> QED
    BY <1>22, <1>t, <2>1 DEF CheckStart, kv, Calm, TypeOK
<1>23. CASE UNCHANGED vars
  <2>1. req' = req /\ devices' = devices
    BY <1>23 DEF vars
  <2>2. \A s \in Req : req'[s].list = req[s].list /\ req'[s].pc = req[s].pc
    BY <2>1
  <2> QED
    BY <2>1, <2>2, CalmStep DEF Calm
<1>24. ASSUME NEW r \in Req, ApproveDevices(r) PROVE Short'
  <2>1. req[r].cmdr \in Cmdr
    BY <1>24 DEF ApproveDevices, Ownership, StageOK, ApprovePC
  <2>2. PICK list \in Got(devices[req[r].cmdr], {}) : 
          IF Cardinality(list) >= MaxDevices
          THEN End(r)
          ELSE req' = [req EXCEPT ![r].pc = "approve:token", ![r].list = list]
    BY <1>24 DEF ApproveDevices
  <2>3. Bounded(list)
    BY <2>1, <2>2, EmptyRoom DEF Got, Short
  <2>4. Room(req'[r])
    <3>1. Cardinality(list) \in Nat
      BY <2>3, FS_CardinalityType DEF Bounded
    <3>2. CASE Cardinality(list) >= MaxDevices
      <4>1. req'[r] = Idle
        BY <1>t, <2>2, <3>2 DEF End, TypeOK
      <4> QED
        BY <4>1, EmptyRoom DEF Idle, Room
    <3>3. CASE ~(Cardinality(list) >= MaxDevices)
      <4>1. req'[r].list = list
        BY <1>t, <2>2, <3>3 DEF TypeOK, Request
      <4>2. Cardinality(list) < MaxDevices
        BY <3>1, <3>3, ConstantsAssumption
      <4> QED
        BY <2>3, <4>1, <4>2 DEF Room
    <3> QED
      BY <3>2, <3>3
  <2>5. \A s \in Req \ {r} : req'[s] = req[s]
    BY <1>t, <2>2 DEF End, TypeOK
  <2>6. devices' = devices
    BY <1>24 DEF ApproveDevices, kv
  <2> QED
    BY <2>4, <2>5, <2>6 DEF Short
<1>25. ASSUME NEW r \in Req, RevokeDevices(r) PROVE Short'
  <2>1. req[r].cmdr \in Cmdr
    BY <1>25 DEF RevokeDevices, Ownership, StageOK, RevokePC
  <2>2. PICK list \in Got(devices[req[r].cmdr], {}) : 
          \/ End(r)
          \/ \E row \in list : req' = [req EXCEPT ![r].pc = "revoke:token", ![r].list = list,
                                                  ![r].hash = row.hash]
    BY <1>25 DEF RevokeDevices
  <2>3. Bounded(list)
    BY <2>1, <2>2, EmptyRoom DEF Got, Short
  <2>4. Room(req'[r])
    <3>1. CASE End(r)
      <4>1. req'[r] = Idle
        BY <1>t, <3>1 DEF End, TypeOK
      <4> QED
        BY <4>1, EmptyRoom DEF Idle, Room
    <3>2. ASSUME NEW row \in list,
                 req' = [req EXCEPT ![r].pc = "revoke:token", ![r].list = list,
                                    ![r].hash = row.hash]
          PROVE Room(req'[r])
      <4>1. req'[r].list = list /\ req'[r].pc = "revoke:token"
        BY <1>t, <3>2 DEF TypeOK, Request
      <4> QED
        BY <2>3, <4>1 DEF Room, Adding
    <3> QED
      BY <2>2, <3>1, <3>2
  <2>5. \A s \in Req \ {r} : req'[s] = req[s]
    BY <1>t, <2>2 DEF End, TypeOK
  <2>6. devices' = devices
    BY <1>25 DEF RevokeDevices, kv
  <2> QED
    BY <2>4, <2>5, <2>6 DEF Short
<1>26. ASSUME NEW r \in Req, ApproveIndex(r) PROVE Short'
  <2> DEFINE row == [id |-> req[r].id, hash |-> req[r].hash]
             list == req[r].list \cup {row}
  <2>1. devices' = [devices EXCEPT ![req[r].cmdr] = list]
    BY <1>26 DEF ApproveIndex
  <2>2. Room(req[r]) /\ req[r].pc = "approve:index"
    BY <1>26 DEF ApproveIndex, Short
  <2>3. Bounded(list)
    <3>1. IsFiniteSet(req[r].list) /\ Cardinality(req[r].list) < MaxDevices
      BY <2>2 DEF Room, Bounded, Adding
    <3>2. /\ IsFiniteSet(list)
          /\ Cardinality(list) \in {Cardinality(req[r].list), Cardinality(req[r].list) + 1}
      BY <3>1, FS_AddElement
    <3>3. Cardinality(req[r].list) \in Nat
      BY <3>1, FS_CardinalityType
    <3> QED
      BY <3>1, <3>2, <3>3, ConstantsAssumption DEF Bounded
  <2>4. \A k \in Cmdr : Bounded(devices'[k])
    BY <1>t, <2>1, <2>3 DEF Short, TypeOK
  <2>5. \A s \in Req : req'[s] = req[s] \/ Room(req'[s])
    BY <1>26, <1>t, <2>2, EmptyRoom DEF ApproveIndex, End, Idle, Room, Adding, TypeOK, Request
  <2> QED
    BY <2>4, <2>5 DEF Short
<1>27. ASSUME NEW r \in Req, RevokeIndex(r) PROVE Short'
  <2> DEFINE list == {row \in req[r].list : row.id # req[r].id}
  <2>1. devices' = [devices EXCEPT ![req[r].cmdr] = list]
    BY <1>27 DEF RevokeIndex
  <2>2. Room(req[r]) /\ req[r].pc = "revoke:index"
    BY <1>27 DEF RevokeIndex, Short
  <2>3. Bounded(list)
    <3>1. IsFiniteSet(req[r].list) /\ Cardinality(req[r].list) <= MaxDevices
      BY <2>2 DEF Room, Bounded
    <3>2. IsFiniteSet(list) /\ Cardinality(list) <= Cardinality(req[r].list)
      BY <3>1, FS_Subset
    <3>3. Cardinality(req[r].list) \in Nat /\ Cardinality(list) \in Nat
      BY <3>1, <3>2, FS_CardinalityType
    <3> QED
      BY <3>1, <3>2, <3>3, ConstantsAssumption DEF Bounded
  <2>4. \A k \in Cmdr : Bounded(devices'[k])
    BY <1>t, <2>1, <2>3 DEF Short, TypeOK
  <2>5. \A s \in Req : req'[s] = req[s] \/ Room(req'[s])
    BY <1>27, <1>t, <2>2, EmptyRoom DEF RevokeIndex, End, Idle, Room, Adding, TypeOK, Request
  <2> QED
    BY <2>4, <2>5 DEF Short
<1> QED
  BY <1>1, <1>2, <1>3, <1>4, <1>5, <1>6, <1>7, <1>8, <1>9, <1>10,
     <1>11, <1>12, <1>13, <1>14, <1>15, <1>16, <1>17, <1>18, <1>19,
     <1>20, <1>21, <1>22, <1>23, <1>24, <1>25, <1>26, <1>27, CalmStep
    DEF Next, PairSteps, ApproveSteps, RevokeSteps, PluginSteps, Environment

(* However many approvals race for the last place on a commander's device   *)
(* list, each writes the list it read plus one row, so the index never      *)
(* outgrows MAX_DEVICES (devices.js:134-135, 154-155).                      *)
THEOREM ListNeverOutgrows == Spec => []ListCeiling
<1>1. Init => Short
  <2> SUFFICES ASSUME Init PROVE Short
    OBVIOUS
  <2>1. \A k \in Cmdr : devices[k] = {}
    BY DEF Init
  <2>2. \A r \in Req : req[r].list = {}
    BY DEF Init, Idle
  <2> QED
    BY <2>1, <2>2, EmptyRoom DEF Short, Room
<1>2. Short => ListCeiling
  BY DEF Short, Bounded, ListCeiling
<1> QED
  BY <1>1, <1>2, OwnershipHolds, ShortInductive, PTL DEF Spec

-----------------------------------------------------------------------------
(* One request at a time.  A code names one secret; what a handler has read *)
(* is still so when it writes; and a revoked credential is gone.            *)
OneRequest == \A r, s \in Req : r = s

(* The device id c stands for secret h wherever it occurs in KV.            *)
NamedFor(c, h) ==
    /\ pair[c] # None => pair[c].hash = h
    /\ \A k \in Cmdr : \A row \in devices[k] : row.id = c => row.hash = h

Named ==
    /\ \A c \in Code : pair[c] # None => NamedFor(c, pair[c].hash)
    /\ \A k \in Cmdr : \A row \in devices[k] : NamedFor(row.id, row.hash)

Sensitive == {"approve:devices", "approve:token", "approve:index",
              "revoke:token", "revoke:index", "auth:stamp"}

Current(q) ==
    /\ q.pc \in {"approve:devices", "approve:token", "approve:index"} => NamedFor(q.id, q.hash)
    /\ q.pc \in {"approve:token", "approve:index"} =>
        q.list = devices[q.cmdr] \/ (KvFails /\ q.list = {})
    /\ q.pc \in {"revoke:token", "revoke:index"} =>
        /\ q.list = devices[q.cmdr]
        /\ \E row \in devices[q.cmdr] : row.id = q.id /\ row.hash = q.hash
    /\ q.pc = "revoke:index" => token[q.hash] = None
    /\ q.pc = "auth:stamp" => token[q.hash] = q.rec

Serial == Named /\ RevokedStaysDead /\ \A r \in Req : Current(req[r])

(* A step that writes no index and no credential, and leads no handler on   *)
(* to write one.                                                            *)
Harmless ==
    /\ UNCHANGED <<devices, token, revoked>>
    /\ \A c \in Code : pair'[c] \in {pair[c], None}
    /\ \A s \in Req :
        \/ req'[s].pc \notin Sensitive
        \/ /\ req'[s].pc = req[s].pc /\ req'[s].cmdr = req[s].cmdr /\ req'[s].id = req[s].id
           /\ req'[s].hash = req[s].hash /\ req'[s].rec = req[s].rec
           /\ req'[s].list = req[s].list

LEMMA HarmlessNames ==
  ASSUME UNCHANGED devices, \A c \in Code : pair'[c] \in {pair[c], None},
         NEW c \in Code, NEW h, NamedFor(c, h)
  PROVE  NamedFor(c, h)'
  BY DEF NamedFor

LEMMA HarmlessStep == Ownership /\ Serial /\ Harmless => Serial'
<1> SUFFICES ASSUME Ownership, Serial, Harmless PROVE Serial'
  OBVIOUS
<1>0. /\ TypeOK /\ UNCHANGED <<devices, token, revoked>>
      /\ \A c \in Code : pair'[c] \in {pair[c], None}
  BY DEF Ownership, Harmless
<1>1. Named'
  <2>1. ASSUME NEW c \in Code, pair'[c] # None PROVE NamedFor(c, pair[c].hash)'
    <3>1. pair'[c] = pair[c] /\ NamedFor(c, pair[c].hash)
      BY <1>0, <2>1 DEF Serial, Named
    <3> QED
      BY <1>0, <3>1 DEF NamedFor
  <2>2. ASSUME NEW k \in Cmdr, NEW row \in devices[k] PROVE NamedFor(row.id, row.hash)'
    <3>1. row.id \in Code
      BY <1>0 DEF TypeOK, Row
    <3> QED
      BY <1>0, <3>1, HarmlessNames DEF Serial, Named
  <2> QED
    BY <1>0, <2>1, <2>2 DEF Named
<1>2. RevokedStaysDead'
  BY <1>0 DEF Serial, RevokedStaysDead
<1>3. ASSUME NEW s \in Req PROVE Current(req[s])'
  <2>1. PICK q \in Request : q = req[s]
    BY <1>0 DEF TypeOK
  <2>2. Current(q) /\ StageOK(q)
    BY <2>1 DEF Serial, Ownership
  <2>3. q.pc \in {"approve:devices", "approve:token", "approve:index"} => NamedFor(q.id, q.hash)'
    BY <1>0, <2>2, HarmlessNames DEF Current, StageOK, ApprovePC
  <2>4. Current(q)'
    BY <1>0, <2>2, <2>3 DEF Current
  <2>5. req'[s].pc \notin Sensitive \/
        /\ req'[s].pc = q.pc /\ req'[s].cmdr = q.cmdr /\ req'[s].id = q.id
        /\ req'[s].hash = q.hash /\ req'[s].rec = q.rec /\ req'[s].list = q.list
    BY <2>1 DEF Harmless
  <2> QED
    BY <2>4, <2>5 DEF Current, Sensitive
<1> QED
  BY <1>1, <1>2, <1>3 DEF Serial

(* A step of the one handler there is, from w to q.                         *)
LEMMA OneSteps ==
  ASSUME OneRequest, TypeOK, NEW r \in Req, NEW q, req' = [req EXCEPT ![r] = q],
         Named', RevokedStaysDead', Current(q)'
  PROVE  Serial'
  BY DEF OneRequest, TypeOK, Serial

(* A handler reads the pending row, the index or a credential.              *)
LEMMA SerialReads ==
  ASSUME OneRequest, Ownership, Serial, NEW r \in Req,
         \/ ApprovePending(r) \/ ApproveDevices(r) \/ RevokeDevices(r)
         \/ \E p \in Plugin : AuthStart(r, p)
  PROVE  Serial'
<1>1. PICK w \in Request : w = req[r]
  BY DEF Ownership, TypeOK
<1>2. TypeOK /\ StageOK(w) /\ Current(w)
  BY <1>1 DEF Ownership, Serial
<1>3. UNCHANGED <<pair, devices, token, revoked>>
  BY DEF ApprovePending, ApproveDevices, RevokeDevices, AuthStart, kv
<1>4. Named' /\ RevokedStaysDead'
  BY <1>3 DEF Serial, Named, NamedFor, RevokedStaysDead
<1>5. CASE req' = [req EXCEPT ![r] = Idle]
  <2>1. PICK q : q = Idle
    OBVIOUS
  <2>2. Current(q)'
    BY <2>1 DEF Current, Idle
  <2> QED
    BY <1>2, <1>4, <1>5, <2>1, <2>2, OneSteps
<1>6. ASSUME NEW pend \in Got(pair[w.id], None), pend # None, w.pc = "approve:pending",
             req' = [req EXCEPT ![r].pc = "approve:devices", ![r].hash = pend.hash]
      PROVE  Serial'
  <2>1. PICK q : q = [w EXCEPT !.pc = "approve:devices", !.hash = pend.hash]
    OBVIOUS
  <2>2. req' = [req EXCEPT ![r] = q]
    BY <1>1, <1>2, <1>6, <2>1 DEF TypeOK
  <2>3. q.pc = "approve:devices" /\ q.id = w.id /\ q.hash = pend.hash
    BY <2>1 DEF Request
  <2>4. w.id \in Code /\ pair[w.id] = pend
    BY <1>2, <1>6 DEF StageOK, ApprovePC, Got
  <2>5. NamedFor(w.id, pend.hash)
    BY <1>6, <2>4 DEF Serial, Named
  <2>6. Current(q)'
    BY <1>3, <2>3, <2>5 DEF Current, NamedFor
  <2> QED
    BY <1>2, <1>4, <2>2, <2>6, OneSteps
<1>7. ASSUME NEW list \in Got(devices[w.cmdr], {}), w.pc = "approve:devices",
             req' = [req EXCEPT ![r].pc = "approve:token", ![r].list = list]
      PROVE  Serial'
  <2>1. PICK q : q = [w EXCEPT !.pc = "approve:token", !.list = list]
    OBVIOUS
  <2>2. req' = [req EXCEPT ![r] = q]
    BY <1>1, <1>2, <1>7, <2>1 DEF TypeOK
  <2>3. /\ q.pc = "approve:token" /\ q.id = w.id /\ q.hash = w.hash /\ q.cmdr = w.cmdr
        /\ q.list = list
    BY <2>1 DEF Request
  <2>4. list = devices[w.cmdr] \/ (KvFails /\ list = {})
    BY <1>7 DEF Got
  <2>5. NamedFor(w.id, w.hash)
    BY <1>2, <1>7 DEF Current
  <2>6. Current(q)'
    BY <1>3, <2>3, <2>4, <2>5 DEF Current, NamedFor
  <2> QED
    BY <1>2, <1>4, <2>2, <2>6, OneSteps
<1>8. ASSUME NEW list \in Got(devices[w.cmdr], {}), NEW row \in list, row.id = w.id,
             req' = [req EXCEPT ![r].pc = "revoke:token", ![r].list = list, ![r].hash = row.hash]
      PROVE  Serial'
  <2>1. PICK q : q = [w EXCEPT !.pc = "revoke:token", !.list = list, !.hash = row.hash]
    OBVIOUS
  <2>2. req' = [req EXCEPT ![r] = q]
    BY <1>1, <1>2, <1>8, <2>1 DEF TypeOK
  <2>3. /\ q.pc = "revoke:token" /\ q.id = w.id /\ q.hash = row.hash /\ q.cmdr = w.cmdr
        /\ q.list = list
    BY <2>1 DEF Request
  <2>4. list = devices[w.cmdr]
    BY <1>8 DEF Got
  <2>5. Current(q)'
    BY <1>3, <1>8, <2>3, <2>4 DEF Current
  <2> QED
    BY <1>2, <1>4, <2>2, <2>5, OneSteps
<1>9. ASSUME NEW p \in Plugin, AuthStart(r, p) PROVE Serial'
  <2>1. PICK rec \in Got(token[secret[p]], None) :
          \/ req' = [req EXCEPT ![r] = [Idle EXCEPT !.pc = "auth:refused", !.plugin = p]]
          \/ /\ rec # None
             /\ req' = [req EXCEPT ![r] = [Idle EXCEPT !.pc = "auth:stamp",
                            !.hash = secret[p], !.rec = rec]]
    BY <1>9 DEF AuthStart
  <2>2. PICK q \in {[Idle EXCEPT !.pc = "auth:refused", !.plugin = p],
                    [Idle EXCEPT !.pc = "auth:stamp", !.hash = secret[p], !.rec = rec]} :
            /\ req' = [req EXCEPT ![r] = q]
            /\ q = [Idle EXCEPT !.pc = "auth:stamp", !.hash = secret[p], !.rec = rec]
                 => rec # None
    BY <2>1 DEF Idle
  <2>3. \/ q.pc = "auth:refused"
        \/ q.pc = "auth:stamp" /\ q.hash = secret[p] /\ q.rec = rec /\ token[secret[p]] = rec
    BY <2>1, <2>2 DEF Idle, Got
  <2>4. Current(q)'
    BY <1>3, <2>3 DEF Current
  <2> QED
    BY <1>2, <1>4, <2>2, <2>4, OneSteps
<1>10. CASE ApprovePending(r)
  BY <1>1, <1>5, <1>6, <1>10 DEF ApprovePending, End
<1>11. CASE ApproveDevices(r)
  BY <1>1, <1>5, <1>7, <1>11 DEF ApproveDevices, End
<1>12. CASE RevokeDevices(r)
  BY <1>1, <1>5, <1>8, <1>12 DEF RevokeDevices, End
<1> QED
  BY <1>9, <1>10, <1>11, <1>12

(* A handler writes.                                                        *)
LEMMA SerialWrites ==
  ASSUME OneRequest, Ownership, Serial, NEW r \in Req,
         \/ \E c \in Code : PairPut(r, c)
         \/ ApproveToken(r) \/ ApproveIndex(r) \/ RevokeToken(r) \/ RevokeIndex(r)
  PROVE  Serial'
<1>1. PICK w \in Request : w = req[r]
  BY DEF Ownership, TypeOK
<1>2. TypeOK /\ StageOK(w) /\ Current(w)
  BY <1>1 DEF Ownership, Serial
<1>3. ASSUME NEW c \in Code, PairPut(r, c) PROVE Serial'
  <2>1. PICK q : q = [w EXCEPT !.pc = "pair:reply", !.id = c]
    OBVIOUS
  <2>2. req' = [req EXCEPT ![r] = q]
    BY <1>1, <1>2, <1>3, <2>1 DEF PairPut, TypeOK
  <2>3. Current(q)'
    BY <2>1 DEF Current, Request
  <2>4. /\ \A k \in Cmdr : \A row \in devices[k] : row.id # c
        /\ UNCHANGED <<devices, token, revoked>>
        /\ \A x \in Code \ {c} : pair'[x] = pair[x]
        /\ pair'[c] = [cmdr |-> w.cmdr, hash |-> w.hash]
    BY <1>1, <1>2, <1>3 DEF PairPut, Unused, TypeOK
  <2>5. ASSUME NEW x \in Code, NEW h, x # c, NamedFor(x, h) PROVE NamedFor(x, h)'
    BY <2>4, <2>5 DEF NamedFor
  <2>6. NamedFor(c, w.hash)'
    BY <2>4 DEF NamedFor
  <2>7. ASSUME NEW x \in Code, pair'[x] # None PROVE NamedFor(x, pair[x].hash)'
    <3>1. CASE x = c
      BY <2>4, <2>6, <3>1
    <3>2. CASE x # c
      <4>1. pair'[x] = pair[x] /\ NamedFor(x, pair[x].hash)
        BY <2>4, <2>7, <3>2 DEF Serial, Named
      <4> QED
        BY <2>4, <3>2, <4>1 DEF NamedFor
    <3> QED
      BY <3>1, <3>2
  <2>8. ASSUME NEW k \in Cmdr, NEW row \in devices[k] PROVE NamedFor(row.id, row.hash)'
    <3>1. row.id \in Code /\ row.id # c
      BY <1>2, <2>4 DEF TypeOK, Row
    <3> QED
      BY <2>5, <3>1 DEF Serial, Named
  <2>9. Named' /\ RevokedStaysDead'
    BY <2>4, <2>7, <2>8 DEF Named, RevokedStaysDead, Serial
  <2> QED
    BY <1>2, <2>2, <2>3, <2>9, OneSteps
<1>4. CASE ApproveToken(r)
  <2>1. PICK q : q = [w EXCEPT !.pc = "approve:index"]
    OBVIOUS
  <2>2. req' = [req EXCEPT ![r] = q]
    BY <1>1, <1>2, <1>4, <2>1 DEF ApproveToken, TypeOK
  <2>3. /\ q.pc = "approve:index" /\ q.id = w.id /\ q.hash = w.hash /\ q.cmdr = w.cmdr
        /\ q.list = w.list /\ w.pc = "approve:token"
    BY <1>1, <1>4, <2>1 DEF Request, ApproveToken
  <2>4. /\ UNCHANGED <<pair, devices>> /\ revoked' = revoked \ {w.hash}
        /\ \A h \in Hash : h # w.hash => token'[h] = token[h]
    BY <1>1, <1>2, <1>4 DEF ApproveToken, TypeOK
  <2>5. Named' /\ RevokedStaysDead'
    BY <2>4 DEF Serial, Named, NamedFor, RevokedStaysDead
  <2>6. Current(q)'
    BY <1>2, <2>3, <2>4 DEF Current, NamedFor
  <2> QED
    BY <1>2, <2>2, <2>5, <2>6, OneSteps
<1>5. CASE ApproveIndex(r)
  <2>1. PICK q : q = [w EXCEPT !.pc = "approve:done"]
    OBVIOUS
  <2>2. req' = [req EXCEPT ![r] = q]
    BY <1>1, <1>2, <1>5, <2>1 DEF ApproveIndex, TypeOK
  <2>3. Current(q)'
    BY <2>1 DEF Current, Request
  <2>4. PICK new : new = [id |-> w.id, hash |-> w.hash]
    OBVIOUS
  <2>5. w.pc = "approve:index" /\ w.cmdr \in Cmdr /\ w.id \in Code /\ NamedFor(w.id, w.hash)
    BY <1>1, <1>2, <1>5 DEF ApproveIndex, StageOK, ApprovePC, Current
  <2>6. /\ UNCHANGED <<pair, token, revoked>>
        /\ devices' = [devices EXCEPT ![w.cmdr] = w.list \cup {new}]
    BY <1>1, <1>5, <2>4 DEF ApproveIndex
  <2>7. w.list \subseteq devices[w.cmdr]
    BY <1>2, <2>5 DEF Current
  <2>8. \A k \in Cmdr : devices'[k] \subseteq devices[k] \cup {new}
    BY <1>2, <2>6, <2>7 DEF TypeOK
  <2>9. ASSUME NEW c \in Code, NEW h, NamedFor(c, h), c = w.id => h = w.hash
        PROVE  NamedFor(c, h)'
    BY <2>4, <2>6, <2>8, <2>9 DEF NamedFor
  <2>10. ASSUME NEW c \in Code, pair'[c] # None PROVE NamedFor(c, pair[c].hash)'
    <3>1. NamedFor(c, pair[c].hash) /\ (c = w.id => pair[c].hash = w.hash)
      BY <2>5, <2>6, <2>10 DEF Serial, Named, NamedFor
    <3>2. PICK h : h = pair[c].hash
      OBVIOUS
    <3>3. NamedFor(c, h)'
      BY <2>9, <3>1, <3>2
    <3> QED
      BY <2>6, <3>2, <3>3
  <2>11. ASSUME NEW k \in Cmdr, NEW row \in devices'[k] PROVE NamedFor(row.id, row.hash)'
    <3>1. CASE row \in devices[k]
      <4>1. row.id \in Code /\ NamedFor(row.id, row.hash) /\ (row.id = w.id => row.hash = w.hash)
        BY <1>2, <2>5, <3>1 DEF TypeOK, Row, Serial, Named, NamedFor
      <4> QED
        BY <2>9, <4>1
    <3>2. CASE row = new
      <4>1. row.id = w.id /\ row.hash = w.hash
        BY <2>4, <3>2
      <4> QED
        BY <2>5, <2>9, <4>1
    <3> QED
      BY <2>8, <3>1, <3>2
  <2>12. Named' /\ RevokedStaysDead'
    BY <2>6, <2>10, <2>11 DEF Named, RevokedStaysDead, Serial
  <2> QED
    BY <1>2, <2>2, <2>3, <2>12, OneSteps
<1>6. CASE RevokeToken(r)
  <2>1. PICK q : q = [w EXCEPT !.pc = "revoke:index"]
    OBVIOUS
  <2>2. req' = [req EXCEPT ![r] = q]
    BY <1>1, <1>2, <1>6, <2>1 DEF RevokeToken, TypeOK
  <2>3. /\ q.pc = "revoke:index" /\ q.id = w.id /\ q.hash = w.hash /\ q.cmdr = w.cmdr
        /\ q.list = w.list /\ w.pc = "revoke:token" /\ w.hash \in Hash
    BY <1>1, <1>2, <1>6, <2>1 DEF Request, RevokeToken, StageOK
  <2>4. /\ UNCHANGED <<pair, devices>> /\ revoked' = revoked \cup {w.hash}
        /\ token'[w.hash] = None
        /\ \A h \in Hash : h # w.hash => token'[h] = token[h]
    BY <1>1, <1>2, <1>6, <2>3 DEF RevokeToken, TypeOK
  <2>5. Named' /\ RevokedStaysDead'
    BY <2>4 DEF Serial, Named, NamedFor, RevokedStaysDead
  <2>6. Current(q)'
    BY <1>2, <2>3, <2>4 DEF Current
  <2> QED
    BY <1>2, <2>2, <2>5, <2>6, OneSteps
<1>7. CASE RevokeIndex(r)
  <2>1. PICK q : q = Idle /\ req' = [req EXCEPT ![r] = q]
    BY <1>7 DEF RevokeIndex, End
  <2>2. Current(q)'
    BY <2>1 DEF Current, Idle
  <2>3. w.pc = "revoke:index" /\ UNCHANGED <<pair, token, revoked>>
    BY <1>1, <1>7 DEF RevokeIndex
  <2>4. \A k \in Cmdr : devices'[k] \subseteq devices[k]
    BY <1>1, <1>2, <1>7, <2>3 DEF RevokeIndex, Current, TypeOK
  <2>5. Named' /\ RevokedStaysDead'
    BY <2>3, <2>4 DEF Serial, Named, NamedFor, RevokedStaysDead
  <2> QED
    BY <1>2, <2>1, <2>2, <2>5, OneSteps
<1> QED
  BY <1>3, <1>4, <1>5, <1>6, <1>7

(* Every other step is harmless: a credential a stamp writes back is the    *)
(* one that is there.                                                       *)
LEMMA OthersHarmless ==
  ASSUME Ownership, Serial,
         \/ UNCHANGED vars
         \/ \E u \in Pilot : Unbind(u) \/ \E k \in Cmdr : Bind(u, k)
         \/ \E c \in Code : Expire(c)
         \/ \E p \in Plugin : Restart(p)
         \/ \E r \in Req :
                \/ WriteFails(r) \/ ReplyLost(r)
                \/ \E p \in Plugin : PairStart(r, p) \/ CheckStart(r, p)
                \/ PairScan(r) \/ PairNoCode(r) \/ PairReply(r) \/ ApproveDone(r)
                \/ \E u \in Pilot, c \in Code : ApproveStart(r, u, c) \/ RevokeStart(r, u, c)
                \/ AuthStamp(r) \/ AuthRefused(r) \/ CheckReply(r)
  PROVE  Harmless
<1>1. TypeOK
  BY DEF Ownership
<1>2. ASSUME NEW r \in Req, NEW q, q.pc \notin Sensitive, req' = [req EXCEPT ![r] = q],
             UNCHANGED <<devices, token, revoked>>, \A c \in Code : pair'[c] \in {pair[c], None}
      PROVE  Harmless
  BY <1>1, <1>2 DEF Harmless, TypeOK
<1>3. ASSUME NEW r \in Req, End(r),
             UNCHANGED <<devices, token, revoked>>, \A c \in Code : pair'[c] \in {pair[c], None}
      PROVE  Harmless
  <2>1. PICK q : q = Idle
    OBVIOUS
  <2> QED
    BY <1>2, <1>3, <2>1 DEF End, Idle, Sensitive
<1>4. ASSUME req' = req, UNCHANGED <<devices, token, revoked>>,
             \A c \in Code : pair'[c] \in {pair[c], None}
      PROVE  Harmless
  BY <1>4 DEF Harmless
<1>5. ASSUME NEW r \in Req,
             WriteFails(r) \/ ReplyLost(r) \/ PairNoCode(r) \/ PairReply(r) \/ AuthRefused(r)
             \/ CheckReply(r)
      PROVE  Harmless
  BY <1>3, <1>5 DEF WriteFails, ReplyLost, PairNoCode, PairReply, AuthRefused, CheckReply, kv
<1>6. ASSUME NEW r \in Req, ApproveDone(r) PROVE Harmless
  BY <1>1, <1>3, <1>6 DEF ApproveDone, TypeOK
<1>7. ASSUME NEW r \in Req, AuthStamp(r) PROVE Harmless
  <2>1. token' = token
    BY <1>1, <1>7 DEF AuthStamp, Serial, Current, Ownership, StageOK, TypeOK
  <2> QED
    BY <1>3, <1>7, <2>1 DEF AuthStamp
<1>8. ASSUME NEW r \in Req, PairScan(r) PROVE Harmless
  <2>1. PICK q : q = [req[r] EXCEPT !.pc = "pair:put"]
    OBVIOUS
  <2>2. q.pc = "pair:put"
    BY <1>1, <2>1 DEF TypeOK, Request
  <2>3. End(r) \/ req' = [req EXCEPT ![r] = q]
    BY <1>1, <1>8, <2>1 DEF PairScan, TypeOK
  <2> QED
    BY <1>2, <1>3, <1>8, <2>2, <2>3 DEF PairScan, kv, Sensitive
<1>9. ASSUME NEW r \in Req, NEW p \in Plugin, PairStart(r, p) PROVE Harmless
  <2>1. req' = req \/ \E q : q.pc = "pair:scan" /\ req' = [req EXCEPT ![r] = q]
    BY <1>9 DEF PairStart, Idle
  <2> QED
    BY <1>2, <1>4, <1>9, <2>1 DEF PairStart, kv, Sensitive
<1>10. ASSUME NEW r \in Req, NEW p \in Plugin, CheckStart(r, p) PROVE Harmless
  <2>1. \E q : q.pc = "check:reply" /\ req' = [req EXCEPT ![r] = q]
    BY <1>10 DEF CheckStart, Idle
  <2> QED
    BY <1>2, <1>10, <2>1 DEF CheckStart, kv, Sensitive
<1>11. ASSUME NEW r \in Req, NEW u \in Pilot, NEW c \in Code,
              ApproveStart(r, u, c) \/ RevokeStart(r, u, c)
       PROVE  Harmless
  <2>1. PICK q \in {[Idle EXCEPT !.pc = "approve:pending", !.cmdr = cmdrlink[u], !.id = c],
                    [Idle EXCEPT !.pc = "revoke:devices", !.cmdr = cmdrlink[u], !.id = c]} :
            req' = [req EXCEPT ![r] = q]
    BY <1>11 DEF ApproveStart, RevokeStart
  <2>2. q.pc \in {"approve:pending", "revoke:devices"}
    BY DEF Idle
  <2> QED
    BY <1>2, <1>11, <2>1, <2>2 DEF ApproveStart, RevokeStart, kv, Sensitive
<1>12. ASSUME NEW p \in Plugin, Restart(p) PROVE Harmless
  <2>1. UNCHANGED <<pair, devices, token, revoked>>
    BY <1>12 DEF Restart, kv
  <2>2. ASSUME NEW s \in Req
        PROVE  /\ req'[s].pc = req[s].pc /\ req'[s].cmdr = req[s].cmdr /\ req'[s].id = req[s].id
               /\ req'[s].hash = req[s].hash /\ req'[s].rec = req[s].rec
               /\ req'[s].list = req[s].list
    BY <1>1, <1>12 DEF Restart, TypeOK, Request
  <2> QED
    BY <2>1, <2>2 DEF Harmless
<1>13. ASSUME NEW c \in Code, Expire(c) PROVE Harmless
  BY <1>1, <1>4, <1>13 DEF Expire, TypeOK
<1>14. ASSUME NEW u \in Pilot, Unbind(u) \/ \E k \in Cmdr : Bind(u, k) PROVE Harmless
  BY <1>4, <1>14 DEF Bind, Unbind
<1>15. CASE UNCHANGED vars
  BY <1>4, <1>15 DEF vars
<1> QED
  BY <1>5, <1>6, <1>7, <1>8, <1>9, <1>10, <1>11, <1>12, <1>13, <1>14, <1>15

(* So every step keeps it.                                                  *)
LEMMA SerialStep ==
  ASSUME OneRequest, Ownership, Serial, [Next]_vars
  PROVE  Serial'
  BY SerialReads, SerialWrites, OthersHarmless, HarmlessStep
     DEF Next, PairSteps, ApproveSteps, RevokeSteps, PluginSteps, Environment

LEMMA SerialInit == Init => Serial
  BY DEF Init, Serial, Named, RevokedStaysDead, Current, Idle

LEMMA SerialHolds == ASSUME OneRequest PROVE Spec => []Serial
<1>1. Ownership /\ Serial /\ [Next]_vars => Serial'
  BY SerialStep
<1> QED
  BY <1>1, SerialInit, OwnershipHolds, PTL DEF Spec

(* One request at a time: a revoked credential stays dead until a pilot     *)
(* approves it again, also when KV fails half way; no stamp brings it back. *)
THEOREM RevokedIsDead == ASSUME OneRequest PROVE Spec => []RevokedStaysDead
<1>1. Serial => RevokedStaysDead
  BY DEF Serial
<1> QED
  BY <1>1, SerialHolds, PTL

(* The row a revocation takes off the list names the credential it deleted, *)
(* and no other row bears its device id.                                    *)
LEMMA RevokeStep ==
  ASSUME OneRequest, Ownership, Serial, [Next]_vars, NEW r \in Req,
         req[r].pc \in RevokePC, req'[r] # req[r]
  PROVE  Hidden' \subseteq Hidden
<1>1. PICK w \in Request : w = req[r]
  BY DEF Ownership, TypeOK
<1>2. TypeOK /\ StageOK(w) /\ Current(w) /\ StoreOK
  BY <1>1 DEF Ownership, Serial
<1>3. CASE UNCHANGED <<devices, token, revoked>>
  BY <1>3 DEF Hidden, Visible
<1>4. CASE RevokeToken(r)
  <2>1. /\ devices' = devices /\ revoked' = revoked \cup {w.hash} /\ w.hash \in Hash
        /\ \A h \in Hash : h # w.hash => token'[h] = token[h]
    BY <1>1, <1>2, <1>4 DEF RevokeToken, TypeOK, StageOK
  <2> QED
    BY <2>1 DEF Hidden, Visible
<1>5. CASE RevokeIndex(r)
  <2>1. /\ UNCHANGED <<token, revoked>> /\ w.pc = "revoke:index" /\ w.cmdr \in Cmdr /\ w.id \in Code
        /\ devices' = [devices EXCEPT ![w.cmdr] = {row \in w.list : row.id # w.id}]
        /\ w.list = devices[w.cmdr]
        /\ token[w.hash] = None /\ \E row \in devices[w.cmdr] : row.id = w.id /\ row.hash = w.hash
    BY <1>1, <1>2, <1>5 DEF RevokeIndex, StageOK, RevokePC, Current
  <2>2. ASSUME NEW h \in Hash, token[h] # None, Visible(h) PROVE Visible(h)'
    <3>1. PICK row \in devices[token[h].cmdr] : row.hash = h
      BY <2>2 DEF Visible
    <3>2. token[h].cmdr \in Cmdr
      BY <1>2, <2>2 DEF TypeOK, Token
    <3>3. row.id = w.id => row.hash = w.hash
      BY <2>1, <3>1, <3>2 DEF Serial, Named, NamedFor
    <3>4. row.id # w.id
      BY <2>1, <2>2, <3>1, <3>3
    <3>5. row \in devices'[token[h].cmdr]
      BY <1>2, <2>1, <3>1, <3>2, <3>4 DEF TypeOK
    <3> QED
      BY <2>1, <3>1, <3>5 DEF Visible
  <2> QED
    BY <2>1, <2>2 DEF Hidden
<1>6. ASSUME NEW s \in Req,
             \/ PairSteps(s) \/ ApproveSteps(s) \/ PluginSteps(s)
             \/ \E u \in Pilot, c \in Code : RevokeStart(s, u, c)
      PROVE  FALSE
  <2>1. s = r
    BY DEF OneRequest
  <2> QED
    BY <1>6, <2>1 DEF PairSteps, ApproveSteps, PluginSteps, PairStart, PairScan, PairPut,
          PairNoCode,
       PairReply, ApproveStart, ApprovePending, ApproveDevices, ApproveToken, ApproveIndex,
       ApproveDone, RevokeStart, AuthStart, CheckStart, AuthStamp, AuthRefused, CheckReply, RevokePC
<1>7. CASE Environment
  BY <1>3, <1>7 DEF Environment, Bind, Unbind, WriteFails, ReplyLost, Expire, Restart, kv
<1>8. ASSUME NEW s \in Req, RevokeDevices(s) \/ RevokeToken(s) \/ RevokeIndex(s)
      PROVE  Hidden' \subseteq Hidden
  <2>1. s = r
    BY DEF OneRequest
  <2> QED
    BY <1>3, <1>4, <1>5, <1>8, <2>1 DEF RevokeDevices, kv
<1> QED
  BY <1>3, <1>6, <1>7, <1>8 DEF Next, RevokeSteps, vars

(* One request at a time: no step of a revocation hides a live credential,  *)
(* so one that stops half way hides none (devices.js:184-186).              *)
THEOREM RevocationHidesNothing == ASSUME OneRequest PROVE Spec => RevokeHidesNothing
<1>1. Ownership /\ Serial /\ [Next]_vars =>
        [\A r \in Req : req[r].pc \in RevokePC /\ req'[r] # req[r] => Hidden' \subseteq Hidden]_vars
  BY RevokeStep
<1> QED
  BY <1>1, SerialHolds, OwnershipHolds, PTL DEF Spec, RevokeHidesNothing

(* With a KV that does not fail, the only credential the card does not show *)
(* is the one whose row is about to be written.                             *)
Shown ==
    \A h \in Hash : token[h] # None =>
        Visible(h) \/ \E r \in Req : req[r].pc = "approve:index" /\ req[r].hash = h

LEMMA ShownStep ==
  ASSUME OneRequest, KvFails = FALSE, Ownership, Serial, Shown, [Next]_vars
  PROVE  Shown'
<1>1. TypeOK /\ StoreOK
  BY DEF Ownership
<1>2. ASSUME Harmless, \A s \in Req : req[s].pc = "approve:index" =>
                            req'[s].pc = "approve:index" /\ req'[s].hash = req[s].hash
      PROVE  Shown'
  BY <1>2 DEF Harmless, Shown, Visible
<1>3. ASSUME NEW r \in Req, ApproveToken(r) PROVE Shown'
  <2>1. /\ devices' = devices /\ req[r].pc = "approve:token"
        /\ \A h \in Hash : h # req[r].hash => token'[h] = token[h]
        /\ req'[r].pc = "approve:index" /\ req'[r].hash = req[r].hash
    BY <1>1, <1>3 DEF ApproveToken, TypeOK, Request
  <2>2. \A s \in Req : req[s].pc # "approve:index"
    BY <2>1 DEF OneRequest
  <2> QED
    BY <2>1, <2>2 DEF Shown, Visible
<1>4. ASSUME NEW r \in Req, ApproveIndex(r) PROVE Shown'
  <2>1. PICK w \in Request : w = req[r]
    BY <1>1 DEF TypeOK
  <2>2. w.pc = "approve:index" /\ StageOK(w) /\ Current(w) /\ w.cmdr \in Cmdr /\ w.hash \in Hash
    BY <1>4, <2>1 DEF ApproveIndex, Ownership, Serial, StageOK, ApprovePC
  <2>3. PICK new : new = [id |-> w.id, hash |-> w.hash]
    OBVIOUS
  <2>4. token' = token /\ devices' = [devices EXCEPT ![w.cmdr] = devices[w.cmdr] \cup {new}]
    BY <1>4, <2>1, <2>2, <2>3 DEF ApproveIndex, Current
  <2>5. (\A k \in Cmdr : devices[k] \subseteq devices'[k]) /\ new \in devices'[w.cmdr]
    BY <1>1, <2>2, <2>4 DEF TypeOK
  <2>6. \A s \in Req : req[s].pc = "approve:index" => req[s].hash = w.hash
    BY <2>1 DEF OneRequest
  <2>7. ASSUME NEW h \in Hash, token'[h] # None PROVE Visible(h)'
    <3>1. token[h].cmdr \in Cmdr
      BY <1>1, <2>4, <2>7 DEF TypeOK, Token
    <3>2. CASE Visible(h)
      BY <2>4, <2>5, <3>1, <3>2 DEF Visible
    <3>3. CASE h = w.hash
      <4>1. token[h].cmdr = w.cmdr
        BY <1>1, <2>2, <2>4, <2>7, <3>3 DEF StageOK, StoreOK, Owned
      <4> QED
        BY <2>3, <2>4, <2>5, <3>3, <4>1 DEF Visible
    <3> QED
      BY <2>4, <2>6, <2>7, <3>2, <3>3 DEF Shown
  <2> QED
    BY <2>7 DEF Shown
<1>5. ASSUME NEW r \in Req, RevokeToken(r) \/ RevokeIndex(r) PROVE Shown'
  <2>1. req[r].pc \in RevokePC /\ req'[r] # req[r]
    BY <1>1, <1>5 DEF RevokeToken, RevokeIndex, RevokePC, TypeOK, Request, End, Idle
  <2>2. Hidden' \subseteq Hidden
    BY <2>1, RevokeStep
  <2>3. \A s \in Req : req[s].pc # "approve:index"
    BY <2>1 DEF OneRequest, RevokePC
  <2>4. Hidden = {}
    BY <2>3 DEF Hidden, Shown
  <2>5. RevokedStaysDead'
    BY SerialStep DEF Serial
  <2> QED
    BY <2>2, <2>4, <2>5 DEF Hidden, Shown, RevokedStaysDead
<1>6. ASSUME NEW r \in Req, ApprovePending(r) \/ ApproveDevices(r) \/ RevokeDevices(r)
             \/ (\E p \in Plugin : AuthStart(r, p)) \/ \E c \in Code : PairPut(r, c)
      PROVE  Shown'
  <2>1. UNCHANGED <<devices, token>> /\ req[r].pc # "approve:index"
    BY <1>6 DEF ApprovePending, ApproveDevices, RevokeDevices, AuthStart, PairPut, kv
  <2>2. \A s \in Req : req[s].pc # "approve:index"
    BY <2>1 DEF OneRequest
  <2> QED
    BY <2>1, <2>2 DEF Shown, Visible
<1>7. ASSUME Harmless, NEW r \in Req, req[r].pc # "approve:index" PROVE Shown'
  <2>1. \A s \in Req : req[s].pc # "approve:index"
    BY <1>7 DEF OneRequest
  <2> QED
    BY <1>2, <1>7, <2>1
<1>8. ASSUME Harmless, req' = req PROVE Shown'
  BY <1>2, <1>8
<1>9. CASE UNCHANGED vars
  BY <1>8, <1>9, OthersHarmless DEF vars
<1>10. CASE Environment
  <2>1. Harmless
    BY <1>10, OthersHarmless DEF Environment
  <2>2. ASSUME NEW p \in Plugin, Restart(p) PROVE Shown'
    <3>1. \A s \in Req : req'[s].pc = req[s].pc /\ req'[s].hash = req[s].hash
      BY <1>1, <2>2 DEF Restart, TypeOK, Request
    <3> QED
      BY <1>2, <2>1, <3>1
  <2>3. ASSUME NEW r \in Req, ReplyLost(r) PROVE Shown'
    BY <1>7, <2>1, <2>3 DEF ReplyLost, ReplyPC
  <2> QED
    BY <1>8, <1>10, <2>1, <2>2, <2>3 DEF Environment, Bind, Unbind, Expire, WriteFails
<1>11. ASSUME NEW r \in Req,
              \/ \E p \in Plugin : PairStart(r, p) \/ CheckStart(r, p)
              \/ PairScan(r) \/ PairNoCode(r) \/ PairReply(r) \/ ApproveDone(r)
              \/ \E u \in Pilot, c \in Code : ApproveStart(r, u, c) \/ RevokeStart(r, u, c)
              \/ AuthStamp(r) \/ AuthRefused(r) \/ CheckReply(r)
       PROVE  Shown'
  <2>1. Harmless
    BY <1>11, OthersHarmless
  <2>2. req[r].pc # "approve:index"
    BY <1>11 DEF PairStart, CheckStart, PairScan, PairNoCode, PairReply, ApproveDone,
       ApproveStart, RevokeStart, AuthStamp, AuthRefused, CheckReply
  <2> QED
    BY <1>7, <2>1, <2>2
<1> QED
  BY <1>3, <1>4, <1>5, <1>6, <1>9, <1>10, <1>11
     DEF Next, PairSteps, ApproveSteps, RevokeSteps, PluginSteps

(* One request at a time and a KV that does not fail: whenever no request   *)
(* is in flight, the card shows every live credential (devices.js:184-186). *)
THEOREM AllShownWhenQuiet ==
  ASSUME OneRequest, KvFails = FALSE PROVE Spec => []NothingHidden
<1>1. Init => Shown
  BY DEF Init, Shown
<1>2. Ownership /\ Serial /\ Shown /\ [Next]_vars => Shown'
  BY ShownStep
<1>3. Shown => NothingHidden
  BY DEF Shown, NothingHidden, Hidden, Quiet
<1> QED
  BY <1>1, <1>2, <1>3, SerialHolds, OwnershipHolds, PTL DEF Spec
=============================================================================
