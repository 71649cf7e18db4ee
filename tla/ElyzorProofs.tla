---------------------------- MODULE ElyzorProofs ----------------------------
(***************************************************************************)
(* Theorems about the credential system, for any number of users,          *)
(* projects, credentials, verify handlers and dashboard handlers.          *)
(***************************************************************************)
EXTENDS Elyzor, TLAPS

(***************************************************************************)
(* The twenty-odd kinds of step the handlers are made of.  Several         *)
(* handlers share a kind (revokeKey and rotateService update the same      *)
(* way), and each proof below has one case per kind, not per handler.      *)
(***************************************************************************)
VerifyCases(r) ==
  \/ \E c \in Cred : Present(r, c)
  \/ /\ vreq[r].cred \in Cred
     /\ \/ ReadCache(r) \/ FindBySecretHash(r) \/ FillCache(r)
        \/ CheckRateLimit(r) \/ LogUsage(r) \/ AbortVerify(r)

Targeted == {"revokeKey", "rotateKey", "revokeService", "rotateService"}
OnKeys == {"revokeKey", "rotateKey"}
Rotating == {"rotateKey", "rotateService"}

AdminCases(a) ==
  \/ \E op \in AllOps, u \in User, p \in Project, c \in Cred \cup {None},
        n \in Name \cup {None} : /\ Call(a, op, u, p, c, n)
                               /\ (c \in Cred <=> op \in Targeted)
                               /\ (c \in Key <=> op \in OnKeys)
  \/ AssertOwnership(a, "createKey", "insert")
  \/ \E op \in AllOps : AssertOwnership(a, op, "find")
  \/ \E op \in Targeted, next \in {"update", "insert"} :
       FindActive(a, op, next) /\ (next = "insert" <=> op \in Rotating)
  \/ InsertFresh(a, "createKey", "reply", Key)
  \/ InsertFresh(a, "rotateKey", "update", Key)
  \/ \E op \in AllOps : UpdateRevoked(a, op)
  \/ \E op \in AllOps : Invalidate(a, op)
  \/ \E op \in AllOps : Reply(a, op)
  \/ FindByName(a)
  \/ \E n : InsertUnique(a, "createService", n, "reply")
  \/ \E n : InsertUnique(a, "rotateService", n, "update")
  \/ BeginCascade(a)
  \/ CascadeCredentials(a, "keys", Key)
  \/ CascadeCredentials(a, "services", Service)
  \/ CascadeUsage(a)
  \/ DropProject(a)
  \/ AbortAdmin(a)

LEMMA VerifyKinds ==
  ASSUME NEW r \in Req, Verify(r)
  PROVE  VerifyCases(r)
  BY DEF Verify, VerifyKey, VerifyServiceKey, VerifyStep, PresentService, IsService,
         ServiceReadCache, ServiceLookupFromDb, ServiceCheckRateLimit, ServiceLogUsage,
         ServiceAbort, VerifyCases, Cred

LEMMA AdminKinds ==
  ASSUME NEW a \in Admin, Dashboard(a)
  PROVE  AdminCases(a)
<1>1. CASE CreateKey(a)
  BY <1>1, StoreAssumption DEF CreateKey, CallCreateKey,
         AdminCases, AllOps, Cred, Targeted, OnKeys, Rotating
<1>2. CASE RevokeKey(a)
  BY <1>2 DEF RevokeKey, CallOnKey,
         AdminCases, AllOps, Cred, Targeted, OnKeys, Rotating
<1>3. CASE RotateKey(a)
  BY <1>3 DEF RotateKey, CallOnKey,
         AdminCases, AllOps, Cred, Targeted, OnKeys, Rotating
<1>4. CASE CreateService(a)
  BY <1>4, StoreAssumption DEF CreateService, CallCreateService, InsertService,
         AdminCases, AllOps, Cred, Targeted, OnKeys, Rotating
<1>5. CASE RevokeService(a)
  BY <1>5, StoreAssumption DEF RevokeService, CallOnService,
         AdminCases, AllOps, Cred, Targeted, OnKeys, Rotating
<1>6. CASE RotateService(a)
  BY <1>6, StoreAssumption DEF RotateService, CallOnService, InsertReplacement,
         AdminCases, AllOps, Cred, Targeted, OnKeys, Rotating
<1>7. CASE DeleteProject(a)
  BY <1>7, StoreAssumption DEF DeleteProject, CallDeleteProject,
         AdminCases, AllOps, Cred, Targeted, OnKeys, Rotating
<1>8. CASE AbortAdmin(a)
  BY <1>8 DEF AdminCases
<1> QED BY <1>1, <1>2, <1>3, <1>4, <1>5, <1>6, <1>7, <1>8 DEF Dashboard

-----------------------------------------------------------------------------
(* Types. *)

LEMMA IdleTypes ==
  /\ VerifyIdle \in VerifyHandler
  /\ AdminIdle \in AdminHandler
  BY DEF VerifyIdle, VerifyHandler, AdminIdle, AdminHandler, CascadeParts

LEMMA InitTypeOK == Init => TypeOK
  BY IdleTypes DEF Init, TypeOK

LEMMA JudgeType ==
  ASSUME NEW v \in VerifyHandler, NEW d \in {"none", "active", "revoked"}
  PROVE  Judge(v, d) \in VerifyHandler
  BY DEF Judge, VerifyHandler

LEMMA VerifyMove ==
  ASSUME NEW v \in VerifyHandler, NEW pc \in {"find", "setex", "log"},
         NEW d \in {"active", "revoked"}, NEW o \in {"success", "rate_limited"}
  PROVE  /\ [v EXCEPT !.pc = pc] \in VerifyHandler
         /\ [v EXCEPT !.pc = pc, !.data = d] \in VerifyHandler
         /\ [v EXCEPT !.pc = pc, !.result = o] \in VerifyHandler
  BY DEF VerifyHandler

LEMMA PresentType ==
  ASSUME NEW c \in Cred, NEW b \in BOOLEAN
  PROVE  [VerifyIdle EXCEPT !.pc = "get", !.cred = c, !.late = b] \in VerifyHandler
  BY DEF VerifyIdle, VerifyHandler

\* Each step of a verify handler puts a well-typed record in its slot.
LEMMA VerifySlot ==
  ASSUME TypeOK, NEW r \in Req, VerifyCases(r)
  PROVE  \E w \in VerifyHandler : vreq' = [vreq EXCEPT ![r] = w]
<1>0. vreq[r] \in VerifyHandler
  BY DEF TypeOK
<1>1. CASE \E c \in Cred : Present(r, c)
  <2>1. PICK c \in Cred : Present(r, c)
    BY <1>1
  <2>2. (c \in acked) \in BOOLEAN
    OBVIOUS
  <2>3. [VerifyIdle EXCEPT !.pc = "get", !.cred = c, !.late = c \in acked] \in VerifyHandler
    BY <2>2, PresentType
  <2> QED BY <2>1, <2>3, Zenon DEF Present
<1> SUFFICES ASSUME vreq[r].cred \in Cred
             PROVE  \E w \in VerifyHandler : vreq' = [vreq EXCEPT ![r] = w]
  BY <1>1 DEF VerifyCases
<1>2. CASE ReadCache(r)
  <2> DEFINE hit == cache[vreq[r].cred]
  <2>1. CASE hit = "none"
    <3>1. vreq' = [vreq EXCEPT ![r] = [@ EXCEPT !.pc = "find"]]
      BY <1>2, <2>1, Zenon DEF ReadCache
    <3> QED BY <1>0, <3>1, VerifyMove
  <2>2. CASE hit # "none"
    <3>1. hit \in {"none", "active", "revoked"}
      BY DEF TypeOK
    <3>2. Judge(vreq[r], hit) \in VerifyHandler
      BY <1>0, <3>1, JudgeType
    <3>3. vreq' = [vreq EXCEPT ![r] = Judge(@, hit)]
      BY <1>2, <2>2, Zenon DEF ReadCache
    <3> QED BY <3>2, <3>3, Zenon
  <2> QED BY <2>1, <2>2
<1>3. CASE FindBySecretHash(r)
  BY <1>0, <1>3, IdleTypes, VerifyMove DEF FindBySecretHash, Exists
<1>4. CASE FillCache(r)
  <2>1. vreq[r].data \in {"none", "active", "revoked"}
    BY <1>0 DEF VerifyHandler
  <2> QED BY <1>0, <1>4, <2>1, JudgeType DEF FillCache
<1>5. CASE CheckRateLimit(r)
  BY <1>0, <1>5, VerifyMove DEF CheckRateLimit
<1>6. CASE LogUsage(r)
  BY <1>6, IdleTypes DEF LogUsage
<1>7. CASE AbortVerify(r)
  BY <1>7, IdleTypes DEF AbortVerify
<1> QED BY <1>1, <1>2, <1>3, <1>4, <1>5, <1>6, <1>7 DEF VerifyCases

LEMMA RecordTypes ==
  ASSUME TypeOK, Record, usage' \subseteq Project
  PROVE  raced' \subseteq Cred /\ strays' \subseteq Cred /\ strayLogs' \subseteq Project
  BY DEF Record, NewlyRaced, TypeOK

\* The four kinds of step, with what each can do to `raced'.
LEMMA NextCases ==
  ASSUME Next
  PROVE  /\ Record
         /\ \/ \E r \in Req : VerifyCases(r) /\ UNCHANGED raced
            \/ \E a \in Admin : AdminCases(a) /\ raced' = raced \cup NewlyRaced
            \/ \E p \in Project : CreateProject(p) /\ UNCHANGED raced
            \/ \E c \in Cred : Expire(c) /\ UNCHANGED raced
<1>1. Record
  BY DEF Next
<1>2. UNCHANGED status => UNCHANGED raced
  BY <1>1 DEF Record, NewlyRaced
<1>3. ASSUME NEW r \in Req, Verify(r) PROVE VerifyCases(r) /\ UNCHANGED status
  BY <1>3, VerifyKinds DEF VerifyCases, Present, ReadCache, FindBySecretHash, FillCache,
                           CheckRateLimit, LogUsage, AbortVerify, mongo
<1>4. raced' = raced \cup NewlyRaced
  BY <1>1 DEF Record
<1> QED BY <1>1, <1>2, <1>3, <1>4, AdminKinds DEF Next, CreateProject, Expire, mongo

LEMMA VerifyTypes ==
  ASSUME TypeOK, NEW r \in Req, VerifyCases(r), Record
  PROVE  TypeOK'
<1>1. vreq' \in [Req -> VerifyHandler]
  BY VerifySlot DEF TypeOK
<1>2. cache' \in [Cred -> {"none", "active", "revoked"}]
  <2>1. CASE FillCache(r)
    <3>1. vreq[r].data \in {"none", "active", "revoked"}
      BY DEF TypeOK, VerifyHandler
    <3> QED BY <2>1, <3>1 DEF FillCache, TypeOK
  <2>2. CASE ~FillCache(r)
    BY <2>2 DEF VerifyCases, Present, ReadCache, FindBySecretHash, CheckRateLimit,
                LogUsage, AbortVerify, TypeOK
  <2> QED BY <2>1, <2>2
<1>3. usage' \subseteq Project
  <2>1. CASE LogUsage(r) /\ vreq[r].cred \in Cred
    BY <2>1, StoreAssumption DEF LogUsage, TypeOK
  <2>2. CASE ~(LogUsage(r) /\ vreq[r].cred \in Cred)
    BY <2>2 DEF VerifyCases, Present, ReadCache, FindBySecretHash, FillCache,
                CheckRateLimit, AbortVerify, TypeOK, mongo
  <2> QED BY <2>1, <2>2
<1>4. UNCHANGED <<projects, status, adm, held, acked>>
  BY DEF VerifyCases, Present, ReadCache, FindBySecretHash, FillCache, CheckRateLimit,
         LogUsage, AbortVerify, mongo, client
<1> QED BY <1>1, <1>2, <1>3, <1>4, RecordTypes DEF TypeOK

AdminPc == {"idle", "own", "find", "insert", "update", "del", "reply", "cascade", "drop"}

LEMMA AdminMove ==
  ASSUME NEW h \in AdminHandler, NEW pc \in AdminPc
  PROVE  [h EXCEPT !.pc = pc] \in AdminHandler
  BY DEF AdminHandler, AdminPc

LEMMA AdminMoveNew ==
  ASSUME NEW h \in AdminHandler, NEW pc \in AdminPc, NEW c \in Cred
  PROVE  [h EXCEPT !.pc = pc, !.new = c] \in AdminHandler
  BY DEF AdminHandler, AdminPc

LEMMA CallType ==
  ASSUME NEW op \in AllOps, NEW u \in User, NEW p \in Project, NEW c \in Cred \cup {None},
         NEW n \in Name \cup {None}
  PROVE  [AdminIdle EXCEPT !.pc = "own", !.op = op, !.user = u,
                           !.project = p, !.cred = c, !.name = n] \in AdminHandler
  BY DEF AdminIdle, AdminHandler, CascadeParts

LEMMA GotoSlot ==
  ASSUME TypeOK, NEW a \in Admin, NEW pc \in AdminPc, Goto(a, pc)
  PROVE  \E w \in AdminHandler : adm' = [adm EXCEPT ![a] = w]
<1>1. adm[a] \in AdminHandler
  BY DEF TypeOK
<1>2. [adm[a] EXCEPT !.pc = pc] \in AdminHandler
  BY <1>1, AdminMove
<1> QED BY <1>2, Zenon DEF Goto

LEMMA FinishSlot ==
  ASSUME NEW a \in Admin, Finish(a)
  PROVE  \E w \in AdminHandler : adm' = [adm EXCEPT ![a] = w]
  BY IdleTypes DEF Finish

LEMMA SettleSlot ==
  ASSUME TypeOK, NEW a \in Admin, NEW part, NEW ok \in BOOLEAN, Settle(a, part, ok)
  PROVE  \E w \in AdminHandler : adm' = [adm EXCEPT ![a] = w]
<1> DEFINE left == adm[a].todo \ {part}
           bad  == adm[a].failed \/ ~ok
<1>0. adm[a] \in AdminHandler
  BY DEF TypeOK
<1>1. left \in SUBSET CascadeParts
  BY <1>0 DEF AdminHandler
<1>2. bad \in BOOLEAN
  BY <1>0 DEF AdminHandler
<1>3. CASE left = {} /\ bad
  BY <1>3, FinishSlot, Zenon DEF Settle
<1>4. CASE left = {} /\ ~bad
  <2>1. adm' = [adm EXCEPT ![a] = [@ EXCEPT !.pc = "drop", !.todo = {}]]
    BY <1>4, Zenon DEF Settle
  <2>2. [adm[a] EXCEPT !.pc = "drop", !.todo = {}] \in AdminHandler
    BY <1>0 DEF AdminHandler
  <2> QED BY <2>1, <2>2, Zenon
<1>5. CASE left # {}
  <2>1. adm' = [adm EXCEPT ![a] = [@ EXCEPT !.todo = left, !.failed = bad]]
    BY <1>5, Zenon DEF Settle
  <2>2. [adm[a] EXCEPT !.todo = left, !.failed = bad] \in AdminHandler
    BY <1>0, <1>1, <1>2 DEF AdminHandler
  <2> QED BY <2>1, <2>2, Zenon
<1> QED BY <1>3, <1>4, <1>5

\* Each step of a dashboard handler puts a well-typed record in its slot.
LEMMA AdminSlot ==
  ASSUME TypeOK, NEW a \in Admin, AdminCases(a)
  PROVE  \E w \in AdminHandler : adm' = [adm EXCEPT ![a] = w]
<1>0. adm[a] \in AdminHandler
  BY DEF TypeOK
<1>pc. /\ "insert" \in AdminPc /\ "find" \in AdminPc /\ "update" \in AdminPc
       /\ "del" \in AdminPc /\ "reply" \in AdminPc /\ "cascade" \in AdminPc
  BY DEF AdminPc
<1>1. CASE \E op \in AllOps, u \in User, p \in Project, c \in Cred \cup {None},
              n \in Name \cup {None} : Call(a, op, u, p, c, n)
  BY <1>1, CallType, Zenon DEF Call
<1>2. CASE \/ AssertOwnership(a, "createKey", "insert")
           \/ \E op \in AllOps : AssertOwnership(a, op, "find")
  BY <1>2, <1>pc, GotoSlot, FinishSlot, Zenon DEF AssertOwnership
<1>3. CASE \E op \in Targeted, next \in {"update", "insert"} : FindActive(a, op, next)
  BY <1>3, <1>pc, GotoSlot, FinishSlot, Zenon DEF FindActive
<1>4. ASSUME NEW op, NEW next \in AdminPc, NEW K \in SUBSET Cred, InsertFresh(a, op, next, K)
      PROVE  \E w \in AdminHandler : adm' = [adm EXCEPT ![a] = w]
  <2>1. PICK c \in K : adm' = [adm EXCEPT ![a] = [@ EXCEPT !.pc = next, !.new = c]]
    BY <1>4, Zenon DEF InsertFresh
  <2>2. [adm[a] EXCEPT !.pc = next, !.new = c] \in AdminHandler
    BY <1>0, AdminMoveNew
  <2> QED BY <2>1, <2>2, Zenon
<1>5. CASE InsertFresh(a, "createKey", "reply", Key) \/ InsertFresh(a, "rotateKey", "update", Key)
  <2>1. Key \in SUBSET Cred
    BY DEF Cred
  <2> QED BY <1>4, <1>5, <1>pc, <2>1, Zenon
<1>6. CASE \E op \in AllOps : UpdateRevoked(a, op)
  BY <1>6, <1>pc, GotoSlot, Zenon DEF UpdateRevoked
<1>7. CASE \E op \in AllOps : Invalidate(a, op)
  BY <1>7, <1>pc, GotoSlot, Zenon DEF Invalidate
<1>8. CASE \E op \in AllOps : Reply(a, op)
  BY <1>8, FinishSlot, Zenon DEF Reply
<1>9. CASE FindByName(a)
  BY <1>9, <1>pc, GotoSlot, FinishSlot, Zenon DEF FindByName
<1>10. ASSUME NEW op, NEW next \in AdminPc, NEW n, InsertUnique(a, op, n, next)
       PROVE  \E w \in AdminHandler : adm' = [adm EXCEPT ![a] = w]
  <2>1. CASE Finish(a)
    BY <2>1, FinishSlot
  <2>2. CASE ~Finish(a)
    <3>1. PICK s \in Service : adm' = [adm EXCEPT ![a] = [@ EXCEPT !.pc = next, !.new = s]]
      BY <1>10, <2>2, Zenon DEF InsertUnique
    <3>2. [adm[a] EXCEPT !.pc = next, !.new = s] \in AdminHandler
      BY <1>0, AdminMoveNew DEF Cred
    <3> QED BY <3>1, <3>2, Zenon
  <2> QED BY <2>1, <2>2
<1>11. CASE \/ \E n : InsertUnique(a, "createService", n, "reply")
            \/ \E n : InsertUnique(a, "rotateService", n, "update")
  BY <1>10, <1>11, <1>pc, Zenon
<1>12. CASE BeginCascade(a)
  <2>1. CASE Finish(a)
    BY <2>1, FinishSlot
  <2>2. CASE ~Finish(a)
    <3>1. adm' = [adm EXCEPT ![a] = [@ EXCEPT !.pc = "cascade", !.todo = CascadeParts]]
      BY <1>12, <2>2, Zenon DEF BeginCascade
    <3>2. [adm[a] EXCEPT !.pc = "cascade", !.todo = CascadeParts] \in AdminHandler
      BY <1>0 DEF AdminHandler
    <3> QED BY <3>1, <3>2, Zenon
  <2> QED BY <2>1, <2>2
<1>13. CASE \/ CascadeCredentials(a, "keys", Key)
            \/ CascadeCredentials(a, "services", Service)
            \/ CascadeUsage(a)
  <2>1. TRUE \in BOOLEAN /\ FALSE \in BOOLEAN
    OBVIOUS
  <2> QED BY <1>13, <2>1, SettleSlot, Zenon DEF CascadeCredentials, CascadeUsage
<1>14. CASE DropProject(a)
  BY <1>14, FinishSlot, Zenon DEF DropProject
<1>15. CASE AbortAdmin(a)
  BY <1>15, FinishSlot, Zenon DEF AbortAdmin
<1> QED BY <1>1, <1>2, <1>3, <1>5, <1>6, <1>7, <1>8, <1>9, <1>11, <1>12, <1>13,
           <1>14, <1>15 DEF AdminCases

\* What the dashboard handlers may do to the documents, whichever of them runs.
LEMMA AdminWrites ==
  ASSUME NEW a \in Admin, AdminCases(a)
  PROVE  /\ \/ UNCHANGED status
            \/ \E c \in Cred : status[c] = "unissued" /\ Create(c)
            \/ Revoke(adm[a].cred, adm[a].project)
            \/ \E D \in SUBSET Cred : Delete(D) /\ \A c \in D : Exists(c)
         /\ \/ UNCHANGED projects
            \/ /\ At(a, "deleteProject", "drop")
               /\ projects' = [projects EXCEPT ![adm[a].project] = "deleted"]
         /\ usage' \subseteq usage
         /\ UNCHANGED cache \/ cache' = [cache EXCEPT ![adm[a].cred] = "none"]
         /\ UNCHANGED vreq
         /\ \/ UNCHANGED <<held, acked>>
            \/ /\ adm[a].pc = "reply"
               /\ held' = held \cup ({adm[a].new} \ {None})
               /\ acked' = acked \cup ({adm[a].cred} \ {None})
<1> USE DEF mongo, client
<1>1. CASE \E op \in AllOps, u \in User, p \in Project, c \in Cred \cup {None},
              n \in Name \cup {None} : Call(a, op, u, p, c, n)
  BY <1>1 DEF Call
<1>2. CASE \/ AssertOwnership(a, "createKey", "insert")
           \/ \E op \in AllOps : AssertOwnership(a, op, "find")
  BY <1>2 DEF AssertOwnership
<1>3. CASE \E op \in Targeted, next \in {"update", "insert"} : FindActive(a, op, next)
  BY <1>3 DEF FindActive
<1>4. CASE InsertFresh(a, "createKey", "reply", Key) \/ InsertFresh(a, "rotateKey", "update", Key)
  BY <1>4 DEF InsertFresh, Cred
<1>5. CASE \E op \in AllOps : UpdateRevoked(a, op)
  BY <1>5 DEF UpdateRevoked
<1>6. CASE \E op \in AllOps : Invalidate(a, op)
  BY <1>6 DEF Invalidate, DelCache
<1>7. CASE \E op \in AllOps : Reply(a, op)
  BY <1>7 DEF Reply, At
<1>8. CASE FindByName(a)
  BY <1>8 DEF FindByName
<1>9. CASE \/ \E n : InsertUnique(a, "createService", n, "reply")
           \/ \E n : InsertUnique(a, "rotateService", n, "update")
  BY <1>9 DEF InsertUnique, Cred
<1>10. CASE BeginCascade(a)
  BY <1>10 DEF BeginCascade
<1>11. CASE \/ CascadeCredentials(a, "keys", Key)
            \/ CascadeCredentials(a, "services", Service)
  <2>1. ASSUME NEW part, NEW K \in SUBSET Cred, CascadeCredentials(a, part, K)
        PROVE  /\ \E D \in SUBSET Cred : Delete(D) /\ \A c \in D : Exists(c)
               /\ UNCHANGED <<projects, usage, cache, vreq, held, acked>>
    <3>1. DocsOf(adm[a].project, K) \subseteq Cred
      BY DEF DocsOf
    <3>2. \A c \in DocsOf(adm[a].project, K) : Exists(c)
      BY DEF DocsOf, FindByIdAndProject
    <3>3. \E D \in SUBSET DocsOf(adm[a].project, K) : Delete(D)
      BY <2>1 DEF CascadeCredentials
    <3>4. UNCHANGED <<projects, usage, cache, vreq, held, acked>>
      BY <2>1 DEF CascadeCredentials
    <3> QED BY <3>1, <3>2, <3>3, <3>4
  <2> QED BY <1>11, <2>1 DEF Cred
<1>12. CASE CascadeUsage(a)
  BY <1>12 DEF CascadeUsage
<1>13. CASE DropProject(a)
  BY <1>13 DEF DropProject
<1>14. CASE AbortAdmin(a)
  BY <1>14 DEF AbortAdmin
<1> QED BY <1>1, <1>2, <1>3, <1>4, <1>5, <1>6, <1>7, <1>8, <1>9, <1>10, <1>11, <1>12,
           <1>13, <1>14 DEF AdminCases

LEMMA AdminTypes ==
  ASSUME TypeOK, NEW a \in Admin, AdminCases(a), Record
  PROVE  TypeOK'
<1>1. adm' \in [Admin -> AdminHandler]
  BY AdminSlot DEF TypeOK
<1>2. status' \in [Cred -> {"unissued", "active", "revoked", "deleted"}]
  BY AdminWrites DEF TypeOK, Create, Revoke, Delete
<1>3. projects' \in [Project -> {"unissued", "live", "deleted"}]
  BY AdminWrites DEF TypeOK
<1>4. usage' \subseteq Project
  BY AdminWrites DEF TypeOK
<1>5. cache' \in [Cred -> {"none", "active", "revoked"}]
  BY AdminWrites DEF TypeOK
<1>6. vreq' \in [Req -> VerifyHandler]
  BY AdminWrites DEF TypeOK
<1>7. held' \subseteq Cred /\ acked' \subseteq Cred
  BY AdminWrites DEF TypeOK, AdminHandler
<1> QED BY <1>1, <1>2, <1>3, <1>4, <1>5, <1>6, <1>7, RecordTypes DEF TypeOK

LEMMA NextTypeOK ==
  ASSUME TypeOK, [Next]_vars
  PROVE  TypeOK'
<1>1. CASE Next /\ \E r \in Req : VerifyCases(r) /\ UNCHANGED raced
  BY <1>1, NextCases, VerifyTypes
<1>2. CASE Next /\ \E a \in Admin : AdminCases(a) /\ raced' = raced \cup NewlyRaced
  BY <1>2, NextCases, AdminTypes
<1>3. CASE Next /\ \E p \in Project : CreateProject(p) /\ UNCHANGED raced
  BY <1>3, NextCases, RecordTypes DEF CreateProject, TypeOK, client
<1>4. CASE Next /\ \E c \in Cred : Expire(c) /\ UNCHANGED raced
  BY <1>4, NextCases, RecordTypes DEF Expire, DelCache, TypeOK, client, mongo
<1>5. CASE UNCHANGED vars
  BY <1>5 DEF vars, TypeOK, mongo, client, history
<1> QED BY <1>1, <1>2, <1>3, <1>4, <1>5, NextCases

\* Every handler, document and cache entry keeps its type in every execution.
THEOREM TypeCorrect == Spec => []TypeOK
  BY InitTypeOK, NextTypeOK, PTL DEF Spec

-----------------------------------------------------------------------------
(* The flow of a dashboard handler: where it may go next and on what grounds. *)

SameRequest(a) ==
  /\ adm'[a].op = adm[a].op /\ adm'[a].user = adm[a].user
  /\ adm'[a].project = adm[a].project /\ adm'[a].cred = adm[a].cred

\* A create or a rotation inserts the credential it is for.
Inserts(a) ==
  \E c \in Cred : /\ status[c] = "unissued" /\ ProjectOf[c] = adm[a].project /\ Create(c)
                 /\ (c \in Key <=> adm[a].op \in {"createKey", "rotateKey"})

Moved(a) ==
  /\ SameRequest(a)
  /\ adm[a].pc # "idle"
  /\ adm'[a].pc \in AdminPc \ {"idle", "own"}
  /\ adm[a].pc = "own" => FindProject(adm[a].project, adm[a].user)
  /\ adm'[a].pc = "insert" /\ adm[a].op \in Targeted =>
       adm[a].pc = "find" /\ FindByIdAndProject(adm[a].cred, adm[a].project)
  /\ adm'[a].pc = "update" =>
       /\ adm[a].op \in Targeted
       /\ \/ /\ adm[a].pc = "find" /\ FindByIdAndProject(adm[a].cred, adm[a].project)
             /\ adm[a].op \notin Rotating
          \/ adm[a].pc = "insert" /\ Inserts(a)
  /\ adm'[a].pc = "del" => adm[a].pc = "update" /\ Revoke(adm[a].cred, adm[a].project)
  /\ adm'[a].pc = "reply" => \/ adm[a].op \notin Targeted
                             \/ adm[a].pc = "del" /\ DelCache(adm[a].cred)

Called(a) ==
  /\ adm'[a].pc = "own" /\ adm'[a].op \in Ops
  /\ (adm'[a].cred \in Cred <=> adm'[a].op \in Targeted)
  /\ (adm'[a].cred \in Key <=> adm'[a].op \in OnKeys)

AdminFlow(a) ==
  /\ \A b \in Admin \ {a} : adm'[b] = adm[b]
  /\ \/ adm'[a] = AdminIdle
     \/ Called(a)
     \/ Moved(a)

LEMMA GotoFlow ==
  ASSUME TypeOK, NEW a \in Admin, NEW pc, Goto(a, pc)
  PROVE  SameRequest(a) /\ adm'[a].pc = pc
  BY DEF TypeOK, Goto, SameRequest, AdminHandler

LEMMA AdminFlows ==
  ASSUME TypeOK, NEW a \in Admin, AdminCases(a)
  PROVE  AdminFlow(a)
<1>0. adm[a] \in AdminHandler
  BY DEF TypeOK
<1>others. \A b \in Admin \ {a} : adm'[b] = adm[b]
  <2>1. PICK w \in AdminHandler : adm' = [adm EXCEPT ![a] = w]
    BY AdminSlot
  <2> QED BY <2>1 DEF TypeOK
<1>f. ASSUME Finish(a) PROVE adm'[a] = AdminIdle
  BY <1>f DEF Finish, TypeOK
<1> SUFFICES ASSUME ~Finish(a)
             PROVE  Called(a) \/ Moved(a)
  BY <1>others, <1>f DEF AdminFlow
<1> USE DEF AdminPc
<1>1. ASSUME NEW op \in AllOps, NEW u \in User, NEW p \in Project, NEW c \in Cred \cup {None},
             NEW n \in Name \cup {None}, Call(a, op, u, p, c, n), c \in Cred <=> op \in Targeted,
             c \in Key <=> op \in OnKeys
      PROVE  Called(a)
  BY <1>1 DEF Call, TypeOK, AdminIdle, Called
<1>2. CASE \/ AssertOwnership(a, "createKey", "insert")
           \/ \E op \in AllOps : AssertOwnership(a, op, "find")
  BY <1>2, GotoFlow DEF AssertOwnership, Moved, At, Targeted
<1>3. CASE \E op \in Targeted, next \in {"update", "insert"} :
             FindActive(a, op, next) /\ (next = "insert" <=> op \in Rotating)
  BY <1>3, GotoFlow DEF FindActive, Moved, At
<1>4. ASSUME NEW op, NEW next, InsertFresh(a, op, next, Key), op \in {"createKey", "rotateKey"}
      PROVE  SameRequest(a) /\ adm'[a].pc = next /\ At(a, op, "insert") /\ Inserts(a)
  <2>1. SameRequest(a) /\ adm'[a].pc = next /\ At(a, op, "insert")
    BY <1>0, <1>4 DEF InsertFresh, SameRequest, TypeOK, AdminHandler
  <2> QED BY <1>4, <2>1 DEF InsertFresh, Inserts, At, Cred
<1>5. CASE InsertFresh(a, "createKey", "reply", Key) \/ InsertFresh(a, "rotateKey", "update", Key)
  BY <1>4, <1>5 DEF Moved, At, Targeted
<1>6. CASE \E op \in AllOps : UpdateRevoked(a, op)
  BY <1>6, GotoFlow DEF UpdateRevoked, Moved, At
<1>7. CASE \E op \in AllOps : Invalidate(a, op)
  BY <1>7, GotoFlow DEF Invalidate, Moved, At
<1>8. CASE FindByName(a)
  BY <1>8, GotoFlow DEF FindByName, Moved, At, Targeted
<1>9. ASSUME NEW op, NEW next, NEW n, InsertUnique(a, op, n, next),
             op \in {"createService", "rotateService"}
      PROVE  SameRequest(a) /\ adm'[a].pc = next /\ At(a, op, "insert") /\ Inserts(a)
  <2>1. PICK s \in Service : /\ adm' = [adm EXCEPT ![a] = [@ EXCEPT !.pc = next, !.new = s]]
                             /\ status[s] = "unissued" /\ ProjectOf[s] = adm[a].project
                             /\ Create(s)
    BY <1>9, Zenon DEF InsertUnique
  <2>2. At(a, op, "insert")
    BY <1>9 DEF InsertUnique
  <2>3. s \in Cred /\ s \notin Key
    BY StoreAssumption DEF Cred
  <2>4. Inserts(a)
    BY <1>9, <2>1, <2>2, <2>3 DEF Inserts, At
  <2> QED BY <1>0, <2>1, <2>2, <2>4 DEF SameRequest, TypeOK, AdminHandler
<1>10. CASE \/ \E n : InsertUnique(a, "createService", n, "reply")
            \/ \E n : InsertUnique(a, "rotateService", n, "update")
  BY <1>9, <1>10 DEF Moved, At, Targeted
<1>11. CASE BeginCascade(a)
  <2>1. /\ adm' = [adm EXCEPT ![a] = [@ EXCEPT !.pc = "cascade", !.todo = CascadeParts]]
        /\ At(a, "deleteProject", "own") /\ FindProject(adm[a].project, adm[a].user)
    BY <1>11, Zenon DEF BeginCascade
  <2>2. SameRequest(a) /\ adm'[a].pc = "cascade"
    BY <1>0, <2>1 DEF SameRequest, TypeOK, AdminHandler
  <2> QED BY <2>1, <2>2 DEF Moved, At
<1>12. CASE \/ CascadeCredentials(a, "keys", Key)
            \/ CascadeCredentials(a, "services", Service)
            \/ CascadeUsage(a)
  <2>1. \E part, ok : Settle(a, part, ok)
    BY <1>12 DEF CascadeCredentials, CascadeUsage
  <2>2. SameRequest(a) /\ adm'[a].pc \in {adm[a].pc, "drop"}
    <3>1. \/ adm' = [adm EXCEPT ![a] = [@ EXCEPT !.pc = "drop", !.todo = {}]]
          \/ \E T, b : adm' = [adm EXCEPT ![a] = [@ EXCEPT !.todo = T, !.failed = b]]
      BY <2>1, Zenon DEF Settle
    <3>2. CASE adm' = [adm EXCEPT ![a] = [@ EXCEPT !.pc = "drop", !.todo = {}]]
      BY <1>0, <3>2 DEF SameRequest, TypeOK, AdminHandler
    <3>3. ASSUME NEW T, NEW b, adm' = [adm EXCEPT ![a] = [@ EXCEPT !.todo = T, !.failed = b]]
          PROVE  SameRequest(a) /\ adm'[a].pc = adm[a].pc
      BY <1>0, <3>3 DEF SameRequest, TypeOK, AdminHandler
    <3> QED BY <3>1, <3>2, <3>3, Zenon
  <2>3. At(a, "deleteProject", "cascade")
    BY <1>12 DEF CascadeCredentials, CascadeUsage
  <2> QED BY <2>2, <2>3 DEF Moved, At
<1>13. CASE (\E op \in AllOps : Reply(a, op)) \/ DropProject(a) \/ AbortAdmin(a)
  BY <1>13 DEF Reply, DropProject, AbortAdmin
<1> QED BY <1>1, <1>2, <1>3, <1>5, <1>6, <1>7, <1>8, <1>10, <1>11, <1>12, <1>13
        DEF AdminCases

-----------------------------------------------------------------------------
(***************************************************************************)
(* Revocation.  ImmediateUnlessRaced is not inductive: it speaks of the    *)
(* answer, and the answer was decided by what the cache held, which was    *)
(* decided by a SETEX, which was decided by a lookup made before the       *)
(* document changed.  RevocationInv says what is known at each link.       *)
(***************************************************************************)

\* What a verify handler holds: an active document about to be cached is still active or
\* was raced, and a late request holds active data only for a raced credential.
FillInv ==
  \A r \in Req :
    LET v == vreq[r] IN
      /\ v.pc # "idle" => v.cred \in Cred
      /\ v.pc = "setex" /\ v.data = "active" => status[v.cred] = "active" \/ v.cred \in raced
      /\ v.late => v.cred \in acked /\ (v.data = "active" => v.cred \in raced)
      /\ v.pc = "limit" => v.data = "active"
      /\ v.result = "success" => v.pc = "log" /\ v.data = "active"

\* What a revoking handler has achieved at each of its steps.
RevokerInv ==
  \A a \in Admin :
    LET h == adm[a] IN
      /\ h.pc # "idle" => (h.cred \in Cred <=> h.op \in Targeted)
      /\ h.pc = "update" => h.op \in Targeted
      /\ h.pc \in {"insert", "update"} /\ h.op \in Targeted =>
           status[h.cred] # "unissued" /\ ProjectOf[h.cred] = h.project
      /\ h.pc \in {"del", "reply"} /\ h.cred \in Cred => Gone(h.cred)
      /\ h.pc = "reply" /\ h.cred \in Cred => (cache[h.cred] = "active" => h.cred \in raced)

\* A confirmed revocation: the document is gone, and so is its active entry unless raced.
AckedInv ==
  \A c \in acked : Gone(c) /\ (cache[c] = "active" => c \in raced)

RevocationInv == TypeOK /\ FillInv /\ RevokerInv /\ AckedInv

LEMMA InitRevocationInv == Init => RevocationInv
  BY InitTypeOK DEF Init, RevocationInv, FillInv, RevokerInv, AckedInv, VerifyIdle, AdminIdle

\* An active cache entry for a gone credential can only come from a raced fill.
LEMMA VerifyKeepsRevocation ==
  ASSUME RevocationInv, NEW r \in Req, VerifyCases(r), UNCHANGED raced
  PROVE  FillInv' /\ RevokerInv' /\ AckedInv'
<1> USE DEF RevocationInv, Gone
<1>0. vreq[r] \in VerifyHandler /\ vreq \in [Req -> VerifyHandler]
  BY DEF TypeOK
<1>1. UNCHANGED <<status, adm, held, acked>>
  BY DEF VerifyCases, Present, ReadCache, FindBySecretHash, FillCache, CheckRateLimit,
         LogUsage, AbortVerify, mongo, client
<1>2. \A c \in Cred : cache'[c] = "active" =>
         cache[c] = "active" \/ status[c] = "active" \/ c \in raced
  <2>1. CASE FillCache(r)
    BY <1>0, <2>1 DEF FillCache, TypeOK, FillInv
  <2>2. CASE ~FillCache(r)
    BY <2>2 DEF VerifyCases, Present, ReadCache, FindBySecretHash, CheckRateLimit,
                LogUsage, AbortVerify
  <2> QED BY <2>1, <2>2
<1>3. RevokerInv' /\ AckedInv'
  BY <1>1, <1>2 DEF RevokerInv, AckedInv, TypeOK
<1>4. FillInv'
  <2> DEFINE Good(v) ==
        /\ v.pc # "idle" => v.cred \in Cred
        /\ v.pc = "setex" /\ v.data = "active" => status[v.cred] = "active" \/ v.cred \in raced
        /\ v.late => v.cred \in acked /\ (v.data = "active" => v.cred \in raced)
        /\ v.pc = "limit" => v.data = "active"
        /\ v.result = "success" => v.pc = "log" /\ v.data = "active"
  <2>1. Good(vreq[r]) /\ vreq[r].pc \in {"idle", "get", "find", "setex", "limit", "log"}
    BY <1>0 DEF FillInv, VerifyHandler
  <2>2. \A q \in Req \ {r} : vreq'[q] = vreq[q]
    <3>1. PICK w \in VerifyHandler : vreq' = [vreq EXCEPT ![r] = w]
      BY VerifySlot
    <3> QED BY <1>0, <3>1
  <2>3. SUFFICES Good(vreq'[r])
    BY <1>1, <2>2 DEF FillInv
  <2>4. Good(VerifyIdle)
    BY DEF VerifyIdle
  <2>5. CASE \E c \in Cred : Present(r, c)
    BY <1>0, <2>5 DEF Present, VerifyIdle
  <2>6. CASE ReadCache(r) /\ vreq[r].cred \in Cred
    <3> DEFINE hit == cache[vreq[r].cred]
    <3>1. CASE hit = "none"
      <4>1. vreq' = [vreq EXCEPT ![r] = [@ EXCEPT !.pc = "find"]]
        BY <2>6, <3>1, Zenon DEF ReadCache
      <4>2. vreq'[r] = [vreq[r] EXCEPT !.pc = "find"]
        BY <1>0, <4>1
      <4>3. vreq[r].result # "success"
        BY <2>1, <2>6 DEF ReadCache
      <4> QED BY <1>0, <2>1, <2>6, <4>2, <4>3 DEF VerifyHandler
    <3>2. CASE hit # "none"
      <4>1. vreq' = [vreq EXCEPT ![r] = Judge(@, hit)]
        BY <2>6, <3>2, Zenon DEF ReadCache
      <4>2. vreq[r].late => (hit = "active" => vreq[r].cred \in raced)
        BY <2>1 DEF AckedInv
      <4>3. vreq'[r] = Judge(vreq[r], hit)
        BY <1>0, <4>1
      <4>4. vreq[r].result # "success"
        BY <2>1, <2>6 DEF ReadCache
      <4> QED BY <1>0, <2>1, <2>6, <4>2, <4>3, <4>4 DEF Judge, VerifyHandler
    <3> QED BY <3>1, <3>2
  <2>7. CASE FindBySecretHash(r)
    <3>1. vreq'[r] \in {VerifyIdle, [vreq[r] EXCEPT !.pc = "setex", !.data = status[vreq[r].cred]]}
      BY <1>0, <2>7 DEF FindBySecretHash
    <3>2. vreq[r].late => status[vreq[r].cred] # "active"
      BY <2>1 DEF AckedInv
    <3>3. CASE vreq'[r] = [vreq[r] EXCEPT !.pc = "setex", !.data = status[vreq[r].cred]]
      BY <1>0, <2>1, <2>7, <3>2, <3>3 DEF FindBySecretHash, VerifyHandler
    <3>4. CASE vreq'[r] = VerifyIdle
      BY <3>4 DEF VerifyIdle
    <3> QED BY <3>1, <3>3, <3>4
  <2>8. CASE FillCache(r)
    BY <1>0, <2>1, <2>8 DEF FillCache, Judge, VerifyHandler
  <2>9. CASE CheckRateLimit(r)
    BY <1>0, <2>1, <2>9 DEF CheckRateLimit, VerifyHandler
  <2>10. CASE LogUsage(r) \/ AbortVerify(r)
    BY <1>0, <2>4, <2>10 DEF LogUsage, AbortVerify
  <2> QED BY <2>5, <2>6, <2>7, <2>8, <2>9, <2>10 DEF VerifyCases
<1> QED BY <1>3, <1>4

LEMMA AdminKeepsRevocation ==
  ASSUME RevocationInv, NEW a \in Admin, AdminCases(a), raced' = raced \cup NewlyRaced
  PROVE  FillInv' /\ RevokerInv' /\ AckedInv'
<1> USE DEF RevocationInv
<1>0. /\ adm[a] \in AdminHandler
      /\ status \in [Cred -> {"unissued", "active", "revoked", "deleted"}]
      /\ cache \in [Cred -> {"none", "active", "revoked"}]
  BY DEF TypeOK
<1>1. \A c \in Cred : /\ Gone(c) => Gone(c)'
                      /\ status[c] # "unissued" => status'[c] # "unissued"
  BY <1>0, AdminWrites DEF Create, Revoke, Delete, Gone, FindByIdAndProject
<1>2. \A c \in Cred : cache'[c] = "active" => cache[c] = "active"
  BY <1>0, AdminWrites
<1>3. UNCHANGED vreq /\ raced \subseteq raced' /\ acked \subseteq acked'
  BY AdminWrites
<1>4. FillInv'
  <2> SUFFICES ASSUME NEW r \in Req, vreq[r].pc = "setex", vreq[r].data = "active",
                      status[vreq[r].cred] = "active", status'[vreq[r].cred] # "active"
               PROVE  vreq[r].cred \in raced'
    BY <1>3 DEF FillInv
  <2>1. vreq[r].cred \in Cred
    BY DEF FillInv
  <2> QED BY <2>1 DEF NewlyRaced
<1>5. AckedInv'
  <2> SUFFICES ASSUME NEW c \in acked'
               PROVE  Gone(c)' /\ (cache'[c] = "active" => c \in raced')
    BY DEF AckedInv
  <2>1. CASE c \in acked
    BY <1>1, <1>2, <1>3, <2>1 DEF AckedInv, TypeOK
  <2>2. CASE c \notin acked
    <3>1. adm[a].pc = "reply" /\ c = adm[a].cred /\ c \in Cred
      BY <1>0, <2>2, AdminWrites DEF AdminHandler
    <3> QED BY <1>1, <1>2, <1>3, <3>1 DEF RevokerInv
  <2> QED BY <2>1, <2>2
<1>6. RevokerInv'
  <2> DEFINE GoneNext(c) == status'[c] \in {"revoked", "deleted"}
             Good(h) ==
        /\ h.pc # "idle" => (h.cred \in Cred <=> h.op \in Targeted)
        /\ h.pc = "update" => h.op \in Targeted
        /\ h.pc \in {"insert", "update"} /\ h.op \in Targeted =>
             status'[h.cred] # "unissued" /\ ProjectOf[h.cred] = h.project
        /\ h.pc \in {"del", "reply"} /\ h.cred \in Cred => GoneNext(h.cred)
        /\ h.pc = "reply" /\ h.cred \in Cred => (cache'[h.cred] = "active" => h.cred \in raced')
  <2> SUFFICES ASSUME NEW b \in Admin
               PROVE  Good(adm'[b])
    BY DEF RevokerInv, Gone
  <2>1. Good(adm[b])
    BY <1>1, <1>2, <1>3 DEF RevokerInv, Gone
  <2>2. AdminFlow(a)
    BY AdminFlows
  <2>3. CASE b # a
    BY <2>1, <2>2, <2>3 DEF AdminFlow
  <2>4. CASE b = a /\ adm'[a] = AdminIdle
    BY <2>4 DEF AdminIdle
  <2>5. CASE b = a /\ Called(a)
    BY <2>5 DEF Called
  <2>6. CASE b = a /\ Moved(a)
    <3> DEFINE c == adm[a].cred
               pc == adm'[a].pc
    <3>1. /\ adm'[a].op = adm[a].op /\ adm'[a].project = adm[a].project /\ adm'[a].cred = c
          /\ c \in Cred <=> adm[a].op \in Targeted
      BY <2>6 DEF Moved, SameRequest, RevokerInv
    <3>2. pc \in {"insert", "update"} /\ adm[a].op \in Targeted =>
            status'[c] # "unissued" /\ ProjectOf[c] = adm[a].project
      BY <1>1, <2>1, <2>6, <3>1 DEF Moved, RevokerInv, FindByIdAndProject, Exists
    <3>3. pc = "del" /\ c \in Cred => GoneNext(c)
      <4> SUFFICES ASSUME pc = "del", c \in Cred PROVE GoneNext(c)
        OBVIOUS
      <4>1. adm[a].pc = "update" /\ Revoke(c, adm[a].project)
        BY <2>6 DEF Moved
      <4>2. status[c] # "unissued" /\ ProjectOf[c] = adm[a].project
        BY <4>1, <3>1 DEF RevokerInv
      <4> QED BY <1>0, <4>1, <4>2 DEF Revoke, FindByIdAndProject, Exists, Gone
    <3>4. pc = "reply" /\ c \in Cred => GoneNext(c) /\ cache'[c] # "active"
      <4> SUFFICES ASSUME pc = "reply", c \in Cred PROVE GoneNext(c) /\ cache'[c] # "active"
        OBVIOUS
      <4>1. adm[a].pc = "del" /\ DelCache(c)
        BY <2>6, <3>1 DEF Moved
      <4> QED BY <1>0, <1>1, <4>1 DEF DelCache, RevokerInv, Gone
    <3>5. pc = "update" => adm[a].op \in Targeted
      BY <2>6 DEF Moved
    <3> QED BY <2>6, <3>1, <3>2, <3>3, <3>4, <3>5
  <2> QED BY <2>2, <2>3, <2>4, <2>5, <2>6 DEF AdminFlow
<1> QED BY <1>4, <1>5, <1>6

LEMMA NextRevocationInv ==
  ASSUME RevocationInv, [Next]_vars
  PROVE  RevocationInv'
<1>0. TypeOK'
  BY NextTypeOK DEF RevocationInv
<1>1. CASE \E r \in Req : VerifyCases(r) /\ UNCHANGED raced
  BY <1>0, <1>1, VerifyKeepsRevocation DEF RevocationInv
<1>2. CASE \E a \in Admin : AdminCases(a) /\ raced' = raced \cup NewlyRaced
  BY <1>0, <1>2, AdminKeepsRevocation DEF RevocationInv
<1>3. CASE \E p \in Project : CreateProject(p) /\ UNCHANGED raced
  BY <1>0, <1>3 DEF RevocationInv, CreateProject, FillInv, RevokerInv, AckedInv, Gone, client
<1>4. CASE \E c \in Cred : Expire(c) /\ UNCHANGED raced
  <2>1. \A c \in Cred : cache'[c] = "active" => cache[c] = "active"
    BY <1>4 DEF Expire, DelCache, RevocationInv, TypeOK
  <2>2. UNCHANGED <<status, vreq, adm, held, acked, raced>>
    BY <1>4 DEF Expire, mongo, client
  <2> QED BY <1>0, <2>1, <2>2 DEF RevocationInv, FillInv, RevokerInv, AckedInv, Gone, TypeOK
<1>5. CASE UNCHANGED vars
  BY <1>0, <1>5 DEF RevocationInv, FillInv, RevokerInv, AckedInv, Gone, vars, mongo, client, history
<1> QED BY <1>1, <1>2, <1>3, <1>4, <1>5, NextCases

LEMMA RevocationInvHolds == Spec => []RevocationInv
  BY InitRevocationInv, NextRevocationInv, PTL DEF Spec

\* Whatever fails and however many handlers run, a request that arrives after a confirmed
\* revocation is answered valid only if the revocation raced a lookup of that credential.
THEOREM RevocationImmediateUnlessRaced == Spec => []ImmediateUnlessRaced
<1>1. RevocationInv => ImmediateUnlessRaced
  BY DEF RevocationInv, FillInv, ImmediateUnlessRaced
<1> QED BY <1>1, RevocationInvHolds, PTL

-----------------------------------------------------------------------------
(* A settled credential stays settled. *)

LEMMA VerifyKeepsSettled ==
  ASSUME TypeOK, NEW r \in Req, VerifyCases(r), NEW c \in Cred, Settled(c)
  PROVE  Settled(c)'
<1> USE DEF Settled, Gone
<1> DEFINE Stale(v) == v.cred = c /\ v.data = "active" /\ v.pc \in {"setex", "limit"}
<1>0. vreq[r] \in VerifyHandler /\ vreq \in [Req -> VerifyHandler]
  BY DEF TypeOK
<1>1. UNCHANGED status
  BY DEF VerifyCases, Present, ReadCache, FindBySecretHash, FillCache, CheckRateLimit,
         LogUsage, AbortVerify, mongo
<1>2. cache'[c] # "active"
  BY <1>0 DEF VerifyCases, Present, ReadCache, FindBySecretHash, FillCache, CheckRateLimit,
              LogUsage, AbortVerify, TypeOK
<1>3. \A q \in Req \ {r} : vreq'[q] = vreq[q]
  <2>1. PICK w \in VerifyHandler : vreq' = [vreq EXCEPT ![r] = w]
    BY VerifySlot
  <2> QED BY <1>0, <2>1
<1>4. ~Stale(vreq'[r])
  <2>1. CASE \E d \in Cred : Present(r, d)
    BY <1>0, <2>1 DEF Present, VerifyIdle
  <2>2. CASE ReadCache(r)
    <3>1. CASE cache[vreq[r].cred] = "none"
      <4>1. vreq' = [vreq EXCEPT ![r] = [@ EXCEPT !.pc = "find"]]
        BY <2>2, <3>1, Zenon DEF ReadCache
      <4> QED BY <1>0, <4>1 DEF VerifyHandler
    <3>2. CASE cache[vreq[r].cred] # "none"
      <4>1. vreq' = [vreq EXCEPT ![r] = Judge(@, cache[vreq[r].cred])]
        BY <2>2, <3>2, Zenon DEF ReadCache
      <4> QED BY <1>0, <4>1 DEF Judge, VerifyHandler
    <3> QED BY <3>1, <3>2
  <2>3. CASE FindBySecretHash(r)
    BY <1>0, <2>3 DEF FindBySecretHash, VerifyIdle, VerifyHandler
  <2>4. CASE FillCache(r)
    BY <1>0, <2>4 DEF FillCache, Judge, VerifyHandler
  <2>5. CASE CheckRateLimit(r)
    BY <1>0, <2>5 DEF CheckRateLimit, VerifyHandler
  <2>6. CASE LogUsage(r) \/ AbortVerify(r)
    BY <1>0, <2>6 DEF LogUsage, AbortVerify, VerifyIdle
  <2> QED BY <2>1, <2>2, <2>3, <2>4, <2>5, <2>6 DEF VerifyCases
<1> QED BY <1>1, <1>2, <1>3, <1>4

LEMMA AdminKeepsSettled ==
  ASSUME TypeOK, NEW a \in Admin, AdminCases(a), NEW c \in Cred, Settled(c)
  PROVE  Settled(c)'
<1>1. Gone(c)'
  BY AdminWrites DEF Settled, TypeOK, Create, Revoke, Delete, Gone, FindByIdAndProject
<1>2. cache'[c] # "active" /\ UNCHANGED vreq
  BY AdminWrites DEF Settled, TypeOK
<1> QED BY <1>1, <1>2 DEF Settled

\* Nothing the system does, in any order and with any failure, makes a settled credential
\* usable again: not a slow lookup, not a second revoke, not a rotation.
THEOREM SettledStaysSettled == Spec => SettledIsFinal
<1>1. TypeOK /\ [Next]_vars => [\A c \in Cred : Settled(c) => Settled(c)']_vars
  <2> SUFFICES ASSUME TypeOK, Next, NEW c \in Cred, Settled(c)
               PROVE  Settled(c)'
    OBVIOUS
  <2>1. CASE \E r \in Req : VerifyCases(r) /\ UNCHANGED raced
    BY <2>1, VerifyKeepsSettled
  <2>2. CASE \E a \in Admin : AdminCases(a) /\ raced' = raced \cup NewlyRaced
    BY <2>2, AdminKeepsSettled
  <2>3. CASE \E p \in Project : CreateProject(p) /\ UNCHANGED raced
    BY <2>3 DEF CreateProject, Settled, Gone
  <2>4. CASE \E d \in Cred : Expire(d) /\ UNCHANGED raced
    BY <2>4 DEF Expire, DelCache, TypeOK, Settled, Gone, mongo
  <2> QED BY <2>1, <2>2, <2>3, <2>4, NextCases
<1> QED BY <1>1, TypeCorrect, PTL DEF Spec, SettledIsFinal

-----------------------------------------------------------------------------
(* Tenants and deleted projects. *)

\* A handler past the ownership check runs for the owner of its project.
OwnInv ==
  \A a \in Admin : adm[a].pc \notin {"idle", "own"} => Owner[adm[a].project] = adm[a].user

LEMMA NextOwnInv ==
  ASSUME TypeOK, OwnInv, [Next]_vars
  PROVE  OwnInv'
<1>1. CASE \E a \in Admin : AdminCases(a) /\ raced' = raced \cup NewlyRaced
  <2>1. PICK a \in Admin : AdminCases(a)
    BY <1>1
  <2>2. AdminFlow(a)
    BY <2>1, AdminFlows
  <2>3. CASE adm'[a] = AdminIdle
    BY <2>2, <2>3 DEF OwnInv, AdminFlow, AdminIdle
  <2>4. CASE Called(a)
    BY <2>2, <2>4 DEF OwnInv, AdminFlow, Called
  <2>5. CASE Moved(a)
    BY <2>2, <2>5 DEF OwnInv, AdminFlow, Moved, SameRequest, FindProject
  <2> QED BY <2>2, <2>3, <2>4, <2>5 DEF AdminFlow
<1>2. CASE UNCHANGED adm
  BY <1>2 DEF OwnInv
<1>3. CASE \E r \in Req : VerifyCases(r) /\ UNCHANGED raced
  <2>1. UNCHANGED adm
    BY <1>3 DEF VerifyCases, Present, ReadCache, FindBySecretHash, FillCache,
                             CheckRateLimit, LogUsage, AbortVerify
  <2> QED BY <1>2, <2>1
<1> QED BY <1>1, <1>2, <1>3, NextCases DEF CreateProject, Expire, vars

LEMMA OwnInvHolds == Spec => []OwnInv
<1>1. Init => OwnInv
  BY DEF Init, OwnInv, AdminIdle
<1> QED BY <1>1, NextOwnInv, TypeCorrect, PTL DEF Spec

\* A handler changes documents of the project it was called for, after the check, and
\* moves on as it does.
LEMMA StatusChange ==
  ASSUME TypeOK, NEW a \in Admin, AdminCases(a), NEW c \in Cred, status'[c] # status[c]
  PROVE  /\ ProjectOf[c] = adm[a].project
         /\ adm[a].pc \notin {"idle", "own"}
         /\ adm'[a] # adm[a]
<1>0. adm[a] \in AdminHandler /\ status \in [Cred -> {"unissued", "active", "revoked", "deleted"}]
  BY DEF TypeOK
<1>f. Finish(a) => adm'[a].pc = "idle"
  BY DEF Finish, TypeOK, AdminIdle
<1>fresh. ASSUME NEW next \in {"reply", "update"}, NEW d, adm[a].pc = "insert",
                 ProjectOf[d] = adm[a].project, Create(d),
                 adm' = [adm EXCEPT ![a] = [@ EXCEPT !.pc = next, !.new = d]]
          PROVE  ProjectOf[c] = adm[a].project /\ adm'[a] # adm[a]
  <2>1. adm'[a].pc = next
    BY <1>0, <1>fresh DEF TypeOK, AdminHandler
  <2> QED BY <1>0, <1>fresh, <2>1 DEF Create
<1>1. CASE InsertFresh(a, "createKey", "reply", Key) \/ InsertFresh(a, "rotateKey", "update", Key)
  <2>1. ASSUME NEW op, NEW next \in {"reply", "update"}, NEW K, InsertFresh(a, op, next, K)
        PROVE  adm[a].pc = "insert" /\ ProjectOf[c] = adm[a].project /\ adm'[a] # adm[a]
    <3>1. PICK d \in K : /\ ProjectOf[d] = adm[a].project /\ Create(d)
                         /\ adm' = [adm EXCEPT ![a] = [@ EXCEPT !.pc = next, !.new = d]]
      BY <2>1, Zenon DEF InsertFresh
    <3>2. adm[a].pc = "insert"
      BY <2>1 DEF InsertFresh, At
    <3> QED BY <3>1, <3>2, <1>fresh
  <2> QED BY <1>1, <2>1
<1>2. CASE \E op \in AllOps : UpdateRevoked(a, op)
  <2>1. adm'[a].pc = "del" /\ adm[a].pc = "update" /\ Revoke(adm[a].cred, adm[a].project)
    BY <1>2, GotoFlow DEF UpdateRevoked, At
  <2> QED BY <1>0, <2>1 DEF Revoke, FindByIdAndProject
<1>3. CASE \/ \E n : InsertUnique(a, "createService", n, "reply")
           \/ \E n : InsertUnique(a, "rotateService", n, "update")
  <2>1. ASSUME NEW op, NEW next \in {"reply", "update"}, NEW n, InsertUnique(a, op, n, next)
        PROVE  adm[a].pc = "insert" /\ ProjectOf[c] = adm[a].project /\ adm'[a] # adm[a]
    <3>1. PICK d \in Service : /\ ProjectOf[d] = adm[a].project /\ Create(d)
                               /\ adm' = [adm EXCEPT ![a] = [@ EXCEPT !.pc = next, !.new = d]]
      BY <2>1, Zenon DEF InsertUnique
    <3>2. adm[a].pc = "insert"
      BY <2>1 DEF InsertUnique, At
    <3> QED BY <3>1, <3>2, <1>fresh
  <2> QED BY <1>3, <2>1
<1>4. CASE CascadeCredentials(a, "keys", Key) \/ CascadeCredentials(a, "services", Service)
  <2>1. PICK part, ok, K, D :
           /\ part \in adm[a].todo /\ D \subseteq DocsOf(adm[a].project, K)
           /\ At(a, "deleteProject", "cascade") /\ Delete(D) /\ Settle(a, part, ok)
    BY <1>4, Zenon DEF CascadeCredentials
  <2>2. c \in D
    BY <1>0, <2>1 DEF Delete
  <2>3. ProjectOf[c] = adm[a].project
    BY <2>1, <2>2 DEF DocsOf, FindByIdAndProject
  <2>4. adm'[a] # adm[a]
    <3>1. \/ Finish(a)
          \/ adm' = [adm EXCEPT ![a] = [@ EXCEPT !.pc = "drop", !.todo = {}]]
          \/ \E b : adm' = [adm EXCEPT ![a] = [@ EXCEPT !.todo = adm[a].todo \ {part}, !.failed = b]]
      BY <2>1, Zenon DEF Settle
    <3>2. CASE Finish(a)
      BY <1>f, <2>1, <3>2 DEF At
    <3>3. CASE adm' = [adm EXCEPT ![a] = [@ EXCEPT !.pc = "drop", !.todo = {}]]
      BY <1>0, <2>1, <3>3 DEF At, TypeOK, AdminHandler
    <3>4. ASSUME NEW b, adm' = [adm EXCEPT ![a] = [@ EXCEPT !.todo = adm[a].todo \ {part}, !.failed = b]]
          PROVE  adm'[a].todo = adm[a].todo \ {part}
      BY <1>0, <3>4 DEF TypeOK, AdminHandler
    <3> QED BY <2>1, <3>1, <3>2, <3>3, <3>4
  <2> QED BY <2>1, <2>3, <2>4 DEF At
<1>5. CASE ~ \/ InsertFresh(a, "createKey", "reply", Key) \/ InsertFresh(a, "rotateKey", "update", Key)
             \/ \E op \in AllOps : UpdateRevoked(a, op)
             \/ \E n : InsertUnique(a, "createService", n, "reply")
             \/ \E n : InsertUnique(a, "rotateService", n, "update")
             \/ CascadeCredentials(a, "keys", Key) \/ CascadeCredentials(a, "services", Service)
  <2>1. UNCHANGED status
    BY <1>5 DEF AdminCases, Call, AssertOwnership, FindActive, Invalidate, Reply, FindByName,
                BeginCascade, CascadeUsage, DropProject, AbortAdmin, mongo
  <2> QED BY <2>1
<1> QED BY <1>1, <1>2, <1>3, <1>4, <1>5

LEMMA OnlyDashboardChangesStatus ==
  ASSUME Next, status' # status
  PROVE  \E a \in Admin : AdminCases(a)
<1>1. ASSUME NEW r \in Req, VerifyCases(r) PROVE UNCHANGED status
  BY <1>1 DEF VerifyCases, Present, ReadCache, FindBySecretHash, FillCache,
                           CheckRateLimit, LogUsage, AbortVerify, mongo
<1> QED BY <1>1, NextCases DEF CreateProject, Expire, mongo

\* The documents of a project change only in a handler called by the project's owner.
THEOREM TenantsIsolated == Spec => TenantIsolation
<1>1. TypeOK /\ OwnInv /\ [Next]_vars =>
        [\A c \in Cred : status'[c] # status[c] =>
           \E a \in Admin : /\ adm[a].user = Owner[ProjectOf[c]]
                            /\ adm'[a] # adm[a]]_vars
  <2> SUFFICES ASSUME TypeOK, OwnInv, Next, NEW c \in Cred, status'[c] # status[c]
               PROVE  \E a \in Admin : adm[a].user = Owner[ProjectOf[c]] /\ adm'[a] # adm[a]
    OBVIOUS
  <2>1. PICK a \in Admin : AdminCases(a)
    BY OnlyDashboardChangesStatus
  <2> QED BY <2>1, StatusChange DEF OwnInv
<1> QED BY <1>1, TypeCorrect, OwnInvHolds, PTL DEF Spec, TenantIsolation

\* Once the handlers that passed the ownership check before the deletion have ended,
\* nothing is issued, revoked or deleted in a deleted project.
THEOREM ClosedProjectsStayClosed == Spec => ClosedIsFinal
<1>1. TypeOK /\ [Next]_vars =>
        [\A p \in Project : Closed(p) =>
           /\ Closed(p)'
           /\ \A c \in Cred : ProjectOf[c] = p => status'[c] = status[c]]_vars
  <2> SUFFICES ASSUME TypeOK, Next, NEW p \in Project, Closed(p)
               PROVE  Closed(p)' /\ \A c \in Cred : ProjectOf[c] = p => status'[c] = status[c]
    OBVIOUS
  <2>1. ASSUME NEW c \in Cred, ProjectOf[c] = p PROVE status'[c] = status[c]
    <3> SUFFICES ASSUME status'[c] # status[c] PROVE FALSE
      OBVIOUS
    <3>1. PICK a \in Admin : AdminCases(a)
      BY OnlyDashboardChangesStatus
    <3> QED BY <2>1, <3>1, StatusChange DEF Closed
  <2>2. CASE \E a \in Admin : AdminCases(a) /\ raced' = raced \cup NewlyRaced
    <3>1. PICK a \in Admin : AdminCases(a)
      BY <2>2
    <3>2. projects'[p] = "deleted"
      BY <3>1, AdminWrites DEF Closed, TypeOK
    <3>3. AdminFlow(a)
      BY <3>1, AdminFlows
    <3>4. adm'[a].project = p => adm'[a].pc \in {"idle", "own"}
      <4>1. CASE adm'[a] = AdminIdle
        BY <4>1 DEF AdminIdle
      <4>2. CASE Moved(a)
        BY <4>2 DEF Moved, SameRequest, Closed, FindProject
      <4> QED BY <3>3, <4>1, <4>2 DEF AdminFlow, Called
    <3> QED BY <2>1, <3>2, <3>3, <3>4 DEF Closed, AdminFlow
  <2>3. CASE ~ \E a \in Admin : AdminCases(a) /\ raced' = raced \cup NewlyRaced
    <3>1. ASSUME NEW r \in Req, VerifyCases(r) PROVE UNCHANGED <<projects, adm>>
      BY <3>1 DEF VerifyCases, Present, ReadCache, FindBySecretHash, FillCache,
                               CheckRateLimit, LogUsage, AbortVerify, mongo
    <3>2. UNCHANGED adm /\ projects'[p] = "deleted"
      BY <2>3, <3>1, NextCases DEF CreateProject, Expire, mongo, Closed, TypeOK
    <3> QED BY <2>1, <3>2 DEF Closed
  <2> QED BY <2>2, <2>3
<1> QED BY <1>1, TypeCorrect, PTL DEF Spec, ClosedIsFinal
=============================================================================
