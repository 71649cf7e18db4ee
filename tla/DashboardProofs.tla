--------------------------- MODULE DashboardProofs ---------------------------
(***************************************************************************)
(* What the dashboard operations keep of the documents: unique names, a    *)
(* key for every project, no orphans.                                      *)
(***************************************************************************)
EXTENDS ElyzorProofs

\* A document comes into being only in an insert into the project the handler was called
\* for, and a service only where its name is free.
LEMMA Birth ==
  ASSUME TypeOK, NEW a \in Admin, AdminCases(a), NEW c \in Cred,
         status[c] = "unissued", status'[c] # "unissued"
  PROVE  /\ Create(c) /\ adm[a].pc = "insert" /\ ProjectOf[c] = adm[a].project
         /\ c \in Service => ~NameTaken(NameOf[c], ProjectOf[c])
<1>0. status \in [Cred -> {"unissued", "active", "revoked", "deleted"}]
  BY DEF TypeOK
<1>1. ASSUME NEW d \in Cred, Create(d) PROVE d = c
  BY <1>0, <1>1 DEF Create
<1>2. CASE InsertFresh(a, "createKey", "reply", Key) \/ InsertFresh(a, "rotateKey", "update", Key)
  <2>1. PICK d \in Key : Create(d) /\ ProjectOf[d] = adm[a].project /\ adm[a].pc = "insert"
    BY <1>2 DEF InsertFresh, At
  <2> QED BY <1>1, <2>1, StoreAssumption DEF Cred
<1>3. ASSUME NEW op, NEW next, NEW n, InsertUnique(a, op, n, next)
      PROVE  /\ Create(c) /\ adm[a].pc = "insert" /\ ProjectOf[c] = adm[a].project
             /\ ~NameTaken(NameOf[c], ProjectOf[c])
  <2>1. PICK d \in Service : /\ ProjectOf[d] = adm[a].project /\ NameOf[d] = n
                             /\ IF NameTaken(n, adm[a].project)
                                THEN Finish(a) /\ UNCHANGED status
                                ELSE Create(d)
    BY <1>3 DEF InsertUnique
  <2>2. adm[a].pc = "insert"
    BY <1>3 DEF InsertUnique, At
  <2>3. ~NameTaken(n, adm[a].project) /\ Create(d)
    BY <2>1
  <2>4. d = c
    BY <1>1, <2>3 DEF Cred
  <2> QED BY <2>1, <2>2, <2>3, <2>4
<1>4. CASE \/ \E op \in AllOps : UpdateRevoked(a, op)
           \/ CascadeCredentials(a, "keys", Key) \/ CascadeCredentials(a, "services", Service)
  <2>1. \/ Revoke(adm[a].cred, adm[a].project)
        \/ \E D : Delete(D) /\ \A d \in D : Exists(d)
    <3>1. CASE \E op \in AllOps : UpdateRevoked(a, op)
      BY <3>1 DEF UpdateRevoked
    <3>2. ASSUME NEW part, NEW K, CascadeCredentials(a, part, K)
          PROVE  \E D : Delete(D) /\ \A d \in D : Exists(d)
      <4>1. \A d \in DocsOf(adm[a].project, K) : Exists(d)
        BY DEF DocsOf, FindByIdAndProject
      <4>2. \E D \in SUBSET DocsOf(adm[a].project, K) : Delete(D)
        BY <3>2 DEF CascadeCredentials
      <4> QED BY <4>1, <4>2
    <3> QED BY <1>4, <3>1, <3>2
  <2> QED BY <1>0, <2>1 DEF Revoke, Delete, Exists, FindByIdAndProject
<1>5. CASE ~ \/ InsertFresh(a, "createKey", "reply", Key) \/ InsertFresh(a, "rotateKey", "update", Key)
             \/ \E op \in AllOps : UpdateRevoked(a, op)
             \/ \E n : InsertUnique(a, "createService", n, "reply")
             \/ \E n : InsertUnique(a, "rotateService", n, "update")
             \/ CascadeCredentials(a, "keys", Key) \/ CascadeCredentials(a, "services", Service)
  <2>1. UNCHANGED status
    BY <1>5 DEF AdminCases, Call, AssertOwnership, FindActive, Invalidate, Reply, FindByName,
                BeginCascade, CascadeUsage, DropProject, AbortAdmin, mongo
  <2> QED BY <2>1
<1> QED BY <1>2, <1>3, <1>4, <1>5

\* A document that is there was there before, or was just born.
LEMMA NoReturn ==
  ASSUME TypeOK, NEW a \in Admin, AdminCases(a), NEW c \in Cred, Exists(c)', ~Exists(c)
  PROVE  status[c] = "unissued" /\ status'[c] # "unissued"
<1>0. status \in [Cred -> {"unissued", "active", "revoked", "deleted"}]
  BY DEF TypeOK
<1>1. status[c] \in {"unissued", "deleted"} /\ status'[c] \in {"active", "revoked"}
  BY <1>0 DEF Exists
<1>2. status[c] # "deleted"
  BY <1>0, <1>1, AdminWrites DEF Create, Revoke, Delete, Exists, FindByIdAndProject
<1> QED BY <1>1, <1>2

-----------------------------------------------------------------------------
(* Names. *)

LEMMA NextNamesUnique ==
  ASSUME TypeOK, NamesUnique, [Next]_vars
  PROVE  NamesUnique'
<1>1. CASE UNCHANGED status
  BY <1>1 DEF NamesUnique, DocsOf, FindByIdAndProject, Exists
<1>2. CASE \E a \in Admin : AdminCases(a)
  <2>1. PICK a \in Admin : AdminCases(a)
    BY <1>2
  <2> SUFFICES ASSUME NEW p \in Project, NEW s \in Service, NEW t \in Service,
                      Exists(s)', Exists(t)', ProjectOf[s] = p, ProjectOf[t] = p,
                      NameOf[s] = NameOf[t], s # t
               PROVE  FALSE
    BY DEF NamesUnique, DocsOf, FindByIdAndProject
  <2>2. s \in Cred /\ t \in Cred
    BY DEF Cred
  <2>3. ~(Exists(s) /\ Exists(t))
    BY DEF NamesUnique, DocsOf, FindByIdAndProject
  <2>4. ASSUME NEW x \in Service, NEW y \in Service, ~Exists(x), Exists(x)', Exists(y)',
               ProjectOf[x] = ProjectOf[y], NameOf[x] = NameOf[y], x # y
        PROVE  FALSE
    <3>1. x \in Cred /\ y \in Cred
      BY DEF Cred
    <3>2. Create(x) /\ ~NameTaken(NameOf[x], ProjectOf[x])
      BY <2>1, <2>4, <3>1, Birth, NoReturn
    <3>3. Exists(y)
      BY <2>4, <3>1, <3>2 DEF Create, Exists, TypeOK
    <3> QED BY <2>4, <3>2, <3>3 DEF NameTaken, DocsOf, FindByIdAndProject
  <2> QED BY <2>3, <2>4
<1> QED BY <1>1, <1>2, OnlyDashboardChangesStatus DEF vars, mongo

\* Two documents of a project never share a name, however its handlers interleave: the
\* unique index decides at the insert, not the earlier lookup.
THEOREM ServiceNamesUnique == Spec => []NamesUnique
<1>1. Init => NamesUnique
  BY DEF Init, NamesUnique, DocsOf, FindByIdAndProject, Exists, Cred
<1> QED BY <1>1, NextNamesUnique, TypeCorrect, PTL DEF Spec

-----------------------------------------------------------------------------
(***************************************************************************)
(* Rotation.  RotationKeepsAnActiveKey is not inductive: the active key    *)
(* might be the one a handler is about to revoke.  Of a project that had a *)
(* key, RotationInv keeps an active key that no handler is about to revoke:*)
(* the newest one.                                                         *)
(***************************************************************************)
Doomed(k) == \E a \in Admin : adm[a].pc = "update" /\ adm[a].cred = k

KeepsKey(p) ==
  (\E k \in Key : ProjectOf[k] = p /\ status[k] # "unissued") =>
     \E k \in Key : ProjectOf[k] = p /\ status[k] = "active" /\ ~Doomed(k)

OpInv ==
  \A a \in Admin : adm[a].pc # "idle" =>
    adm[a].op \in Ops /\ (adm[a].cred \in Key <=> adm[a].op \in OnKeys)

RotationInv ==
  Ops \cap {"revokeKey", "deleteProject"} = {} => \A p \in Project : KeepsKey(p)

LEMMA NextOpInv ==
  ASSUME TypeOK, OpInv, [Next]_vars
  PROVE  OpInv'
<1>1. CASE \E a \in Admin : AdminCases(a)
  <2>1. PICK a \in Admin : AdminCases(a)
    BY <1>1
  <2>2. AdminFlow(a)
    BY <2>1, AdminFlows
  <2> QED BY <2>2 DEF OpInv, AdminFlow, AdminIdle, Called, Moved, SameRequest
<1>2. CASE UNCHANGED adm
  BY <1>2 DEF OpInv
<1> QED BY <1>1, <1>2, NextCases
        DEF VerifyCases, Present, ReadCache, FindBySecretHash, FillCache, CheckRateLimit,
            LogUsage, AbortVerify, CreateProject, Expire, vars

\* An active document stops being active only where it is revoked, or its project deleted.
LEMMA EndOfActive ==
  ASSUME TypeOK, NEW a \in Admin, AdminCases(a), NEW c \in Cred,
         status[c] = "active", status'[c] # "active"
  PROVE  \/ adm[a].pc = "update" /\ adm[a].cred = c
         \/ adm[a].pc = "cascade" /\ adm[a].op = "deleteProject"
<1>0. status \in [Cred -> {"unissued", "active", "revoked", "deleted"}]
  BY DEF TypeOK
<1>1. CASE \E op \in AllOps : UpdateRevoked(a, op)
  BY <1>0, <1>1 DEF UpdateRevoked, At, Revoke
<1>2. CASE CascadeCredentials(a, "keys", Key) \/ CascadeCredentials(a, "services", Service)
  BY <1>2 DEF CascadeCredentials, At
<1>3. CASE ~ \/ \E op \in AllOps : UpdateRevoked(a, op)
             \/ CascadeCredentials(a, "keys", Key) \/ CascadeCredentials(a, "services", Service)
  <2>1. UNCHANGED status \/ \E d : status[d] = "unissued" /\ Create(d)
    BY <1>3 DEF AdminCases, Call, AssertOwnership, FindActive, InsertFresh, InsertUnique,
                Invalidate, Reply, FindByName, BeginCascade, CascadeUsage, DropProject,
                AbortAdmin, mongo
  <2> QED BY <1>0, <2>1 DEF Create
<1> QED BY <1>1, <1>2, <1>3

LEMMA AdminKeepsKey ==
  ASSUME TypeOK, RevokerInv, OpInv, NEW a \in Admin, AdminCases(a), NEW p \in Project,
         Ops \cap {"revokeKey", "deleteProject"} = {}, KeepsKey(p)
  PROVE  KeepsKey(p)'
<1>0. /\ status \in [Cred -> {"unissued", "active", "revoked", "deleted"}]
      /\ Key \subseteq Cred
  BY DEF TypeOK, Cred
<1>flow. AdminFlow(a)
  BY AdminFlows
<1>1. ASSUME NEW k \in Key, ProjectOf[k] = p, status[k] = "unissued", status'[k] # "unissued"
      PROVE  KeepsKey(p)'
  <2>1. Create(k) /\ adm[a].pc = "insert"
    BY <1>0, <1>1, Birth
  <2>2. status'[k] = "active"
    BY <1>0, <2>1 DEF Create
  <2>3. ASSUME NEW b \in Admin, adm'[b].pc = "update" PROVE adm'[b].cred # k
    <3>1. CASE b # a
      BY <1>1, <1>flow, <2>3, <3>1 DEF AdminFlow, RevokerInv
    <3>2. CASE b = a
      BY <1>1, <1>flow, <2>1, <2>3, <3>2 DEF AdminFlow, AdminIdle, Called, Moved, SameRequest, RevokerInv
    <3> QED BY <3>1, <3>2
  <2> QED BY <1>1, <2>2, <2>3 DEF KeepsKey, Doomed
<1>2. ASSUME \A k \in Key : ProjectOf[k] = p /\ status[k] = "unissued" => status'[k] = "unissued",
             NEW k \in Key, ProjectOf[k] = p, status[k] = "active", ~Doomed(k)
      PROVE  KeepsKey(p)'
  <2>1. status'[k] = "active"
    BY <1>0, <1>2, EndOfActive DEF Doomed, OpInv
  <2>2. ASSUME NEW b \in Admin, adm'[b].pc = "update", adm'[b].cred = k PROVE FALSE
    <3>1. b = a
      BY <1>2, <1>flow, <2>2 DEF AdminFlow, Doomed
    <3>2. Moved(a) /\ adm[a].cred = k /\ adm[a].op = "rotateKey"
      BY <1>flow, <2>2, <3>1 DEF AdminFlow, AdminIdle, Called, Moved, SameRequest, OpInv, OnKeys
    <3>3. Inserts(a) /\ adm[a].pc = "insert"
      BY <2>2, <3>1, <3>2 DEF Moved, Rotating
    <3>4. adm[a].project = p
      BY <1>2, <3>2, <3>3 DEF RevokerInv, Targeted
    <3>5. PICK c \in Cred : /\ status[c] = "unissued" /\ ProjectOf[c] = p /\ Create(c)
                            /\ c \in Key
      BY <3>2, <3>3, <3>4 DEF Inserts
    <3> QED BY <1>0, <1>2, <3>5 DEF Create
  <2> QED BY <1>2, <2>1, <2>2 DEF KeepsKey, Doomed
<1> QED BY <1>1, <1>2 DEF KeepsKey

LEMMA NextRotationInv ==
  ASSUME RevocationInv, OpInv, RotationInv, [Next]_vars
  PROVE  RotationInv'
<1>1. CASE \E a \in Admin : AdminCases(a)
  BY <1>1, AdminKeepsKey DEF RotationInv, RevocationInv
<1>2. CASE UNCHANGED <<status, adm>>
  BY <1>2 DEF RotationInv, KeepsKey, Doomed
<1> QED BY <1>1, <1>2, NextCases
        DEF VerifyCases, Present, ReadCache, FindBySecretHash, FillCache, CheckRateLimit,
            LogUsage, AbortVerify, CreateProject, Expire, vars, mongo

\* Where keys are only created and rotated, a project that had a key always has an active
\* one, through any number of concurrent rotations that stop anywhere.
THEOREM RotationNeverLeavesNone == Spec => []RotationKeepsAnActiveKey
<1>1. Init => OpInv /\ RotationInv
  BY DEF Init, OpInv, RotationInv, KeepsKey, AdminIdle, Cred
<1>2. Spec => []OpInv
  BY <1>1, NextOpInv, TypeCorrect, PTL DEF Spec
<1>3. Spec => []RotationInv
  BY <1>1, <1>2, NextRotationInv, RevocationInvHolds, PTL DEF Spec
<1>4. RotationInv => RotationKeepsAnActiveKey
  BY DEF RotationInv, KeepsKey, RotationKeepsAnActiveKey
<1> QED BY <1>3, <1>4, PTL

-----------------------------------------------------------------------------
(***************************************************************************)
(* Deletion.  A part of a project is clean if only strays are left of it.  *)
(* A cascade that has not failed has cleaned the parts it is done with,    *)
(* and whatever others insert since is stray: so all parts are clean when  *)
(* the project is dropped, and ever after.                                 *)
(***************************************************************************)
Clean(part, p) ==
  /\ part = "keys" => DocsOf(p, Key) \subseteq strays
  /\ part = "services" => DocsOf(p, Service) \subseteq strays
  /\ part = "usage" => (p \in usage => p \in strayLogs)

CascadeOf(a) ==
  adm[a].pc \in {"cascade", "drop"} =>
    /\ adm[a].op = "deleteProject"
    /\ adm[a].pc = "drop" => adm[a].todo = {} /\ adm[a].failed = FALSE
    /\ adm[a].failed = FALSE =>
         \A part \in CascadeParts \ adm[a].todo : Clean(part, adm[a].project)

CascadeInv == \A a \in Admin : CascadeOf(a)

DeletedInv ==
  \A p \in Project : projects[p] = "deleted" => \A part \in CascadeParts : Clean(part, p)

LEMMA StaysClean ==
  ASSUME TypeOK, Next, NEW p, Closing(p), Closing(p)', NEW part, Clean(part, p)
  PROVE  Clean(part, p)'
<1>0. Record
  BY NextCases
<1>1. ASSUME NEW K \in SUBSET Cred, DocsOf(p, K) \subseteq strays
      PROVE  DocsOf(p, K)' \subseteq strays'
  <2> SUFFICES ASSUME NEW c \in K, Exists(c)', ProjectOf[c] = p
               PROVE  c \in strays'
    BY DEF DocsOf, FindByIdAndProject
  <2>1. CASE Exists(c)
    <3>1. c \in strays
      BY <1>1, <2>1 DEF DocsOf, FindByIdAndProject
    <3> QED BY <1>0, <3>1 DEF Record
  <2>2. CASE ~Exists(c)
    <3>1. status' # status
      BY <2>2 DEF Exists
    <3>2. status[c] = "unissued" /\ status'[c] # "unissued"
      BY <2>2, <3>1, OnlyDashboardChangesStatus, NoReturn
    <3> QED BY <1>0, <3>2 DEF Record
  <2> QED BY <2>1, <2>2
<1>2. part = "keys" => DocsOf(p, Key)' \subseteq strays'
  BY <1>1 DEF Clean, Cred
<1>3. part = "services" => DocsOf(p, Service)' \subseteq strays'
  BY <1>1 DEF Clean, Cred
<1>4. part = "usage" => (p \in usage' => p \in strayLogs')
  BY <1>0 DEF Clean, Record
<1> QED BY <1>2, <1>3, <1>4 DEF Clean

\* What is left of a part after its delete was answered.
Emptied(part, p) ==
  /\ part = "keys" => DocsOf(p, Key)' = {}
  /\ part = "services" => DocsOf(p, Service)' = {}
  /\ part = "usage" => p \notin usage'

LEMMA SettleFlow ==
  ASSUME TypeOK, NEW a \in Admin, NEW part, NEW ok \in BOOLEAN, Settle(a, part, ok),
         adm'[a].pc \in {"cascade", "drop"}
  PROVE  /\ adm'[a].op = adm[a].op /\ adm'[a].project = adm[a].project
         /\ adm'[a].todo = adm[a].todo \ {part}
         /\ adm'[a].failed = FALSE => adm[a].failed = FALSE /\ ok
         /\ adm'[a].pc = "drop" /\ adm[a].pc = "cascade" =>
              adm'[a].todo = {} /\ adm'[a].failed = FALSE
<1> DEFINE left == adm[a].todo \ {part}
           bad  == adm[a].failed \/ ~ok
<1>0. adm[a] \in AdminHandler /\ adm \in [Admin -> AdminHandler] /\ adm[a].failed \in BOOLEAN
  BY DEF TypeOK, AdminHandler
<1>1. CASE Finish(a)
  BY <1>0, <1>1 DEF Finish, AdminIdle
<1>2. CASE left = {} /\ ~bad
  <2>1. adm' = [adm EXCEPT ![a] = [@ EXCEPT !.pc = "drop", !.todo = {}]]
    BY <1>2, Zenon DEF Settle
  <2>2. /\ adm'[a].pc = "drop" /\ adm'[a].todo = {} /\ adm'[a].failed = adm[a].failed
        /\ adm'[a].op = adm[a].op /\ adm'[a].project = adm[a].project
    BY <1>0, <2>1 DEF AdminHandler
  <2> QED BY <1>0, <1>2, <2>2
<1>3. CASE left # {}
  <2>1. adm' = [adm EXCEPT ![a] = [@ EXCEPT !.todo = left, !.failed = bad]]
    BY <1>3, Zenon DEF Settle
  <2>2. bad \in BOOLEAN
    BY <1>0
  <2> HIDE DEF left, bad
  <2>3. /\ adm'[a].pc = adm[a].pc /\ adm'[a].todo = left /\ adm'[a].failed = bad
        /\ adm'[a].op = adm[a].op /\ adm'[a].project = adm[a].project
    BY <1>0, <2>1, <2>2 DEF AdminHandler
  <2>4. bad = FALSE => adm[a].failed = FALSE /\ ok
    BY <1>0 DEF bad
  <2> QED BY <2>3, <2>4 DEF left
<1> QED BY <1>1, <1>2, <1>3, Zenon DEF Settle

\* The steps that lead into a cascade or on in one.
LEMMA CascadeFlow ==
  ASSUME TypeOK, NEW a \in Admin, AdminCases(a), adm'[a].pc \in {"cascade", "drop"},
         NEW p, p = adm[a].project
  PROVE  \/ adm'[a].pc = "cascade" /\ adm'[a].op = "deleteProject" /\ adm'[a].todo = CascadeParts
         \/ \E part : /\ adm[a].pc = "cascade" /\ adm[a].op = "deleteProject"
                      /\ adm'[a].op = adm[a].op /\ adm'[a].project = adm[a].project
                      /\ adm'[a].todo = adm[a].todo \ {part}
                      /\ adm'[a].failed = FALSE =>
                           adm[a].failed = FALSE /\ Emptied(part, p)
                      /\ adm'[a].pc = "drop" => adm'[a].todo = {} /\ adm'[a].failed = FALSE
<1>0. adm[a] \in AdminHandler /\ adm \in [Admin -> AdminHandler]
  BY DEF TypeOK
<1>f. ~Finish(a)
  BY <1>0 DEF Finish, AdminIdle
<1>1. CASE BeginCascade(a)
  <2>1. /\ adm' = [adm EXCEPT ![a] = [@ EXCEPT !.pc = "cascade", !.todo = CascadeParts]]
        /\ At(a, "deleteProject", "own")
    BY <1>1, <1>f, Zenon DEF BeginCascade
  <2> QED BY <1>0, <2>1 DEF AdminHandler, At
<1>2. ASSUME NEW part \in {"keys", "services"}, NEW K, CascadeCredentials(a, part, K),
             part = "keys" => K = Key, part = "services" => K = Service, K \subseteq Cred
      PROVE  \E ok \in BOOLEAN : Settle(a, part, ok) /\ (ok => Emptied(part, p))
  <2> DEFINE docs == DocsOf(p, K)
  <2>1. \/ Delete(docs) /\ Settle(a, part, TRUE)
        \/ Settle(a, part, FALSE)
    BY <1>2 DEF CascadeCredentials
  <2>2. ASSUME Delete(docs), NEW c \in K, Exists(c)', ProjectOf[c] = p PROVE FALSE
    <3>1. c \in docs => status'[c] = "deleted"
      BY <1>2, <2>2 DEF Delete
    <3>2. c \notin docs => status'[c] = status[c]
      BY <1>2, <2>2 DEF Delete
    <3> QED BY <2>2, <3>1, <3>2 DEF Exists, DocsOf, FindByIdAndProject
  <2>3. Delete(docs) => Emptied(part, p)
    BY <1>2, <2>2 DEF Emptied, DocsOf, FindByIdAndProject
  <2> QED BY <2>1, <2>3
<1>s. ASSUME NEW part, NEW ok \in BOOLEAN, Settle(a, part, ok), ok => Emptied(part, p),
             At(a, "deleteProject", "cascade")
      PROVE  /\ adm[a].pc = "cascade" /\ adm[a].op = "deleteProject"
             /\ adm'[a].op = adm[a].op /\ adm'[a].project = adm[a].project
             /\ adm'[a].todo = adm[a].todo \ {part}
             /\ adm'[a].failed = FALSE => adm[a].failed = FALSE /\ Emptied(part, p)
             /\ adm'[a].pc = "drop" => adm'[a].todo = {} /\ adm'[a].failed = FALSE
  <2>1. adm[a].pc = "cascade" /\ adm[a].op = "deleteProject"
    BY <1>s DEF At
  <2> QED BY <1>s, <2>1, SettleFlow
<1>3. CASE CascadeUsage(a)
  <2>1. \E ok \in BOOLEAN : Settle(a, "usage", ok) /\ (ok => Emptied("usage", p))
    BY <1>3 DEF CascadeUsage, Emptied
  <2>2. At(a, "deleteProject", "cascade")
    BY <1>3 DEF CascadeUsage
  <2> QED BY <1>s, <2>1, <2>2
<1>4. CASE CascadeCredentials(a, "keys", Key) \/ CascadeCredentials(a, "services", Service)
  <2>1. \E part : \E ok \in BOOLEAN : Settle(a, part, ok) /\ (ok => Emptied(part, p))
    BY <1>2, <1>4 DEF Cred
  <2>2. At(a, "deleteProject", "cascade")
    BY <1>4 DEF CascadeCredentials
  <2> QED BY <1>s, <2>1, <2>2
<1>5. CASE ~ \/ BeginCascade(a) \/ CascadeUsage(a)
             \/ CascadeCredentials(a, "keys", Key) \/ CascadeCredentials(a, "services", Service)
  <2>1. ASSUME NEW next, next \notin {"cascade", "drop"}, Goto(a, next) PROVE FALSE
    BY <2>1, GotoFlow
  <2>2. ASSUME NEW next, next \notin {"cascade", "drop"}, NEW c,
               adm' = [adm EXCEPT ![a] = [@ EXCEPT !.pc = next, !.new = c]]
        PROVE  FALSE
    BY <1>0, <2>2 DEF AdminHandler
  <2>3. ASSUME NEW op, NEW u, NEW q, NEW c, NEW n PROVE ~Call(a, op, u, q, c, n)
    BY <1>0 DEF Call, AdminIdle
  <2>4. ASSUME NEW op, NEW next, next \notin {"cascade", "drop"} PROVE
          /\ ~AssertOwnership(a, op, next) /\ ~FindActive(a, op, next)
          /\ \A K : ~InsertFresh(a, op, next, K)
          /\ \A n : ~InsertUnique(a, op, n, next)
    <3>1. ~AssertOwnership(a, op, next) /\ ~FindActive(a, op, next)
      BY <1>f, <2>1, <2>4 DEF AssertOwnership, FindActive
    <3>2. \A K : ~InsertFresh(a, op, next, K)
      BY <2>2, <2>4, Zenon DEF InsertFresh
    <3>3. \A n : ~InsertUnique(a, op, n, next)
      BY <1>f, <2>2, <2>4, Zenon DEF InsertUnique
    <3> QED BY <3>1, <3>2, <3>3
  <2>5. \A op : ~UpdateRevoked(a, op) /\ ~Invalidate(a, op) /\ ~Reply(a, op)
    BY <1>f, <2>1 DEF UpdateRevoked, Invalidate, Reply
  <2>6. ~FindByName(a) /\ ~DropProject(a) /\ ~AbortAdmin(a)
    BY <1>f, <2>1 DEF FindByName, DropProject, AbortAdmin
  <2> QED BY <1>5, <2>3, <2>4, <2>5, <2>6 DEF AdminCases
<1> QED BY <1>1, <1>3, <1>4, <1>5

\* A step is one handler's, and only a deletion's last step changes a project to deleted.
LEMMA OneHandler ==
  ASSUME TypeOK, Next
  PROVE  \/ \E a \in Admin : AdminCases(a)
         \/ UNCHANGED adm /\ \A p \in Project : projects'[p] = "deleted" <=> projects[p] = "deleted"
<1>1. ASSUME NEW r \in Req, VerifyCases(r) PROVE UNCHANGED <<projects, adm>>
  BY <1>1 DEF VerifyCases, Present, ReadCache, FindBySecretHash, FillCache,
                           CheckRateLimit, LogUsage, AbortVerify, mongo
<1> QED BY <1>1, NextCases DEF CreateProject, Expire, mongo, TypeOK

\* What a deletion in progress has cleaned is clean after any step it is still in progress.
LEMMA CascadeStaysClean ==
  ASSUME TypeOK, Next, NEW a \in Admin, CascadeOf(a), NEW p, p = adm[a].project,
         adm[a].pc \in {"cascade", "drop"}, adm[a].failed = FALSE,
         adm'[a].pc \in {"cascade", "drop"}, adm'[a].op = adm[a].op, adm'[a].project = p,
         NEW part \in CascadeParts, part \notin adm[a].todo
  PROVE  Clean(part, p)'
<1>1. Clean(part, p)
  BY DEF CascadeOf
<1>2. Closing(p) /\ Closing(p)'
  BY DEF CascadeOf, Closing, Deleting
<1> QED BY <1>1, <1>2, StaysClean

LEMMA CascadeOfNext ==
  ASSUME NEW a \in Admin, NEW p, p = adm'[a].project, adm'[a].op = "deleteProject",
         (adm'[a].pc = "drop" => adm'[a].todo = {} /\ adm'[a].failed = FALSE),
         (adm'[a].failed = FALSE => \A part \in CascadeParts \ adm'[a].todo : Clean(part, p)')
  PROVE  CascadeOf(a)'
  BY DEF CascadeOf, Clean, DocsOf, FindByIdAndProject, Exists

LEMMA NextCascadeInv ==
  ASSUME TypeOK, CascadeInv, [Next]_vars
  PROVE  CascadeInv'
<1>1. CASE UNCHANGED vars
  BY <1>1 DEF CascadeInv, CascadeOf, Clean, DocsOf, FindByIdAndProject, Exists,
              vars, mongo, client, history
<1>2. CASE Next
  <2> SUFFICES ASSUME NEW b \in Admin, adm'[b].pc \in {"cascade", "drop"}
               PROVE  CascadeOf(b)'
    BY DEF CascadeInv, CascadeOf
  <2>0. CascadeOf(b)
    BY DEF CascadeInv
  <2>p. PICK p : p = adm'[b].project
    OBVIOUS
  <2>q. PICK q : q = adm[b].project
    OBVIOUS
  <2>1. CASE adm'[b] = adm[b]
    <3>1. \A part \in CascadeParts \ adm[b].todo : adm[b].failed = FALSE => Clean(part, p)'
      BY <1>2, <2>0, <2>p, <2>1, CascadeStaysClean DEF CascadeOf
    <3> QED BY <2>0, <2>p, <2>1, <3>1, CascadeOfNext DEF CascadeOf
  <2>2. CASE AdminCases(b)
    <3>1. CASE adm'[b].pc = "cascade" /\ adm'[b].op = "deleteProject" /\ adm'[b].todo = CascadeParts
      BY <2>p, <3>1, CascadeOfNext
    <3>2. ASSUME NEW done, adm[b].pc = "cascade", adm[b].op = "deleteProject",
                 adm'[b].op = adm[b].op, adm'[b].project = adm[b].project,
                 adm'[b].todo = adm[b].todo \ {done},
                 (adm'[b].failed = FALSE =>
                    adm[b].failed = FALSE /\ Emptied(done, q)),
                 (adm'[b].pc = "drop" => adm'[b].todo = {} /\ adm'[b].failed = FALSE)
          PROVE  CascadeOf(b)'
      <4>1. ASSUME adm'[b].failed = FALSE, NEW part \in CascadeParts, part \notin adm'[b].todo
            PROVE  Clean(part, p)'
        <5>1. CASE part = done
          BY <2>p, <2>q, <3>2, <4>1, <5>1 DEF Emptied, Clean, DocsOf, FindByIdAndProject, Exists
        <5>2. CASE part # done
          BY <1>2, <2>0, <2>p, <3>2, <4>1, <5>2, CascadeStaysClean
        <5> QED BY <5>1, <5>2
      <4> QED BY <2>p, <3>2, <4>1, CascadeOfNext
    <3> QED BY <2>2, <2>q, <3>1, <3>2, CascadeFlow
  <2> QED BY <1>2, <2>1, <2>2, OneHandler, AdminFlows DEF AdminFlow
<1> QED BY <1>1, <1>2

LEMMA NextDeletedInv ==
  ASSUME TypeOK, CascadeInv, DeletedInv, [Next]_vars
  PROVE  DeletedInv'
<1>1. CASE UNCHANGED vars
  BY <1>1 DEF DeletedInv, Clean, DocsOf, FindByIdAndProject, Exists, vars, mongo, client, history
<1>2. CASE Next
  <2> SUFFICES ASSUME NEW p \in Project, projects'[p] = "deleted", NEW part \in CascadeParts
               PROVE  Clean(part, p)'
    BY DEF DeletedInv
  <2>1. Closing(p)'
    BY DEF Closing
  <2>2. CASE projects[p] = "deleted"
    <3>1. Clean(part, p) /\ Closing(p)
      BY <2>2 DEF DeletedInv, Closing
    <3> QED BY <1>2, <2>1, <3>1, StaysClean
  <2>3. CASE projects[p] # "deleted"
    <3>1. PICK a \in Admin : AdminCases(a)
      BY <1>2, <2>3, OneHandler
    <3>2. At(a, "deleteProject", "drop") /\ adm[a].project = p
      BY <2>3, <3>1, AdminWrites DEF TypeOK
    <3>3. Clean(part, p) /\ Closing(p)
      BY <3>2 DEF CascadeInv, CascadeOf, At, Closing, Deleting
    <3> QED BY <1>2, <2>1, <3>3, StaysClean
  <2> QED BY <2>2, <2>3
<1> QED BY <1>1, <1>2

\* Of a deleted project nothing is left but what other handlers wrote while or after it
\* was deleted, whichever deletes failed and however many deletions ran at once.
THEOREM NoOrphansLeft == Spec => []NoOrphans
<1>1. Init => CascadeInv /\ DeletedInv
  BY DEF Init, CascadeInv, CascadeOf, DeletedInv, AdminIdle
<1>2. Spec => []CascadeInv
  BY <1>1, NextCascadeInv, TypeCorrect, PTL DEF Spec
<1>3. Spec => []DeletedInv
  BY <1>1, <1>2, NextDeletedInv, TypeCorrect, PTL DEF Spec
<1>4. DeletedInv => NoOrphans
  BY DEF DeletedInv, NoOrphans, Clean, CascadeParts, DocsOf, FindByIdAndProject, Cred
<1> QED BY <1>3, <1>4, PTL
=============================================================================
