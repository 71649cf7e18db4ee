------------------------------ MODULE Services ------------------------------
(***************************************************************************)
(* ServiceService: service identities.  They differ from API keys in their *)
(* name: createService looks the name up first, and the collection has a   *)
(* unique index on {projectId, name} that revoked documents still occupy.  *)
(***************************************************************************)
EXTENDS ApiKeys

\* A document of the project, active or revoked, has the name.
NameTaken(n, p) == \E s \in DocsOf(p, Service) : NameOf[s] = n

\* createService: findByNameAndProject, 400 if a document has the name.
FindByName(a) ==
  /\ At(a, "createService", "find")
  /\ IF NameTaken(adm[a].name, adm[a].project) THEN Finish(a) ELSE Goto(a, "insert")
  /\ UNCHANGED <<mongo, cache, vreq, client>>

\* Fault variant: no unique index.
InsertAny(a, op, n, next) ==
  /\ At(a, op, "insert")
  /\ \E s \in Service :
       /\ status[s] = "unissued" /\ ProjectOf[s] = adm[a].project /\ NameOf[s] = n
       /\ Create(s) /\ adm' = [adm EXCEPT ![a] = [@ EXCEPT !.pc = next, !.new = s]]
  /\ UNCHANGED <<projects, usage, cache, vreq, client>>

\* An insert under name n; the unique index rejects a taken name, which answers 500.
InsertUnique(a, op, n, next) ==
  /\ At(a, op, "insert")
  /\ \E s \in Service :
       /\ status[s] = "unissued" /\ ProjectOf[s] = adm[a].project /\ NameOf[s] = n
       /\ IF NameTaken(n, adm[a].project)
          THEN Finish(a) /\ UNCHANGED status
          ELSE Create(s) /\ adm' = [adm EXCEPT ![a] = [@ EXCEPT !.pc = next, !.new = s]]
  /\ UNCHANGED <<projects, usage, cache, vreq, client>>

InsertService(a) == InsertUnique(a, "createService", adm[a].name, "reply")

\* rotateService inserts the replacement under the old service's own name.
InsertReplacement(a) ==
  /\ At(a, "rotateService", "insert")
  /\ InsertUnique(a, "rotateService", NameOf[adm[a].cred], "update")

\* The routes of a project's services.
CallCreateService(a) ==
  \E u \in User, p \in Project, n \in Name : Call(a, "createService", u, p, None, n)

CallOnService(a, op) ==
  \E u \in User, p \in Project, c \in Service : Call(a, op, u, p, c, None)

CreateService(a) ==
  \/ CallCreateService(a)
  \/ AssertOwnership(a, "createService", "find")
  \/ FindByName(a)
  \/ InsertService(a)
  \/ Reply(a, "createService")

\* Fault variant: the DEL goes to the apikey: namespace.
RevokeServiceWrongPrefix(a) ==
  \/ CallOnService(a, "revokeService")
  \/ AssertOwnership(a, "revokeService", "find")
  \/ FindActive(a, "revokeService", "update")
  \/ UpdateRevoked(a, "revokeService")
  \/ At(a, "revokeService", "del") /\ Goto(a, "reply") /\ UNCHANGED <<mongo, cache, vreq, client>>
  \/ Reply(a, "revokeService")

RevokeService(a) ==
  \/ CallOnService(a, "revokeService")
  \/ AssertOwnership(a, "revokeService", "find")
  \/ FindActive(a, "revokeService", "update")
  \/ UpdateRevoked(a, "revokeService")
  \/ Invalidate(a, "revokeService")
  \/ Reply(a, "revokeService")

RotateService(a) ==
  \/ CallOnService(a, "rotateService")
  \/ AssertOwnership(a, "rotateService", "find")
  \/ FindActive(a, "rotateService", "insert")
  \/ InsertReplacement(a)
  \/ UpdateRevoked(a, "rotateService")
  \/ Invalidate(a, "rotateService")
  \/ Reply(a, "rotateService")
=============================================================================
