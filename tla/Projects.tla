------------------------------ MODULE Projects ------------------------------
(***************************************************************************)
(* ProjectService: creating a project, the ownership check every dashboard *)
(* handler makes first, and the cascade of deleteProject.                  *)
(***************************************************************************)
EXTENDS Store

CascadeParts == {"keys", "services", "usage"}

\* One insert, without a check before it.
CreateProject(p) ==
  /\ projects[p] = "unissued"
  /\ projects' = [projects EXCEPT ![p] = "live"]
  /\ UNCHANGED <<status, usage, cache, vreq, adm, client>>

\* Fault variants: any project is accepted; a project of the caller's is, even deleted.
AssertNothing(a, op, next) ==
  /\ At(a, op, "own") /\ Goto(a, next)
  /\ UNCHANGED <<mongo, cache, vreq, client>>

AssertOwnerOnly(a, op, next) ==
  /\ At(a, op, "own")
  /\ IF Owner[adm[a].project] = adm[a].user THEN Goto(a, next) ELSE Finish(a)
  /\ UNCHANGED <<mongo, cache, vreq, client>>

\* assertOwnership: one read; a project that is not the caller's answers 404.
AssertOwnership(a, op, next) ==
  /\ At(a, op, "own")
  /\ IF FindProject(adm[a].project, adm[a].user) THEN Goto(a, next) ELSE Finish(a)
  /\ UNCHANGED <<mongo, cache, vreq, client>>

\* deleteProject reads the project itself, then starts the three deletes at once.
BeginCascade(a) ==
  /\ At(a, "deleteProject", "own")
  /\ IF FindProject(adm[a].project, adm[a].user)
     THEN adm' = [adm EXCEPT ![a] = [@ EXCEPT !.pc = "cascade", !.todo = CascadeParts]]
     ELSE Finish(a)
  /\ UNCHANGED <<mongo, cache, vreq, client>>

\* Fault variant: Promise.allSettled, a rejected delete does not stop the handler.
SettleAll(a, part, ok) ==
  LET left == adm[a].todo \ {part}
  IN  adm' = [adm EXCEPT ![a] = [@ EXCEPT !.pc = IF left = {} THEN "drop" ELSE adm[a].pc, !.todo = left]]

\* Promise.all: the last delete to settle lets the handler go on, unless one was rejected.
\* (The client has its 500 at the first rejection; the other deletes still run.)
Settle(a, part, ok) ==
  LET left == adm[a].todo \ {part}
      bad  == adm[a].failed \/ ~ok
  IN  IF left = {}
      THEN IF bad THEN Finish(a)
                  ELSE adm' = [adm EXCEPT ![a] = [@ EXCEPT !.pc = "drop", !.todo = {}]]
      ELSE adm' = [adm EXCEPT ![a] = [@ EXCEPT !.todo = left, !.failed = bad]]

\* deleteMany of one kind.  A rejected deleteMany may have deleted some documents.
CascadeCredentials(a, part, K) ==
  /\ At(a, "deleteProject", "cascade")
  /\ part \in adm[a].todo
  /\ LET docs == DocsOf(adm[a].project, K)
     IN  \/ Delete(docs) /\ Settle(a, part, TRUE)
         \/ \E D \in SUBSET docs : Delete(D) /\ Settle(a, part, FALSE)
  /\ UNCHANGED <<projects, usage, cache, vreq, client>>

CascadeUsage(a) ==
  /\ At(a, "deleteProject", "cascade")
  /\ "usage" \in adm[a].todo
  /\ \/ usage' = usage \ {adm[a].project} /\ Settle(a, "usage", TRUE)
     \/ usage' \in {usage, usage \ {adm[a].project}} /\ Settle(a, "usage", FALSE)
  /\ UNCHANGED <<projects, status, cache, vreq, client>>

\* findOneAndDelete({_id, userId}): deletes nothing, and does not complain, the second time.
DropProject(a) ==
  /\ At(a, "deleteProject", "drop")
  /\ projects' = [projects EXCEPT ![adm[a].project] = "deleted"]
  /\ Finish(a)
  /\ UNCHANGED <<status, usage, cache, vreq, client>>

CallDeleteProject(a) ==
  \E u \in User, p \in Project : Call(a, "deleteProject", u, p, None, None)

DeleteProject(a) ==
  \/ CallDeleteProject(a)
  \/ BeginCascade(a)
  \/ CascadeCredentials(a, "keys", Key)
  \/ CascadeCredentials(a, "services", Service)
  \/ CascadeUsage(a)
  \/ DropProject(a)
=============================================================================
