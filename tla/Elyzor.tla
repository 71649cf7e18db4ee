------------------------------- MODULE Elyzor -------------------------------
(***************************************************************************)
(* The credential system of elyzor: verification of API keys and services  *)
(* running against the dashboard handlers that create, revoke, rotate and  *)
(* delete them.  The handlers run in the workers of a cluster, so any      *)
(* number of them interleave at their awaits; MongoDB and Redis execute    *)
(* one call at a time.                                                     *)
(***************************************************************************)
EXTENDS VerifyService, Services

(***************************************************************************)
(* History, for the properties only; no action reads it.                   *)
(***************************************************************************)
VARIABLES
  raced,      \* credentials whose document stopped being active while a lookup that had
              \* read it as active was about to write the cache
  strays,     \* credentials inserted into a project that was being deleted, or was gone
  strayLogs   \* projects that were logged to in that time

history == <<raced, strays, strayLogs>>
vars == <<mongo, cache, vreq, adm, client, history>>

NewlyRaced ==
  {c \in Cred : /\ status[c] = "active" /\ status'[c] # "active"
                /\ \E r \in Req : vreq[r].pc = "setex" /\ vreq[r].cred = c}

Deleting(a, p) ==
  adm[a].op = "deleteProject" /\ adm[a].project = p /\ adm[a].pc \in {"cascade", "drop"}

\* A deletion of p is past its ownership check, or has succeeded.
Closing(p) == projects[p] = "deleted" \/ \E a \in Admin : Deleting(a, p)

\* A deletion that ends without success owes nothing to its strays: the next one takes them.
Record ==
  LET inserted == {c \in Cred : status[c] = "unissued" /\ status'[c] # "unissued"
                                /\ Closing(ProjectOf[c])}
      logged   == {p \in usage' \ usage : Closing(p)}
  IN  /\ raced' = raced \cup NewlyRaced
      /\ strays' = {c \in strays \cup inserted : Closing(ProjectOf[c])'}
      /\ strayLogs' = {p \in strayLogs \cup logged : Closing(p)'}

Init ==
  /\ projects = [p \in Project |-> "unissued"]
  /\ status = [c \in Cred |-> "unissued"]
  /\ usage = {}
  /\ cache = [c \in Cred |-> "none"]
  /\ vreq = [r \in Req |-> VerifyIdle]
  /\ adm = [a \in Admin |-> AdminIdle]
  /\ held = {} /\ acked = {}
  /\ raced = {} /\ strays = {} /\ strayLogs = {}

Verify(r) == VerifyKey(r) \/ VerifyServiceKey(r)

Dashboard(a) ==
  \/ CreateKey(a) \/ RevokeKey(a) \/ RotateKey(a)
  \/ CreateService(a) \/ RevokeService(a) \/ RotateService(a)
  \/ DeleteProject(a) \/ AbortAdmin(a)

Next ==
  \/ \E r \in Req : Verify(r) /\ Record
  \/ \E a \in Admin : Dashboard(a) /\ Record
  \/ \E p \in Project : CreateProject(p) /\ Record
  \/ \E c \in Cred : Expire(c) /\ Record

Spec == Init /\ [][Next]_vars

(***************************************************************************)
(* Fairness: a verify handler ends (MongoDB and Redis calls settle: driver *)
(* timeouts, maxRetriesPerRequest), and an entry of the cache expires (its *)
(* TTL is set by the same SETEX and never renewed on a hit).  Nothing is   *)
(* assumed of clients or of the dashboard.                                 *)
(***************************************************************************)
Fairness ==
  /\ \A r \in Req : WF_vars(VerifyStep(r) /\ Record)
  /\ \A c \in Cred : WF_vars(Expire(c) /\ Record)

FairSpec == Spec /\ Fairness

-----------------------------------------------------------------------------
VerifyHandler ==
  [pc : {"idle", "get", "find", "setex", "limit", "log"}, cred : Cred \cup {None},
   data : {"none", "active", "revoked"},
   result : {"none", "success", "rate_limited", "revoked"}, late : BOOLEAN]

AdminHandler ==
  [pc : {"idle", "own", "find", "insert", "update", "del", "reply", "cascade", "drop"},
   op : AllOps \cup {None}, user : User \cup {None}, project : Project \cup {None},
   cred : Cred \cup {None}, name : Name \cup {None}, new : Cred \cup {None},
   todo : SUBSET CascadeParts, failed : BOOLEAN]

\* Type invariant of the store, the cache and the handlers in flight.
TypeOK ==
  /\ projects \in [Project -> {"unissued", "live", "deleted"}]
  /\ status \in [Cred -> {"unissued", "active", "revoked", "deleted"}]
  /\ usage \subseteq Project
  /\ cache \in [Cred -> {"none", "active", "revoked"}]
  /\ vreq \in [Req -> VerifyHandler]
  /\ adm \in [Admin -> AdminHandler]
  /\ held \subseteq Cred /\ acked \subseteq Cred
  /\ raced \subseteq Cred /\ strays \subseteq Cred /\ strayLogs \subseteq Project

-----------------------------------------------------------------------------
(* Revocation and the cache. *)

Gone(c) == status[c] \in {"revoked", "deleted"}

\* A gone credential that nothing in the system still takes for active.
Settled(c) ==
  /\ Gone(c)
  /\ cache[c] # "active"
  /\ \A r \in Req : ~ /\ vreq[r].cred = c /\ vreq[r].data = "active"
                      /\ vreq[r].pc \in {"setex", "limit"}

\* "Revoked credentials fail on next request": a request that arrives after the answer of
\* revokeKey, revokeService or a rotation is not answered valid.  The claim of README.md.
RevocationIsImmediate ==
  \A r \in Req : ~ (vreq[r].late /\ vreq[r].result = "success")

\* What the code keeps of that claim, whatever fails and whoever else runs: a confirmed
\* revocation is immediate unless, when the document was updated, a verify handler held
\* the active document it had read and had not yet run its SETEX.
ImmediateUnlessRaced ==
  \A r \in Req : vreq[r].late /\ vreq[r].result = "success" => vreq[r].cred \in raced

\* Once settled, a credential stays settled: no later lookup, fill, retry, rotation or
\* half-finished handler brings it back, so it is never answered valid again.
SettledIsFinal == [][\A c \in Cred : Settled(c) => Settled(c)']_vars

\* The refinement mapping.
Life(c) == IF Settled(c) THEN "dead" ELSE IF Gone(c) THEN "ended" ELSE status[c]

Question(v) == [cred |-> v.cred, late |-> v.late, verdict |-> v.result]

Lives == [c \in Cred |-> Life(c)]
Asked == [r \in Req |-> Question(vreq[r])]

V == INSTANCE Verdict WITH life <- Lives, stale <- raced, confirmed <- acked, asked <- Asked

\* Cache, lookups, fills, handlers and their failures implement Verdict: what is answered
\* depends on nothing but the credential's life and the one race, and no step leads back.
ImplementsVerdict == V!Spec

\* Every revoked or deleted credential is settled in the end, whatever calls were lost on
\* the way: the stale entry that a race, a failed DEL or a deletion leaves is not renewed.
RevocationTakesEffect == V!EndsDie

-----------------------------------------------------------------------------
(* Dashboard operations. *)

\* The documents of a project change only in a handler called by the project's owner:
\* ownership is checked calls earlier, and the id in the path is the caller's choice.
TenantIsolation ==
  [][\A c \in Cred : status'[c] # status[c] =>
       \E a \in Admin : /\ adm[a].user = Owner[ProjectOf[c]]
                        /\ adm'[a] # adm[a]]_vars

\* decisions.md 028, create-first: where no client revokes keys or deletes projects, a project that
\* ever had a key has an active one, through concurrent rotations, crashes and lost calls.
RotationKeepsAnActiveKey ==
  Ops \cap {"revokeKey", "deleteProject"} = {} =>
    \A p \in Project : (\E k \in Key : ProjectOf[k] = p /\ status[k] # "unissued")
                       => \E k \in Key : ProjectOf[k] = p /\ status[k] = "active"

\* decisions.md 028, "service identities can be rotated": an insert the database answers
\* gives the rotation its replacement.
ServiceRotationInserts ==
  [][\A a \in Admin : InsertReplacement(a) => adm'[a].pc = "update"]_vars

\* Two documents of a project never share a name, although createService looks the name
\* up in one call and inserts it in another while rotations and deletions go on.
NamesUnique ==
  \A p \in Project : \A s, t \in DocsOf(p, Service) : NameOf[s] = NameOf[t] => s = t

\* decisions.md 027, children first and the project last: of a deleted project nothing is left but
\* what other handlers wrote while or after it was deleted, whichever deletes failed before
\* and were retried and however many deletions ran at once.
NoOrphans ==
  \A p \in Project : projects[p] = "deleted" =>
    DocsOf(p, Cred) \subseteq strays /\ (p \in usage => p \in strayLogs)

\* A deleted project that no handler is working for.
Closed(p) ==
  /\ projects[p] = "deleted"
  /\ \A a \in Admin : adm[a].project = p => adm[a].pc \in {"idle", "own"}

\* A deleted project issues nothing any more once the handlers that passed the ownership
\* check before the deletion have ended.
ClosedIsFinal ==
  [][\A p \in Project : Closed(p) =>
       /\ Closed(p)'
       /\ \A c \in Cred : ProjectOf[c] = p => status'[c] = status[c]]_vars
=============================================================================
