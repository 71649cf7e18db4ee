------------------------------- MODULE Store -------------------------------
(***************************************************************************)
(* What the request handlers of elyzor share: the MongoDB collections      *)
(* (projects, API keys, services, usage logs), the Redis verification      *)
(* cache, and the handlers that are in flight.  Every await of a handler   *)
(* is a point where others run, so a handler is a record with a program    *)
(* counter `pc' naming the call it makes next.                             *)
(*                                                                         *)
(* Identifiers and secrets are random (crypto.randomBytes, ObjectId), so a *)
(* credential that will ever be issued is a member of Key or Service, and  *)
(* the project and the name it will be issued for are functions of it.     *)
(***************************************************************************)
EXTENDS FiniteSets

CONSTANTS
  User, Project,        \* platform users and project ids
  Key, Service,         \* API keys and service identities that may be issued
  Name,                 \* service names
  Owner,                \* the user who creates a project
  ProjectOf, NameOf,    \* what a credential is issued for
  Req, Admin,           \* slots for verify requests and for dashboard requests
  Ops,                  \* the dashboard operations clients call
  None                  \* no credential

Cred == Key \cup Service

AllOps == {"createKey", "revokeKey", "rotateKey", "createService",
           "revokeService", "rotateService", "deleteProject"}

ASSUME StoreAssumption ==
  /\ Owner \in [Project -> User]
  /\ ProjectOf \in [Cred -> Project]
  /\ NameOf \in [Service -> Name]
  /\ Key \cap Service = {}
  /\ None \notin Cred \cup User \cup Project \cup Name
  /\ Ops \subseteq AllOps

VARIABLES
  projects,   \* project documents: "unissued" | "live" | "deleted"
  status,     \* credential documents: "unissued" | "active" | "revoked" | "deleted"
  usage,      \* projects that have usage documents
  cache,      \* Redis apikey:<hash> / svckey:<hash>: "none" | "active" | "revoked"
  vreq,       \* verify handlers in flight
  adm,        \* dashboard handlers in flight
  held,       \* credentials whose secret was returned to the client
  acked       \* credentials whose revocation was confirmed to the client

mongo  == <<projects, status, usage>>
client == <<held, acked>>

Exists(c) == status[c] \in {"active", "revoked"}

(***************************************************************************)
(* Repository calls.                                                       *)
(***************************************************************************)
FindProject(p, u) == projects[p] = "live" /\ Owner[p] = u

FindByIdAndProject(c, p) == Exists(c) /\ ProjectOf[c] = p

\* The documents of kind K that belong to p.
DocsOf(p, K) == {c \in K : FindByIdAndProject(c, p)}

\* Model.create: a fresh document, active by the schema's default.
Create(c) == status' = [status EXCEPT ![c] = "active"]

\* updateOne({_id, projectId}): matches nothing once the document is gone.
Revoke(c, p) ==
  status' = [status EXCEPT ![c] = IF FindByIdAndProject(c, p) THEN "revoked" ELSE @]

\* deleteMany
Delete(D) == status' = [c \in Cred |-> IF c \in D THEN "deleted" ELSE status[c]]

DelCache(c) == cache' = [cache EXCEPT ![c] = "none"]

(***************************************************************************)
(* Dashboard handlers.  A rejected MongoDB or Redis call, a lost response  *)
(* and the death of the worker process all end the handler where it is:    *)
(* the calls it made stay, the ones it had left are never made.            *)
(***************************************************************************)
AdminIdle == [pc |-> "idle", op |-> None, user |-> None, project |-> None,
              cred |-> None, name |-> None, new |-> None, todo |-> {}, failed |-> FALSE]

At(a, op, pc) == adm[a].pc = pc /\ adm[a].op = op

Goto(a, pc) == adm' = [adm EXCEPT ![a] = [@ EXCEPT !.pc = pc]]

Finish(a) == adm' = [adm EXCEPT ![a] = AdminIdle]

\* User u calls op on project p; the id of a credential in the path is c, a name in the body n.
\* Nothing is known about u, p and c but that the access token names u.
Call(a, op, u, p, c, n) ==
  /\ op \in Ops
  /\ adm[a].pc = "idle"
  /\ adm' = [adm EXCEPT ![a] = [AdminIdle EXCEPT !.pc = "own", !.op = op, !.user = u,
                                                 !.project = p, !.cred = c, !.name = n]]
  /\ UNCHANGED <<mongo, cache, vreq, client>>

AbortAdmin(a) ==
  /\ adm[a].pc # "idle"
  /\ Finish(a)
  /\ UNCHANGED <<mongo, cache, vreq, client>>

\* Fault variant: SET without a TTL.
ExpireNever(c) == FALSE /\ DelCache(c) /\ UNCHANGED <<mongo, vreq, adm, client>>

(***************************************************************************)
(* Redis drops a verification entry: its TTL ran out, it was evicted, or   *)
(* Redis restarted.                                                        *)
(***************************************************************************)
Expire(c) ==
  /\ cache[c] # "none"
  /\ DelCache(c)
  /\ UNCHANGED <<mongo, vreq, adm, client>>
=============================================================================
