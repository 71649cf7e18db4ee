------------------------------- MODULE ApiKeys -------------------------------
(***************************************************************************)
(* ApiKeyService: create, revoke and rotate an API key.                    *)
(*                                                                         *)
(*   create:  own -> insert -> reply                                       *)
(*   revoke:  own -> find -> update -> del -> reply                        *)
(*   rotate:  own -> find -> insert -> update -> del -> reply              *)
(*                                                                         *)
(* There is no transaction: the check at find and the write at update are  *)
(* two calls, and so are the update of MongoDB and the DEL in Redis.       *)
(***************************************************************************)
EXTENDS Projects

\* findByIdAndProject: 404 without a document, 403 if it is already revoked.
FindActive(a, op, next) ==
  /\ At(a, op, "find")
  /\ IF FindByIdAndProject(adm[a].cred, adm[a].project) /\ status[adm[a].cred] = "active"
     THEN Goto(a, next) ELSE Finish(a)
  /\ UNCHANGED <<mongo, cache, vreq, client>>

\* Inserts a fresh credential of kind K for the project named in the request.
InsertFresh(a, op, next, K) ==
  /\ At(a, op, "insert")
  /\ \E c \in K :
       /\ status[c] = "unissued" /\ ProjectOf[c] = adm[a].project
       /\ Create(c)
       /\ adm' = [adm EXCEPT ![a] = [@ EXCEPT !.pc = next, !.new = c]]
  /\ UNCHANGED <<projects, usage, cache, vreq, client>>

\* Fault variant: a rejected update is swallowed and the handler goes on.
UpdateSwallowed(a, op) ==
  /\ At(a, op, "update")
  /\ Revoke(adm[a].cred, adm[a].project) \/ UNCHANGED status
  /\ Goto(a, "del")
  /\ UNCHANGED <<projects, usage, cache, vreq, client>>

UpdateRevoked(a, op) ==
  /\ At(a, op, "update")
  /\ Revoke(adm[a].cred, adm[a].project)
  /\ Goto(a, "del")
  /\ UNCHANGED <<projects, usage, cache, vreq, client>>

\* Fault variant: the cache entry is left alone.
InvalidateNothing(a, op) ==
  /\ At(a, op, "del")
  /\ Goto(a, "reply")
  /\ UNCHANGED <<mongo, cache, vreq, client>>

Invalidate(a, op) ==
  /\ At(a, op, "del")
  /\ DelCache(adm[a].cred)
  /\ Goto(a, "reply")
  /\ UNCHANGED <<mongo, vreq, client>>

\* Fault variant: every answer is taken to carry a new secret.
ReplyWithSecret(a, op) ==
  /\ At(a, op, "reply")
  /\ held' = held \cup {adm[a].new}
  /\ Finish(a)
  /\ UNCHANGED <<mongo, cache, vreq, acked>>

\* The 2xx answer: the secret of a new credential appears here and nowhere else.
Reply(a, op) ==
  /\ At(a, op, "reply")
  /\ held'  = held \cup ({adm[a].new} \ {None})
  /\ acked' = acked \cup ({adm[a].cred} \ {None})
  /\ Finish(a)
  /\ UNCHANGED <<mongo, cache, vreq>>

\* The routes of a project's keys.
CallCreateKey(a) == \E u \in User, p \in Project : Call(a, "createKey", u, p, None, None)

CallOnKey(a, op) ==
  \E u \in User, p \in Project, c \in Key : Call(a, op, u, p, c, None)

CreateKey(a) ==
  \/ CallCreateKey(a)
  \/ AssertOwnership(a, "createKey", "insert")
  \/ InsertFresh(a, "createKey", "reply", Key)
  \/ Reply(a, "createKey")

RevokeKey(a) ==
  \/ CallOnKey(a, "revokeKey")
  \/ AssertOwnership(a, "revokeKey", "find")
  \/ FindActive(a, "revokeKey", "update")
  \/ UpdateRevoked(a, "revokeKey")
  \/ Invalidate(a, "revokeKey")
  \/ Reply(a, "revokeKey")

\* Fault variant: the old key is revoked before the new one is created.
RotateKeyRevokeFirst(a) ==
  \/ CallOnKey(a, "rotateKey")
  \/ AssertOwnership(a, "rotateKey", "find")
  \/ FindActive(a, "rotateKey", "update")
  \/ UpdateRevoked(a, "rotateKey")
  \/ At(a, "rotateKey", "del") /\ DelCache(adm[a].cred) /\ Goto(a, "insert")
     /\ UNCHANGED <<mongo, vreq, client>>
  \/ InsertFresh(a, "rotateKey", "reply", Key)
  \/ Reply(a, "rotateKey")

RotateKey(a) ==
  \/ CallOnKey(a, "rotateKey")
  \/ AssertOwnership(a, "rotateKey", "find")
  \/ FindActive(a, "rotateKey", "insert")
  \/ InsertFresh(a, "rotateKey", "update", Key)
  \/ UpdateRevoked(a, "rotateKey")
  \/ Invalidate(a, "rotateKey")
  \/ Reply(a, "rotateKey")
=============================================================================
