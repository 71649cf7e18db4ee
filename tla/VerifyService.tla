--------------------------- MODULE VerifyService ---------------------------
(***************************************************************************)
(* VerifyServiceService.verify: the same protocol as Verification, step    *)
(* for step, over service identities, the svckey: namespace and revokedAt. *)
(***************************************************************************)
EXTENDS Verification

IsService(r) == vreq[r].cred \in Service

PresentService(r) == \E c \in Service : Present(r, c)

ServiceReadCache(r) == IsService(r) /\ ReadCache(r)

ServiceLookupFromDb(r) == IsService(r) /\ (FindBySecretHash(r) \/ FillCache(r))

ServiceCheckRateLimit(r) == IsService(r) /\ CheckRateLimit(r)

ServiceLogUsage(r) == IsService(r) /\ LogUsage(r)

ServiceAbort(r) == IsService(r) /\ AbortVerify(r)

VerifyServiceKey(r) ==
  \/ PresentService(r) \/ ServiceReadCache(r) \/ ServiceLookupFromDb(r)
  \/ ServiceCheckRateLimit(r) \/ ServiceLogUsage(r) \/ ServiceAbort(r)
=============================================================================
