---------------------------- MODULE Verification ----------------------------
(***************************************************************************)
(* VerificationService.verify: the cache-aside check of a presented        *)
(* credential.  One action per awaited call:                               *)
(*                                                                         *)
(*   get -> (hit)                 -> limit -> log                          *)
(*       -> (miss) find -> setex  -> limit -> log                          *)
(*                                                                         *)
(* A document or an entry that says "revoked" goes straight to the log.    *)
(* Other handlers run between any two steps.                               *)
(***************************************************************************)
EXTENDS Store

VerifyIdle == [pc |-> "idle", cred |-> None, data |-> "none", result |-> "none",
               late |-> FALSE]

\* What verify does with key data once it has it: refuse a revoked one, count an active one.
Judge(v, d) ==
  IF d = "active" THEN [v EXCEPT !.pc = "limit", !.data = d]
                  ELSE [v EXCEPT !.pc = "log", !.data = d, !.result = "revoked"]

\* A client presents a credential it holds.  `late' records, for the properties only,
\* that its revocation had been confirmed before this request arrived.
Present(r, c) ==
  /\ vreq[r].pc = "idle"
  /\ c \in held
  /\ vreq' = [vreq EXCEPT ![r] = [VerifyIdle EXCEPT !.pc = "get", !.cred = c,
                                                    !.late = c \in acked]]
  /\ UNCHANGED <<mongo, cache, adm, client>>

ReadCache(r) ==
  /\ vreq[r].pc = "get"
  /\ LET hit == cache[vreq[r].cred]
     IN  vreq' = [vreq EXCEPT ![r] = IF hit = "none" THEN [@ EXCEPT !.pc = "find"]
                                                     ELSE Judge(@, hit)]
  /\ UNCHANGED <<mongo, cache, adm, client>>

\* findBySecretHash: no document, no cache entry and an invalid_key answer.
FindBySecretHash(r) ==
  /\ vreq[r].pc = "find"
  /\ LET c == vreq[r].cred
     IN  vreq' = [vreq EXCEPT ![r] = IF Exists(c)
                                     THEN [@ EXCEPT !.pc = "setex", !.data = status[c]]
                                     ELSE VerifyIdle]
  /\ UNCHANGED <<mongo, cache, adm, client>>

\* Fault variant: the cached object is written without its revoked flag.
FillCacheWithoutFlag(r) ==
  /\ vreq[r].pc = "setex"
  /\ cache' = [cache EXCEPT ![vreq[r].cred] = "active"]
  /\ vreq' = [vreq EXCEPT ![r] = Judge(@, @.data)]
  /\ UNCHANGED <<mongo, adm, client>>

\* setex with what findOne returned, however long ago that was.
FillCache(r) ==
  /\ vreq[r].pc = "setex"
  /\ cache' = [cache EXCEPT ![vreq[r].cred] = vreq[r].data]
  /\ vreq' = [vreq EXCEPT ![r] = Judge(@, @.data)]
  /\ UNCHANGED <<mongo, adm, client>>

\* checkRateLimit and the answer.  Either outcome is possible here: the project's counter
\* is the subject of RateLimiter.  "success" is the answer valid: true.
CheckRateLimit(r) ==
  /\ vreq[r].pc = "limit"
  /\ \E outcome \in {"success", "rate_limited"} :
       vreq' = [vreq EXCEPT ![r] = [@ EXCEPT !.pc = "log", !.result = outcome]]
  /\ UNCHANGED <<mongo, cache, adm, client>>

\* The usage document, written after the client has its answer.
LogUsage(r) ==
  /\ vreq[r].pc = "log"
  /\ usage' = usage \cup {ProjectOf[vreq[r].cred]}
  /\ vreq' = [vreq EXCEPT ![r] = VerifyIdle]
  /\ UNCHANGED <<projects, status, cache, adm, client>>

\* A call was rejected (answer: invalid_key; for a log write: nothing), or the worker died.
\* A setex that took effect although its reply was lost is FillCache followed by this.
AbortVerify(r) ==
  /\ vreq[r].pc # "idle"
  /\ vreq' = [vreq EXCEPT ![r] = VerifyIdle]
  /\ UNCHANGED <<mongo, cache, adm, client>>

VerifyStep(r) ==
  \/ ReadCache(r) \/ FindBySecretHash(r) \/ FillCache(r)
  \/ CheckRateLimit(r) \/ LogUsage(r)

\* POST /v1/verify/key accepts only sk_live_ credentials.
VerifyKey(r) ==
  \/ \E c \in Key : Present(r, c)
  \/ vreq[r].cred \in Key /\ (VerifyStep(r) \/ AbortVerify(r))
=============================================================================
