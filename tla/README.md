# Formal models of elyzor

elyzor issues API keys and service identities to the projects of its users, and
answers, on a hot path, whether a presented credential is valid. This directory
holds TLA+ models of its request handlers, rate limiter, session handling and
process cluster, the TLC configurations that check them on small instances, and
proofs, checked by TLAPS, of what holds for any number of users, credentials and
concurrent requests. Paths below are relative to the repository root.

## Inventory

elyzor is a stateless Express application run by a cluster of worker processes.
All state is in MongoDB (source of truth) and Redis (cache, counters, blacklist).
A handler is a sequence of awaited calls to the two; there are **no
transactions**, so between any two calls of one handler any other handler, in any
worker, may run, and each call may be rejected, its reply lost, or the worker may
die. That is where everything hard in this program is.

| Component (source under `src/`) | State | Operations | What makes it correct |
|---|---|---|---|
| verification, verify-service | Redis `apikey:<hash>`, `svckey:<hash>` (TTL 5 min) | `verify`: cache get, on a miss find + SETEX, rate limit, answer, usage log | a revoked credential is refused |
| apikeys, services | `apikeys`, `services` documents; unique `{projectId, name}` | create, revoke, rotate, list | revocation lasts; rotation is create-first; names are unique; only the owner acts |
| projects | `projects` documents | create, delete (cascade), list, `assertOwnership` | tenants are isolated; a deleted project leaves nothing |
| usage | `usages` documents | fire-and-forget log, cascade, `getStats`: four aggregates and a merge | nothing is left of a deleted project; the merged list is the list of the merged |
| stats | none | range, `getStats`, ratios | the figures of an answer agree with each other |
| rateLimiter, `checkRateLimit` | Redis counters with a TTL | INCR, EXPIRE on 1, TTL, compare | at most max per window; a window ends |
| auth, users, authGuard | `users`, `refreshtokens`, Redis `blacklist:<jwt>` | register, login, refresh, logout, logout-all, guard | an ended token stays refused; a signed-out user stays signed out |
| cluster, index | processes, signals, timers, memory intervals | fork, exit, shutdown, memory check | dead workers are replaced; a shutdown reaches all and ends; a primary without workers ends |
| app, requestId, validateDto, errorHandler, config, errors | none | routing, validation, error to status | (not modelled: no state) |

Components interact only through MongoDB and Redis, with these exceptions:
`deleteProject` calls the repositories of the three collections below it;
every dashboard handler calls `ProjectService.assertOwnership` first; `verify`
calls `UsageService.log` without awaiting it; the primary process sends signals to
workers and receives their exit events.

## Modules

| Module | Models | Extends |
|---|---|---|
| `Store` | collections, cache, handler slots, the repository calls | FiniteSets |
| `Verification` | `VerificationService.verify` | Store |
| `VerifyService` | `VerifyServiceService.verify` | Verification |
| `Projects` | `ProjectService` | Store |
| `ApiKeys` | `ApiKeyService` | Projects |
| `Services` | `ServiceService` | ApiKeys |
| `Elyzor` | the composition, its properties and fairness | VerifyService, Services |
| `Verdict` | the abstract specification: credentials that live, end and die, and what may be answered of them | (none) |
| `ElyzorProofs` | types, revocation, tenants, closed projects | Elyzor, TLAPS |
| `VerdictProofs` | `Elyzor` implements `Verdict` | ElyzorProofs |
| `DashboardProofs` | names, rotation, deletion | ElyzorProofs |
| `RateLimiter` | `ipRateLimiter` and `checkRateLimit` | Naturals |
| `Sessions` | `AuthService`, `authGuard`, token signing | Naturals |
| `Account` | the abstract specification of sessions: what clients present, what is accepted, and what stays ended | (none) |
| `Cluster` | `cluster.ts`, `index.ts` | FiniteSets |
| `Stats` | `UsageRepository`, `StatsService`, the stats route | Integers, FiniteSetsExt |
| `RateLimiterProofs` | theorems about `RateLimiter` | RateLimiter, FiniteSetTheorems, TLAPS |
| `ClusterProofs` | theorems about `Cluster` | Cluster, TLAPS |
| `SessionsProofs` | theorems about `Sessions` | Sessions, TLAPS |
| `AccountProofs` | `Sessions` implements `Account` | SessionsProofs |
| `StatsProofs` | theorems about `Stats` | Stats, FunctionTheorems, FiniteSetTheorems, TLAPS |
| `MC*` | constants and symmetry for TLC | the above |

### How state and actions correspond to the code

*One action per awaited call.* A handler is a record in a slot (`vreq[r]`,
`adm[a]`, `req[h]`) whose `pc` names the call it makes next. The synchronous code
after a reply is part of the action that received the reply. The diagrams at the
head of each module list the pcs of each handler in order. Actions named
`Abort…`/`Crash` end a handler at any pc: a rejected call that reaches
`errorHandler`, a lost response, and the death of the worker are one thing to the
rest of the system. A call that took effect although its reply was lost is the
call's action followed by the abort.

*Data.* A credential is a model value; its project and name are constant functions
of it, since ids and secrets are random and never repeat. Hashing, parsing, prefix
checks and constant-time comparison are abstracted to "this credential was
presented". A cache entry is `none`, `active` or `revoked`, the only part of the
cached object that later code branches on.

*`Elyzor`.* `status[c]` is the credential's document, `cache[c]` its Redis entry.
`FindBySecretHash` and `FillCache` are the two calls of `lookupFromDb`; what was read
stays in `vreq[r].data` until it is written, however much later. `Expire` stands for
the TTL, an eviction or a Redis restart. `held` and `acked` say what clients have been
told. Three history variables, which no action reads, record what the properties need
from the past: `raced`, the credentials whose document stopped being active while a
lookup that had read it as active was about to write; `strays` and `strayLogs`, the
credentials and the logs that were written to a project while one of its deletions was
past the ownership check, or after one had succeeded. `Record` is the conjunct of
every step that maintains them. The rate-limit outcome of a verification is free here;
it is the subject of `RateLimiter`. Deletion runs its three `deleteMany` in any order
(`Promise.all`), each may fail after deleting some documents, and the last one to
settle decides whether the project document goes.

*`Verdict`* has four variables and no database: a credential is unissued, active,
ended or dead, some end stale, and a question that arrives after the end of a
credential was confirmed is answered valid only if it ended stale. `Elyzor` maps to it
with `Life` (a gone credential is `ended` while a cache entry or a handler still takes
it for active, `dead` after), `raced` for what ended stale, `acked` for what was
confirmed, and the verify slots for the questions. What the mapping checks is that no
other state of the system, and no event after the end, has any bearing on the answer.

*`Stats`* takes the usage documents of one project one by one: a document has the time
it was built at, a credential and a result, and is `pending` until its insert is
executed. The start of the window is computed when the request passes the ownership
check; each aggregate then sees the collection as it is when the database runs it.
`Highest` leaves open which of several equal entries `$sort` and `$limit` keep, as
MongoDB does. `churn` is history: how many documents were stored or deleted since the
first aggregate of the request. An aggregate is one step; `Answers` is what the request
would answer and is not stored. Whether the project still exists is left to `Projects`.

*`RateLimiter`.* One counter of each kind: counters of different IPs and projects
never meet. The API-key counter and the service counter are the same code under two
names, so one `"key"` counter stands for both. ioredis resends a command when the
connection drops before the reply (`maxRetriesPerRequest: 1`), so an INCR may be
executed twice; EXPIRE is idempotent. `granted` counts the requests that read the reply of
their INCR and passed the comparison with the maximum; a request that `ipRateLimiter`
passes because a command was rejected (it fails open) is not among them. `lost` marks a
counter whose TTL command was lost.

*`Sessions`.* A JWT is a function of the user and the second it was signed in
(`generateAccessToken` puts nothing random in it), so `Access` is `User \X seconds`.
Refresh tokens are model values. A blacklist entry is the time it ends. `logout` computes
the TTL of the entry when it has the answer of `authGuard` (`EnterLogout`) and SETEX
counts it from whenever it is executed (`BlacklistAccessToken`), so an entry may outlast
its token and must not end before it. `revokeAllUserTokens` is one `updateMany`; it may
fail after it has revoked some of the tokens, and ends the handler then. Two kinds
of calls are folded into the step before them because they can change nothing:
`findById` in `refresh` (users are never deleted) and the DEL of `refresh:<hash>`,
a key nothing sets. Redis is taken to keep a blacklist entry for its TTL.

*`Account`* has no database, blacklist or clock: refresh tokens move from unissued to
active to revoked or expired, access tokens expire or leak, and a request presents
something, is accepted or refused once, opens at most one session and is answered or
forgotten. `Sessions` maps to it with `View`, which hides what a client cannot know
(where a handler is between its calls, and the access token it has signed but not
returned) and keeps how far the request is (`Progress`: it decides when it leaves
`find`, `create` or `guard`). `Expired` and `Leaky` replace the clock and the
blacklist: a token leaks while it is not expired, its write was rejected and it has no
entry. `Live` bounds
what the databases may do in any step, of a request or not: a refresh token ends only
by a request accepted for it or for its user, by a refused one of its user, or by age,
and an access token whose logout was told to a client does not begin to leak.

*`Cluster`.* A slot is one CPU's worker and those that replace it. A signal kills a
worker that is still booting, because `start()` installs the handlers last, and starts
`shutdown()` in one that serves. `watched` and `leftover` are the memory intervals of
the primary: one per fork, which ends itself when it finds its worker dead or gone, or
when the send throws, so a replaced worker's interval and its successor's run side by
side for a while. What a worker answers is only logged. They matter because, unlike
the timer of the shutdown, they keep the primary's event loop alive. Timers are
actions that may fire at any time after they are set, which covers every timing.

## Runs

All passing runs explore the whole state space of their instance.

| Run | Instance | Checks |
|---|---|---|
| `keys` | 2 keys, 1 verifier, 2 dashboard requests; create, revoke, rotate | `TypeOK`, `ImmediateUnlessRaced`, `SettledIsFinal`, `ImplementsVerdict` |
| `issue` | 3 keys and 2 services of one name in one project, a second tenant with a project of its own, 2 dashboard requests with any ids; create, rotate, revoke services | `NamesUnique`, `RotationKeepsAnActiveKey`, `TenantIsolation` |
| `expiry` | 1 service, 1 verifier, 2 dashboard requests that create and revoke it and delete the project, fairness | `RevocationTakesEffect`, `NoOrphans`, `ClosedIsFinal`, `ImmediateUnlessRaced` for services |
| `limiter` | 2 requests, IP max 2, project max 1, fairness | `TypeOK`, `WithinMax`, `TtlComing`, `WindowReopensUnlessLost` |
| `sessions` | 1 user, 2 refresh tokens, 2 requests, 2 ticks of the clock | `TypeOK`, `EndedTokensAreRefused`, `LogoutSticks`, `RegisteredOnce`, `OnlyLoginReopens`, `ImplementsAccount` |
| `cluster` | 2 workers, fairness | `TypeOK`, `NoWorkerIsMissed`, `DeadIsReplaced`, `ShutdownEnds`, `PrimaryWithoutWorkersEnds` |
| `stats` | 3 usage documents, 3 days, 2 keys, 1 service, ranges of 1 and 2 days, lists of 1 | `TypeOK`, `AnswersAddUp`, `TopKeysAreTop` |
| `immediate` | 1 key, 1 verifier, 1 dashboard request | **violated**: `RevocationIsImmediate` |
| `rotateservice` | 2 services of one name, 1 dashboard request | **violated**: `ServiceRotationInserts` |
| `reuse` | 2 refreshes | **violated**: `RefreshTokenUsedOnce` |
| `logoutall` | 1 user, 2 refresh tokens, 2 requests | **violated**: `LogoutAllClosesAll` |
| `restart` | 1 worker | **violated**: `SignalledIsNotReplaced` |

### What the passing runs show

* **Revocation.** `ImmediateUnlessRaced` is what the code keeps of "immediate
  revocation": once `revokeKey` has answered, a request that arrives later is never
  answered valid, *unless* at the moment the document was updated a lookup stood
  between its `findOne` and its SETEX. The DEL failing or the worker dying before it
  does not count as an exception, since then there is no answer. Whatever stale entry
  remains ends with its TTL (`RevocationTakesEffect`), because a hit does not renew
  it, and once nothing takes the credential for active nothing ever does again
  (`SettledIsFinal`). All of this is one claim about what an observer sees
  (`ImplementsVerdict`), of which `RevocationTakesEffect` is the liveness half. Expiry
  is what ends the keys of a deleted project, too: `deleteProject` deletes documents
  and no cache entry.
* **Dashboard.** Ownership is checked calls before the write, by ids the caller chose;
  still a document changes only in a handler of its project's owner
  (`TenantIsolation`), because every later query repeats the project id. Names stay
  unique by the index alone; the lookup in `createService` only improves the error.
  Create-first keeps a project with a key (`RotationKeepsAnActiveKey`) with concurrent
  rotations of one key included. Of a deleted project nothing is left but what other
  handlers wrote while it was being deleted or after (`NoOrphans`): deletes that fail
  partway, retries and overlapping deletions of one project add nothing to that. A
  deleted project without running handlers is inert (`ClosedIsFinal`).
* **Rate limits.** No interleaving or duplicate lets more requests than the maximum of a
  window pass the comparison, since INCR returns distinct values within a window. The IP
  limiter fails open, so while Redis rejects commands it bounds nothing: those requests
  are outside `WithinMax`. A window stays open
  for ever in exactly the cases `TtlComing` names: the handler that read 1 died or
  lost its EXPIRE, or the INCR that created the counter was executed without anybody
  reading 1.
* **Sessions.** An ended refresh token is refused to every later request and never
  becomes good again. A logged-out JWT is refused until it expires unless the
  blacklist write was rejected (which `blacklistAccessToken` swallows), or it expires
  between the two checks of `authGuard`. When a user has no session and no handler is
  past its check, only a login opens one. Of two concurrent registrations of an email
  at most one is answered, by the unique index alone (`RegisteredOnce`). What a client
  can see of all this is `Account` (`ImplementsAccount`): each presentation is decided
  on one state of the databases although a handler takes several calls; a session is
  opened after the token it replaces has ended; a second logout of one access token
  whose write is rejected does not undo the first.
* **Cluster.** A signal to the primary reaches every worker in every phase of its
  start; a dead worker is replaced; a shutdown ends, by the primary's timer; when the
  last worker was ended by a signal and nothing shuts the primary down, its memory
  intervals notice one by one and it ends too (`PrimaryWithoutWorkersEnds`).
* **Statistics.** The four aggregates have no common snapshot. Their figures may
  disagree by the documents written or deleted since the first of them ran, and by no
  more (`AnswersAddUp`); in particular not because time passes, since the window is
  computed once. Two lists cut to their top entries, merged, sorted and cut again are
  the top of all credentials, up to the same error (`TopKeysAreTop`).

### What the violations show

* `immediate`: README.md:268 promises immediate revocation. A lookup reads the active
  document, `revokeKey` updates it, deletes the cache entry and answers 204, then the
  lookup's SETEX (`verification.service.ts:61`) writes `revoked: false`; the key is
  valid for up to the cache TTL.
* `rotateservice`: the replacement is inserted under the old service's name
  (`services.service.ts:98`), which the unique index of `services.model.ts:15` refuses
  while the old document exists: no service rotation can succeed, against decisions.md
  028. The unit tests mock the repository.
* `reuse`: two refreshes with one cookie both pass the check of `auth.service.ts:98`
  before either revokes the token, against decisions.md 020.
* `logoutall`: a refresh passes the check of `auth.service.ts:98`, a logout-all revokes
  the tokens that are in the collection and answers, and the refresh inserts its new
  token (line 118): the user was told that all sessions ended (`swagger.ts:403`), and one
  goes on, against docs/security.md:79.
* `restart`: a serving worker handles SIGTERM itself and exits with a code, so the
  primary replaces it (`cluster.ts:101`), also while it is shutting down, against the
  comment above that line. The shutdown then always ends by the 15-second
  `process.exit(1)`.

### Behaviour worth knowing

* A create that passed `assertOwnership` before a deletion inserts after the cascade;
  the credential outlives the project and verifies. A usage document can also land
  after the cascade (`UsageService.log` is not awaited). `NoOrphans` says that these
  are the only ones, `ClosedIsFinal` that they end with the handlers that were
  running.
* A rotation checks `revoked` two calls before it inserts, so a revocation in between
  does not stop the replacement from being issued; the old key stays revoked. No
  document promises otherwise, and no property here does.
* A rotation that dies after it revoked the old key leaves the new secret, which
  exists only in the response, with nobody.
* A refresh whose response is lost leaves the client with a revoked token; its retry
  is taken for theft and ends every session of the user. The same happens when a
  second device, signed out by logout-all, refreshes after the first signed in again.
* `verification.service.ts:103` answers `invalid_key` when the cache lookup is
  rejected. docs/architecture.md speaks of a fallback to MongoDB (line 224) and of
  failing closed (line 160); the code and the model fail closed.
* A request refused in a window whose counter lost its TTL is told `retryAfter: -1`
  (`verification.service.ts:76`), and the window never ends;
  `TtlComing` names the cases.
* The handlers log `success`, `revoked` and `rate_limited` only; the results
  `invalid_key` and `error` that the daily errors also count are never written.
* Two logins of a user within a second yield the same JWT, so logging one out ends the
  other's access token.

## Bounds, symmetry, fairness

*Bounds.* Every handler touches one credential, or one and its replacement, so races
need two handlers and at most three credentials (two rotations of one key). Isolation
needs a second tenant that asks, from its own project and from the first one's, for the
first one's credentials; what is not in an instance (revoking keys of another tenant,
keys of a deleted project) is covered by the theorems of these properties. `CountBound`
lets a counter pass its maximum by two; in `stats` three documents and lists of one make
every cut drop something, three days put documents before and after the start of a
window, which moves, and `ChurnBound` 1 lets one document be written or deleted among
the four aggregates, the smallest disagreement there is (`TimeBound` stops the clock);
`ClockBound` 1 with `Lifetime` 1 has a token that expires within the run and one that
does not. What has a theorem holds without bounds.

*Symmetry* is used over slots, and over keys only where all are issued for one
project, and in no run with a liveness property.

*Fairness.* `Elyzor`: each step of a verify handler (the MongoDB driver and ioredis
settle every call: server selection and socket timeouts, `maxRetriesPerRequest`) and
the expiry of a cache entry (its TTL is part of the SETEX). Dashboard handlers need
none. `RateLimiter`: each step of a handler, and the end of a counter that has a TTL.
`Cluster`: processes run, signals and exit events are delivered, timers fire, the
memory intervals' among them; a client may keep its connection for ever. All weak: no
action competes with another for being enabled only now and then.

*Deadlock* is checked except in `cluster` and `restart`, where the system is meant to
stop.

## Proofs

`tlapm` proves, with nothing assumed but `StoreAssumption` (the constant functions have
their domains, keys and services are disjoint, `None` is nothing else),
`LimiterAssumption` (maxima are positive), `SessionsAssumption` and `NoAccess` (a
token has a user, a lifetime is positive, `None` is nothing else), and
`StatsAssumption` (finitely many documents, keys and services are disjoint, ranges and
bounds are natural numbers, days have a length, and handlers log the three results they
log in the code):

| Theorem | States, for every value of the constants |
|---|---|
| `ElyzorProofs!TypeCorrect` | `Spec => []TypeOK` |
| `ElyzorProofs!RevocationImmediateUnlessRaced` | `Spec => []ImmediateUnlessRaced` |
| `ElyzorProofs!SettledStaysSettled` | `Spec => SettledIsFinal` |
| `ElyzorProofs!TenantsIsolated` | `Spec => TenantIsolation` |
| `ElyzorProofs!ClosedProjectsStayClosed` | `Spec => ClosedIsFinal` |
| `VerdictProofs!ElyzorImplementsVerdict` | `Spec => ImplementsVerdict` |
| `DashboardProofs!ServiceNamesUnique` | `Spec => []NamesUnique` |
| `DashboardProofs!RotationNeverLeavesNone` | `Spec => []RotationKeepsAnActiveKey` |
| `DashboardProofs!NoOrphansLeft` | `Spec => []NoOrphans` |
| `RateLimiterProofs!TypeCorrect` | `Spec => []TypeOK` |
| `RateLimiterProofs!GrantsWithinMax` | `Spec => []WithinMax` |
| `RateLimiterProofs!TtlIsComing` | `Spec => []TtlComing` |
| `ClusterProofs!TypeCorrect` | `Spec => []TypeOK` |
| `ClusterProofs!ShutdownReachesAll` | `Spec => []NoWorkerIsMissed` |
| `SessionsProofs!TypeCorrect` | `Spec => []TypeOK` |
| `SessionsProofs!OneRegistration` | `Spec => []RegisteredOnce` |
| `SessionsProofs!EndedTokensStayRefused` | `Spec => []EndedTokensAreRefused` |
| `SessionsProofs!LogoutsStick` | `Spec => []LogoutSticks` |
| `SessionsProofs!OnlyLogin` | `Spec => OnlyLoginReopens` |
| `AccountProofs!SessionsImplementAccount` | `Spec => ImplementsAccount` |
| `StatsProofs!TypeCorrect` | `Spec => []TypeOK` |
| `StatsProofs!FiguresAddUp` | `Spec => []AnswersAddUp` |
| `StatsProofs!TopListIsTop` | `Spec => []TopKeysAreTop` |

*Types.* Handlers are records in slots, so the proofs first show that every step puts
one well-typed record into one slot (`VerifySlot`, `AdminSlot`) and then that this keeps
the types.

*Revocation.* `ImmediateUnlessRaced` speaks of an answer that was decided by what the
cache held, which a SETEX decided, which a lookup decided that ran before the document
changed; so it is not inductive. `RevocationInv` adds a fact for each link: `FillInv`,
a handler about to cache an active document has one that is still active or was raced,
and a late request holds active data only for a raced credential; `RevokerInv`, a
revoking handler past its update has a document that is gone, and past its DEL a cache
without an active entry unless raced; `AckedInv`, the same of every confirmed
revocation. The difficult case is a fill after the DEL: it needs `raced`, and that is
exactly the run `immediate`.

*Settled credentials, tenants, closed projects* are about single steps. The first and
the last need only the types. `TenantIsolation` needs `OwnInv`: a handler past
the ownership check runs for the owner of its project, whose owner never changes.

*Refinement.* Beyond the types and `RevocationInv`, `Verdict` wants two facts: nobody
holds, asks about or is told the end of a credential that was not issued, and a
handler has a verdict only when it is about to log it (`IssuedInv`). Then the lives of
all credentials move forward in every step (`LivesMove`, which rests on
`SettledIsFinal`), a verify step is `Ask`, `Answer`, `Forget` or a stutter
(`VerifyIsQuestion`), and a dashboard reply is `Confirm` (`AdminConfirms`).

*Dashboard.* `NamesUnique` is inductive: documents come into being only in an
`InsertUnique` whose name is free (`Birth`) and never come back (`NoReturn`).
`RotationKeepsAnActiveKey` is not: of two keys both may be about to be revoked.
`RotationInv` keeps that a project with a key has an active one that no handler at its
update is about to revoke (`Doomed`); the step that dooms a key is the insert of its
replacement, which nobody has read yet and so nobody can have doomed. For `NoOrphans`,
`CascadeInv` says what a deletion in progress has achieved: whatever part is no longer
on its list and has not failed is empty, but for strays (`Clean`); `DeletedInv` says
it of a deleted project, and a part once clean stays clean (`StaysClean`), because
what is added to it while a deletion runs is a stray by definition, and no stray is
forgotten as long as a deletion runs.

*Sessions.* `Flow` ties what a request carries to where it is. `RegisteredOnce` needs
that a registration past its insert has its user in the collection.
`EndedTokensAreRefused` is about a token that another handler ended: `Debt` says what
each handler has ended but not yet reported, `EndedInv` that what was reported is
over, and tokens only move on (`TokensMoveOn`). `LogoutSticks` is the same with the
blacklist: past its write, a logout's token is blocked, lost or expired (`Blocked`,
`Barred`), also after its answer (`OutInv`). Before the write, the TTL it carries reaches
at least to the end of the token, since the clock only moves on (`Barred`). `OnlyLoginReopens` is about one step: in
a signed-out user's handlers none but a login is `Calm` no longer.

*Refinement of sessions.* Beside `EndedInv` and `OutInv`, `Account` wants three facts
(`AccountInv`): a blacklist entry lasts at least as long as its token (`BlackInv`), so
that a late request passes `authGuard` only with a token that leaked or expired; a
request carries only tokens that were issued (`PresentedInv`), so that revoking one is
a step from active; and an access token is signed for the user of the request
(`SignedInv`). `LiveHolds` shows that every step moves tokens as `Live` lets it: an
insert is the `Open` of its request (`IssueOpens`), a revocation `Ends` what its request
may end (`RevokeEnds`), and no write touches an entry of a told logout but to renew it
(`LeaksEarly`). Then one lemma for each group of calls says which step of `Account` it
is: `ArriveAsks`, `PasswordServes`, `RefreshServes`, `GuardServes`, `IssueServes`,
`ReplyServes`, `LeaveServes`; revocations and the blacklist write are no step of the
request (`RevokeServes`).

*Statistics.* The properties compare an answer with the collection as it is when the
last aggregate has run, so the invariant says it of each aggregate from the moment it
ran: `Figures`, its counts, and `Lists`, its list, are within `churn` of the collection.
A set of documents defined by their contents changes by at most what `churn` counts
(`Drift`), since a stored document never changes. The buckets of the days are summed as
the cardinality of a disjoint union, for which `SumOfParts` gives a bijection with the
documents themselves: no induction over the buckets is needed. That the top of two lists
already cut is the top of all (`LeftOut`) is a case split: whoever is left out was
dropped by the merge, by the cut of the list of its kind, or was not counted at all, and
in each case either what took its place has as many requests or the list is not full.
`churn` enters once although two lists are involved: the entries of both are compared
as they were read, and only the credential left out as it is now.

*Rate limits.* A grant comes commands after the INCR it depends on, when others have
counted too, so `WithinMax` is not inductive. `GrantInv` keeps that the grants given
together with the requests still sure of one (`Pending`) are no more than the INCRs of
the window, nor than the maximum. An INCR that adds a pending request has read at most
the maximum; a grant turns a pending request into a grant; every other step only loses
pending requests. `TtlComing` is inductive as it stands: only an INCR that read 1
leaves a counter at 1 without a TTL, and that handler keeps its place until its
EXPIRE, its loss or its death.

*Cluster.* Both invariants are inductive as they stand.

Liveness (`RevocationTakesEffect`, `WindowReopensUnlessLost`, `DeadIsReplaced`,
`ShutdownEnds`, `PrimaryWithoutWorkersEnds`) is model-checked only: it rests on
fairness, which is out of the prover's reach.

## Not modelled

* Routing, request ids, DTO validation, the error classes, logging and the API
  description (`config/swagger.ts`) hold no state that others read; the health probe
  reads two flags; `config/env.ts` is read once, its limits are constants here.
* The list operations and `/me` only read, in one query.
* Latencies and their average, the client's ip and country.
* The value of `retryAfter`, which no code reads. That it can be negative is described
  above.
* A `deleteMany` or an `updateMany` is one step unless it fails; a failed one may have
  done any part of its work. An aggregate is one step.
* An eviction of counters or blacklist entries, or a restart of Redis that loses them:
  the code has no answer to it, nor a document that promises one. The loss of
  verification entries, which is harmless, is modelled (`Expire`).

## Plan

Done: every component that keeps state; a theorem for every safety property of the
passing runs, the refinements of `Verdict` and `Account` among them. What could follow:

1. a larger instance of `stats`, lists of two, with the documents' days as a symmetric
   choice instead of a clock;
2. `RateLimiter` and `Elyzor` in one specification, in which the outcome
   `rate_limited` is no longer free, when an instance of both is within TLC's reach.
