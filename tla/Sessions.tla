------------------------------ MODULE Sessions ------------------------------
(***************************************************************************)
(* AuthService and authGuard: refresh tokens in MongoDB, rotated at every  *)
(* refresh, and access tokens that are signed JWTs a logout can only put   *)
(* on a Redis blacklist.  One action per awaited call:                     *)
(*                                                                         *)
(*   register:  find -> create -> issue -> reply                           *)
(*   login:     find -> issue -> reply                                     *)
(*   refresh:   find -> revoke -> issue -> reply                           *)
(*              find -> wipe -> reply        a revoked token: theft signal *)
(*   logout:    guard -> blacklist -> revoke -> reply                      *)
(*   logoutAll: guard -> blacklist -> wipe -> reply                        *)
(*   request:   guard -> served          any other route behind authGuard  *)
(*                                                                         *)
(* Calls that cannot change anything are part of the step before them:     *)
(* findById in refresh (users are never deleted) and the DEL of refresh:*, *)
(* keys that nothing ever sets.                                            *)
(***************************************************************************)
EXTENDS Naturals

CONSTANTS
  User,         \* users, one per email
  Refresh,      \* refresh tokens that may be issued (random, so never twice)
  UserOf,       \* the user a refresh token is issued for
  Handler,      \* requests in flight
  Lifetime,     \* env.jwt.accessExpiresIn, in ticks
  ClockBound,   \* bound: the clock stops here
  None

Ops == {"register", "login", "refresh", "logout", "logoutAll", "request"}

ASSUME SessionsAssumption ==
  /\ UserOf \in [Refresh -> User]
  /\ Lifetime \in Nat \ {0}
  /\ ClockBound \in Nat
  /\ None \notin User \cup Refresh \cup Ops

\* A JWT is a function of the user and the second it is signed in.
Access == User \X (0 .. ClockBound)

ASSUME NoAccess == None \notin Access

VARIABLES
  users,    \* users with a document
  token,    \* refresh tokens: "unissued" | "active" | "revoked" | "expired"
  black,    \* blacklist:<token>: when the entry expires, 0 without one
  now,      \* seconds
  req,      \* requests in flight
  sent,     \* refresh tokens returned to a client
  signed,   \* access tokens returned to a client
  ended,    \* history: refresh tokens a confirmed refresh, logout or wipe has ended
  out,      \* history: access tokens a confirmed logout has ended
  lost      \* history: access tokens whose blacklist write was rejected

mongo   == <<users, token>>
history == <<ended, out, lost>>
client  == <<sent, signed>>
vars    == <<mongo, black, now, req, client, history>>

\* `late' and `seen' are for the properties: the token presented had been ended before the
\* request arrived; what clients of the user held when a refresh or logout-all arrived.
Idle == [pc |-> "idle", op |-> None, user |-> None, refresh |-> None, access |-> None,
         new |-> None, ttl |-> 0, late |-> FALSE, seen |-> {}]

Init ==
  /\ users = {}
  /\ token = [t \in Refresh |-> "unissued"]
  /\ black = [a \in Access |-> 0]
  /\ now = 0
  /\ req = [h \in Handler |-> Idle]
  /\ sent = {} /\ signed = {}
  /\ ended = {} /\ out = {} /\ lost = {}

Exp(a) == a[2] + Lifetime

Held(u) == {t \in sent : UserOf[t] = u}

At(h, pc) == req[h].pc = pc

Goto(h, pc) == req' = [req EXCEPT ![h].pc = pc]

Finish(h) == req' = [req EXCEPT ![h] = Idle]

\* generateAccessToken, then on to issueRefreshToken.
Sign(h) == req' = [req EXCEPT ![h] = [@ EXCEPT !.pc = "issue", !.access = <<req[h].user, now>>]]

-----------------------------------------------------------------------------
(* Requests arrive. *)

Call(h, r) ==
  /\ At(h, "idle")
  /\ req' = [req EXCEPT ![h] = r]
  /\ UNCHANGED <<mongo, black, now, client, history>>

CallWithPassword(h, op, u) == Call(h, [Idle EXCEPT !.pc = "find", !.op = op, !.user = u])

\* The cookie is all a refresh has.
CallRefresh(h, t) ==
  Call(h, [Idle EXCEPT !.pc = "find", !.op = "refresh", !.user = UserOf[t], !.refresh = t,
                       !.late = t \in ended, !.seen = Held(UserOf[t])])

\* authGuard verifies signature and expiry at once, then asks Redis.
CallGuarded(h, op, a, t) ==
  /\ now < Exp(a)
  /\ Call(h, [Idle EXCEPT !.pc = "guard", !.op = op, !.user = a[1], !.access = a,
                          !.refresh = t, !.late = a \in out,
                          !.seen = IF op = "logoutAll" THEN Held(a[1]) ELSE {}])

-----------------------------------------------------------------------------
(* Their steps. *)

\* findByEmail; a login with the wrong password ends here too.
FindByEmail(h) ==
  /\ At(h, "find")
  /\ \/ req[h].op = "login" /\ req[h].user \in users /\ Sign(h)
     \/ req[h].op = "register" /\ req[h].user \notin users /\ Goto(h, "create")
     \/ req[h].op \in {"login", "register"} /\ Finish(h)
  /\ UNCHANGED <<mongo, black, now, client, history>>

\* Fault variant: no unique index, the check before the hash is the only one.
CreateUserUnchecked(h) ==
  /\ At(h, "create")
  /\ Sign(h)
  /\ users' = users \cup {req[h].user}
  /\ UNCHANGED <<token, black, now, client, history>>

\* The unique index on email rejects the slower of two registrations.
CreateUser(h) ==
  /\ At(h, "create")
  /\ IF req[h].user \in users THEN Finish(h) ELSE Sign(h)
  /\ users' = users \cup {req[h].user}
  /\ UNCHANGED <<token, black, now, client, history>>

\* Fault variant: the token's revocation is not looked at.
FindAnyUnchecked(h) ==
  /\ At(h, "find") /\ req[h].op = "refresh"
  /\ IF token[req[h].refresh] = "expired" THEN Finish(h) ELSE Goto(h, "revoke")
  /\ UNCHANGED <<mongo, black, now, client, history>>

\* findRefreshTokenAny
FindRefreshTokenAny(h) ==
  /\ At(h, "find") /\ req[h].op = "refresh"
  /\ LET t == token[req[h].refresh]
     IN  \/ t = "active" /\ Goto(h, "revoke")
         \/ t = "revoked" /\ Goto(h, "wipe")
         \/ t = "expired" /\ Finish(h)
  /\ UNCHANGED <<mongo, black, now, client, history>>

\* revokeRefreshToken: an update without a condition on revokedAt.
RevokeRefreshToken(h) ==
  /\ At(h, "revoke")
  /\ token' = [token EXCEPT ![req[h].refresh] = IF @ = "expired" THEN @ ELSE "revoked"]
  /\ IF req[h].op = "refresh" THEN Sign(h) ELSE Goto(h, "reply")
  /\ UNCHANGED <<users, black, now, client, history>>

IssueRefreshToken(h) ==
  /\ At(h, "issue")
  /\ \E t \in Refresh :
       /\ token[t] = "unissued" /\ UserOf[t] = req[h].user
       /\ token' = [token EXCEPT ![t] = "active"]
       /\ req' = [req EXCEPT ![h] = [@ EXCEPT !.pc = "reply", !.new = t]]
  /\ UNCHANGED <<users, black, now, client, history>>

\* The refresh tokens in T are revoked.
Revoked(T) == token' = [t \in Refresh |-> IF t \in T THEN "revoked" ELSE token[t]]

ActiveOf(u) == {t \in Refresh : token[t] = "active" /\ UserOf[t] = u}

\* Fault variant: only the token presented is revoked.
RevokeOneToken(h) ==
  /\ At(h, "wipe")
  /\ Revoked(ActiveOf(req[h].user) \cap {req[h].refresh})
  /\ Goto(h, "reply")
  /\ UNCHANGED <<users, black, now, client, history>>

\* revokeAllUserTokens: one updateMany; a failed one may have revoked some.
RevokeAllUserTokens(h) ==
  /\ At(h, "wipe")
  /\ \/ Revoked(ActiveOf(req[h].user)) /\ Goto(h, "reply")
     \/ \E T \in SUBSET ActiveOf(req[h].user) : Revoked(T) /\ Finish(h)
  /\ UNCHANGED <<users, black, now, client, history>>

\* Fault variant: the entry lives as long as the token is old.
TtlOfAge(a) == now - a[2]

\* The rest of the token's life, 0 when it is over.
Ttl(a) == IF now < Exp(a) THEN Exp(a) - now ELSE 0

\* Past authGuard, blacklistAccessToken computes the TTL at once and then sends SETEX.
EnterLogout(h) ==
  req' = [req EXCEPT ![h] = [@ EXCEPT !.pc = "blacklist", !.ttl = Ttl(req[h].access)]]

\* The blacklist lookup of authGuard.
Guard(h) ==
  /\ At(h, "guard")
  /\ IF now < black[req[h].access] THEN Finish(h)
     ELSE IF req[h].op = "request" THEN Goto(h, "served") ELSE EnterLogout(h)
  /\ UNCHANGED <<mongo, black, now, client, history>>

\* What follows blacklistAccessToken.
LeaveBlacklist(h) ==
  LET pc == IF req[h].op = "logoutAll" THEN "wipe"
            ELSE IF req[h].refresh # None THEN "revoke" ELSE "reply"
  IN  req' = [req EXCEPT ![h] = [@ EXCEPT !.pc = pc, !.ttl = 0]]

\* Fault variant: the entry is deleted before it is written again.
BlacklistAnew(h) ==
  LET r == req[h]
  IN  /\ At(h, "blacklist")
      /\ \/ r.ttl > 0 /\ black' = [black EXCEPT ![r.access] = now + r.ttl] /\ UNCHANGED lost
         \/ r.ttl > 0 /\ black' = [black EXCEPT ![r.access] = 0] /\ lost' = lost \cup {r.access}
         \/ r.ttl = 0 /\ UNCHANGED <<black, lost>>
      /\ LeaveBlacklist(h)
      /\ UNCHANGED <<mongo, now, client, ended, out>>

\* blacklistAccessToken: its SETEX counts the TTL from the moment Redis executes it, and a
\* rejected one is swallowed; no entry for a token that had expired when the TTL was computed.
BlacklistAccessToken(h) ==
  LET r == req[h]
  IN  /\ At(h, "blacklist")
      /\ \/ r.ttl > 0 /\ black' = [black EXCEPT ![r.access] = now + r.ttl] /\ UNCHANGED lost
         \/ r.ttl > 0 /\ UNCHANGED black /\ lost' = lost \cup {r.access}
         \/ r.ttl = 0 /\ UNCHANGED <<black, lost>>
      /\ LeaveBlacklist(h)
      /\ UNCHANGED <<mongo, now, client, ended, out>>

\* Fault variant: the cookie is set whether there is a new token or not.
ReplyWithCookie(h) ==
  /\ At(h, "reply")
  /\ sent' = sent \cup {req[h].new}
  /\ Finish(h)
  /\ UNCHANGED <<mongo, black, now, signed, history>>

\* The answer: new tokens, the end of old ones, or 401 after a wipe.
Reply(h) ==
  LET r == req[h]
  IN  /\ At(h, "reply")
      /\ sent' = sent \cup ({r.new} \ {None})
      /\ signed' = IF r.new = None THEN signed ELSE signed \cup {r.access}
      /\ ended' = ended \cup
           IF r.op = "logoutAll" \/ (r.op = "refresh" /\ r.new = None) THEN r.seen
                                                                     ELSE {r.refresh} \ {None}
      /\ out' = IF r.op \in {"logout", "logoutAll"} THEN out \cup {r.access} ELSE out
      /\ Finish(h)
      /\ UNCHANGED <<mongo, black, now, lost>>

Serve(h) ==
  /\ At(h, "served")
  /\ Finish(h)
  /\ UNCHANGED <<mongo, black, now, client, history>>

\* A rejected call, a lost response or the death of the worker.
Abort(h) ==
  /\ ~At(h, "idle")
  /\ Finish(h)
  /\ UNCHANGED <<mongo, black, now, client, history>>

\* expiresAt of a refresh token passes; MongoDB's TTL index may remove it later.
ExpireRefresh(t) ==
  /\ token[t] \in {"active", "revoked"}
  /\ token' = [token EXCEPT ![t] = "expired"]
  /\ UNCHANGED <<users, black, now, req, client, history>>

Tick ==
  /\ now < ClockBound
  /\ now' = now + 1
  /\ UNCHANGED <<mongo, black, req, client, history>>

-----------------------------------------------------------------------------
Arrive(h) ==
  \/ \E u \in User : CallWithPassword(h, "register", u) \/ CallWithPassword(h, "login", u)
  \/ \E t \in sent : CallRefresh(h, t)
  \/ \E a \in signed : CallGuarded(h, "request", a, None) \/ CallGuarded(h, "logoutAll", a, None)
  \/ \E a \in signed, t \in sent \cup {None} : CallGuarded(h, "logout", a, t)

Step(h) ==
  \/ FindByEmail(h) \/ CreateUser(h) \/ FindRefreshTokenAny(h) \/ RevokeRefreshToken(h)
  \/ IssueRefreshToken(h) \/ RevokeAllUserTokens(h) \/ Guard(h) \/ BlacklistAccessToken(h)
  \/ Reply(h) \/ Serve(h)

Next ==
  \/ \E h \in Handler : Arrive(h) \/ Step(h) \/ Abort(h)
  \/ \E t \in Refresh : ExpireRefresh(t)
  \/ Tick

Spec == Init /\ [][Next]_vars

-----------------------------------------------------------------------------
Request ==
  [pc : {"idle", "find", "create", "issue", "revoke", "wipe", "guard", "blacklist", "reply",
         "served"},
   op : Ops \cup {None}, user : User \cup {None}, refresh : Refresh \cup {None},
   access : Access \cup {None}, new : Refresh \cup {None}, ttl : Nat, late : BOOLEAN,
   seen : SUBSET Refresh]

\* Type invariant.
TypeOK ==
  /\ users \subseteq User
  /\ token \in [Refresh -> {"unissued", "active", "revoked", "expired"}]
  /\ black \in [Access -> Nat]
  /\ now \in 0 .. ClockBound
  /\ req \in [Handler -> Request]
  /\ sent \subseteq Refresh /\ signed \subseteq Access
  /\ ended \subseteq Refresh /\ out \subseteq Access /\ lost \subseteq Access

\* An account has one owner: of two registrations of an email that both found it free, with
\* an expensive hash between that lookup and the insert, only one is given a session.
RegisteredOnce ==
  LET registered(h) == req[h].op = "register" /\ req[h].pc \in {"issue", "reply"}
  IN  \A g, h \in Handler :
        g # h /\ registered(g) /\ registered(h) => req[g].user # req[h].user

\* A refresh token that a confirmed refresh, logout, logout-all or theft response ended is
\* refused ever after, to every request that arrives later: no other handler, failed,
\* repeated or racing, makes it good again.
EndedTokensAreRefused ==
  \A h \in Handler : req[h].op = "refresh" /\ req[h].late => req[h].pc \notin {"revoke", "issue"}

\* security.md, logout: the blacklist outlasts the token, although its TTL is computed before
\* the SETEX is executed.  A request that arrives with the token after the logout's answer
\* gets past authGuard only if the blacklist write was lost, or if the token expires between
\* the two checks of authGuard.
LogoutSticks ==
  \A h \in Handler :
    LET r == req[h]
    IN  r.late /\ r.op \in {"request", "logout", "logoutAll"} /\ r.pc # "guard"
          => r.access \in lost \/ now >= Exp(r.access)

\* A user without a session: no refresh token is good, and no handler is about to issue one.
SignedOut(u) ==
  /\ \A t \in Refresh : UserOf[t] = u => token[t] # "active"
  /\ \A h \in Handler : req[h].user = u =>
       /\ req[h].pc \notin {"create", "issue"}
       /\ req[h].op = "refresh" => req[h].pc # "revoke"
       /\ req[h].op \in {"login", "register"} => req[h].pc # "find"

\* Once logout-all or the theft response has left a user without a session, only a new
\* login opens one: no token the user ever held, and no handler still running, does.
OnlyLoginReopens ==
  [][\A u \in User : SignedOut(u) /\ ~SignedOut(u)' =>
       \E h \in Handler : At(h, "idle") /\ req'[h].user = u /\ req'[h].op \in {"login", "register"}]_vars

-----------------------------------------------------------------------------
(* Sessions implements Account. *)

\* How far a request is: a handler decides when it leaves find, create or guard.
Progress(r) ==
  IF r.pc = "idle" THEN "none"
  ELSE IF r.pc \in {"find", "create", "guard"} THEN "asked"
  ELSE IF r.new # None THEN "opened"
  ELSE IF r.op = "refresh" /\ r.pc \in {"wipe", "reply"} THEN "refused"
  ELSE "accepted"

\* What a client knows of a request: not the access token that a sign-in has signed.
View(r) ==
  [by |-> r.op, user |-> r.user, token |-> r.refresh,
   access |-> IF r.op \in {"request", "logout", "logoutAll"} THEN r.access ELSE None,
   new |-> r.new, late |-> r.late, held |-> r.seen, state |-> Progress(r)]

Asked == [h \in Handler |-> View(req[h])]

Expired == {a \in Access : now >= Exp(a)}
Leaky == {a \in lost \ Expired : black[a] = 0}

A == INSTANCE Account WITH
       HolderOf <- [a \in Access |-> a[1]], Req <- Handler, accounts <- users, life <- token,
       expired <- Expired, leaky <- Leaky, asked <- Asked

\* All that a client can see of the session calls, whatever their order: each presentation
\* is decided once and on one state, opens at most one session, after the token it replaces
\* has ended; tokens end by age or by a request of their user or with them; what a client
\* was told has ended stays ended, and a logout whose blacklist entry was written never
\* comes undone, not by another logout of the same token that fails to write it.
ImplementsAccount == A!Spec

-----------------------------------------------------------------------------
\* Rotated: the handler has replaced the token it was called with.
Rotated(h) == req[h].op = "refresh" /\ req[h].pc = "reply" /\ req[h].new # None

\* decisions.md 020, "the same refresh token cannot be used a second time": no two
\* refreshes have replaced one token.
RefreshTokenUsedOnce ==
  \A g, h \in Handler : g # h /\ Rotated(g) /\ Rotated(h) => req[g].refresh # req[h].refresh

\* security.md, "logout-all: all refresh tokens of the user are deleted (sign-out from all
\* devices)": when logout-all has revoked them, no refresh of a token that a client held
\* when it was called leaves a good successor.
LogoutAllClosesAll ==
  \A g, h \in Handler :
    /\ req[h].op = "logoutAll" /\ At(h, "reply")
    /\ Rotated(g) /\ req[g].refresh \in req[h].seen
    => token[req[g].new] # "active"
=============================================================================
