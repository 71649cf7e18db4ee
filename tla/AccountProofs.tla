--------------------------- MODULE AccountProofs ---------------------------
(***************************************************************************)
(* Sessions implements Account: every execution of the session handlers,   *)
(* with their races, lost writes and failures, is one that Account allows. *)
(* A step of a handler is a step of the one request it serves, or a        *)
(* stutter; the clock and the databases only do what Live lets them.       *)
(***************************************************************************)
EXTENDS SessionsProofs

\* An entry of the blacklist lasts as long as its token, or longer if its SETEX took long.
BlackInv == \A a \in Access : black[a] = 0 \/ black[a] >= Exp(a)

\* The refresh token of a request is one that was issued.
PresentedInv == \A h \in Handler : req[h].refresh # None => Issued(req[h].refresh)

\* An access token is signed for the user of the request.
SignedInv == \A h \in Handler :
  req[h].pc = "issue" \/ req[h].new # None => req[h].access[1] = req[h].user

\* What the mapping rests on.
AccountInv == Typed /\ EndedInv /\ OutInv /\ BlackInv /\ PresentedInv /\ SignedInv

LEMMA BlackStep ==
  ASSUME Typed, OutInv, BlackInv, [Next]_vars
  PROVE  BlackInv'
<1>1. ASSUME black' = black
      PROVE  BlackInv'
  BY <1>1 DEF BlackInv, Exp
<1>2. CASE Environment
  BY <1>1, <1>2 DEF Environment, Tick, ExpireRefresh, vars
<1>3. ASSUME NEW h \in Handler, Arrive(h) \/ Abort(h) \/ (Step(h) /\ ~BlacklistAccessToken(h))
      PROVE  black' = black
  BY <1>3, ArriveMove
     DEF Abort, Step, FindByEmail, CreateUser, FindRefreshTokenAny, RevokeRefreshToken,
         IssueRefreshToken, RevokeAllUserTokens, Guard, Reply, Serve
<1>4. ASSUME NEW h \in Handler, BlacklistAccessToken(h)
      PROVE  BlackInv'
  <2>1. \/ UNCHANGED black
        \/ black' = [black EXCEPT ![req[h].access] = now + req[h].ttl]
    BY <1>4 DEF BlacklistAccessToken
  <2>2. now + req[h].ttl >= Exp(req[h].access)
    BY <1>4 DEF BlacklistAccessToken, At, OutInv, Barred
  <2>3. CASE black' = [black EXCEPT ![req[h].access] = now + req[h].ttl]
    BY <2>2, <2>3 DEF BlackInv, Typed, TypeOK, Exp
  <2> QED BY <1>1, <2>1, <2>3
<1> QED BY <1>1, <1>2, <1>3, <1>4, NextCases

\* A step of a handler ends its request or keeps what it was called with.
LEMMA HandlerMove ==
  ASSUME Typed, NEW h \in Handler, Step(h) \/ Abort(h)
  PROVE  Others(h) /\ (req'[h] = Idle \/ Same(h))
<1>1. CASE IssueRefreshToken(h)
  BY <1>1, IssueMove
<1>2. CASE Guard(h) \/ BlacklistAccessToken(h)
  <2>1. Finish(h) \/ \E pc : Moved(h, pc)
    BY <1>2, GuardMove, BlacklistMove
  <2> QED BY <2>1, FinishMove DEF Moved
<1>3. CASE ~(IssueRefreshToken(h) \/ Guard(h) \/ BlacklistAccessToken(h))
  <2>1. Finish(h) \/ Sign(h) \/ \E pc : Goto(h, pc)
    BY <1>3 DEF Abort, Step, FindByEmail, CreateUser, FindRefreshTokenAny, RevokeRefreshToken,
       RevokeAllUserTokens, Reply, Serve
  <2> QED BY <2>1, FinishMove, SignMove, GotoMove
<1> QED BY <1>1, <1>2, <1>3

LEMMA PresentedStep ==
  ASSUME Typed, EndedInv, PresentedInv, [Next]_vars
  PROVE  PresentedInv'
<1>1. \A t \in Refresh : Issued(t) => Issued(t)'
  BY TokensMoveOn
<1>2. ASSUME NEW g \in Handler, req'[g].refresh \in {req[g].refresh, None}
      PROVE  (req[g].refresh # None => Issued(req[g].refresh))'
  <2>1. req[g].refresh \in Refresh \cup {None}
    BY DEF Typed, TypeOK, Request
  <2> QED BY <1>1, <1>2, <2>1 DEF PresentedInv, Issued
<1>3. CASE Environment
  BY <1>2, <1>3, EnvironmentKeepsRequests DEF PresentedInv
<1>4. ASSUME NEW h \in Handler, Step(h) \/ Abort(h)
      PROVE  PresentedInv'
  <2>1. \A g \in Handler : req'[g].refresh \in {req[g].refresh, None}
    BY <1>4, HandlerMove DEF Others, Same, Idle
  <2> QED BY <1>2, <2>1 DEF PresentedInv
<1>5. ASSUME NEW h \in Handler, Arrive(h)
      PROVE  PresentedInv'
  <2>1. Others(h) /\ req'[h].refresh \in sent \cup {None} /\ token' = token
    BY <1>5, ArriveMove
  <2> QED BY <2>1 DEF PresentedInv, Others, EndedInv, Issued
<1> QED BY <1>3, <1>4, <1>5, NextCases

LEMMA SignedStep ==
  ASSUME Typed, SignedInv, [Next]_vars
  PROVE  SignedInv'
<1> DEFINE Good(g) == req[g].pc = "issue" \/ req[g].new # None => req[g].access[1] = req[g].user
<1>1. CASE Environment
  BY <1>1, EnvironmentKeepsRequests DEF SignedInv
<1>2. ASSUME NEW h \in Handler, Others(h), Good(h)'
      PROVE  SignedInv'
  BY <1>2 DEF SignedInv, Others
<1>3. ASSUME NEW h \in Handler, Arrive(h)
      PROVE  Others(h) /\ Good(h)'
  BY <1>3, ArriveMove
<1>4. ASSUME NEW h \in Handler, Step(h) \/ Abort(h)
      PROVE  Others(h) /\ Good(h)'
  <2>0. req[h] \in Request /\ Good(h)
    BY DEF Typed, TypeOK, SignedInv
  <2>1. CASE IssueRefreshToken(h)
    BY <2>0, <2>1, IssueMove DEF IssueRefreshToken, At, Same
  <2>2. CASE ~IssueRefreshToken(h)
    <3>1. Finish(h) \/ Sign(h)
          \/ \E pc \in {"create", "revoke", "wipe", "blacklist", "served", "reply"} : Moved(h, pc)
      <4>1. CASE Guard(h) \/ BlacklistAccessToken(h)
        BY <4>1, GuardMove, BlacklistMove
      <4>2. CASE ~(Guard(h) \/ BlacklistAccessToken(h))
        <5>1. Finish(h) \/ Sign(h) \/ \E pc \in {"create", "revoke", "wipe", "reply"} : Goto(h, pc)
          BY <1>4, <2>2, <4>2 DEF Abort, Step, FindByEmail, CreateUser, FindRefreshTokenAny,
             RevokeRefreshToken, RevokeAllUserTokens, Reply, Serve
        <5> QED BY <5>1, GotoMove DEF Moved
      <4> QED BY <4>1, <4>2
    <3>2. CASE Finish(h)
      BY <3>2, FinishMove DEF Idle
    <3>3. CASE Sign(h)
      <4>1. req'[h] = [req[h] EXCEPT !.pc = "issue", !.access = <<req[h].user, now>>]
        BY <3>3 DEF Sign, Typed, TypeOK
      <4>2. req'[h].access = <<req[h].user, now>>
        BY <2>0, <4>1 DEF Request
      <4> QED BY <3>3, <4>2, SignMove DEF Same
    <3>4. CASE \E pc \in {"create", "revoke", "wipe", "blacklist", "served", "reply"} : Moved(h, pc)
      BY <2>0, <3>4 DEF Moved, Same
    <3> QED BY <3>1, <3>2, <3>3, <3>4
  <2> QED BY <2>1, <2>2
<1> HIDE DEF Good
<1> QED BY <1>1, <1>2, <1>3, <1>4, NextCases

LEMMA AccountInvHolds == Spec => []AccountInv
<1>1. Init => BlackInv
  BY DEF Init, BlackInv
<1>2. Typed /\ OutInv /\ BlackInv /\ [Next]_vars => BlackInv'
  BY BlackStep
<1>3. Spec => []BlackInv
  BY <1>1, <1>2, TypedHolds, OutHolds, PTL DEF Spec
<1>4. Init => PresentedInv
  BY DEF Init, PresentedInv, Idle
<1>5. Typed /\ EndedInv /\ PresentedInv /\ [Next]_vars => PresentedInv'
  BY PresentedStep
<1>6. Spec => []PresentedInv
  BY <1>4, <1>5, TypedHolds, EndedHolds, PTL DEF Spec
<1>7. Init => SignedInv
  BY DEF Init, SignedInv, Idle
<1>8. Typed /\ SignedInv /\ [Next]_vars => SignedInv'
  BY SignedStep
<1>9. Spec => []SignedInv
  BY <1>7, <1>8, TypedHolds, PTL DEF Spec
<1> QED BY <1>3, <1>6, <1>9, TypedHolds, EndedHolds, OutHolds, PTL DEF AccountInv

-----------------------------------------------------------------------------
(* What a client sees of one handler's move. *)

LEMMA AskedIs ==
  ASSUME NEW h \in Handler
  PROVE  /\ Asked[h].by = req[h].op /\ Asked[h].user = req[h].user /\ Asked[h].token = req[h].refresh
         /\ Asked[h].new = req[h].new /\ Asked[h].late = req[h].late /\ Asked[h].held = req[h].seen
         /\ req[h].op \in Guarded => Asked[h].access = req[h].access
         /\ Asked[h].state = Progress(req[h])
BY DEF Asked, View, Guarded

LEMMA AskedSlot ==
  ASSUME NEW h \in Handler, Others(h)
  PROVE  Asked' = [Asked EXCEPT ![h] = View(req'[h])]
BY DEF Asked, Others

\* A handler goes on with what it was called with.
LEMMA AskedMove ==
  ASSUME NEW h \in Handler, Others(h), Same(h), req'[h].new = req[h].new,
         req[h].op \in Guarded => req'[h].access = req[h].access
  PROVE  /\ Asked' = [Asked EXCEPT ![h].state = Progress(req'[h])]
         /\ Progress(req'[h]) = Progress(req[h]) => Asked' = Asked
<1>1. View(req'[h]) = [View(req[h]) EXCEPT !.state = Progress(req'[h])]
  BY DEF View, Same, Guarded
<1>2. Asked[h] = View(req[h]) /\ Asked = [g \in Handler |-> Asked[g]]
  BY DEF Asked
<1>3. Asked' = [Asked EXCEPT ![h] = View(req'[h])]
  BY AskedSlot
<1>4. Asked' = [Asked EXCEPT ![h].state = Progress(req'[h])]
  BY <1>1, <1>2, <1>3
<1>5. ASSUME Progress(req'[h]) = Progress(req[h])
      PROVE  Asked' = Asked
  <2>1. View(req'[h]) = View(req[h])
    BY <1>5 DEF View, Same, Guarded
  <2> QED BY <1>2, <1>3, <2>1
<1> QED BY <1>4, <1>5

\* It is done.
LEMMA AskedFinish ==
  ASSUME Typed, NEW h \in Handler, Finish(h)
  PROVE  Asked' = [Asked EXCEPT ![h] = A!NoRequest]
<1>1. View(Idle) = A!NoRequest
  BY SessionsAssumption DEF View, Idle, Progress, A!NoRequest, Ops
<1>2. Others(h) /\ req'[h] = Idle
  BY FinishMove
<1> QED BY <1>1, <1>2, AskedSlot

\* And if nobody hears of it, that is Forget.
LEMMA FinishForgets ==
  ASSUME Typed, NEW h \in Handler, Finish(h), ~At(h, "idle")
  PROVE  A!Forget(h)
<1>1. Asked[h].state # "none"
  BY AskedIs DEF Progress, At
<1> QED BY <1>1, AskedFinish DEF A!Forget

-----------------------------------------------------------------------------
(* What happens to the tokens. *)

\* The insert of a refresh token opens the session of the request that was accepted.
LEMMA IssueOpens ==
  ASSUME AccountInv, NEW h \in Handler, IssueRefreshToken(h)
  PROVE  \E t \in Refresh : /\ token[t] = "unissued" /\ token' = [token EXCEPT ![t] = "active"]
                            /\ A!Open(h, t)
<1>1. PICK t \in Refresh :
        /\ token[t] = "unissued" /\ UserOf[t] = req[h].user
        /\ token' = [token EXCEPT ![t] = "active"]
        /\ Others(h) /\ Same(h) /\ req'[h].pc = "reply" /\ req'[h].new = t
        /\ req'[h].access = req[h].access
  BY IssueMove DEF AccountInv
<1>2. req[h] \in Request /\ Flow(req[h]) /\ Debt(h) /\ req[h].pc = "issue" /\ t # None
  BY SessionsAssumption DEF AccountInv, Typed, TypeOK, FlowOK, EndedInv, IssueRefreshToken, At
<1>3. req[h].op \in {"register", "login", "refresh"} /\ req[h].new = None
  BY <1>2, SessionsAssumption DEF Flow, Guarded, Request, Ops
<1>4. Progress(req[h]) = "accepted" /\ Progress(req'[h]) = "opened"
  BY <1>1, <1>2, <1>3 DEF Progress
<1>5. req[h].op = "refresh" => token[req[h].refresh] # "active"
  BY <1>2 DEF Debt, Over
<1>6. View(req'[h]) = [View(req[h]) EXCEPT !.state = "opened", !.new = t]
  <2>1. View(req'[h]) = [by |-> req[h].op, user |-> req[h].user, token |-> req[h].refresh,
                         access |-> None, new |-> t, late |-> req[h].late, held |-> req[h].seen,
                         state |-> "opened"]
    BY <1>1, <1>3, <1>4 DEF View, Same
  <2>2. View(req[h]) = [by |-> req[h].op, user |-> req[h].user, token |-> req[h].refresh,
                        access |-> None, new |-> req[h].new, late |-> req[h].late,
                        held |-> req[h].seen, state |-> Progress(req[h])]
    BY <1>3 DEF View
  <2> QED
    <3> DEFINE v == View(req[h])
               w == [by |-> req[h].op, user |-> req[h].user, token |-> req[h].refresh,
                     access |-> None, new |-> req[h].new, late |-> req[h].late,
                     held |-> req[h].seen, state |-> "opened"]
    <3>1. [v EXCEPT !.state = "opened"] = w
      BY <2>2
    <3>2. [w EXCEPT !.new = t] = View(req'[h])
      BY <2>1
    <3> HIDE DEF v, w
    <3>3. [v EXCEPT !.state = "opened", !.new = t] = [[v EXCEPT !.state = "opened"] EXCEPT !.new = t]
      OBVIOUS
    <3> QED BY <3>1, <3>2, <3>3 DEF v
<1>7. Asked[h] = View(req[h]) /\ Asked = [g \in Handler |-> Asked[g]]
  BY DEF Asked
<1>8. Asked' = [Asked EXCEPT ![h] = View(req'[h])]
  BY <1>1, AskedSlot
<1>9. Asked' = [Asked EXCEPT ![h].state = "opened", ![h].new = t]
  BY <1>6, <1>7, <1>8
<1>10. A!Open(h, t)
  BY <1>1, <1>3, <1>4, <1>5, <1>9, AskedIs DEF A!Open
<1> QED BY <1>1, <1>10

\* What a handler revokes, its request ends.
LEMMA RevokeEnds ==
  ASSUME AccountInv, NEW h \in Handler, RevokeRefreshToken(h) \/ RevokeAllUserTokens(h),
         NEW t \in Refresh, token'[t] # token[t]
  PROVE  token[t] = "active" /\ token'[t] = "revoked" /\ A!Ends(h, t)
<1>1. req[h] \in Request /\ Flow(req[h]) /\ Debt(h)
  BY DEF AccountInv, Typed, TypeOK, FlowOK, EndedInv
<1>2. token \in [Refresh -> {"unissued", "active", "revoked", "expired"}]
  BY DEF AccountInv, Typed, TypeOK
<1>3. CASE RevokeRefreshToken(h)
  <2>1. req[h].pc = "revoke" /\ req[h].op \in {"refresh", "logout"} /\ req[h].new = None
    BY <1>1, <1>3, SessionsAssumption DEF RevokeRefreshToken, At, Flow, Guarded, Request, Ops
  <2>2. t = req[h].refresh /\ token[t] # "expired" /\ token'[t] = "revoked"
    BY <1>2, <1>3 DEF RevokeRefreshToken
  <2>3. token[t] # "unissued"
    BY <2>2, SessionsAssumption DEF AccountInv, PresentedInv, Issued
  <2>4. A!Ends(h, t)
    BY <2>1, <2>2, AskedIs DEF A!Ends, Progress
  <2> QED BY <1>2, <2>2, <2>3, <2>4
<1>4. CASE RevokeAllUserTokens(h)
  <2>1. req[h].pc = "wipe" /\ req[h].op \in {"refresh", "logoutAll"} /\ req[h].new = None
    BY <1>1, <1>4, SessionsAssumption DEF RevokeAllUserTokens, At, Flow, Guarded, Request, Ops
  <2>2. token[t] = "active" /\ token'[t] = "revoked" /\ UserOf[t] = req[h].user
    BY <1>2, <1>4 DEF RevokeAllUserTokens, Revoked, ActiveOf
  <2>3. A!Ends(h, t)
    BY <2>1, <2>2, AskedIs DEF A!Ends, Progress
  <2> QED BY <2>2, <2>3
<1> QED BY <1>3, <1>4

\* A token that was logged out does not begin to leak.
LEMMA LeaksEarly ==
  ASSUME AccountInv, [Next]_vars
  PROVE  out \cap Leaky' \subseteq Leaky
<1> USE DEF AccountInv, Typed, TypeOK
<1>0. /\ now \in Nat /\ now' \in Nat /\ now <= now'
      /\ \A a \in Access : Exp(a) \in Nat /\ Exp(a)' = Exp(a)
  BY OutGrows, ExpType DEF Exp
<1>1. ASSUME black' = black, lost' = lost
      PROVE  out \cap Leaky' \subseteq Leaky
  BY <1>0, <1>1 DEF Leaky, Expired
<1>2. CASE Environment
  BY <1>1, <1>2 DEF Environment, Tick, ExpireRefresh, vars, history
<1>3. ASSUME NEW h \in Handler, Arrive(h) \/ Abort(h) \/ (Step(h) /\ ~BlacklistAccessToken(h))
      PROVE  black' = black /\ lost' = lost
  BY <1>3, ArriveMove
     DEF Abort, Step, FindByEmail, CreateUser, FindRefreshTokenAny, RevokeRefreshToken,
         IssueRefreshToken, RevokeAllUserTokens, Guard, Reply, Serve, history
<1>4. ASSUME NEW h \in Handler, BlacklistAccessToken(h)
      PROVE  out \cap Leaky' \subseteq Leaky
  <2> SUFFICES ASSUME NEW a \in out, a \in Leaky'
               PROVE  a \in Leaky
    OBVIOUS
  <2>1. a \in Access /\ Exp(a) > 0 /\ black[a] \in Nat /\ req[h].ttl \in Nat /\ now' = now
    BY <1>0, <1>4, SessionsAssumption DEF BlacklistAccessToken, Exp, Access, Request
  <2>2. a \in lost' /\ black'[a] = 0 /\ now < Exp(a)
    BY <1>0, <2>1 DEF Leaky, Expired
  <2>3. a \in lost \/ black[a] >= Exp(a)
    BY <1>0, <2>2 DEF OutInv, Blocked
  <2>4. black[a] = 0 => a \in Leaky
    BY <1>0, <2>1, <2>2, <2>3 DEF Leaky, Expired
  <2>5. CASE /\ req[h].ttl > 0 /\ UNCHANGED lost
             /\ black' = [black EXCEPT ![req[h].access] = now + req[h].ttl]
    <3>1. black'[a] = black[a]
      BY <1>0, <2>1, <2>2, <2>5
    <3> QED BY <2>2, <2>4, <3>1
  <2>6. CASE UNCHANGED black
    BY <2>2, <2>4, <2>6
  <2> QED BY <1>4, <2>5, <2>6 DEF BlacklistAccessToken
<1> QED BY <1>1, <1>2, <1>3, <1>4, NextCases

\* The clock and the databases do to tokens what Account lets them do.
LEMMA LiveHolds ==
  ASSUME AccountInv, [Next]_vars
  PROVE  A!Live
<1>1. Expired \subseteq Expired'
  BY OutGrows, ExpType DEF AccountInv, Expired, Exp
<1>2. ASSUME NEW t \in Refresh, token'[t] # token[t]
      PROVE  \/ token[t] = "unissued" /\ token'[t] = "active" /\ \E h \in Handler : A!Open(h, t)
             \/ token[t] = "active" /\ token'[t] = "revoked" /\ \E h \in Handler : A!Ends(h, t)
             \/ token[t] \in {"active", "revoked"} /\ token'[t] = "expired"
  <2>1. CASE Environment
    BY <1>2, <2>1 DEF Environment, Tick, ExpireRefresh, vars, mongo, AccountInv, Typed, TypeOK
  <2>2. ASSUME NEW h \in Handler, IssueRefreshToken(h)
        PROVE  token[t] = "unissued" /\ token'[t] = "active" /\ A!Open(h, t)
    <3>1. PICK x \in Refresh : /\ token[x] = "unissued" /\ token' = [token EXCEPT ![x] = "active"]
                               /\ A!Open(h, x)
      BY <2>2, IssueOpens
    <3>2. x = t
      BY <1>2, <3>1 DEF AccountInv, Typed, TypeOK
    <3> QED BY <3>1, <3>2 DEF AccountInv, Typed, TypeOK
  <2>3. ASSUME NEW h \in Handler, RevokeRefreshToken(h) \/ RevokeAllUserTokens(h)
        PROVE  token[t] = "active" /\ token'[t] = "revoked" /\ A!Ends(h, t)
    BY <1>2, <2>3, RevokeEnds
  <2>4. ASSUME NEW h \in Handler,
               \/ Arrive(h) \/ Abort(h) \/ FindByEmail(h) \/ CreateUser(h)
               \/ FindRefreshTokenAny(h) \/ Guard(h) \/ BlacklistAccessToken(h) \/ Reply(h) \/ Serve(h)
        PROVE  token' = token
    BY <2>4, ArriveMove DEF AccountInv, Abort, FindByEmail, CreateUser, FindRefreshTokenAny, Guard,
       BlacklistAccessToken, Reply, Serve, mongo
  <2> QED BY <1>2, <2>1, <2>2, <2>3, <2>4, NextCases DEF Step
<1> QED BY <1>1, <1>2, LeaksEarly DEF A!Live

-----------------------------------------------------------------------------
(* A step of a handler is a step of its request. *)

Frame == UNCHANGED <<users, sent, signed, ended, out>>

\* Whatever a client calls with is something it may present.
LEMMA ArriveAsks ==
  ASSUME AccountInv, NEW h \in Handler, Arrive(h)
  PROVE  A!Ask(h) /\ Frame
<1>0. Frame /\ Others(h) /\ req[h].pc = "idle"
  BY ArriveMove DEF AccountInv, Frame
<1>1. ASSUME NEW r, Call(h, r)
      PROVE  Asked[h].state = "none" /\ A!Puts(h, View(r))
  <2>1. Asked' = [Asked EXCEPT ![h] = View(req'[h])]
    BY <1>0, AskedSlot
  <2>2. req'[h] = r
    BY <1>1 DEF Call, AccountInv, Typed, TypeOK
  <2>3. Asked[h].state = "none"
    BY <1>0, AskedIs DEF Progress
  <2> QED BY <2>1, <2>2, <2>3 DEF A!Puts
<1>2. ASSUME NEW u \in User, NEW op \in {"register", "login"}, CallWithPassword(h, op, u)
      PROVE  A!Ask(h)
  <2> DEFINE r == [Idle EXCEPT !.pc = "find", !.op = op, !.user = u]
  <2>1. /\ r.pc = "find" /\ r.op = op /\ r.user = u /\ r.refresh = None /\ r.new = None
        /\ r.late = FALSE /\ r.seen = {}
    BY DEF Idle
  <2>2. Call(h, r)
    BY <1>2 DEF CallWithPassword
  <2> HIDE DEF r
  <2>3. View(r) = A!Presenting(op, u, None, None, FALSE, {})
    BY <2>1 DEF View, Progress, A!Presenting
  <2> QED BY <1>1, <2>2, <2>3 DEF A!Ask
<1>3. ASSUME NEW t \in sent, CallRefresh(h, t)
      PROVE  A!Ask(h)
  <2> DEFINE r == [Idle EXCEPT !.pc = "find", !.op = "refresh", !.user = UserOf[t], !.refresh = t,
                               !.late = t \in ended, !.seen = Held(UserOf[t])]
  <2>1. /\ r.pc = "find" /\ r.op = "refresh" /\ r.user = UserOf[t] /\ r.refresh = t
        /\ r.new = None /\ r.late = (t \in ended) /\ r.seen = Held(UserOf[t])
    BY DEF Idle
  <2>2. Call(h, r)
    BY <1>3 DEF CallRefresh
  <2> HIDE DEF r
  <2>3. View(r) = A!Presenting("refresh", UserOf[t], t, None, t \in ended, A!Held(UserOf[t]))
    BY <2>1 DEF View, Progress, A!Presenting, A!Held, Held
  <2> QED BY <1>1, <2>2, <2>3 DEF A!Ask
<1>4. ASSUME NEW a \in signed, NEW t \in sent \cup {None}, NEW op \in Guarded, CallGuarded(h, op, a, t)
      PROVE  A!Ask(h)
  <2> DEFINE r == [Idle EXCEPT !.pc = "guard", !.op = op, !.user = a[1], !.access = a,
                               !.refresh = t, !.late = a \in out,
                               !.seen = IF op = "logoutAll" THEN Held(a[1]) ELSE {}]
  <2>0. a \in Access /\ a \in signed \ Expired
    <3>1. a \in Access /\ Exp(a) \in Nat /\ now \in Nat /\ now < Exp(a)
      BY <1>4, ExpType DEF CallGuarded, AccountInv, Typed, TypeOK
    <3> QED BY <3>1 DEF Expired
  <2>1. /\ r.pc = "guard" /\ r.op = op /\ r.user = a[1] /\ r.access = a /\ r.refresh = t
        /\ r.new = None /\ r.late = (a \in out)
        /\ r.seen = IF op = "logoutAll" THEN Held(a[1]) ELSE {}
    BY DEF Idle
  <2>2. Call(h, r)
    BY <1>4 DEF CallGuarded
  <2> HIDE DEF r
  <2> DEFINE holder == [b \in Access |-> b[1]]
  <2>3. holder[a] = a[1]
    BY <2>0
  <2>4. View(r) = A!Presenting(op, holder[a], t, a, a \in out,
                               IF op = "logoutAll" THEN A!Held(holder[a]) ELSE {})
    <3> HIDE DEF holder
    <3> QED BY <2>1, <2>3 DEF View, Progress, Guarded, A!Presenting, A!Held, Held
  <2>5. op \in A!Guarded
    BY DEF A!Guarded, Guarded
  <2> QED BY <1>1, <2>0, <2>2, <2>4, <2>5 DEF A!Ask
<1> QED BY <1>0, <1>2, <1>3, <1>4 DEF Arrive, Guarded

\* What Account has a request do in one step.
Serves(h) ==
  \/ Frame /\ Asked' = Asked
  \/ A!Accept(h) /\ UNCHANGED <<sent, signed, ended, out>>
  \/ A!Answer(h) /\ UNCHANGED users
  \/ Frame /\ (A!Ask(h) \/ A!Refuse(h) \/ A!Forget(h))
  \/ Frame /\ \E t \in Refresh : A!Open(h, t) /\ token[t] = "unissued" /\ token'[t] = "active"

LEMMA AskedGoto ==
  ASSUME Typed, NEW h \in Handler, NEW pc, Goto(h, pc)
  PROVE  /\ Asked' = [Asked EXCEPT ![h].state = Progress(req'[h])]
         /\ Progress(req'[h]) = Progress(req[h]) => Asked' = Asked
         /\ req'[h].pc = pc /\ req'[h].op = req[h].op /\ req'[h].new = req[h].new
BY GotoMove, AskedMove DEF Same

LEMMA AskedMoved ==
  ASSUME NEW h \in Handler, NEW pc, Moved(h, pc)
  PROVE  /\ Asked' = [Asked EXCEPT ![h].state = Progress(req'[h])]
         /\ Progress(req'[h]) = Progress(req[h]) => Asked' = Asked
         /\ req'[h].pc = pc /\ req'[h].op = req[h].op /\ req'[h].new = req[h].new
BY AskedMove DEF Moved, Same

LEMMA AskedSign ==
  ASSUME Typed, NEW h \in Handler, Sign(h), req[h].op \notin Guarded
  PROVE  /\ Asked' = [Asked EXCEPT ![h].state = Progress(req'[h])]
         /\ Progress(req'[h]) = Progress(req[h]) => Asked' = Asked
         /\ req'[h].pc = "issue" /\ req'[h].op = req[h].op /\ req'[h].new = req[h].new
BY SignMove, AskedMove DEF Same

\* findByEmail accepts a login, and a create accepts a registration.
LEMMA PasswordServes ==
  ASSUME AccountInv, NEW h \in Handler, FindByEmail(h) \/ CreateUser(h)
  PROVE  Serves(h)
<1>0. Typed /\ Flow(req[h]) /\ req[h] \in Request
  BY DEF AccountInv, Typed, TypeOK, FlowOK
<1>1. /\ req[h].op \in {"login", "register"} /\ req[h].new = None
      /\ req[h].pc \in {"find", "create"} /\ Progress(req[h]) = "asked"
  BY <1>0 DEF FindByEmail, CreateUser, At, Flow, Guarded, Request, Ops, Progress
<1>2. req[h].op \notin A!Guarded /\ req[h].op \notin Guarded /\ req[h].op # "refresh"
  BY <1>1 DEF A!Guarded, Guarded
<1>3. ASSUME Finish(h), Frame
      PROVE  Serves(h)
  BY <1>0, <1>1, <1>3, FinishForgets DEF At, Serves
<1>4. ASSUME Sign(h), UNCHANGED <<sent, signed, ended, out>>,
             \/ req[h].op = "login" /\ req[h].user \in users /\ users' = users
             \/ /\ req[h].op = "register" /\ req[h].user \notin users
                /\ users' = users \cup {req[h].user}
      PROVE  Serves(h)
  <2>1. Progress(req'[h]) = "accepted"
    BY <1>0, <1>1, <1>2, <1>4, AskedSign DEF Progress
  <2>2. A!Acceptable(Asked[h])
    BY <1>2, <1>4, AskedIs DEF A!Acceptable
  <2>3. A!Decide(h, "accepted")
    BY <1>0, <1>1, <1>2, <1>4, <2>1, AskedSign, AskedIs DEF A!Decide
  <2> QED BY <1>4, <2>2, <2>3, AskedIs DEF A!Accept, Serves
<1>5. CASE FindByEmail(h)
  <2>1. Frame
    BY <1>5 DEF FindByEmail, Frame, mongo, client, history
  <2>2. ASSUME req[h].op = "register", Goto(h, "create")
        PROVE  Serves(h)
    <3>1. Progress(req'[h]) = "asked"
      BY <1>0, <2>2, AskedGoto DEF Progress
    <3> QED BY <1>0, <1>1, <2>1, <2>2, <3>1, AskedGoto DEF Serves
  <2> QED BY <1>3, <1>4, <1>5, <2>1, <2>2 DEF FindByEmail, Frame
<1>6. CASE CreateUser(h)
  <2>1. req[h].op = "register" /\ UNCHANGED <<sent, signed, ended, out>>
    BY <1>0, <1>6 DEF CreateUser, At, Flow, Guarded, Request, Ops, client, history
  <2>2. req[h].user \in users => Finish(h) /\ users' = users
    BY <1>6 DEF CreateUser
  <2>3. req[h].user \notin users => Sign(h) /\ users' = users \cup {req[h].user}
    BY <1>6 DEF CreateUser
  <2> QED BY <1>3, <1>4, <2>1, <2>2, <2>3 DEF Frame
<1> QED BY <1>5, <1>6

\* findRefreshTokenAny decides about a refresh: a late one has lost its token already.
LEMMA RefreshServes ==
  ASSUME AccountInv, NEW h \in Handler, FindRefreshTokenAny(h)
  PROVE  Serves(h)
<1>0. Typed /\ Flow(req[h]) /\ Debt(h) /\ Frame
  BY DEF AccountInv, Typed, TypeOK, FlowOK, EndedInv, FindRefreshTokenAny, Frame, mongo, client, history
<1>1. req[h].op = "refresh" /\ req[h].pc = "find" /\ req[h].new = None /\ Progress(req[h]) = "asked"
  BY <1>0 DEF FindRefreshTokenAny, At, Flow, Guarded, Progress
<1>2. CASE token[req[h].refresh] = "active" /\ Goto(h, "revoke")
  <2>1. Progress(req'[h]) = "accepted"
    BY <1>0, <1>1, <1>2, AskedGoto DEF Progress
  <2>2. ~req[h].late
    BY <1>0, <1>1, <1>2 DEF Debt, AccountInv, EndedInv, Over
  <2>3. A!Acceptable(Asked[h])
    BY <1>1, <1>2, <2>2, AskedIs DEF A!Acceptable, A!Guarded
  <2>4. A!Decide(h, "accepted")
    BY <1>0, <1>1, <1>2, <2>1, AskedGoto, AskedIs DEF A!Decide
  <2> QED BY <1>0, <1>1, <2>3, <2>4, AskedIs DEF A!Accept, Serves, Frame
<1>3. CASE token[req[h].refresh] = "revoked" /\ Goto(h, "wipe")
  <2>1. Progress(req'[h]) = "refused"
    BY <1>0, <1>1, <1>3, AskedGoto DEF Progress
  <2>2. A!Refuse(h)
    BY <1>0, <1>1, <1>3, <2>1, AskedGoto, AskedIs DEF A!Refuse, A!Decide
  <2> QED BY <1>0, <2>2 DEF Serves
<1>4. CASE Finish(h)
  BY <1>0, <1>1, <1>4, FinishForgets DEF At, Serves
<1> QED BY <1>2, <1>3, <1>4 DEF FindRefreshTokenAny

\* What ends tokens is no event of the request: Live has it.
LEMMA RevokeServes ==
  ASSUME AccountInv, NEW h \in Handler,
         RevokeRefreshToken(h) \/ RevokeAllUserTokens(h) \/ BlacklistAccessToken(h)
  PROVE  Serves(h)
<1>0. Typed /\ Flow(req[h]) /\ req[h] \in Request
  BY DEF AccountInv, Typed, TypeOK, FlowOK
<1>1. Frame /\ req[h].pc \in {"revoke", "wipe", "blacklist"} /\ req[h].new = None
  BY <1>0 DEF RevokeRefreshToken, RevokeAllUserTokens, BlacklistAccessToken, At, Frame, Flow,
     mongo, client, history
<1>2. CASE Sign(h) /\ req[h].op = "refresh" /\ req[h].pc = "revoke"
  BY <1>0, <1>1, <1>2, AskedSign DEF Guarded, Progress, Serves
<1>3. CASE /\ \E pc \in {"wipe", "revoke", "reply"} : Goto(h, pc)
           /\ req[h].op = "refresh" => req[h].pc = "wipe" /\ Goto(h, "reply")
  <2>1. PICK pc \in {"wipe", "revoke", "reply"} :
          Goto(h, pc) /\ (req[h].op = "refresh" => req[h].pc = "wipe" /\ pc = "reply")
    BY <1>3
  <2> QED BY <1>0, <1>1, <2>1, AskedGoto DEF Progress, Serves
<1>4. CASE BlacklistAccessToken(h)
  <2>1. PICK pc \in {"wipe", "revoke", "reply"} : Moved(h, pc) /\ req[h].op \in {"logout", "logoutAll"}
    BY <1>0, <1>4, BlacklistMove
  <2> QED BY <1>0, <1>1, <2>1, AskedMoved DEF Progress, Serves
<1>5. CASE Finish(h)
  BY <1>0, <1>1, <1>5, FinishForgets DEF At, Serves
<1> QED BY <1>2, <1>3, <1>4, <1>5 DEF RevokeRefreshToken, RevokeAllUserTokens, At

\* authGuard lets a late token through only if its entry is missing or no longer counts.
LEMMA GuardServes ==
  ASSUME AccountInv, NEW h \in Handler, Guard(h)
  PROVE  Serves(h)
<1>0. Typed /\ Flow(req[h]) /\ req[h] \in Request /\ Barred(h) /\ Frame
  BY DEF AccountInv, Typed, TypeOK, FlowOK, OutInv, Guard, Frame, mongo, client, history
<1>1. /\ req[h].op \in Guarded /\ req[h].pc = "guard" /\ req[h].new = None
      /\ req[h].access \in Access /\ Progress(req[h]) = "asked"
  BY <1>0 DEF Guard, At, Flow, Guarded, Request, Ops, Progress
<1>2. CASE Finish(h)
  BY <1>0, <1>1, <1>2, FinishForgets DEF At, Serves
<1>3. CASE /\ ~(now < black[req[h].access])
           /\ Moved(h, "served") \/ Moved(h, "blacklist")
  <2>1. Progress(req'[h]) = "accepted"
    BY <1>0, <1>1, <1>3, AskedMoved DEF Progress, Guarded
  <2>2. ASSUME NEW a \in Access, a = req[h].access, req[h].late
        PROVE  a \in Leaky \cup Expired
    <3>1. /\ a \in lost \/ black[a] >= Exp(a) \/ now >= Exp(a)
          /\ black[a] = 0 \/ black[a] >= Exp(a)
          /\ black[a] \in Nat /\ Exp(a) \in Nat /\ now \in Nat
      BY <1>0, <1>1, <2>2, ExpType DEF AccountInv, OutInv, BlackInv, Barred, Blocked, Typed, TypeOK
    <3>2. CASE black[a] = 0
      <4>1. Exp(a) > 0
        BY SessionsAssumption DEF Exp, Access
      <4> QED BY <3>1, <3>2, <4>1 DEF Leaky, Expired
    <3>3. CASE black[a] >= Exp(a)
      BY <1>3, <2>2, <3>1, <3>3 DEF Expired
    <3> QED BY <3>1, <3>2, <3>3
  <2>3. A!Acceptable(Asked[h])
    BY <1>1, <2>2, AskedIs DEF A!Acceptable, Guarded
  <2>4. A!Decide(h, "accepted")
    BY <1>0, <1>1, <1>3, <2>1, AskedMoved, AskedIs DEF A!Decide
  <2>5. Asked[h].by # "register"
    BY <1>1, AskedIs DEF Guarded
  <2> QED BY <1>0, <2>3, <2>4, <2>5 DEF A!Accept, Serves, Frame
<1> QED BY <1>0, <1>2, <1>3, GuardMove

LEMMA IssueServes ==
  ASSUME AccountInv, NEW h \in Handler, IssueRefreshToken(h)
  PROVE  Serves(h)
<1>1. Frame
  BY DEF IssueRefreshToken, Frame, client, history
<1> QED BY <1>1, IssueOpens DEF Serves, AccountInv, Typed, TypeOK

\* The answer tells what is true, and hands out what was opened for its user.
LEMMA ReplyServes ==
  ASSUME AccountInv, NEW h \in Handler, Reply(h)
  PROVE  Serves(h)
<1> DEFINE told == IF Wiped(h) THEN req[h].seen ELSE {req[h].refresh} \ {None}
<1>0. /\ Typed /\ Flow(req[h]) /\ req[h] \in Request /\ Debt(h) /\ users' = users
      /\ req[h].pc = "reply" /\ Finish(h)
  BY DEF AccountInv, Typed, TypeOK, FlowOK, EndedInv, Reply, At, mongo
<1>1. /\ sent' = sent \cup ({req[h].new} \ {None})
      /\ signed' = IF req[h].new = None THEN signed ELSE signed \cup {req[h].access}
      /\ ended' = ended \cup told
      /\ out' = IF req[h].op \in {"logout", "logoutAll"} THEN out \cup {req[h].access} ELSE out
  BY DEF Reply, Wiped
<1>2. Asked' = [Asked EXCEPT ![h] = A!NoRequest]
  BY <1>0, AskedFinish
<1>3. req[h].op \in {"register", "login", "refresh", "logout", "logoutAll"}
  BY <1>0 DEF Flow, Request, Ops
<1>4. CASE req[h].op \in {"register", "login"} /\ req[h].new = None
  <2>1. req[h].refresh = None /\ ~Wiped(h)
    BY <1>0, <1>4 DEF Flow, Wiped
  <2>2. Frame
    BY <1>0, <1>1, <1>4, <2>1 DEF Frame
  <2> QED BY <1>0, <2>2, FinishForgets DEF At, Serves
<1>5. CASE ~(req[h].op \in {"register", "login"} /\ req[h].new = None)
  <2>1. /\ req[h].new # None => Progress(req[h]) = "opened"
        /\ req[h].new = None => Progress(req[h]) = IF req[h].op = "refresh" THEN "refused" ELSE "accepted"
    BY <1>0 DEF Progress
  <2>2. req[h].op \in {"logout", "logoutAll"} => req[h].new = None
    BY <1>0 DEF Flow, Guarded
  <2>3. \A t \in told : Over(t)
    <3>1. ~Wiped(h) /\ req[h].refresh # None => Over(req[h].refresh)
      BY <1>0, <1>3 DEF Debt, Wiped, Flow
    <3> QED BY <1>0, <3>1 DEF Debt
  <2>4. /\ Asked[h].state = "opened" <=> req[h].new # None
        /\ Asked[h].state = "refused" <=> req[h].op = "refresh" /\ req[h].new = None
        /\ Asked[h].state = "accepted" <=> req[h].op \in {"logout", "logoutAll"}
    BY <1>3, <1>5, <2>1, <2>2, AskedIs
  <2>5. told = IF Asked[h].state = "refused" \/ Asked[h].by = "logoutAll"
               THEN Asked[h].held ELSE {Asked[h].token} \ {None}
    BY <2>4, AskedIs DEF Wiped
  <2>6. IF Asked[h].state = "opened"
        THEN \E a \in Access : [b \in Access |-> b[1]][a] = Asked[h].user /\ signed' = signed \cup {a}
        ELSE signed' = signed
    <3>1. req[h].new # None => req[h].access \in Access /\ req[h].access[1] = req[h].user
      BY <1>0 DEF Flow, AccountInv, SignedInv
    <3> QED BY <1>1, <2>4, <3>1, AskedIs
  <2>7. out' = IF Asked[h].by \in {"logout", "logoutAll"} THEN out \cup {Asked[h].access} ELSE out
    BY <1>1, AskedIs DEF Guarded
  <2>8. sent' = sent \cup ({Asked[h].new} \ {None})
    BY <1>1, AskedIs
  <2>9. \/ Asked[h].state \in {"opened", "refused"}
        \/ Asked[h].state = "accepted" /\ Asked[h].by \in {"logout", "logoutAll"}
    BY <1>3, <1>5, <2>4, AskedIs
  <2> HIDE DEF told
  <2> QED BY <1>0, <1>1, <1>2, <2>3, <2>5, <2>6, <2>7, <2>8, <2>9 DEF A!Answer, Serves, Over
<1> QED BY <1>4, <1>5

LEMMA LeaveServes ==
  ASSUME AccountInv, NEW h \in Handler, Serve(h) \/ Abort(h)
  PROVE  Serves(h)
<1>1. Finish(h) /\ ~At(h, "idle") /\ Frame
  BY DEF Serve, Abort, At, Frame, mongo, client, history
<1> QED BY <1>1, FinishForgets DEF Serves, AccountInv

-----------------------------------------------------------------------------

\* Whatever order the calls of the handlers run in, and whichever of them fail, clients see
\* what Account allows: a presentation is decided once, on one state; a refresh opens its
\* session after the token it presented has ended; what a client was told has ended stays
\* ended, and no later logout undoes a blacklist entry that was written.
THEOREM SessionsImplementAccount == Spec => ImplementsAccount
<1>1. Init => A!Init
  <2> SUFFICES ASSUME Init
               PROVE  A!Init
    OBVIOUS
  <2>1. Expired = {}
    <3>1. \A a \in Access : Exp(a) \in Nat /\ Exp(a) > 0
      BY SessionsAssumption DEF Exp, Access
    <3> QED BY <3>1 DEF Init, Expired
  <2>2. Leaky = {}
    BY DEF Init, Leaky
  <2>3. Asked = [h \in Handler |-> A!NoRequest]
    <3>1. View(Idle) = A!NoRequest
      BY SessionsAssumption DEF View, Idle, Progress, A!NoRequest, Ops
    <3> QED BY <3>1 DEF Init, Asked
  <2> QED BY <2>1, <2>2, <2>3 DEF Init, A!Init
<1>2. AccountInv /\ [Next]_vars => [A!Next]_A!vars
  <2> SUFFICES ASSUME AccountInv, [Next]_vars
               PROVE  A!Next
    OBVIOUS
  <2>1. A!Live
    BY LiveHolds
  <2>2. CASE Environment
    <3>1. Frame /\ Asked' = Asked
      BY <2>2 DEF Environment, Tick, ExpireRefresh, vars, mongo, client, history, Frame, Asked
    <3> QED BY <2>1, <3>1 DEF A!Next, A!clients, Frame
  <2>3. ASSUME NEW h \in Handler, Arrive(h) \/ Step(h) \/ Abort(h)
        PROVE  Serves(h)
    BY <2>3, ArriveAsks, PasswordServes, RefreshServes, RevokeServes, IssueServes, GuardServes,
       ReplyServes, LeaveServes DEF Step, Serves
  <2>4. ASSUME NEW h \in Handler, Serves(h)
        PROVE  A!Next
    BY <2>1, <2>4 DEF A!Next, A!clients, Serves, Frame
  <2> QED BY <2>2, <2>3, <2>4, NextCases
<1> QED BY <1>1, <1>2, AccountInvHolds, PTL DEF Spec, A!Spec, ImplementsAccount
=============================================================================
