--------------------------- MODULE SessionsProofs ---------------------------
(***************************************************************************)
(* What holds of Sessions for any number of users, tokens and requests.    *)
(***************************************************************************)
EXTENDS Sessions, TLAPS

Guarded == {"logout", "logoutAll", "request"}

\* What a request is where: each operation has its calls, and what they work on.
Flow(r) ==
  /\ r.op = None <=> r.pc = "idle"
  /\ r.pc # "idle" => r.user \in User
  /\ r.op = "refresh" => /\ r.pc \in {"find", "revoke", "issue", "wipe", "reply"}
                         /\ r.refresh \in Refresh /\ r.user = UserOf[r.refresh]
  /\ r.op = "login" => r.pc \in {"find", "issue", "reply"} /\ r.refresh = None
  /\ r.op = "register" => r.pc \in {"find", "create", "issue", "reply"} /\ r.refresh = None
  /\ r.op = "logout" => r.pc \in {"guard", "blacklist", "revoke", "reply"}
  /\ r.op = "logoutAll" => r.pc \in {"guard", "blacklist", "wipe", "reply"} /\ r.refresh = None
  /\ r.op = "request" => r.pc \in {"guard", "served"}
  /\ r.op \in Guarded \/ r.pc = "issue" => r.access \in Access
  /\ r.op \in Guarded \/ r.pc # "reply" => r.new = None
  /\ r.new # None => r.access \in Access

FlowOK == \A h \in Handler : Flow(req[h])

LEMMA ExpType ==
  ASSUME NEW a \in Access
  PROVE  Exp(a) \in Nat
BY SessionsAssumption DEF Exp, Access

\* A TTL lasts to the end of its token.
LEMMA TtlType ==
  ASSUME NEW a \in Access, now \in Nat
  PROVE  Ttl(a) \in Nat /\ now + Ttl(a) >= Exp(a)
BY ExpType DEF Ttl

LEMMA IdleType == Idle \in Request /\ Flow(Idle)
BY SessionsAssumption DEF Idle, Request, Ops, Flow, Guarded

\* An arriving request is well typed, and at its first call.
LEMMA ArriveStep ==
  ASSUME TypeOK, FlowOK, NEW h \in Handler, Arrive(h)
  PROVE  \E r \in Request : Flow(r) /\ req' = [req EXCEPT ![h] = r]
<1> USE SessionsAssumption, NoAccess DEF TypeOK
<1>1. ASSUME NEW u \in User, NEW op \in {"register", "login"}, CallWithPassword(h, op, u)
      PROVE  \E r \in Request : Flow(r) /\ req' = [req EXCEPT ![h] = r]
  <2> DEFINE r == [Idle EXCEPT !.pc = "find", !.op = op, !.user = u]
  <2>1. r \in Request /\ Flow(r)
    BY SessionsAssumption DEF Idle, Request, Flow, Guarded, Ops
  <2>2. req' = [req EXCEPT ![h] = r]
    BY <1>1 DEF CallWithPassword, Call
  <2> QED BY <2>1, <2>2
<1>2. ASSUME NEW t \in sent, CallRefresh(h, t)
      PROVE  \E r \in Request : Flow(r) /\ req' = [req EXCEPT ![h] = r]
  <2> DEFINE r == [Idle EXCEPT !.pc = "find", !.op = "refresh", !.user = UserOf[t], !.refresh = t,
                               !.late = t \in ended, !.seen = Held(UserOf[t])]
  <2>1. r \in Request /\ Flow(r)
    <3>1. (t \in ended) \in BOOLEAN /\ Held(UserOf[t]) \in SUBSET Refresh /\ UserOf[t] \in User
      BY DEF Held
    <3>2. ASSUME NEW late \in BOOLEAN, NEW seen \in SUBSET Refresh
          PROVE  LET c == [Idle EXCEPT !.pc = "find", !.op = "refresh", !.user = UserOf[t],
                                       !.refresh = t, !.late = late, !.seen = seen]
                 IN  c \in Request /\ Flow(c)
      BY <3>1 DEF Idle, Request, Flow, Guarded, Ops
    <3> QED BY <3>1, <3>2
  <2>2. req' = [req EXCEPT ![h] = r]
    BY <1>2 DEF CallRefresh, Call
  <2> QED BY <2>1, <2>2
<1>3. ASSUME NEW a \in signed, NEW t \in sent \cup {None}, NEW op \in Guarded,
             CallGuarded(h, op, a, t), op = "logoutAll" => t = None
      PROVE  \E r \in Request : Flow(r) /\ req' = [req EXCEPT ![h] = r]
  <2> DEFINE r == [Idle EXCEPT !.pc = "guard", !.op = op, !.user = a[1], !.access = a,
                               !.refresh = t, !.late = a \in out,
                               !.seen = IF op = "logoutAll" THEN Held(a[1]) ELSE {}]
  <2>1. a \in Access /\ a[1] \in User
    BY DEF Access
  <2>2. r \in Request /\ Flow(r)
    <3>1. /\ (a \in out) \in BOOLEAN
          /\ (IF op = "logoutAll" THEN Held(a[1]) ELSE {}) \in SUBSET Refresh
      BY DEF Held
    <3>2. ASSUME NEW late \in BOOLEAN, NEW seen \in SUBSET Refresh
          PROVE  LET c == [Idle EXCEPT !.pc = "guard", !.op = op, !.user = a[1], !.access = a,
                                       !.refresh = t, !.late = late, !.seen = seen]
                 IN  c \in Request /\ Flow(c)
      BY <1>3, <2>1 DEF Idle, Request, Flow, Guarded, Ops
    <3> QED BY <3>1, <3>2
  <2>3. req' = [req EXCEPT ![h] = r]
    BY <1>3 DEF CallGuarded, Call
  <2> QED BY <2>2, <2>3
<1> QED BY <1>1, <1>2, <1>3 DEF Arrive, Guarded

\* So is a request after each of its calls.
LEMMA StepSlot ==
  ASSUME TypeOK, FlowOK, NEW h \in Handler, Step(h) \/ Abort(h)
  PROVE  \E r \in Request : Flow(r) /\ req' = [req EXCEPT ![h] = r]
<1> DEFINE Good == \E r \in Request : Flow(r) /\ req' = [req EXCEPT ![h] = r]
<1>0. req[h] \in Request /\ Flow(req[h])
  BY DEF TypeOK, FlowOK
<1>1. ASSUME Finish(h)
      PROVE  Good
  BY <1>1, IdleType DEF Finish
<1>2. ASSUME NEW pc, Goto(h, pc), [req[h] EXCEPT !.pc = pc] \in Request,
             Flow([req[h] EXCEPT !.pc = pc])
      PROVE  Good
  <2>1. req' = [req EXCEPT ![h] = [req[h] EXCEPT !.pc = pc]]
    BY <1>2 DEF Goto
  <2> QED BY <1>2, <2>1
<1>3. ASSUME Sign(h), req[h].op \in {"register", "login", "refresh"}, ~At(h, "reply")
      PROVE  Good
  <2> DEFINE r == [req[h] EXCEPT !.pc = "issue", !.access = <<req[h].user, now>>]
  <2>1. req[h].user \in User
    BY <1>0, <1>3, SessionsAssumption DEF Flow
  <2>2. <<req[h].user, now>> \in Access
    BY <2>1 DEF Access, TypeOK
  <2>3. r \in Request
    BY <1>0, <2>2 DEF Request
  <2>4. Flow(r)
    BY <1>0, <1>3, <2>1, <2>2 DEF Request, Flow, Guarded, At
  <2>5. req' = [req EXCEPT ![h] = r]
    BY <1>3 DEF Sign
  <2> QED BY <2>3, <2>4, <2>5
<1> HIDE DEF Good
<1>4. ASSUME FindByEmail(h)
      PROVE  Good
  <2>1. ASSUME req[h].op = "register", Goto(h, "create"), At(h, "find")
        PROVE  Good
    BY <1>0, <1>2, <2>1 DEF Request, Flow, Guarded, At
  <2> QED BY <1>1, <1>3, <1>4, <2>1 DEF FindByEmail, At
<1>5. ASSUME CreateUser(h)
      PROVE  Good
  <2>1. req[h].op = "register"
    BY <1>0, <1>5 DEF CreateUser, At, Flow, Guarded, Request, Ops
  <2> QED BY <1>1, <1>3, <1>5, <2>1 DEF CreateUser, At
<1>6. ASSUME FindRefreshTokenAny(h)
      PROVE  Good
  <2>1. ASSUME NEW pc \in {"revoke", "wipe"}, Goto(h, pc), req[h].op = "refresh", At(h, "find")
        PROVE  Good
    BY <1>0, <1>2, <2>1 DEF Request, Flow, Guarded, At
  <2> QED BY <1>1, <1>6, <2>1 DEF FindRefreshTokenAny
<1>7. ASSUME RevokeRefreshToken(h)
      PROVE  Good
  <2>1. req[h].op \in {"refresh", "logout"}
    BY <1>0, <1>7 DEF RevokeRefreshToken, At, Flow, Guarded, Request, Ops
  <2>2. ASSUME Goto(h, "reply"), req[h].op = "logout"
        PROVE  Good
    BY <1>0, <1>2, <2>2 DEF Request, Flow, Guarded
  <2> QED BY <1>3, <1>7, <2>1, <2>2 DEF RevokeRefreshToken, At
<1>8. ASSUME IssueRefreshToken(h)
      PROVE  Good
  <2>1. PICK t \in Refresh : req' = [req EXCEPT ![h] = [req[h] EXCEPT !.pc = "reply", !.new = t]]
    BY <1>8 DEF IssueRefreshToken
  <2>2. [req[h] EXCEPT !.pc = "reply", !.new = t] \in Request
    BY <1>0 DEF Request
  <2>3. Flow([req[h] EXCEPT !.pc = "reply", !.new = t])
    BY <1>0, <1>8 DEF Request, Flow, Guarded, IssueRefreshToken, At, Ops
  <2> QED BY <2>1, <2>2, <2>3 DEF Good
<1>9. ASSUME RevokeAllUserTokens(h)
      PROVE  Good
  <2>1. Finish(h) \/ (Goto(h, "reply") /\ req[h].pc = "wipe")
    BY <1>9 DEF RevokeAllUserTokens, At
  <2>2. ASSUME Goto(h, "reply"), req[h].pc = "wipe"
        PROVE  Good
    BY <1>0, <1>2, <2>2 DEF Request, Flow, Guarded
  <2> QED BY <1>1, <2>1, <2>2
<1>10. ASSUME Guard(h)
       PROVE  Good
  <2>1. ASSUME Goto(h, "served"), req[h].op = "request"
        PROVE  Good
    BY <1>0, <1>2, <2>1 DEF Request, Flow, Guarded
  <2>2. ASSUME EnterLogout(h), req[h].op \in {"logout", "logoutAll"}
        PROVE  Good
    <3> DEFINE r == [req[h] EXCEPT !.pc = "blacklist", !.ttl = Ttl(req[h].access)]
    <3>1. Ttl(req[h].access) \in Nat
      BY <1>0, <2>2, TtlType DEF Flow, Guarded, TypeOK
    <3>2. r \in Request
      BY <1>0, <3>1 DEF Request
    <3>3. Flow(r)
      BY <1>0, <2>2 DEF Request, Flow, Guarded
    <3>4. req' = [req EXCEPT ![h] = r]
      BY <2>2 DEF EnterLogout
    <3> QED BY <3>2, <3>3, <3>4 DEF Good
  <2>3. req[h].op \in Guarded
    BY <1>0, <1>10 DEF Guard, At, Flow, Guarded, Request, Ops
  <2> QED BY <1>1, <1>10, <2>1, <2>2, <2>3 DEF Guard, Guarded
<1>11. ASSUME BlacklistAccessToken(h)
       PROVE  Good
  <2> DEFINE pc == IF req[h].op = "logoutAll" THEN "wipe"
                   ELSE IF req[h].refresh # None THEN "revoke" ELSE "reply"
             r == [req[h] EXCEPT !.pc = pc, !.ttl = 0]
  <2>1. req[h].op \in {"logout", "logoutAll"}
    BY <1>0, <1>11 DEF BlacklistAccessToken, At, Flow, Guarded, Request, Ops
  <2>2. r \in Request
    BY <1>0 DEF Request
  <2>3. Flow(r)
    BY <1>0, <2>1 DEF Request, Flow, Guarded
  <2>4. req' = [req EXCEPT ![h] = r]
    BY <1>11 DEF BlacklistAccessToken, LeaveBlacklist
  <2> QED BY <2>2, <2>3, <2>4 DEF Good
<1>12. ASSUME Reply(h) \/ Serve(h) \/ Abort(h)
       PROVE  Good
  BY <1>1, <1>12 DEF Reply, Serve, Abort
<1> QED BY <1>4, <1>5, <1>6, <1>7, <1>8, <1>9, <1>10, <1>11, <1>12 DEF Step, Good

Typed == TypeOK /\ FlowOK

\* The steps that are no request's.
Environment == Tick \/ (\E t \in Refresh : ExpireRefresh(t)) \/ UNCHANGED vars

LEMMA NextCases ==
  ASSUME [Next]_vars
  PROVE  (\E h \in Handler : Arrive(h) \/ Step(h) \/ Abort(h)) \/ Environment
BY DEF Next, Environment

LEMMA EnvironmentKeepsRequests ==
  ASSUME Environment
  PROVE  req' = req
BY DEF Environment, Tick, ExpireRefresh, vars

\* Every step keeps the types.
LEMMA TypeStep ==
  ASSUME Typed, [Next]_vars
  PROVE  Typed'
<1> USE SessionsAssumption DEF TypeOK, Typed, mongo, client, history
<1>1. ASSUME NEW h \in Handler, NEW r \in Request, Flow(r), req' = [req EXCEPT ![h] = r]
      PROVE  req' \in [Handler -> Request] /\ FlowOK'
  BY <1>1 DEF FlowOK
<1>2. ASSUME NEW h \in Handler, Arrive(h) \/ Abort(h)
      PROVE  UNCHANGED <<users, token, black, now, sent, signed, ended, out, lost>>
  BY <1>2 DEF Arrive, Abort, CallWithPassword, CallRefresh, CallGuarded, Call
<1>3. ASSUME NEW h \in Handler, Step(h)
      PROVE  /\ users' \subseteq User
             /\ token' \in [Refresh -> {"unissued", "active", "revoked", "expired"}]
             /\ black' \in [Access -> Nat] /\ now' \in 0 .. ClockBound
             /\ sent' \subseteq Refresh /\ signed' \subseteq Access
             /\ ended' \subseteq Refresh /\ out' \subseteq Access /\ lost' \subseteq Access
  <2>0. req[h] \in Request /\ Flow(req[h])
    BY DEF FlowOK
  <2>1. CASE FindByEmail(h) \/ FindRefreshTokenAny(h) \/ Guard(h) \/ Serve(h)
    BY <2>1 DEF FindByEmail, FindRefreshTokenAny, Guard, Serve
  <2>2. CASE CreateUser(h)
    BY <2>0, <2>2 DEF CreateUser, Flow, At, Request
  <2>3. CASE RevokeRefreshToken(h)
    BY <2>3 DEF RevokeRefreshToken
  <2>4. CASE IssueRefreshToken(h)
    BY <2>4 DEF IssueRefreshToken
  <2>5. CASE RevokeAllUserTokens(h)
    BY <2>5 DEF RevokeAllUserTokens, Revoked
  <2>6. CASE BlacklistAccessToken(h)
    <3>1. req[h].access \in Access
      BY <2>0, <2>6 DEF BlacklistAccessToken, Flow, At, Request, Ops, Guarded
    <3>2. now + req[h].ttl \in Nat
      BY <2>0 DEF Request
    <3> QED BY <2>6, <3>1, <3>2 DEF BlacklistAccessToken
  <2>7. CASE Reply(h)
    <3>1. req[h].op \in Guarded => req[h].access \in Access
      BY <2>0 DEF Flow
    <3>2. req[h].new # None => req[h].access \in Access
      BY <2>0 DEF Flow
    <3> QED BY <2>0, <2>7, <3>1, <3>2 DEF Reply, Request, Guarded
  <2> QED BY <1>3, <2>1, <2>2, <2>3, <2>4, <2>5, <2>6, <2>7 DEF Step
<1>4. CASE Environment
  <2>1. FlowOK'
    BY <1>4, EnvironmentKeepsRequests DEF FlowOK
  <2>2. TypeOK'
    BY <1>4 DEF Environment, Tick, ExpireRefresh, vars
  <2> QED BY <2>1, <2>2
<1>5. ASSUME NEW h \in Handler, Arrive(h) \/ Step(h) \/ Abort(h)
      PROVE  Typed'
  <2>1. PICK r \in Request : Flow(r) /\ req' = [req EXCEPT ![h] = r]
    BY <1>5, ArriveStep, StepSlot
  <2>2. req' \in [Handler -> Request] /\ FlowOK'
    BY <1>1, <2>1
  <2> QED BY <1>2, <1>3, <1>5, <2>2
<1> QED BY <1>4, <1>5, NextCases

LEMMA TypedHolds == Spec => []Typed
<1>1. Init => Typed
  BY IdleType, SessionsAssumption DEF Init, Typed, TypeOK, FlowOK
<1>2. Typed /\ [Next]_vars => Typed'
  BY TypeStep
<1> QED BY <1>1, <1>2, PTL DEF Spec

\* Type correctness: requests, documents, the blacklist and what clients hold.
THEOREM TypeCorrect == Spec => []TypeOK
<1>1. Typed => TypeOK
  BY DEF Typed
<1> QED BY <1>1, TypedHolds, PTL

-----------------------------------------------------------------------------
(* How a request moves. *)

Others(h) == \A g \in Handler \ {h} : req'[g] = req[g]

\* What a request was called with never changes.
Same(h) ==
  /\ req'[h].op = req[h].op /\ req'[h].user = req[h].user /\ req'[h].refresh = req[h].refresh
  /\ req'[h].late = req[h].late /\ req'[h].seen = req[h].seen

LEMMA GotoMove ==
  ASSUME Typed, NEW h \in Handler, NEW pc, Goto(h, pc)
  PROVE  /\ Others(h) /\ Same(h) /\ req'[h].pc = pc
         /\ req'[h].access = req[h].access /\ req'[h].new = req[h].new
BY DEF Typed, TypeOK, Request, Goto, Others, Same

\* What GotoMove says, for the calls that also set the TTL.
Moved(h, pc) ==
  /\ Others(h) /\ Same(h) /\ req'[h].pc = pc
  /\ req'[h].access = req[h].access /\ req'[h].new = req[h].new

\* authGuard lets a request through, or a logout on to its blacklist entry.
LEMMA GuardMove ==
  ASSUME Typed, NEW h \in Handler, Guard(h)
  PROVE  \/ Finish(h)
         \/ /\ ~(now < black[req[h].access])
            /\ \/ Moved(h, "served")
               \/ Moved(h, "blacklist") /\ req'[h].ttl = Ttl(req[h].access)
<1>1. req[h] \in Request /\ req \in [Handler -> Request]
  BY DEF Typed, TypeOK
<1>2. ASSUME EnterLogout(h)
      PROVE  Moved(h, "blacklist") /\ req'[h].ttl = Ttl(req[h].access)
  <2>1. req'[h] = [req[h] EXCEPT !.pc = "blacklist", !.ttl = Ttl(req[h].access)] /\ Others(h)
    BY <1>1, <1>2 DEF EnterLogout, Others
  <2> QED BY <1>1, <2>1 DEF Moved, Same, Request
<1> QED BY <1>2, GotoMove DEF Guard, Moved

LEMMA BlacklistMove ==
  ASSUME Typed, NEW h \in Handler, BlacklistAccessToken(h)
  PROVE  /\ req[h].op \in {"logout", "logoutAll"}
         /\ \/ Moved(h, "wipe") /\ req[h].op = "logoutAll"
            \/ Moved(h, "revoke") /\ req[h].op = "logout"
            \/ Moved(h, "reply") /\ req[h].op = "logout" /\ req[h].refresh = None
<1> DEFINE pc == IF req[h].op = "logoutAll" THEN "wipe"
                 ELSE IF req[h].refresh # None THEN "revoke" ELSE "reply"
<1>1. req[h] \in Request /\ req \in [Handler -> Request] /\ Flow(req[h])
  BY DEF Typed, TypeOK, FlowOK
<1>2. req[h].op \in {"logout", "logoutAll"}
  BY <1>1 DEF BlacklistAccessToken, At, Flow, Guarded, Request, Ops
<1>3. req'[h] = [req[h] EXCEPT !.pc = pc, !.ttl = 0] /\ Others(h)
  BY <1>1 DEF BlacklistAccessToken, LeaveBlacklist, Others
<1>4. Moved(h, pc)
  <2> HIDE DEF pc
  <2> QED BY <1>1, <1>3 DEF Moved, Same, Request
<1> QED BY <1>2, <1>4

LEMMA FinishMove ==
  ASSUME Typed, NEW h \in Handler, Finish(h)
  PROVE  Others(h) /\ req'[h] = Idle
BY DEF Typed, TypeOK, Finish, Others

LEMMA SignMove ==
  ASSUME Typed, NEW h \in Handler, Sign(h)
  PROVE  Others(h) /\ Same(h) /\ req'[h].pc = "issue" /\ req'[h].new = req[h].new
<1>1. req[h] \in Request
  BY DEF Typed, TypeOK
<1>2. req'[h] = [req[h] EXCEPT !.pc = "issue", !.access = <<req[h].user, now>>]
  BY DEF Typed, TypeOK, Sign
<1> QED BY <1>1, <1>2 DEF Typed, TypeOK, Sign, Others, Same, Request

LEMMA IssueMove ==
  ASSUME Typed, NEW h \in Handler, IssueRefreshToken(h)
  PROVE  \E t \in Refresh :
           /\ token[t] = "unissued" /\ UserOf[t] = req[h].user
           /\ token' = [token EXCEPT ![t] = "active"]
           /\ Others(h) /\ Same(h) /\ req'[h].pc = "reply" /\ req'[h].new = t
           /\ req'[h].access = req[h].access
<1>1. req[h] \in Request
  BY DEF Typed, TypeOK
<1>2. PICK t \in Refresh :
        /\ token[t] = "unissued" /\ UserOf[t] = req[h].user
        /\ token' = [token EXCEPT ![t] = "active"]
        /\ req' = [req EXCEPT ![h] = [req[h] EXCEPT !.pc = "reply", !.new = t]]
  BY DEF IssueRefreshToken
<1>3. req'[h] = [req[h] EXCEPT !.pc = "reply", !.new = t] /\ Others(h)
  BY <1>2 DEF Typed, TypeOK, Others
<1>4. Same(h) /\ req'[h].pc = "reply" /\ req'[h].new = t /\ req'[h].access = req[h].access
  BY <1>1, <1>3 DEF Same, Request
<1> QED BY <1>2, <1>3, <1>4

LEMMA ArriveMove ==
  ASSUME Typed, NEW h \in Handler, Arrive(h)
  PROVE  /\ Others(h) /\ req[h].pc = "idle" /\ req'[h].new = None
         /\ req'[h].refresh \in sent \cup {None}
         /\ UNCHANGED <<users, token, black, now, sent, signed, ended, out, lost>>
         /\ \A t \in req'[h].seen : t \in sent /\ UserOf[t] = req'[h].user
         /\ \/ req'[h].op \in {"login", "register"} /\ req'[h].pc = "find"
            \/ /\ req'[h].op = "refresh" /\ req'[h].pc = "find"
               /\ req'[h].late => req'[h].refresh \in ended
            \/ /\ req'[h].op \in Guarded /\ req'[h].pc = "guard"
               /\ req'[h].late => req'[h].access \in out
<1> DEFINE Good(r) ==
      /\ r.new = None /\ r.refresh \in sent \cup {None}
      /\ \A t \in r.seen : t \in sent /\ UserOf[t] = r.user
      /\ \/ r.op \in {"login", "register"} /\ r.pc = "find"
         \/ r.op = "refresh" /\ r.pc = "find" /\ (r.late => r.refresh \in ended)
         \/ r.op \in Guarded /\ r.pc = "guard" /\ (r.late => r.access \in out)
<1>0. req \in [Handler -> Request]
  BY DEF Typed, TypeOK
<1>1. ASSUME NEW r, Call(h, r), Good(r)
      PROVE  /\ Others(h) /\ req[h].pc = "idle" /\ req'[h] = r /\ Good(r)
             /\ UNCHANGED <<users, token, black, now, sent, signed, ended, out, lost>>
  BY <1>0, <1>1 DEF Call, Others, At, mongo, client, history
<1>2. ASSUME NEW u \in User, NEW op \in {"register", "login"}, CallWithPassword(h, op, u)
      PROVE  \E r : Call(h, r) /\ Good(r)
  <2>1. Good([Idle EXCEPT !.pc = "find", !.op = op, !.user = u])
    BY DEF Idle
  <2> QED BY <1>2, <2>1 DEF CallWithPassword
<1>3. ASSUME NEW t \in sent, CallRefresh(h, t)
      PROVE  \E r : Call(h, r) /\ Good(r)
  <2> DEFINE r == [Idle EXCEPT !.pc = "find", !.op = "refresh", !.user = UserOf[t], !.refresh = t,
                               !.late = t \in ended, !.seen = Held(UserOf[t])]
  <2>1. /\ r.new = None /\ r.pc = "find" /\ r.op = "refresh" /\ r.user = UserOf[t]
        /\ r.refresh = t /\ r.seen = Held(UserOf[t])
    BY DEF Idle
  <2>2. r.late => t \in ended
    BY DEF Idle
  <2>3. Good(r)
    <3> HIDE DEF r
    <3> QED BY <2>1, <2>2 DEF Held
  <2> QED BY <1>3, <2>3 DEF CallRefresh
<1>4. ASSUME NEW a \in signed, NEW t \in sent \cup {None}, NEW op \in Guarded, CallGuarded(h, op, a, t)
      PROVE  \E r : Call(h, r) /\ Good(r)
  <2> DEFINE r == [Idle EXCEPT !.pc = "guard", !.op = op, !.user = a[1], !.access = a,
                               !.refresh = t, !.late = a \in out,
                               !.seen = IF op = "logoutAll" THEN Held(a[1]) ELSE {}]
  <2>1. /\ r.new = None /\ r.pc = "guard" /\ r.op = op /\ r.user = a[1]
        /\ r.access = a /\ r.refresh = t /\ r.seen \subseteq Held(a[1])
    BY DEF Idle
  <2>2. r.late => a \in out
    BY DEF Idle
  <2>3. Good(r)
    <3> HIDE DEF r
    <3> QED BY <2>1, <2>2 DEF Held
  <2> QED BY <1>4, <2>3 DEF CallGuarded
<1>5. \E r : Call(h, r) /\ Good(r)
  BY <1>2, <1>3, <1>4 DEF Arrive, Guarded
<1> QED BY <1>1, <1>5

-----------------------------------------------------------------------------
(* One account, one owner: whoever is being registered has the document, and *)
(* nobody else is registered while that handler runs.                        *)

Registered(h) == req[h].op = "register" /\ req[h].pc \in {"issue", "reply"}

RegistrationInv ==
  /\ RegisteredOnce
  /\ \A h \in Handler : Registered(h) => req[h].user \in users

LEMMA RegistrationStep ==
  ASSUME Typed, RegistrationInv, [Next]_vars
  PROVE  RegistrationInv'
<1> DEFINE Kept(h) == /\ Others(h) /\ users' = users
                      /\ Registered(h)' => Registered(h) /\ req'[h].user = req[h].user
<1>1. ASSUME NEW h \in Handler, Kept(h)
      PROVE  RegistrationInv'
  BY <1>1 DEF RegistrationInv, RegisteredOnce, Registered, Others
<1>2. ASSUME NEW h \in Handler, Arrive(h)
      PROVE  Kept(h)
  BY <1>2, ArriveMove DEF Registered
<1>3. ASSUME NEW h \in Handler, Abort(h) \/ Serve(h) \/ Reply(h)
      PROVE  Kept(h)
  <2>1. Finish(h) /\ users' = users
    BY <1>3 DEF Abort, Serve, Reply, mongo
  <2> QED BY <2>1, FinishMove DEF Registered, Idle
<1>4. ASSUME NEW h \in Handler, RevokeRefreshToken(h) \/ RevokeAllUserTokens(h)
             \/ FindRefreshTokenAny(h) \/ Guard(h) \/ BlacklistAccessToken(h)
      PROVE  Kept(h)
  <2>1. req[h].op # "register"
    BY <1>4 DEF RevokeRefreshToken, RevokeAllUserTokens, FindRefreshTokenAny, Guard,
                BlacklistAccessToken, At, Typed, FlowOK, Flow
  <2>2. users' = users
    BY <1>4 DEF RevokeRefreshToken, RevokeAllUserTokens, FindRefreshTokenAny, Guard,
                BlacklistAccessToken, mongo
  <2>3. CASE Guard(h) \/ BlacklistAccessToken(h)
    <3>1. Finish(h) \/ \E pc : Moved(h, pc)
      BY <2>3, GuardMove, BlacklistMove
    <3> QED BY <2>1, <2>2, <3>1, FinishMove DEF Moved, Same, Registered, Idle
  <2>4. CASE RevokeRefreshToken(h) \/ RevokeAllUserTokens(h) \/ FindRefreshTokenAny(h)
    <3>1. Finish(h) \/ Sign(h) \/ \E pc : Goto(h, pc)
      BY <2>4 DEF RevokeRefreshToken, RevokeAllUserTokens, FindRefreshTokenAny
    <3> QED BY <2>1, <2>2, <3>1, FinishMove, SignMove, GotoMove DEF Same, Registered, Idle
  <2> QED BY <1>4, <2>3, <2>4
<1>5. ASSUME NEW h \in Handler, FindByEmail(h)
      PROVE  Kept(h)
  <2>1. users' = users /\ \/ Finish(h) \/ Goto(h, "create")
                          \/ req[h].op = "login" /\ Sign(h)
    BY <1>5 DEF FindByEmail, mongo
  <2> QED BY <2>1, FinishMove, SignMove, GotoMove DEF Same, Registered, Idle
<1>6. ASSUME NEW h \in Handler, IssueRefreshToken(h)
      PROVE  Kept(h)
  <2>1. users' = users /\ req[h].pc = "issue"
    BY <1>6 DEF IssueRefreshToken, At
  <2> QED BY <1>6, <2>1, IssueMove DEF Same, Registered
<1>7. ASSUME NEW h \in Handler, CreateUser(h)
      PROVE  RegistrationInv'
  <2>1. CASE req[h].user \in users
    <3>1. Finish(h) /\ users' = users
      BY <1>7, <2>1 DEF CreateUser
    <3> QED BY <1>1, <3>1, FinishMove DEF Registered, Idle
  <2>2. CASE req[h].user \notin users
    <3>1. Sign(h) /\ users' = users \cup {req[h].user}
      BY <1>7, <2>2 DEF CreateUser
    <3>2. \A g \in Handler \ {h} : Registered(g) => req[g].user # req[h].user
      BY <2>2 DEF RegistrationInv
    <3> QED BY <3>1, <3>2, SignMove DEF RegistrationInv, RegisteredOnce, Registered, Same, Others
  <2> QED BY <2>1, <2>2
<1>8. CASE Environment
  <2>1. req' = req /\ users' = users
    BY <1>8 DEF Environment, Tick, ExpireRefresh, vars, mongo
  <2> QED BY <2>1 DEF RegistrationInv, RegisteredOnce, Registered
<1> HIDE DEF Kept
<1> QED BY <1>1, <1>2, <1>3, <1>4, <1>5, <1>6, <1>7, <1>8, NextCases DEF Step

\* However many registrations of an email run at once, one of them gets a session.
THEOREM OneRegistration == Spec => []RegisteredOnce
<1>1. Init => RegistrationInv
  BY DEF Init, RegistrationInv, RegisteredOnce, Registered, Idle
<1>2. Typed /\ RegistrationInv /\ [Next]_vars => RegistrationInv'
  BY RegistrationStep
<1>3. RegistrationInv => RegisteredOnce
  BY DEF RegistrationInv
<1> QED BY <1>1, <1>2, <1>3, TypedHolds, PTL DEF Spec

-----------------------------------------------------------------------------
(* A user without a session. *)

Calm(h, u) ==
  req[h].user = u => /\ req[h].pc \notin {"create", "issue"}
                     /\ req[h].op = "refresh" => req[h].pc # "revoke"
                     /\ req[h].op \in {"login", "register"} => req[h].pc # "find"

NoGoodToken(u) == \A t \in Refresh : UserOf[t] = u => token[t] # "active"

LEMMA SignedOutParts ==
  ASSUME NEW u
  PROVE  /\ SignedOut(u) <=> NoGoodToken(u) /\ \A h \in Handler : Calm(h, u)
         /\ SignedOut(u)' <=> NoGoodToken(u)' /\ \A h \in Handler : Calm(h, u)'
BY DEF SignedOut, NoGoodToken, Calm

\* No handler on its way opens a session.
LEMMA StaysSignedOut ==
  ASSUME Typed, NEW u \in User, SignedOut(u), NEW h \in Handler, Step(h) \/ Abort(h)
  PROVE  SignedOut(u)'
<1> USE SignedOutParts
<1>0. req[h] \in Request /\ Flow(req[h]) /\ Calm(h, u)
  BY DEF Typed, TypeOK, FlowOK
<1>1. ASSUME Others(h), Calm(h, u)', NoGoodToken(u)'
      PROVE  SignedOut(u)'
  BY <1>1 DEF Others, Calm
<1>2. ASSUME token' = token
      PROVE  NoGoodToken(u)'
  BY <1>2 DEF NoGoodToken
<1>3. CASE Abort(h) \/ Serve(h) \/ Reply(h)
  <2>1. Finish(h) /\ token' = token
    BY <1>3 DEF Abort, Serve, Reply, mongo
  <2> QED BY <1>1, <1>2, <2>1, FinishMove, SessionsAssumption DEF Calm, Idle
<1>4. CASE FindByEmail(h) \/ CreateUser(h)
  <2>1. req[h].user # u
    BY <1>0, <1>4 DEF FindByEmail, CreateUser, At, Calm, Flow, Request, Ops, Guarded
  <2>2. token' = token /\ (Finish(h) \/ Sign(h) \/ Goto(h, "create"))
    BY <1>4 DEF FindByEmail, CreateUser, mongo
  <2> QED BY <1>1, <1>2, <2>1, <2>2, FinishMove, SignMove, GotoMove, SessionsAssumption
       DEF Calm, Idle, Same
<1>5. CASE FindRefreshTokenAny(h)
  <2>1. req[h].user = u => token[req[h].refresh] # "active"
    BY <1>0, <1>5 DEF FindRefreshTokenAny, Flow, NoGoodToken
  <2>2. token' = token /\ (Finish(h) \/ Goto(h, "wipe") \/ (req[h].user # u /\ Goto(h, "revoke")))
    BY <1>5, <2>1 DEF FindRefreshTokenAny, mongo
  <2> QED BY <1>1, <1>2, <2>2, FinishMove, GotoMove, SessionsAssumption DEF Calm, Idle, Same
<1>6. CASE RevokeRefreshToken(h)
  <2>1. NoGoodToken(u)'
    BY <1>6 DEF RevokeRefreshToken, NoGoodToken, Typed, TypeOK
  <2>2. \/ req[h].user # u /\ Sign(h)
        \/ Goto(h, "reply")
    BY <1>0, <1>6 DEF RevokeRefreshToken, At, Calm
  <2> QED BY <1>1, <2>1, <2>2, SignMove, GotoMove DEF Calm, Same
<1>7. CASE IssueRefreshToken(h)
  <2>1. req[h].user # u
    BY <1>0, <1>7 DEF IssueRefreshToken, At, Calm
  <2>2. NoGoodToken(u)'
    BY <1>7, <2>1, IssueMove DEF NoGoodToken, Typed, TypeOK
  <2> QED BY <1>1, <1>7, <2>1, <2>2, IssueMove DEF Calm, Same
<1>8. CASE RevokeAllUserTokens(h)
  <2>1. NoGoodToken(u)'
    BY <1>8 DEF RevokeAllUserTokens, Revoked, NoGoodToken
  <2>2. Finish(h) \/ Goto(h, "reply")
    BY <1>8 DEF RevokeAllUserTokens
  <2> QED BY <1>1, <2>1, <2>2, FinishMove, GotoMove, SessionsAssumption DEF Calm, Idle, Same
<1>9. CASE Guard(h) \/ BlacklistAccessToken(h)
  <2>1. req[h].op \in Guarded
    BY <1>0, <1>9 DEF Guard, BlacklistAccessToken, At, Flow, Request, Ops, Guarded
  <2>2. token' = token
    BY <1>9 DEF Guard, BlacklistAccessToken, mongo
  <2>3. Finish(h) \/ \E pc \in {"served", "blacklist", "wipe", "revoke", "reply"} : Moved(h, pc)
    BY <1>9, GuardMove, BlacklistMove
  <2> QED BY <1>1, <1>2, <2>1, <2>2, <2>3, FinishMove, SessionsAssumption
       DEF Calm, Idle, Moved, Same, Guarded
<1> QED BY <1>3, <1>4, <1>5, <1>6, <1>7, <1>8, <1>9 DEF Step

\* After a logout-all or a theft response that left a user without a session, no token the
\* user ever held and no handler still running opens one: only a login does.
THEOREM OnlyLogin == Spec => OnlyLoginReopens
<1>1. Typed /\ [Next]_vars =>
        [\A u \in User : SignedOut(u) /\ ~SignedOut(u)' =>
           \E h \in Handler : At(h, "idle") /\ req'[h].user = u /\ req'[h].op \in {"login", "register"}]_vars
  <2> USE SignedOutParts
  <2> SUFFICES ASSUME Typed, Next, NEW u \in User, SignedOut(u), ~SignedOut(u)'
               PROVE  \E h \in Handler : /\ At(h, "idle") /\ req'[h].user = u
                                         /\ req'[h].op \in {"login", "register"}
    OBVIOUS
  <2>1. ASSUME Environment
        PROVE  FALSE
    <3>1. req' = req /\ NoGoodToken(u)'
      BY <2>1 DEF Environment, Tick, ExpireRefresh, vars, mongo, NoGoodToken, Typed, TypeOK
    <3> QED BY <3>1 DEF Calm
  <2>2. PICK h \in Handler : Arrive(h)
    BY <2>1, NextCases, StaysSignedOut
  <2>3. Others(h) /\ At(h, "idle") /\ NoGoodToken(u)'
    BY <2>2, ArriveMove DEF At, NoGoodToken
  <2>4. ~Calm(h, u)'
    BY <2>3 DEF Others, Calm
  <2>5. \/ req'[h].op \in {"login", "register"}
        \/ req'[h].op = "refresh" /\ req'[h].pc = "find"
        \/ req'[h].op \in Guarded /\ req'[h].pc = "guard"
    BY <2>2, ArriveMove
  <2>6. req'[h].user = u /\ req'[h].op \in {"login", "register"}
    BY <2>4, <2>5 DEF Calm, Guarded
  <2> QED BY <2>3, <2>6
<1> QED BY <1>1, TypedHolds, PTL DEF Spec, OnlyLoginReopens

-----------------------------------------------------------------------------
(* Ended refresh tokens. *)

Over(t) == token[t] \in {"revoked", "expired"}
Issued(t) == token[t] # "unissued"

Wiped(h) == req[h].op = "logoutAll" \/ (req[h].op = "refresh" /\ req[h].new = None)

\* What handler h has ended so far, and owes nobody yet.
Debt(h) ==
  /\ \A t \in req[h].seen : Issued(t) /\ UserOf[t] = req[h].user
  /\ req[h].new # None => Issued(req[h].new)
  /\ req[h].op = "refresh" /\ (req[h].pc = "issue" \/ req[h].new # None) => Over(req[h].refresh)
  /\ req[h].op = "logout" /\ req[h].pc = "reply" /\ req[h].refresh # None => Over(req[h].refresh)
  /\ req[h].pc = "reply" /\ Wiped(h) => \A t \in req[h].seen : Over(t)
  /\ req[h].op = "refresh" /\ req[h].late => /\ req[h].refresh \in ended
                                             /\ req[h].pc \notin {"revoke", "issue"}

EndedInv ==
  /\ \A t \in sent : Issued(t)
  /\ \A t \in ended : Over(t)
  /\ \A h \in Handler : Debt(h)

\* A refresh token only moves on: nothing that is over is good again.
LEMMA TokensMoveOn ==
  ASSUME Typed, [Next]_vars, NEW t \in Refresh
  PROVE  (Over(t) => Over(t)') /\ (Issued(t) => Issued(t)')
<1> USE DEF Typed, TypeOK, Over, Issued
<1>1. ASSUME token' = token
      PROVE  (Over(t) => Over(t)') /\ (Issued(t) => Issued(t)')
  BY <1>1
<1>2. CASE Environment
  BY <1>2 DEF Environment, Tick, ExpireRefresh, vars, mongo
<1>3. ASSUME NEW h \in Handler, Arrive(h) \/ Abort(h)
      PROVE  token' = token
  BY <1>3, ArriveMove DEF Abort, mongo
<1>4. ASSUME NEW h \in Handler,
             \/ FindByEmail(h) \/ CreateUser(h) \/ FindRefreshTokenAny(h) \/ Guard(h)
             \/ BlacklistAccessToken(h) \/ Reply(h) \/ Serve(h)
      PROVE  token' = token
  BY <1>4 DEF FindByEmail, CreateUser, FindRefreshTokenAny, Guard, BlacklistAccessToken, Reply,
              Serve, mongo
<1>5. ASSUME NEW h \in Handler, RevokeRefreshToken(h)
      PROVE  (Over(t) => Over(t)') /\ (Issued(t) => Issued(t)')
  BY <1>5 DEF RevokeRefreshToken
<1>6. ASSUME NEW h \in Handler, IssueRefreshToken(h)
      PROVE  (Over(t) => Over(t)') /\ (Issued(t) => Issued(t)')
  BY <1>6 DEF IssueRefreshToken
<1>7. ASSUME NEW h \in Handler, RevokeAllUserTokens(h)
      PROVE  (Over(t) => Over(t)') /\ (Issued(t) => Issued(t)')
  BY <1>7 DEF RevokeAllUserTokens, Revoked, ActiveOf
<1> QED BY <1>1, <1>2, <1>3, <1>4, <1>5, <1>6, <1>7, NextCases DEF Step

\* The handler that takes a step.
LEMMA DebtStep ==
  ASSUME Typed, EndedInv, [Next]_vars, NEW h \in Handler, Arrive(h) \/ Step(h) \/ Abort(h)
  PROVE  Debt(h)'
<1>0. req[h] \in Request /\ Flow(req[h]) /\ Debt(h)
  BY DEF Typed, TypeOK, FlowOK, EndedInv
<1>1. ASSUME Finish(h)
      PROVE  Debt(h)'
  BY <1>1, FinishMove, SessionsAssumption DEF Debt, Wiped, Idle, Ops
<1>2. \A t \in Refresh : (Over(t) => Over(t)') /\ (Issued(t) => Issued(t)')
  BY TokensMoveOn
<1>3. req[h].seen \subseteq Refresh /\ req[h].refresh \in Refresh \cup {None}
      /\ req[h].new \in Refresh \cup {None}
  BY <1>0 DEF Request
<1>4. CASE Arrive(h)
  <2>1. \A t \in req'[h].seen : Issued(t)' /\ UserOf[t] = req'[h].user
    BY <1>2, <1>4, ArriveMove DEF EndedInv, Typed, TypeOK
  <2>2. /\ req'[h].new = None /\ ended' = ended
        /\ \/ req'[h].op \in {"login", "register"} /\ req'[h].pc = "find"
           \/ /\ req'[h].op = "refresh" /\ req'[h].pc = "find"
              /\ req'[h].late => req'[h].refresh \in ended
           \/ req'[h].op \in Guarded /\ req'[h].pc = "guard"
    BY <1>4, ArriveMove
  <2> QED BY <2>1, <2>2 DEF Debt, Wiped, Guarded
<1>5. CASE Abort(h) \/ Serve(h) \/ Reply(h)
  BY <1>1, <1>5 DEF Abort, Serve, Reply
<1>6. CASE FindByEmail(h) \/ CreateUser(h)
  <2>1. req[h].op \in {"login", "register"}
    BY <1>0, <1>6 DEF FindByEmail, CreateUser, At, Flow, Request, Ops, Guarded
  <2>2. Finish(h) \/ Sign(h) \/ Goto(h, "create")
    BY <1>6 DEF FindByEmail, CreateUser
  <2> QED BY <1>0, <1>1, <1>2, <1>3, <2>1, <2>2, SignMove, GotoMove DEF Debt, Wiped, Same
<1>7. CASE FindRefreshTokenAny(h)
  <2>1. req[h].op = "refresh" /\ req[h].new = None /\ ended' = ended
    BY <1>0, <1>7 DEF FindRefreshTokenAny, At, Flow, history
  <2>2. req[h].late => ~Goto(h, "revoke") \/ Finish(h) \/ Goto(h, "wipe")
    BY <1>0, <1>7 DEF FindRefreshTokenAny, Debt, EndedInv, Over
  <2>3. Finish(h) \/ Goto(h, "wipe") \/ (Goto(h, "revoke") /\ ~req[h].late)
    BY <1>7, <2>2 DEF FindRefreshTokenAny
  <2> QED BY <1>0, <1>1, <1>2, <1>3, <2>1, <2>3, GotoMove DEF Debt, Wiped, Same
<1>8. CASE RevokeRefreshToken(h)
  <2>1. req[h].op \in {"refresh", "logout"} /\ req[h].new = None /\ ended' = ended
    BY <1>0, <1>8 DEF RevokeRefreshToken, At, Flow, Request, Ops, Guarded, history
  <2>2. \A t \in Refresh : t = req[h].refresh => Over(t)'
    BY <1>3, <1>8 DEF RevokeRefreshToken, Over, Typed, TypeOK
  <2>3. \/ req[h].op = "refresh" /\ Sign(h)
        \/ req[h].op = "logout" /\ Goto(h, "reply")
    BY <1>8, <2>1 DEF RevokeRefreshToken
  <2>4. req[h].op = "refresh" => req[h].refresh # None /\ ~req[h].late
    BY <1>0, <1>8, SessionsAssumption DEF Flow, RevokeRefreshToken, At, Debt
  <2> QED BY <1>0, <1>2, <1>3, <2>1, <2>2, <2>3, <2>4, GotoMove, SignMove DEF Debt, Wiped, Same
<1>9. CASE IssueRefreshToken(h)
  <2>1. req[h].pc = "issue" /\ ended' = ended
    BY <1>9 DEF IssueRefreshToken, At, history
  <2>2. req[h].op \in {"refresh", "login", "register"}
    BY <1>0, <2>1 DEF Flow, Request, Ops, Guarded
  <2>3. PICK t \in Refresh : /\ token' = [token EXCEPT ![t] = "active"]
                             /\ Same(h) /\ req'[h].pc = "reply" /\ req'[h].new = t
    BY <1>9, IssueMove
  <2>4. Issued(t)'
    BY <2>3 DEF Issued, Typed, TypeOK
  <2>5. t # None /\ req[h].op # "logoutAll" /\ req[h].op # "logout"
    BY <2>2, SessionsAssumption
  <2>6. \A u \in req[h].seen : Issued(u)' /\ UserOf[u] = req[h].user
    BY <1>0, <1>2, <1>3 DEF Debt
  <2>7. \A u \in Refresh : req[h].op = "refresh" /\ req[h].refresh = u => Over(u)'
    BY <1>0, <1>2, <2>1 DEF Debt
  <2> QED BY <1>0, <1>3, <2>1, <2>3, <2>4, <2>5, <2>6, <2>7 DEF Debt, Wiped, Same, Flow
<1>10. CASE RevokeAllUserTokens(h)
  <2>1. /\ req[h].pc = "wipe" /\ ended' = ended
        /\ Finish(h) \/ (Goto(h, "reply") /\ Revoked(ActiveOf(req[h].user)))
    BY <1>10 DEF RevokeAllUserTokens, At, history
  <2>2. req[h].op \in {"refresh", "logoutAll"} /\ req[h].new = None
    BY <1>0, <2>1 DEF Flow, Request, Ops, Guarded
  <2>3. CASE Goto(h, "reply") /\ Revoked(ActiveOf(req[h].user))
    <3>1. \A t \in req[h].seen : Over(t)'
      BY <1>0, <1>3, <2>3 DEF Revoked, ActiveOf, Debt, Over, Issued, Typed, TypeOK
    <3> QED BY <1>0, <1>2, <1>3, <2>1, <2>2, <2>3, <3>1, GotoMove DEF Debt, Wiped, Same
  <2> QED BY <1>1, <2>1, <2>3
<1>11. CASE Guard(h) \/ BlacklistAccessToken(h)
  <2>1. req[h].op \in Guarded /\ req[h].new = None /\ ended' = ended
    BY <1>0, <1>11 DEF Guard, BlacklistAccessToken, At, Flow, Request, Ops, Guarded, history
  <2>2. \/ Finish(h) \/ Moved(h, "served") \/ Moved(h, "blacklist") \/ Moved(h, "wipe")
        \/ Moved(h, "revoke") \/ (Moved(h, "reply") /\ req[h].op = "logout" /\ req[h].refresh = None)
    BY <1>11, GuardMove, BlacklistMove
  <2> QED BY <1>0, <1>1, <1>2, <1>3, <2>1, <2>2 DEF Debt, Wiped, Moved, Same, Guarded
<1> QED BY <1>4, <1>5, <1>6, <1>7, <1>8, <1>9, <1>10, <1>11 DEF Step

LEMMA EndedStep ==
  ASSUME Typed, EndedInv, [Next]_vars
  PROVE  EndedInv'
<1>1. \A t \in Refresh : (Over(t) => Over(t)') /\ (Issued(t) => Issued(t)')
  BY TokensMoveOn
<1>2. ASSUME NEW g \in Handler, req'[g] = req[g], ended \subseteq ended'
      PROVE  Debt(g)'
  <2>1. req[g] \in Request /\ Flow(req[g]) /\ Debt(g)
    BY DEF Typed, TypeOK, FlowOK, EndedInv
  <2>2. req[g].seen \subseteq Refresh /\ req[g].refresh \in Refresh \cup {None}
        /\ req[g].new \in Refresh \cup {None}
    BY <2>1 DEF Request
  <2>3. req[g].op = "refresh" => req[g].refresh \in Refresh
    BY <2>1 DEF Flow
  <2> QED BY <1>1, <1>2, <2>1, <2>2, <2>3 DEF Debt, Wiped
<1>3. ASSUME UNCHANGED <<sent, ended>>
      PROVE  (\A t \in sent : Issued(t))' /\ (\A t \in ended : Over(t))'
  BY <1>1, <1>3 DEF EndedInv, Typed, TypeOK
<1>4. CASE Environment
  <2>1. req' = req /\ UNCHANGED <<sent, ended>>
    BY <1>4 DEF Environment, Tick, ExpireRefresh, vars, client, history
  <2>2. \A g \in Handler : Debt(g)'
    BY <1>2, <2>1
  <2> QED BY <1>3, <2>1, <2>2 DEF EndedInv
<1>5. ASSUME NEW h \in Handler, Arrive(h) \/ Step(h) \/ Abort(h), ended \subseteq ended'
      PROVE  \A g \in Handler : Debt(g)'
  <2>1. PICK r \in Request : req' = [req EXCEPT ![h] = r]
    BY <1>5, ArriveStep, StepSlot DEF Typed
  <2>2. \A g \in Handler \ {h} : req'[g] = req[g]
    BY <2>1 DEF Typed, TypeOK
  <2> QED BY <1>2, <1>5, <2>2, DebtStep
<1>6. ASSUME NEW h \in Handler, Arrive(h) \/ Abort(h) \/ (Step(h) /\ ~Reply(h))
      PROVE  UNCHANGED <<sent, ended>>
  BY <1>6, ArriveMove DEF Abort, Step, FindByEmail, CreateUser, FindRefreshTokenAny,
     RevokeRefreshToken, IssueRefreshToken, RevokeAllUserTokens, Guard, BlacklistAccessToken, Serve,
     client, history
<1>7. ASSUME NEW h \in Handler, Reply(h)
      PROVE  /\ ended \subseteq ended'
             /\ (\A t \in sent : Issued(t))' /\ (\A t \in ended : Over(t))'
  <2>0. req[h] \in Request /\ Flow(req[h]) /\ Debt(h) /\ req[h].pc = "reply" /\ token' = token
    BY <1>7 DEF Typed, TypeOK, FlowOK, EndedInv, Reply, At, mongo
  <2>1. \A t \in sent' : Issued(t)
    BY <1>7, <2>0 DEF Reply, EndedInv, Debt
  <2>2. \A t \in ended' : t \in ended \/ Over(t)
    <3>1. CASE Wiped(h)
      <4>1. ended' = ended \cup req[h].seen
        BY <1>7, <3>1 DEF Reply, Wiped
      <4> QED BY <2>0, <3>1, <4>1 DEF Debt
    <3>2. CASE ~Wiped(h)
      <4>1. ended' = ended \cup ({req[h].refresh} \ {None})
        BY <1>7, <3>2 DEF Reply, Wiped
      <4>2. req[h].refresh # None => Over(req[h].refresh)
        BY <2>0, <3>2 DEF Debt, Wiped, Flow, Request, Ops
      <4> QED BY <4>1, <4>2
    <3> QED BY <3>1, <3>2
  <2>3. ended \subseteq ended'
    BY <1>7 DEF Reply
  <2> QED BY <2>0, <2>1, <2>2, <2>3 DEF EndedInv, Over, Issued
<1>8. ASSUME NEW h \in Handler, Arrive(h) \/ Step(h) \/ Abort(h)
      PROVE  EndedInv'
  <2>1. CASE Reply(h)
    <3>1. Step(h)
      BY <2>1 DEF Step
    <3> QED BY <1>5, <1>7, <2>1, <3>1 DEF EndedInv
  <2>2. CASE ~Reply(h)
    BY <1>3, <1>5, <1>6, <1>8, <2>2 DEF EndedInv
  <2> QED BY <2>1, <2>2
<1> QED BY <1>4, <1>8, NextCases

LEMMA EndedHolds == Spec => []EndedInv
<1>1. Init => EndedInv
  BY SessionsAssumption DEF Init, EndedInv, Debt, Wiped, Idle, Ops
<1>2. Typed /\ EndedInv /\ [Next]_vars => EndedInv'
  BY EndedStep
<1> QED BY <1>1, <1>2, TypedHolds, PTL DEF Spec

\* A refresh token that a confirmed refresh, logout, logout-all or theft response ended is
\* refused to every request that arrives later, however many run and whatever fails.
THEOREM EndedTokensStayRefused == Spec => []EndedTokensAreRefused
<1>1. EndedInv => EndedTokensAreRefused
  BY DEF EndedInv, Debt, EndedTokensAreRefused
<1> QED BY <1>1, EndedHolds, PTL

-----------------------------------------------------------------------------
(* Access tokens that a logout has ended. *)

\* Nothing can be done with a, or nothing could be done about it.
Blocked(a) == a \in lost \/ black[a] >= Exp(a) \/ now >= Exp(a)

\* What handler h will do and has done about its access token; what a late request meets.
Barred(h) ==
  LET a == req[h].access
  IN  /\ req[h].pc = "blacklist" => now + req[h].ttl >= Exp(a)
      /\ req[h].op \in {"logout", "logoutAll"} /\ req[h].pc \in {"revoke", "wipe", "reply"}
           => Blocked(a)
      /\ req[h].op \in Guarded /\ req[h].late =>
           a \in out /\ (req[h].pc # "guard" => a \in lost \/ now >= Exp(a))

OutInv ==
  /\ \A a \in out : Blocked(a)
  /\ \A h \in Handler : Barred(h)

LEMMA OutGrows ==
  ASSUME Typed, [Next]_vars
  PROVE  lost \subseteq lost' /\ out \subseteq out' /\ now \in Nat /\ now' \in Nat /\ now <= now'
<1> USE SessionsAssumption DEF Typed, TypeOK
<1>1. CASE Environment
  BY <1>1 DEF Environment, Tick, ExpireRefresh, vars, history
<1>2. ASSUME NEW h \in Handler, Arrive(h) \/ Step(h) \/ Abort(h)
      PROVE  lost \subseteq lost' /\ out \subseteq out' /\ now' = now
  BY <1>2, ArriveMove
     DEF Abort, Step, FindByEmail, CreateUser, FindRefreshTokenAny, RevokeRefreshToken,
         IssueRefreshToken, RevokeAllUserTokens, Guard, BlacklistAccessToken, Reply, Serve, history
<1> QED BY <1>1, <1>2, NextCases

\* What is blocked stays blocked.
LEMMA BlockedStays ==
  ASSUME Typed, OutInv, [Next]_vars, NEW a \in Access, Blocked(a)
  PROVE  Blocked(a)'
<1> USE ExpType DEF Typed, TypeOK, Blocked
<1>1. ASSUME black' = black
      PROVE  Blocked(a)'
  BY <1>1, OutGrows DEF Exp
<1>2. CASE Environment
  BY <1>1, <1>2 DEF Environment, Tick, ExpireRefresh, vars
<1>3. ASSUME NEW h \in Handler, Arrive(h) \/ Abort(h) \/ (Step(h) /\ ~BlacklistAccessToken(h))
      PROVE  black' = black
  BY <1>3, ArriveMove
     DEF Abort, Step, FindByEmail, CreateUser, FindRefreshTokenAny, RevokeRefreshToken,
         IssueRefreshToken, RevokeAllUserTokens, Guard, Reply, Serve
<1>4. ASSUME NEW h \in Handler, BlacklistAccessToken(h)
      PROVE  Blocked(a)'
  <2>1. CASE UNCHANGED black
    BY <1>1, <2>1
  <2>2. CASE black' = [black EXCEPT ![req[h].access] = now + req[h].ttl] /\ UNCHANGED lost
    <3>1. now + req[h].ttl >= Exp(req[h].access)
      BY <1>4 DEF BlacklistAccessToken, At, OutInv, Barred
    <3>2. black'[a] >= Exp(a) \/ black'[a] = black[a]
      BY <2>2, <3>1
    <3> QED BY <1>4, <2>2, <3>2 DEF BlacklistAccessToken, Exp
  <2> QED BY <1>4, <2>1, <2>2 DEF BlacklistAccessToken
<1> QED BY <1>1, <1>2, <1>3, <1>4, NextCases

\* The handler that takes a step.
LEMMA BarredStep ==
  ASSUME Typed, OutInv, [Next]_vars, NEW h \in Handler, Arrive(h) \/ Step(h) \/ Abort(h)
  PROVE  Barred(h)'
<1>0. req[h] \in Request /\ Flow(req[h]) /\ Barred(h)
  BY DEF Typed, TypeOK, FlowOK, OutInv
<1>1. ASSUME Finish(h)
      PROVE  Barred(h)'
  BY <1>1, FinishMove, SessionsAssumption DEF Barred, Idle, Ops, Guarded
<1>2. ASSUME req'[h].op \notin Guarded, req'[h].pc # "blacklist"
      PROVE  Barred(h)'
  BY <1>2 DEF Barred, Guarded
<1>3. /\ \A a \in Access : Blocked(a) => Blocked(a)'
      /\ lost \subseteq lost' /\ now \in Nat /\ now' \in Nat /\ now <= now' /\ out \subseteq out'
  BY BlockedStays, OutGrows
<1>4. req[h].op \in Guarded => req[h].access \in Access /\ Exp(req[h].access) \in Nat
  BY <1>0, ExpType DEF Flow
<1>5. CASE Arrive(h)
  <2>1. \/ req'[h].op \in {"login", "register", "refresh"} /\ req'[h].pc = "find"
        \/ /\ req'[h].op \in Guarded /\ req'[h].pc = "guard" /\ out' = out
           /\ req'[h].late => req'[h].access \in out
    BY <1>5, ArriveMove
  <2> QED BY <2>1 DEF Barred, Guarded
<1>6. CASE Abort(h) \/ Serve(h) \/ Reply(h)
  BY <1>1, <1>6 DEF Abort, Serve, Reply
<1>7. CASE FindByEmail(h) \/ CreateUser(h) \/ FindRefreshTokenAny(h) \/ IssueRefreshToken(h)
  <2>1. req[h].op \notin Guarded
    BY <1>0, <1>7 DEF FindByEmail, CreateUser, FindRefreshTokenAny, IssueRefreshToken, At, Flow, Guarded
  <2>2. \/ Finish(h) \/ Sign(h) \/ IssueRefreshToken(h)
        \/ \E pc \in {"create", "revoke", "wipe"} : Goto(h, pc)
    BY <1>7 DEF FindByEmail, CreateUser, FindRefreshTokenAny
  <2>3. Finish(h) \/ (Same(h) /\ req'[h].pc # "blacklist")
    BY <2>2, SignMove, GotoMove, IssueMove
  <2> QED BY <1>1, <1>2, <2>1, <2>3 DEF Same
<1>8. ASSUME Goto(h, "reply"), req[h].pc \in {"revoke", "wipe"}
      PROVE  Barred(h)'
  BY <1>0, <1>3, <1>4, <1>8, GotoMove DEF Barred, Same, Guarded
<1>9. CASE RevokeRefreshToken(h) \/ RevokeAllUserTokens(h)
  <2>1. \/ Finish(h)
        \/ Goto(h, "reply") /\ req[h].pc \in {"revoke", "wipe"}
        \/ Sign(h) /\ req[h].op = "refresh"
    BY <1>9 DEF RevokeRefreshToken, RevokeAllUserTokens, At
  <2>2. ASSUME Sign(h), req[h].op = "refresh"
        PROVE  req'[h].pc # "blacklist" /\ req'[h].op \notin Guarded
    BY <2>2, SignMove DEF Same, Guarded
  <2> QED BY <1>1, <1>2, <1>8, <2>1, <2>2
<1>10. CASE Guard(h)
  <2>1. req[h].op \in Guarded /\ req[h].pc = "guard"
    BY <1>0, <1>10 DEF Guard, At, Flow, Request, Ops, Guarded
  <2>2. CASE Finish(h)
    BY <1>1, <2>2
  <2>3. CASE ~Finish(h)
    <3>1. /\ ~(now < black[req[h].access])
          /\ Moved(h, "served") \/ (Moved(h, "blacklist") /\ req'[h].ttl = Ttl(req[h].access))
      BY <1>10, <2>3, GuardMove
    <3>2. black[req[h].access] \in Nat /\ now' = now
      BY <1>4, <1>10, <2>1 DEF Guard, Typed, TypeOK
    <3>3. req[h].late => req[h].access \in lost \/ now >= Exp(req[h].access)
      BY <1>0, <1>3, <1>4, <2>1, <3>1, <3>2 DEF Barred, OutInv, Blocked
    <3>4. Exp(req[h].access)' = Exp(req'[h].access) /\ req'[h].access = req[h].access
      BY <3>1 DEF Moved, Exp
    <3>5. req'[h].pc = "blacklist" => now' + req'[h].ttl >= Exp(req[h].access)
      BY <1>3, <1>4, <2>1, <3>1, <3>2, TtlType DEF Moved
    <3> QED BY <1>0, <1>3, <1>4, <2>1, <3>1, <3>3, <3>4, <3>5 DEF Barred, Moved, Same, Guarded, Exp
  <2> QED BY <2>2, <2>3
<1>11. CASE BlacklistAccessToken(h)
  <2>1. /\ req[h].op \in {"logout", "logoutAll"} /\ req[h].pc = "blacklist"
        /\ \E pc \in {"wipe", "revoke", "reply"} : Moved(h, pc)
    BY <1>11, BlacklistMove DEF BlacklistAccessToken, At
  <2>2. ASSUME NEW a \in Access, a = req[h].access
        PROVE  Blocked(a)'
    <3>1. /\ Exp(a) \in Nat /\ black[a] \in Nat /\ now' = now
          /\ req[h].ttl \in Nat /\ now + req[h].ttl >= Exp(a)
      BY <1>0, <1>11, <2>1, <2>2, ExpType DEF BlacklistAccessToken, Barred, Request, Typed, TypeOK
    <3>2. CASE black' = [black EXCEPT ![a] = now + req[h].ttl]
      BY <3>1, <3>2 DEF Blocked, Exp, Typed, TypeOK
    <3>3. CASE lost' = lost \cup {a}
      BY <3>3 DEF Blocked
    <3>4. CASE req[h].ttl = 0
      BY <1>3, <3>1, <3>4 DEF Blocked, Exp
    <3> QED BY <1>11, <2>2, <3>2, <3>3, <3>4 DEF BlacklistAccessToken
  <2> QED BY <1>0, <1>3, <1>4, <2>1, <2>2 DEF Barred, Moved, Same, Guarded, Exp
<1> QED BY <1>5, <1>6, <1>7, <1>9, <1>10, <1>11 DEF Step

LEMMA OutStep ==
  ASSUME Typed, OutInv, [Next]_vars
  PROVE  OutInv'
<1>1. /\ \A a \in Access : Blocked(a) => Blocked(a)'
      /\ lost \subseteq lost' /\ now \in Nat /\ now' \in Nat /\ now <= now' /\ out \subseteq out'
  BY BlockedStays, OutGrows
<1>2. ASSUME NEW g \in Handler, req'[g] = req[g]
      PROVE  Barred(g)'
  <2>1. Flow(req[g]) /\ Barred(g)
    BY DEF Typed, FlowOK, OutInv
  <2>2. req[g].op \in Guarded => req[g].access \in Access /\ Exp(req[g].access) \in Nat
    BY <2>1, ExpType DEF Flow
  <2>3. req[g].pc = "blacklist" => req[g].op \in Guarded
    BY <2>1 DEF Typed, TypeOK, Request, Ops, Flow, Guarded
  <2>4. req[g].ttl \in Nat
    BY DEF Typed, TypeOK, Request
  <2> QED BY <1>1, <1>2, <2>1, <2>2, <2>3, <2>4 DEF Barred, Guarded, Exp
<1>3. ASSUME out' = out
      PROVE  (\A a \in out : Blocked(a))'
  BY <1>1, <1>3 DEF OutInv, Typed, TypeOK
<1>4. CASE Environment
  BY <1>2, <1>3, <1>4 DEF OutInv, Environment, Tick, ExpireRefresh, vars, history
<1>5. ASSUME NEW h \in Handler, Arrive(h) \/ Step(h) \/ Abort(h)
      PROVE  \A g \in Handler : Barred(g)'
  <2>1. PICK r \in Request : req' = [req EXCEPT ![h] = r]
    BY <1>5, ArriveStep, StepSlot DEF Typed
  <2>2. \A g \in Handler \ {h} : req'[g] = req[g]
    BY <2>1 DEF Typed, TypeOK
  <2> QED BY <1>2, <1>5, <2>2, BarredStep
<1>6. ASSUME NEW h \in Handler, Arrive(h) \/ Abort(h) \/ (Step(h) /\ ~Reply(h))
      PROVE  out' = out
  BY <1>6, ArriveMove DEF Abort, Step, FindByEmail, CreateUser, FindRefreshTokenAny,
     RevokeRefreshToken, IssueRefreshToken, RevokeAllUserTokens, Guard, BlacklistAccessToken, Serve,
     history
<1>7. ASSUME NEW h \in Handler, Reply(h)
      PROVE  (\A a \in out : Blocked(a))'
  <2>1. /\ req[h].pc = "reply" /\ Barred(h) /\ Flow(req[h])
        /\ out' = IF req[h].op \in {"logout", "logoutAll"} THEN out \cup {req[h].access} ELSE out
    BY <1>7 DEF Reply, At, OutInv, Typed, FlowOK
  <2>2. \A a \in out' : a \in Access /\ Blocked(a)
    BY <2>1 DEF Barred, OutInv, Typed, TypeOK, Flow, Guarded
  <2> QED BY <1>1, <2>2
<1>8. ASSUME NEW h \in Handler, Arrive(h) \/ Step(h) \/ Abort(h)
      PROVE  OutInv'
  <2>1. CASE Reply(h)
    BY <1>5, <1>7, <1>8, <2>1 DEF OutInv
  <2>2. CASE ~Reply(h)
    BY <1>3, <1>5, <1>6, <1>8, <2>2 DEF OutInv
  <2> QED BY <2>1, <2>2
<1> QED BY <1>4, <1>8, NextCases

LEMMA OutHolds == Spec => []OutInv
<1>1. Init => OutInv
  BY SessionsAssumption DEF Init, OutInv, Barred, Idle, Ops, Guarded
<1>2. Typed /\ OutInv /\ [Next]_vars => OutInv'
  BY OutStep
<1> QED BY <1>1, <1>2, TypedHolds, PTL DEF Spec

\* A logged-out access token gets past authGuard only if its blacklist entry could not be
\* written, or if it expires between the two checks.
THEOREM LogoutsStick == Spec => []LogoutSticks
<1>1. OutInv => LogoutSticks
  BY DEF OutInv, Barred, LogoutSticks, Guarded
<1> QED BY <1>1, OutHolds, PTL
=============================================================================
