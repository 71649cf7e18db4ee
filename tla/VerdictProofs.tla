---------------------------- MODULE VerdictProofs ----------------------------
(***************************************************************************)
(* Elyzor implements Verdict: every execution of the handlers, with their  *)
(* cache, races and failures, is one that Verdict allows.                  *)
(***************************************************************************)
EXTENDS ElyzorProofs

\* Nobody is told, and nobody asks about, a credential that was not issued; a handler
\* has a verdict only when it is about to log it.
IssuedInv ==
  /\ \A c \in held : status[c] # "unissued"
  /\ \A a \in Admin : adm[a].new \in Cred => status[adm[a].new] # "unissued"
  /\ \A r \in Req : /\ vreq[r].pc = "idle" => vreq[r].cred = None
                    /\ vreq[r].pc # "idle" => status[vreq[r].cred] # "unissued"
                    /\ vreq[r].pc # "log" => vreq[r].result = "none"

LEMMA InitIssuedInv == Init => IssuedInv
  BY StoreAssumption DEF Init, IssuedInv, VerifyIdle, AdminIdle

\* A handler holds no new credential but the one it just inserted.
LEMMA AdminNew ==
  ASSUME TypeOK, NEW a \in Admin, AdminCases(a)
  PROVE  \/ adm'[a].new \in {None, adm[a].new}
         \/ adm'[a].new \in Cred /\ Create(adm'[a].new)
<1>0. adm[a] \in AdminHandler /\ adm \in [Admin -> AdminHandler]
  BY DEF TypeOK
<1>f. Finish(a) => adm'[a].new = None
  BY <1>0 DEF Finish, AdminIdle
<1>g. ASSUME NEW pc, Goto(a, pc) PROVE adm'[a].new = adm[a].new
  BY <1>0, <1>g DEF Goto, AdminHandler
<1>1. CASE \E op \in AllOps, u \in User, p \in Project, c \in Cred \cup {None},
              n \in Name \cup {None} : Call(a, op, u, p, c, n)
  BY <1>0, <1>1 DEF Call, AdminIdle
<1>2. ASSUME NEW next, NEW c \in Cred, Create(c),
             adm' = [adm EXCEPT ![a] = [@ EXCEPT !.pc = next, !.new = c]]
      PROVE  adm'[a].new \in Cred /\ Create(adm'[a].new)
  <2>1. adm'[a].new = c
    BY <1>0, <1>2 DEF AdminHandler
  <2> QED BY <1>2, <2>1
<1>3. CASE InsertFresh(a, "createKey", "reply", Key) \/ InsertFresh(a, "rotateKey", "update", Key)
  BY <1>2, <1>3, Zenon DEF InsertFresh, Cred
<1>4. CASE \/ \E n : InsertUnique(a, "createService", n, "reply")
           \/ \E n : InsertUnique(a, "rotateService", n, "update")
  BY <1>2, <1>4, <1>f, Zenon DEF InsertUnique, Cred
<1>5. CASE BeginCascade(a)
  <2>1. CASE adm' = [adm EXCEPT ![a] = [@ EXCEPT !.pc = "cascade", !.todo = CascadeParts]]
    BY <1>0, <2>1 DEF AdminHandler
  <2> QED BY <1>5, <1>f, <2>1, Zenon DEF BeginCascade
<1>6. CASE \/ CascadeCredentials(a, "keys", Key)
           \/ CascadeCredentials(a, "services", Service)
           \/ CascadeUsage(a)
  <2>1. \E part, ok : Settle(a, part, ok)
    BY <1>6 DEF CascadeCredentials, CascadeUsage
  <2>2. \/ Finish(a)
        \/ adm' = [adm EXCEPT ![a] = [@ EXCEPT !.pc = "drop", !.todo = {}]]
        \/ \E T, b : adm' = [adm EXCEPT ![a] = [@ EXCEPT !.todo = T, !.failed = b]]
    BY <2>1, Zenon DEF Settle
  <2>3. CASE adm' = [adm EXCEPT ![a] = [@ EXCEPT !.pc = "drop", !.todo = {}]]
    BY <1>0, <2>3 DEF AdminHandler
  <2>4. ASSUME NEW T, NEW b, adm' = [adm EXCEPT ![a] = [@ EXCEPT !.todo = T, !.failed = b]]
        PROVE  adm'[a].new = adm[a].new
    BY <1>0, <2>4 DEF AdminHandler
  <2> QED BY <1>f, <2>2, <2>3, <2>4
<1>7. CASE \/ AssertOwnership(a, "createKey", "insert")
           \/ \E op \in AllOps : AssertOwnership(a, op, "find")
           \/ \E op \in Targeted, next \in {"update", "insert"} : FindActive(a, op, next)
           \/ \E op \in AllOps : UpdateRevoked(a, op)
           \/ \E op \in AllOps : Invalidate(a, op)
           \/ \E op \in AllOps : Reply(a, op)
           \/ FindByName(a) \/ DropProject(a) \/ AbortAdmin(a)
  BY <1>7, <1>f, <1>g DEF AssertOwnership, FindActive, UpdateRevoked, Invalidate, Reply,
                          FindByName, DropProject, AbortAdmin
<1> QED BY <1>1, <1>3, <1>4, <1>5, <1>6, <1>7 DEF AdminCases

LEMMA VerifyKeepsIssued ==
  ASSUME TypeOK, IssuedInv, NEW r \in Req, VerifyCases(r)
  PROVE  IssuedInv'
<1>0. vreq[r] \in VerifyHandler /\ vreq \in [Req -> VerifyHandler]
  BY DEF TypeOK
<1>1. UNCHANGED <<status, adm, held>>
  BY DEF VerifyCases, Present, ReadCache, FindBySecretHash, FillCache, CheckRateLimit,
         LogUsage, AbortVerify, mongo, client
<1>2. \A q \in Req \ {r} : vreq'[q] = vreq[q]
  <2>1. PICK w \in VerifyHandler : vreq' = [vreq EXCEPT ![r] = w]
    BY VerifySlot
  <2> QED BY <1>0, <2>1
<1> DEFINE Good(v) == /\ v.pc = "idle" => v.cred = None
                      /\ v.pc # "idle" => status[v.cred] # "unissued"
                      /\ v.pc # "log" => v.result = "none"
<1>3. Good(vreq[r])
  BY DEF IssuedInv
<1>4. Good(vreq'[r])
  <2>1. CASE \E c \in Cred : Present(r, c)
    BY <1>0, <2>1 DEF Present, VerifyIdle, IssuedInv
  <2>2. CASE ReadCache(r)
    <3>1. \/ vreq' = [vreq EXCEPT ![r] = [@ EXCEPT !.pc = "find"]]
          \/ vreq' = [vreq EXCEPT ![r] = Judge(@, cache[vreq[r].cred])]
      BY <2>2, Zenon DEF ReadCache
    <3>2. vreq'[r] \in {[vreq[r] EXCEPT !.pc = "find"], Judge(vreq[r], cache[vreq[r].cred])}
      BY <1>0, <3>1
    <3> QED BY <1>0, <1>3, <2>2, <3>2 DEF ReadCache, Judge, VerifyHandler
  <2>3. CASE FindBySecretHash(r)
    <3>1. vreq'[r] \in {VerifyIdle, [vreq[r] EXCEPT !.pc = "setex", !.data = status[vreq[r].cred]]}
      BY <1>0, <2>3 DEF FindBySecretHash
    <3> QED BY <1>0, <1>3, <2>3, <3>1 DEF FindBySecretHash, VerifyIdle, VerifyHandler
  <2>4. CASE FillCache(r)
    BY <1>0, <1>3, <2>4 DEF FillCache, Judge, VerifyHandler
  <2>5. CASE CheckRateLimit(r)
    BY <1>0, <1>3, <2>5 DEF CheckRateLimit, VerifyHandler
  <2>6. CASE LogUsage(r) \/ AbortVerify(r)
    BY <1>0, <2>6 DEF LogUsage, AbortVerify, VerifyIdle
  <2> QED BY <2>1, <2>2, <2>3, <2>4, <2>5, <2>6 DEF VerifyCases
<1> QED BY <1>1, <1>2, <1>4 DEF IssuedInv

LEMMA AdminKeepsIssued ==
  ASSUME TypeOK, FillInv, IssuedInv, NEW a \in Admin, AdminCases(a)
  PROVE  IssuedInv'
<1>0. adm[a] \in AdminHandler /\ status \in [Cred -> {"unissued", "active", "revoked", "deleted"}]
  BY DEF TypeOK
<1>1. \A c \in Cred : status[c] # "unissued" => status'[c] # "unissued"
  BY <1>0, AdminWrites DEF Create, Revoke, Delete
<1>2. \A b \in Admin \ {a} : adm'[b] = adm[b]
  BY AdminFlows DEF AdminFlow
<1>3. UNCHANGED vreq /\ held' \subseteq held \cup ({adm[a].new} \ {None})
  BY AdminWrites
<1>4. \A b \in Admin : adm'[b].new \in Cred => status'[adm'[b].new] # "unissued"
  <2>1. None \notin Cred
    BY StoreAssumption
  <2>2. adm'[a].new \in Cred => status'[adm'[a].new] # "unissued"
    BY <1>0, <1>1, <2>1, AdminNew DEF IssuedInv, Create
  <2> QED BY <1>1, <1>2, <2>2 DEF IssuedInv
<1>5. \A c \in held' : status'[c] # "unissued"
  BY <1>0, <1>1, <1>3 DEF IssuedInv, TypeOK, AdminHandler
<1>6. \A r \in Req : vreq[r].pc # "idle" => status'[vreq[r].cred] # "unissued"
  BY <1>1 DEF IssuedInv, FillInv
<1> QED BY <1>3, <1>4, <1>5, <1>6 DEF IssuedInv

LEMMA NextIssuedInv ==
  ASSUME TypeOK, FillInv, IssuedInv, [Next]_vars
  PROVE  IssuedInv'
<1>1. CASE Next
  BY <1>1, NextCases, VerifyKeepsIssued, AdminKeepsIssued
     DEF CreateProject, Expire, IssuedInv, mongo, client
<1>2. CASE UNCHANGED vars
  BY <1>2 DEF vars, IssuedInv, mongo, client
<1> QED BY <1>1, <1>2

-----------------------------------------------------------------------------
(* The steps of the lives. *)

\* Lives move forward and only in the direction Verdict knows.
LEMMA LivesMove ==
  ASSUME TypeOK, Next, NEW c \in Cred, Life(c)' # Life(c)
  PROVE  <<Life(c), Life(c)'>> \in V!Forward
<1>0. status \in [Cred -> {"unissued", "active", "revoked", "deleted"}]
  BY DEF TypeOK
<1>1. /\ status'[c] = "unissued" => status[c] = "unissued"
      /\ status'[c] = "active" => status[c] \in {"unissued", "active"}
      /\ Gone(c)' => status[c] # "unissued"
      /\ status'[c] \in {"unissued", "active", "revoked", "deleted"}
  <2>1. CASE UNCHANGED status
    BY <1>0, <2>1 DEF Gone
  <2>2. CASE status' # status
    <3>1. PICK a \in Admin : AdminCases(a)
      BY <2>2, OnlyDashboardChangesStatus
    <3> QED BY <1>0, <3>1, AdminWrites DEF Create, Revoke, Delete, Gone, Exists, FindByIdAndProject
  <2> QED BY <2>1, <2>2
<1>2. Settled(c) => Settled(c)'
  BY NextCases, VerifyKeepsSettled, AdminKeepsSettled
     DEF CreateProject, Expire, DelCache, TypeOK, Settled, Gone, mongo
<1>3. /\ Settled(c) => Gone(c)
      /\ Settled(c)' => Gone(c)'
  BY DEF Settled
<1> QED BY <1>0, <1>1, <1>2, <1>3 DEF Life, Gone, V!Forward

\* What a credential's life says of its document.
LEMMA LifeOfDocument ==
  ASSUME NEW c \in Cred
  PROVE  /\ status[c] \in {"unissued", "active"} => Life(c) = status[c]
         /\ Gone(c) => Life(c) \in {"ended", "dead"}
         /\ Gone(c) /\ ~Settled(c) => Life(c) = "ended"
<1>1. Settled(c) => Gone(c)
  BY DEF Settled
<1> QED BY <1>1 DEF Life, Gone

LEMMA StepIsLive ==
  ASSUME TypeOK, Next
  PROVE  V!Live
<1>1. \A c \in Cred : Life(c)' # Life(c) => <<Life(c), Life(c)'>> \in V!Forward
  BY LivesMove
<1>2. raced' = raced \cup NewlyRaced
  BY DEF Next, Record
<1>3. ASSUME NEW c \in raced' \ raced
      PROVE  c \in Cred /\ Life(c) = "active" /\ Life(c)' # "active"
  <2>1. c \in Cred /\ status[c] = "active" /\ status'[c] # "active"
    BY <1>2, <1>3 DEF NewlyRaced
  <2>2. Life(c) = "active"
    BY <2>1, LifeOfDocument
  <2>3. Life(c)' # "active"
    BY <2>1 DEF Life
  <2> QED BY <2>1, <2>2, <2>3
<1> QED BY <1>1, <1>2, <1>3 DEF V!Live, Lives

-----------------------------------------------------------------------------
(* The steps of the questions. *)

QuestionStep(r) ==
  \/ \E c \in Cred : V!Ask(r, c)
  \/ \E verdict \in {"success", "rate_limited", "revoked"} : V!Answer(r, verdict)
  \/ V!Forget(r)

LEMMA SlotToQuestion ==
  ASSUME NEW r \in Req, NEW w, TypeOK, vreq' = [vreq EXCEPT ![r] = w]
  PROVE  Asked' = [Asked EXCEPT ![r] = Question(w)]
  BY DEF TypeOK, Asked

\* A verdict puts it in the question, everything else but asking and forgetting is invisible.
LEMMA QuestionMoves ==
  ASSUME NEW v \in VerifyHandler, NEW pc, NEW d, NEW o
  PROVE  /\ Question([v EXCEPT !.pc = pc]) = Question(v)
         /\ Question([v EXCEPT !.pc = pc, !.data = d]) = Question(v)
         /\ Question([v EXCEPT !.pc = pc, !.result = o]) = [Question(v) EXCEPT !.verdict = o]
         /\ Question(Judge(v, d)) = IF d = "active" THEN Question(v)
                                    ELSE [Question(v) EXCEPT !.verdict = "revoked"]
  BY DEF VerifyHandler, Question, Judge

LEMMA FirstQuestion ==
  ASSUME NEW c \in Cred, NEW b \in BOOLEAN
  PROVE  Question([VerifyIdle EXCEPT !.pc = "get", !.cred = c, !.late = b])
           = [cred |-> c, late |-> b, verdict |-> "none"]
<1> DEFINE w == [VerifyIdle EXCEPT !.pc = "get", !.cred = c, !.late = b]
<1>1. w.cred = c /\ w.late = b /\ w.result = "none"
  BY DEF VerifyIdle
<1> QED BY <1>1, Zenon DEF Question

\* A verify handler's step asks, answers once, forgets, or is invisible.
LEMMA VerifyIsQuestion ==
  ASSUME RevocationInv, IssuedInv, NEW r \in Req, VerifyCases(r)
  PROVE  Asked' = Asked \/ QuestionStep(r)
<1> DEFINE v == vreq[r]
<1>0. v \in VerifyHandler /\ TypeOK /\ None \notin Cred
  BY StoreAssumption DEF RevocationInv, TypeOK
<1>1. Asked[r] = Question(v) /\ Question(v) = [cred |-> v.cred, late |-> v.late, verdict |-> v.result]
  BY DEF Asked, Question
<1>2. ASSUME NEW w, vreq' = [vreq EXCEPT ![r] = w], Question(w) = Question(v)
      PROVE  Asked' = Asked
  BY <1>0, <1>1, <1>2, SlotToQuestion DEF Asked
<1>3. ASSUME NEW verdict \in {"success", "rate_limited", "revoked"}, NEW w,
             vreq' = [vreq EXCEPT ![r] = w],
             Question(w) = [Question(v) EXCEPT !.verdict = verdict],
             v.pc \in {"get", "setex", "limit"},
             verdict = "success" => v.pc = "limit"
      PROVE  V!Answer(r, verdict)
  <2>1. v.cred \in Cred /\ v.result = "none"
    BY <1>3 DEF IssuedInv, RevocationInv, FillInv
  <2>2. verdict = "success" => Life(v.cred) \in {"active", "ended"}
    <3> SUFFICES ASSUME v.pc = "limit" PROVE Life(v.cred) \in {"active", "ended"}
      BY <1>3
    <3>1. v.data = "active" /\ status[v.cred] # "unissued"
      BY DEF IssuedInv, RevocationInv, FillInv
    <3>2. ~Settled(v.cred)
      BY <3>1 DEF Settled
    <3> QED BY <1>0, <2>1, <3>1, <3>2 DEF Life, Gone, TypeOK
  <2>3. verdict = "success" => (v.late => v.cred \in raced)
    BY <1>3 DEF RevocationInv, FillInv
  <2>4. Asked' = [Asked EXCEPT ![r] = [Asked[r] EXCEPT !.verdict = verdict]]
    <3>1. Asked' = [Asked EXCEPT ![r] = Question(w)]
      BY <1>0, <1>3, SlotToQuestion
    <3> QED BY <1>1, <1>3, <3>1, Zenon
  <2>5. Asked[r].cred = v.cred /\ Asked[r].late = v.late /\ Asked[r].verdict = v.result
    BY <1>1
  <2>6. verdict = "success" => Lives[Asked[r].cred] \in {"active", "ended"}
    BY <2>1, <2>2, <2>5 DEF Lives
  <2>7. Asked[r].cred # None
    BY <1>0, <2>1, <2>5
  <2>8. verdict = "success" => (Asked[r].late => Asked[r].cred \in raced)
    BY <2>3, <2>5, Zenon
  <2>9. Asked[r].verdict = "none"
    BY <2>1, <2>5, Zenon
  <2> QED BY <2>4, <2>6, <2>7, <2>8, <2>9, Zenon DEF V!Answer
<1>4. ASSUME vreq' = [vreq EXCEPT ![r] = VerifyIdle], v.cred \in Cred
      PROVE  V!Forget(r)
  <2>1. Asked' = [Asked EXCEPT ![r] = Question(VerifyIdle)]
    BY <1>0, <1>4, SlotToQuestion
  <2> QED BY <1>0, <1>1, <1>4, <2>1 DEF V!Forget, V!NoQuestion, Question, VerifyIdle
<1>5. CASE \E c \in Cred : Present(r, c)
  <2>1. PICK c \in Cred : Present(r, c)
    BY <1>5
  <2> DEFINE w == [VerifyIdle EXCEPT !.pc = "get", !.cred = c, !.late = c \in acked]
  <2>2. vreq' = [vreq EXCEPT ![r] = w] /\ c \in held /\ v.pc = "idle"
    BY <2>1 DEF Present
  <2>3. Question(w) = [cred |-> c, late |-> c \in acked, verdict |-> "none"]
    <3>1. (c \in acked) \in BOOLEAN
      OBVIOUS
    <3> QED BY <3>1, FirstQuestion, Zenon
  <2>4. Asked' = [Asked EXCEPT ![r] = Question(w)]
    BY <1>0, <2>2, SlotToQuestion
  <2>5. v.cred = None /\ Life(c) # "unissued"
    BY <2>2 DEF IssuedInv, Life, Gone
  <2>6. V!Ask(r, c)
    <3>1. Lives[c] # "unissued" /\ Asked[r].cred = None
      BY <1>1, <2>5 DEF Lives
    <3> QED BY <2>3, <2>4, <3>1, Zenon DEF V!Ask
  <2> QED BY <2>6 DEF QuestionStep
<1> SUFFICES ASSUME v.cred \in Cred PROVE Asked' = Asked \/ QuestionStep(r)
  BY <1>5 DEF VerifyCases
<1>judge. ASSUME NEW d, vreq' = [vreq EXCEPT ![r] = Judge(v, d)], v.pc \in {"get", "setex"}
          PROVE  Asked' = Asked \/ QuestionStep(r)
  <2>1. CASE d = "active"
    <3>1. Question(Judge(v, d)) = Question(v)
      BY <1>0, <2>1, QuestionMoves
    <3> QED BY <1>2, <1>judge, <3>1, Zenon
  <2>2. CASE d # "active"
    <3>1. Question(Judge(v, d)) = [Question(v) EXCEPT !.verdict = "revoked"]
      BY <1>0, <2>2, QuestionMoves
    <3>2. V!Answer(r, "revoked")
      BY <1>3, <1>judge, <3>1
    <3> QED BY <3>2 DEF QuestionStep
  <2> QED BY <2>1, <2>2
<1>6. CASE ReadCache(r)
  <2>1. v.pc = "get" /\ cache[v.cred] \in {"none", "active", "revoked"}
    BY <1>0, <1>6 DEF ReadCache, TypeOK
  <2>2. CASE vreq' = [vreq EXCEPT ![r] = [@ EXCEPT !.pc = "find"]]
    BY <1>0, <1>2, <2>2, QuestionMoves
  <2>3. CASE vreq' = [vreq EXCEPT ![r] = Judge(@, cache[v.cred])]
    BY <1>judge, <2>1, <2>3, Zenon
  <2> QED BY <1>6, <2>2, <2>3, Zenon DEF ReadCache
<1>7. CASE FindBySecretHash(r)
  <2>1. CASE vreq' = [vreq EXCEPT ![r] = VerifyIdle]
    BY <1>4, <2>1 DEF QuestionStep
  <2>2. CASE vreq' = [vreq EXCEPT ![r] = [@ EXCEPT !.pc = "setex", !.data = status[v.cred]]]
    <3> DEFINE w == [v EXCEPT !.pc = "setex", !.data = status[v.cred]]
    <3>1. Question(w) = Question(v)
      BY <1>0 DEF Question, VerifyHandler
    <3> QED BY <1>2, <2>2, <3>1, Zenon
  <2> QED BY <1>7, <2>1, <2>2, Zenon DEF FindBySecretHash
<1>8. CASE FillCache(r)
  <2>1. v.pc = "setex" /\ vreq' = [vreq EXCEPT ![r] = Judge(@, @.data)]
    BY <1>8 DEF FillCache
  <2> QED BY <1>judge, <2>1, Zenon
<1>9. CASE CheckRateLimit(r)
  <2>1. PICK o \in {"success", "rate_limited"} :
           vreq' = [vreq EXCEPT ![r] = [@ EXCEPT !.pc = "log", !.result = o]]
    BY <1>9, Zenon DEF CheckRateLimit
  <2> DEFINE w == [v EXCEPT !.pc = "log", !.result = o]
  <2>2. v.pc = "limit" /\ vreq' = [vreq EXCEPT ![r] = w]
    BY <1>9, <2>1 DEF CheckRateLimit
  <2>3. Question(w) = [Question(v) EXCEPT !.verdict = o]
    BY <1>0 DEF Question, VerifyHandler
  <2>4. V!Answer(r, o)
    BY <1>3, <2>2, <2>3
  <2> QED BY <2>4 DEF QuestionStep
<1>10. CASE LogUsage(r) \/ AbortVerify(r)
  <2>1. vreq' = [vreq EXCEPT ![r] = VerifyIdle]
    BY <1>10 DEF LogUsage, AbortVerify
  <2>2. V!Forget(r)
    BY <1>4, <2>1
  <2> QED BY <2>2 DEF QuestionStep
<1> QED BY <1>5, <1>6, <1>7, <1>8, <1>9, <1>10 DEF VerifyCases

-----------------------------------------------------------------------------

\* What a confirmation says is true.
LEMMA AdminConfirms ==
  ASSUME RevocationInv, NEW a \in Admin, AdminCases(a), acked' # acked
  PROVE  \E c \in Cred : V!Confirm(c)
<1>1. /\ adm[a].pc = "reply" /\ adm[a] \in AdminHandler
      /\ acked' = acked \cup ({adm[a].cred} \ {None})
  BY AdminWrites DEF RevocationInv, TypeOK
<1>2. adm[a].cred \in Cred
  BY <1>1 DEF AdminHandler
<1>3. Gone(adm[a].cred) /\ acked' = acked \cup {adm[a].cred}
  BY <1>1, <1>2, StoreAssumption DEF RevocationInv, RevokerInv
<1> QED BY <1>2, <1>3, LifeOfDocument DEF V!Confirm, Lives

\* What clients see of the handlers, in any interleaving and with any failure, is a
\* behaviour of Verdict: no answer depends on more than the life of the credential and the
\* one race it may have lost when it ended.
THEOREM ElyzorImplementsVerdict == Spec => ImplementsVerdict
<1>1. Init => V!Init
  BY DEF Init, V!Init, V!NoQuestion, Lives, Asked, Life, Settled, Gone, Question, VerifyIdle
<1>2. RevocationInv /\ IssuedInv /\ [Next]_vars => [V!Next]_V!vars
  <2> SUFFICES ASSUME RevocationInv, IssuedInv, [Next]_vars
               PROVE  [V!Next]_V!vars
    OBVIOUS
  <2>0. TypeOK
    BY DEF RevocationInv
  <2>1. CASE UNCHANGED vars
    <3>1. UNCHANGED <<status, cache, vreq, acked, raced>>
      BY <2>1 DEF vars, mongo, client, history
    <3>2. \A c \in Cred : Life(c)' = Life(c)
      BY <3>1 DEF Life, Settled, Gone
    <3> QED BY <3>1, <3>2 DEF V!vars, Lives, Asked
  <2>2. CASE Next
    <3>1. V!Live
      BY <2>0, <2>2, StepIsLive
    <3>2. UNCHANGED acked \/ \E c \in Cred : V!Confirm(c)
      BY <2>2, NextCases, AdminConfirms
         DEF CreateProject, Expire, VerifyCases, Present, ReadCache, FindBySecretHash, FillCache,
             CheckRateLimit, LogUsage, AbortVerify, client
    <3>3. UNCHANGED Asked \/ \E r \in Req : QuestionStep(r)
      <4>1. CASE \E r \in Req : VerifyCases(r)
        BY <4>1, VerifyIsQuestion
      <4>2. CASE UNCHANGED vreq
        BY <4>2 DEF Asked
      <4> QED BY <2>2, <4>1, <4>2, NextCases, AdminWrites DEF CreateProject, Expire
    <3> QED BY <3>1, <3>2, <3>3 DEF V!Next, QuestionStep
  <2> QED BY <2>1, <2>2
<1>3. Spec => []IssuedInv
  <2>1. RevocationInv => TypeOK /\ FillInv
    BY DEF RevocationInv
  <2> QED BY <2>1, InitIssuedInv, NextIssuedInv, RevocationInvHolds, PTL DEF Spec
<1> QED BY <1>1, <1>2, <1>3, RevocationInvHolds, PTL DEF Spec, V!Spec, ImplementsVerdict
=============================================================================
