-------------------------- MODULE RateLimiterProofs --------------------------
(***************************************************************************)
(* What holds of RateLimiter for any limits and any number of requests.    *)
(***************************************************************************)
EXTENDS RateLimiter, FiniteSetTheorems, TLAPS

LEMMA IdleType == Idle \in Request
BY LimiterAssumption DEF Idle, Request, Counter

\* What next() and a rejected command do to the request.
LEMMA FailOverType ==
  ASSUME TypeOK, NEW h \in Handler, FailOver(h) \/ PassIp(h) \/ Finish(h)
  PROVE  req' \in [Handler -> Request]
<1>1. CASE Finish(h)
  BY <1>1, IdleType DEF TypeOK, Finish
<1>2. CASE req' = [req EXCEPT ![h] = [@ EXCEPT !.pc = "incr", !.at = "key"]]
  <2>1. [req[h] EXCEPT !.pc = "incr", !.at = "key"] \in Request
    BY DEF TypeOK, Request, Counter
  <2> QED BY <1>2, <2>1 DEF TypeOK
<1> QED BY <1>1, <1>2 DEF FailOver, PassIp

LEMMA TypeStep ==
  ASSUME TypeOK, [Next]_vars
  PROVE  TypeOK'
<1> USE LimiterAssumption DEF TypeOK
<1>1. ASSUME NEW h \in Handler, Arrive(h)
      PROVE  TypeOK'
  <2>1. [Idle EXCEPT !.pc = "incr"] \in Request
    BY DEF Idle, Request, Counter
  <2> QED BY <1>1, <2>1 DEF Arrive
<1>2. ASSUME NEW h \in Handler, Incr(h)
      PROVE  TypeOK'
  <2> DEFINE c == req[h].at
  <2>0. c \in Counter /\ count[c] \in Nat
    BY DEF Request
  <2>1. PICK times \in {1, 2} :
          /\ count[c] + times <= CountBound
          /\ count' = [count EXCEPT ![c] = @ + times]
          /\ req' = [req EXCEPT ![h] =
               [@ EXCEPT !.pc = IF Created(count[c] + times) THEN "expire" ELSE "counted",
                         !.current = count[c] + times, !.window = req[h].window \cup {c}]]
          /\ IF count[c] = 0 /\ times = 2 THEN Lose(c) ELSE UNCHANGED lost
    BY <1>2 DEF Incr
  <2>2. c \in Counter /\ count[c] + times \in 0 .. CountBound
    BY <2>0, <2>1
  <2>3. count' \in [Counter -> 0 .. CountBound]
    <3> HIDE DEF c
    <3> QED BY <2>1, <2>2
  <2>4. req' \in [Handler -> Request]
    <3> DEFINE next == [req[h] EXCEPT !.pc = IF Created(count[c] + times) THEN "expire" ELSE "counted",
                                      !.current = count[c] + times, !.window = req[h].window \cup {c}]
    <3>1. req[h] \in Request
      OBVIOUS
    <3>2. next \in Request
      <4>1. req[h].window \cup {c} \in SUBSET Counter
        BY <2>2, <3>1 DEF Request
      <4> HIDE DEF c
      <4> QED BY <2>2, <3>1, <4>1 DEF Request
    <3>3. req' = [req EXCEPT ![h] = next]
      BY <2>1
    <3> HIDE DEF next
    <3> QED BY <3>2, <3>3
  <2>5. lost' \in [Counter -> BOOLEAN]
    BY <2>1, <2>2 DEF Lose
  <2> QED BY <1>2, <2>3, <2>4, <2>5 DEF Incr
<1>3. ASSUME NEW h \in Handler, IncrRejected(h)
      PROVE  TypeOK'
  <2> DEFINE c == req[h].at
  <2>1. c \in Counter /\ count[c] \in Nat
    BY DEF Request
  <2>2. req' \in [Handler -> Request]
    BY <1>3, FailOverType DEF IncrRejected
  <2>3. count' \in [Counter -> 0 .. CountBound]
    <3>1. CASE count[c] < CountBound /\ count' = [count EXCEPT ![c] = @ + 1]
      <4> HIDE DEF c
      <4>1. count[c] + 1 \in 0 .. CountBound
        BY <2>1, <3>1
      <4> QED BY <2>1, <3>1, <4>1
    <3> QED BY <1>3, <3>1 DEF IncrRejected
  <2>4. lost' \in [Counter -> BOOLEAN]
    BY <1>3, <2>1 DEF IncrRejected, Lose
  <2> QED BY <1>3, <2>2, <2>3, <2>4 DEF IncrRejected
<1>4. ASSUME NEW h \in Handler, SetTtl(h)
      PROVE  TypeOK'
  <2>1. [req[h] EXCEPT !.pc = "counted"] \in Request
    BY DEF Request
  <2>2. req' \in [Handler -> Request]
    BY <1>4, <2>1, FailOverType DEF SetTtl
  <2> DEFINE c == req[h].at
  <2>3. c \in Counter /\ (count[c] > 0) \in BOOLEAN
    BY DEF Request
  <2>4. timed' \in [Counter -> BOOLEAN] /\ lost' \in [Counter -> BOOLEAN]
    <3>1. timed' = [timed EXCEPT ![c] = count[c] > 0] /\ lost' = [lost EXCEPT ![c] = FALSE]
      BY <1>4 DEF SetTtl
    <3> HIDE DEF c
    <3> QED BY <2>3, <3>1, Zenon
  <2> QED BY <1>4, <2>2, <2>4 DEF SetTtl
<1>5. ASSUME NEW h \in Handler, SetTtlRejected(h)
      PROVE  TypeOK'
  BY <1>5, FailOverType DEF SetTtlRejected, Lose, Request
<1>6. ASSUME NEW h \in Handler, DecideIp(h) \/ DecideKey(h)
      PROVE  TypeOK'
  <2>1. req' \in [Handler -> Request]
    BY <1>6, FailOverType DEF DecideIp, DecideKey
  <2>2. granted' \in [Counter -> Nat]
    <3>1. CASE Grant(h)
      BY <3>1 DEF Grant, Request
    <3>2. CASE UNCHANGED granted
      BY <3>2
    <3> QED BY <1>6, <3>1, <3>2 DEF DecideIp, DecideKey
  <2> QED BY <1>6, <2>1, <2>2 DEF DecideIp, DecideKey
<1>7. ASSUME NEW h \in Handler, Crash(h)
      PROVE  TypeOK'
  BY <1>7, FailOverType DEF Crash, Lose, Request
<1>8. ASSUME NEW c \in Counter, WindowEnds(c)
      PROVE  TypeOK'
  <2>1. \A h \in Handler : [req[h] EXCEPT !.window = @ \ {c}] \in Request
    BY DEF Request
  <2> QED BY <1>8, <2>1 DEF WindowEnds
<1>9. CASE UNCHANGED vars
  BY <1>9 DEF vars
<1> QED BY <1>1, <1>2, <1>3, <1>4, <1>5, <1>6, <1>7, <1>8, <1>9 DEF Next, Step

\* Type correctness of the counters and the requests in flight.
THEOREM TypeCorrect == Spec => []TypeOK
<1>1. Init => TypeOK
  BY LimiterAssumption, IdleType DEF Init, TypeOK
<1>2. TypeOK /\ [Next]_vars => TypeOK'
  BY TypeStep
<1> QED BY <1>1, <1>2, PTL DEF Spec

-----------------------------------------------------------------------------
\* A counter that runs without a TTL and without anybody to set it.
Stuck(c) ==
  /\ count[c] > 0 /\ ~timed[c] /\ ~lost[c]
  /\ \A h \in Handler : ~(req[h].pc = "expire" /\ req[h].at = c)

LEMMA TtlStep ==
  ASSUME TypeOK, TtlComing, [Next]_vars
  PROVE  TtlComing'
<1> USE LimiterAssumption DEF TypeOK
<1> SUFFICES ASSUME NEW c \in Counter, ~Stuck(c), Stuck(c)'
             PROVE  FALSE
  BY DEF TtlComing, Stuck
<1> USE DEF Stuck
\* The steps of a handler that is not about to set c's TTL and does not count in c.
<1>1. ASSUME NEW h \in Handler, ~(req[h].pc = "expire" /\ req[h].at = c),
             \A g \in Handler \ {h} : req'[g] = req[g],
             UNCHANGED <<count, timed, lost>>
      PROVE  FALSE
  BY <1>1
<1>2. ASSUME NEW h \in Handler, Arrive(h) \/ DecideIp(h) \/ DecideKey(h)
      PROVE  FALSE
  BY <1>1, <1>2 DEF Arrive, DecideIp, DecideKey, PassIp, Finish
<1>3. ASSUME NEW h \in Handler, Incr(h)
      PROVE  FALSE
  <2>1. CASE req[h].at = c /\ count[c] = 0
    BY <1>3, <2>1 DEF Incr, Created, Lose
  <2>2. CASE req[h].at = c /\ count[c] > 0
    BY <1>3, <2>2 DEF Incr, Created, Lose
  <2>3. CASE req[h].at # c
    BY <1>3, <2>3 DEF Incr, Created, Lose
  <2> QED BY <2>1, <2>2, <2>3
<1>4. ASSUME NEW h \in Handler, IncrRejected(h)
      PROVE  FALSE
  <2>1. \A g \in Handler \ {h} : req'[g] = req[g]
    BY <1>4 DEF IncrRejected, FailOver, PassIp, Finish
  <2> QED BY <1>4, <2>1 DEF IncrRejected, Lose
<1>5. ASSUME NEW h \in Handler, SetTtl(h) \/ SetTtlRejected(h)
      PROVE  FALSE
  <2>1. \A g \in Handler \ {h} : req'[g] = req[g]
    BY <1>5 DEF SetTtl, SetTtlRejected, FailOver, PassIp, Finish
  <2> QED BY <1>5, <2>1 DEF SetTtl, SetTtlRejected, Lose
<1>6. ASSUME NEW h \in Handler, Crash(h)
      PROVE  FALSE
  BY <1>6 DEF Crash, Finish, Lose
<1>7. ASSUME NEW d \in Counter, WindowEnds(d)
      PROVE  FALSE
  <2>1. \A g \in Handler : req'[g].pc = req[g].pc /\ req'[g].at = req[g].at
    BY <1>7 DEF WindowEnds, Request
  <2> QED BY <1>7, <2>1 DEF WindowEnds
<1>8. CASE UNCHANGED vars
  BY <1>8 DEF vars
<1> QED BY <1>2, <1>3, <1>4, <1>5, <1>6, <1>7, <1>8 DEF Next, Step

\* A window can be left open for ever in two ways only: the handler that read 1 died or lost
\* its EXPIRE, or nobody read 1.
THEOREM TtlIsComing == Spec => []TtlComing
<1>1. Init => TtlComing
  BY DEF Init, TtlComing
<1>2. TypeOK /\ TtlComing /\ [Next]_vars => TtlComing'
  BY TtlStep
<1> QED BY <1>1, <1>2, TypeCorrect, PTL DEF Spec
-----------------------------------------------------------------------------
(***************************************************************************)
(* WithinMax is not inductive: the grant is given commands after the INCR  *)
(* it depends on, when others have counted too.  What is kept is that the  *)
(* grants given and the requests still sure of one are together no more    *)
(* than the INCRs of the window, nor than the maximum.                     *)
(***************************************************************************)

\* Requests that counted in the running window of c and will find themselves within its maximum.
Pending(c) ==
  {h \in Handler : /\ req[h].at = c /\ req[h].pc \in {"expire", "counted"}
                   /\ c \in req[h].window /\ req[h].current <= Max[c]}

\* g grants and the pending requests P fit in n INCRs and in the maximum m.
Fits(P, g, n, m) ==
  /\ IsFiniteSet(P)
  /\ g + Cardinality(P) <= n
  /\ g + Cardinality(P) <= m

GrantInv == \A c \in Counter : Fits(Pending(c), granted[c], count[c], Max[c])

LEMMA FitsFewer ==
  ASSUME NEW P, NEW Q, NEW g \in Nat, NEW n \in Nat, NEW k \in Nat, NEW m \in Nat,
         Fits(P, g, n, m), Q \subseteq P, n <= k
  PROVE  Fits(Q, g, k, m)
<1>1. IsFiniteSet(Q) /\ Cardinality(Q) <= Cardinality(P)
  BY FS_Subset DEF Fits
<1>2. Cardinality(P) \in Nat /\ Cardinality(Q) \in Nat
  BY <1>1, FS_CardinalityType DEF Fits
<1> QED BY <1>1, <1>2 DEF Fits

LEMMA FitsOneMore ==
  ASSUME NEW P, NEW Q, NEW g \in Nat, NEW n \in Nat, NEW k \in Nat, NEW m \in Nat, NEW h,
         Fits(P, g, n, m), Q \subseteq P \cup {h}, n < k, k <= m
  PROVE  Fits(Q, g, k, m)
<1>1. IsFiniteSet(P \cup {h}) /\ Cardinality(P \cup {h}) <= Cardinality(P) + 1
  <2>1. IsFiniteSet(P) /\ Cardinality(P) \in Nat
    BY FS_CardinalityType DEF Fits
  <2>2. /\ IsFiniteSet(P \cup {h})
        /\ Cardinality(P \cup {h}) = IF h \in P THEN Cardinality(P) ELSE Cardinality(P) + 1
    BY <2>1, FS_AddElement
  <2> QED BY <2>1, <2>2
<1>2. IsFiniteSet(Q) /\ Cardinality(Q) <= Cardinality(P \cup {h})
  BY <1>1, FS_Subset
<1>3. Cardinality(P) \in Nat /\ Cardinality(Q) \in Nat /\ Cardinality(P \cup {h}) \in Nat
  BY <1>1, <1>2, FS_CardinalityType DEF Fits
<1> QED BY <1>1, <1>2, <1>3 DEF Fits

LEMMA FitsGranted ==
  ASSUME NEW P, NEW Q, NEW g \in Nat, NEW n \in Nat, NEW m \in Nat, NEW h \in P,
         Fits(P, g, n, m), Q \subseteq P \ {h}
  PROVE  Fits(Q, g + 1, n, m)
<1>1. IsFiniteSet(P \ {h}) /\ Cardinality(P \ {h}) = Cardinality(P) - 1
  BY FS_RemoveElement DEF Fits
<1>2. IsFiniteSet(Q) /\ Cardinality(Q) <= Cardinality(P \ {h})
  BY <1>1, FS_Subset
<1>3. Cardinality(P) \in Nat /\ Cardinality(Q) \in Nat
  BY <1>2, FS_CardinalityType DEF Fits
<1> QED BY <1>1, <1>2, <1>3 DEF Fits

LEMMA GrantStep ==
  ASSUME TypeOK, TypeOK', GrantInv, [Next]_vars
  PROVE  GrantInv'
<1> SUFFICES ASSUME NEW c \in Counter
             PROVE  Fits(Pending(c)', granted'[c], count'[c], Max[c])
  BY DEF GrantInv
<1>a. Fits(Pending(c), granted[c], count[c], Max[c])
  BY DEF GrantInv
<1>b. /\ granted[c] \in Nat /\ granted'[c] \in Nat
      /\ count[c] \in Nat /\ count'[c] \in Nat /\ Max[c] \in Nat
  BY LimiterAssumption DEF TypeOK
\* A step that lets nobody through and after which no further request is pending.
<1>c. ASSUME Pending(c)' \subseteq Pending(c), granted'[c] = granted[c], count[c] <= count'[c]
      PROVE  Fits(Pending(c)', granted'[c], count'[c], Max[c])
  BY <1>a, <1>b, <1>c, FitsFewer
\* What becomes of the handlers when one of them leaves its counter.
<1>d. ASSUME NEW h \in Handler, FailOver(h) \/ PassIp(h) \/ Finish(h)
      PROVE  Pending(c)' \subseteq Pending(c) \ {h}
  <2>1. \A g \in Handler \ {h} : req'[g] = req[g]
    BY <1>d DEF FailOver, PassIp, Finish, TypeOK
  <2>2. CASE Finish(h)
    BY <2>1, <2>2 DEF Finish, Idle, Pending, TypeOK
  <2>3. CASE req' = [req EXCEPT ![h] = [@ EXCEPT !.pc = "incr", !.at = "key"]]
    <3>1. req'[h].pc = "incr"
      BY <2>3 DEF TypeOK, Request
    <3> QED BY <2>1, <3>1 DEF Pending
  <2> QED BY <1>d, <2>2, <2>3 DEF FailOver, PassIp
<1>1. ASSUME NEW h \in Handler, Arrive(h)
      PROVE  Pending(c)' \subseteq Pending(c) /\ granted' = granted /\ count' = count
  BY <1>1 DEF Arrive, Idle, Pending, TypeOK
<1>2. ASSUME NEW h \in Handler, Incr(h)
      PROVE  Fits(Pending(c)', granted'[c], count'[c], Max[c])
  <2>1. granted' = granted
    BY <1>2 DEF Incr
  <2>2. \A g \in Handler \ {h} : req'[g] = req[g]
    BY <1>2 DEF Incr, TypeOK
  <2>3. Pending(c)' \subseteq Pending(c) \cup {h}
    BY <2>2 DEF Pending
  <2>4. req'[h].at = req[h].at
    BY <1>2 DEF Incr, TypeOK, Request
  <2>5. CASE req[h].at # c
    <3>1. count'[c] = count[c]
      BY <1>2, <2>5 DEF Incr, TypeOK
    <3>2. h \notin Pending(c)'
      BY <2>4, <2>5 DEF Pending
    <3> QED BY <1>b, <1>c, <2>1, <2>3, <3>1, <3>2
  <2>6. CASE req[h].at = c
    <3>1. count[c] < count'[c] /\ req'[h].current = count'[c]
      BY <1>2, <1>b, <2>6 DEF Incr, TypeOK, Request
    <3>2. CASE count'[c] <= Max[c]
      BY <1>a, <1>b, <2>1, <2>3, <3>1, <3>2, FitsOneMore
    <3>3. CASE ~(count'[c] <= Max[c])
      <4>1. h \notin Pending(c)'
        BY <3>1, <3>3 DEF Pending
      <4> QED BY <1>b, <1>c, <2>1, <2>3, <3>1, <4>1
    <3> QED BY <3>2, <3>3
  <2> QED BY <2>5, <2>6
<1>3. ASSUME NEW h \in Handler, IncrRejected(h) \/ SetTtlRejected(h) \/ Crash(h)
      PROVE  Pending(c)' \subseteq Pending(c) /\ granted' = granted /\ count[c] <= count'[c]
  <2>1. Pending(c)' \subseteq Pending(c) /\ granted' = granted
    BY <1>3, <1>d DEF IncrRejected, SetTtlRejected, Crash
  <2>2. count[c] <= count'[c]
    BY <1>3, <1>b DEF IncrRejected, SetTtlRejected, Crash, TypeOK
  <2> QED BY <2>1, <2>2
<1>4. ASSUME NEW h \in Handler, SetTtl(h)
      PROVE  Pending(c)' \subseteq Pending(c) /\ granted' = granted /\ count' = count
  <2>1. CASE req' = [req EXCEPT ![h].pc = "counted"]
    BY <1>4, <2>1 DEF SetTtl, Pending, TypeOK, Request
  <2> QED BY <1>4, <1>d, <2>1 DEF SetTtl
<1>5. ASSUME NEW h \in Handler, DecideIp(h) \/ DecideKey(h)
      PROVE  Fits(Pending(c)', granted'[c], count'[c], Max[c])
  <2>1. Pending(c)' \subseteq Pending(c) \ {h} /\ count' = count
    BY <1>5, <1>d DEF DecideIp, DecideKey
  <2>2. CASE granted'[c] = granted[c]
    BY <1>b, <1>c, <2>1, <2>2
  <2>3. CASE granted'[c] # granted[c]
    <3>1. ~Exceeded(h) /\ Grant(h) /\ req[h].pc = "counted"
      BY <1>5, <2>3 DEF DecideIp, DecideKey
    <3>2. req[h].at = c /\ c \in req[h].window /\ granted'[c] = granted[c] + 1
      BY <2>3, <3>1 DEF Grant, TypeOK
    <3>3. h \in Pending(c)
      <4>1. req[h].current \in Nat
        BY LimiterAssumption DEF TypeOK, Request
      <4> QED BY <1>b, <3>1, <3>2, <4>1 DEF Exceeded, Pending
    <3> QED BY <1>a, <1>b, <2>1, <3>2, <3>3, FitsGranted
  <2> QED BY <2>2, <2>3
<1>6. ASSUME NEW d \in Counter, WindowEnds(d)
      PROVE  Fits(Pending(c)', granted'[c], count'[c], Max[c])
  <2>1. CASE d = c
    <3>1. \A h \in Handler : c \notin req'[h].window
      BY <1>6, <2>1 DEF WindowEnds, TypeOK, Request
    <3>2. Pending(c)' = {}
      BY <3>1 DEF Pending
    <3>3. granted'[c] = 0 /\ count'[c] = 0
      BY <1>6, <2>1 DEF WindowEnds, TypeOK
    <3> QED BY <1>b, <3>2, <3>3, FS_EmptySet DEF Fits
  <2>2. CASE d # c
    <3>1. \A h \in Handler : /\ req'[h].at = req[h].at /\ req'[h].pc = req[h].pc
                             /\ req'[h].current = req[h].current
                             /\ c \in req'[h].window => c \in req[h].window
      BY <1>6 DEF WindowEnds, TypeOK, Request
    <3>2. Pending(c)' \subseteq Pending(c)
      BY <3>1 DEF Pending
    <3>3. granted'[c] = granted[c] /\ count'[c] = count[c]
      BY <1>6, <2>2 DEF WindowEnds, TypeOK
    <3> QED BY <1>b, <1>c, <3>2, <3>3
  <2> QED BY <2>1, <2>2
<1>7. ASSUME UNCHANGED vars
      PROVE  Pending(c)' \subseteq Pending(c) /\ granted' = granted /\ count' = count
  BY <1>7 DEF vars, Pending
<1> QED
  BY <1>b, <1>c, <1>1, <1>2, <1>3, <1>4, <1>5, <1>6, <1>7 DEF Next, Step

\* For any maximum and any number of requests in flight, duplicated and interleaved in any
\* way, no more requests than the maximum of a window read their INCR and pass the
\* comparison. The IP requests that pass because Redis rejected a command are not counted.
THEOREM GrantsWithinMax == Spec => []WithinMax
<1>1. Init => GrantInv
  <2> SUFFICES ASSUME Init, NEW c \in Counter
               PROVE  Fits(Pending(c), granted[c], count[c], Max[c])
    BY DEF GrantInv
  <2>1. Pending(c) = {}
    BY DEF Init, Idle, Pending
  <2>2. granted[c] = 0 /\ count[c] = 0 /\ Max[c] \in Nat
    BY LimiterAssumption DEF Init
  <2> QED BY <2>1, <2>2, FS_EmptySet DEF Fits
<1>2. TypeOK /\ TypeOK' /\ GrantInv /\ [Next]_vars => GrantInv'
  BY GrantStep
<1>3. TypeOK /\ GrantInv => WithinMax
  <2> SUFFICES ASSUME TypeOK, GrantInv, NEW c \in Counter
               PROVE  granted[c] <= Max[c]
    BY DEF WithinMax
  <2>1. Fits(Pending(c), granted[c], count[c], Max[c])
    BY DEF GrantInv
  <2>2. Cardinality(Pending(c)) \in Nat
    BY <2>1, FS_CardinalityType DEF Fits
  <2> QED BY <2>1, <2>2, LimiterAssumption DEF Fits, TypeOK
<1> QED BY <1>1, <1>2, <1>3, TypeCorrect, PTL DEF Spec
=============================================================================
