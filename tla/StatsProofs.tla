---------------------------- MODULE StatsProofs ----------------------------
(***************************************************************************)
(* Theorems about the statistics of a project: their figures and their top *)
(* list against the collection.  Everything is counted, so the argument is *)
(* about cardinalities.  While a request is reading, the documents that    *)
(* come or go are at most as many as churn records, so a set of documents  *)
(* defined by their contents grows or shrinks by no more than that         *)
(* (Drift).  What an aggregate has found therefore stays within churn of   *)
(* the collection (Figures, Lists), and the answer, put together from four *)
(* of them, within what Stats promises.                                    *)
(***************************************************************************)
EXTENDS Stats, FunctionTheorems, FiniteSetTheorems, TLAPS

-----------------------------------------------------------------------------
(* The request is a record of four fields, and its todo a set of the aggregates. *)

Shape ==
  req = [pc |-> req.pc, since |-> req.since, todo |-> req.todo,
         result |-> [q \in Aggregates |-> req.result[q]]]

Typed == TypeOK /\ Shape

\* What running an aggregate does to the request.
LEMMA AggregateStep ==
  ASSUME Shape, NEW q \in Aggregates, Aggregate(q)
  PROVE  /\ req.pc = "aggregate" /\ q \in req.todo
         /\ req'.pc = "aggregate" /\ req'.since = req.since /\ req'.todo = req.todo \ {q}
         /\ req'.result[q] \in Results(q, req.since)
         /\ \A p \in Aggregates \ {q} : req'.result[p] = req.result[p]
         /\ Shape'
<1>1. PICK r \in Results(q, req.since) :
        req' = [req EXCEPT !.todo = @ \ {q}, !.result[q] = r]
  BY DEF Aggregate
<1>2. req' = [pc |-> req.pc, since |-> req.since, todo |-> req.todo \ {q},
              result |-> [p \in Aggregates |-> IF p = q THEN r ELSE req.result[p]]]
  <2> DEFINE result == [p \in Aggregates |-> req.result[p]]
  <2>1. req = [pc |-> req.pc, since |-> req.since, todo |-> req.todo, result |-> result]
    BY DEF Shape
  <2>2. req.result = result
    <3> HIDE DEF result
    <3> DEFINE record == [pc |-> req.pc, since |-> req.since, todo |-> req.todo, result |-> result]
    <3>1. record.result = result
      OBVIOUS
    <3> HIDE DEF record
    <3> QED BY <2>1, <3>1 DEF record
  <2>3. [req.result EXCEPT ![q] = r] = [p \in Aggregates |-> IF p = q THEN r ELSE req.result[p]]
    BY <2>2
  <2>4. req' = [req EXCEPT !.todo = req.todo \ {q}, !.result = [req.result EXCEPT ![q] = r]]
    BY <1>1
  <2> HIDE DEF result
  <2> QED
    BY <2>1, <2>3, <2>4
<1>3. req.pc = "aggregate" /\ q \in req.todo
  BY DEF Aggregate
<1> QED
  BY <1>2, <1>3 DEF Shape

\* Every document has a time at most now, and only written documents are on their way.
LEMMA InitTyped == Init => Typed
BY StatsAssumption DEF Init, Typed, TypeOK, Shape, Idle, Document

\* A step of the clock, a document or the request keeps them well typed.
LEMMA StepTyped ==
  ASSUME Typed, [Next]_vars
  PROVE  Typed'
<1> USE DEF Typed
<1>0. CASE UNCHANGED vars
  BY <1>0 DEF vars, documents, TypeOK, Shape
<1>1. CASE Tick
  BY <1>1, StatsAssumption DEF Tick, TypeOK, Shape, Document
<1>2. ASSUME NEW l \in Log, NEW c \in Cred, NEW r \in Result, LogUsage(l, c, r)
      PROVE  Typed'
  BY <1>2, StatsAssumption DEF LogUsage, TypeOK, Shape, Document
<1>3. ASSUME NEW l \in Log, Create(l)
      PROVE  Typed'
  BY <1>3, StatsAssumption DEF Create, Churn, TypeOK, Shape
<1>4. ASSUME NEW l \in Log, Lose(l)
      PROVE  Typed'
  BY <1>4, StatsAssumption DEF Lose, TypeOK, Shape
<1>5. CASE DeleteByProject
  <2>1. PICK D \in SUBSET stored :
          doc' = [l \in Log |-> IF l \in D THEN None ELSE doc[l]] /\ Churn(Cardinality(D))
    BY <1>5 DEF DeleteByProject
  <2>2. D \subseteq Log \ pending /\ Cardinality(D) \in Nat
    BY FS_Subset, FS_CardinalityType, StatsAssumption DEF stored
  <2>3. churn' \in 0..ChurnBound
    BY <2>1, <2>2, StatsAssumption DEF Churn, TypeOK
  <2> QED
    BY <1>5, <2>1, <2>2, <2>3 DEF DeleteByProject, TypeOK, Shape
<1>6. ASSUME NEW range \in Ranges \cup {None}, GetProjectStats(range)
      PROVE  Typed'
  <2>1. Days(range) \in Nat
    BY StatsAssumption DEF Days
  <2>2. now - Days(range) * DayLength \in Int
    BY <2>1, StatsAssumption DEF TypeOK
  <2> QED
    BY <1>6, <2>2 DEF GetProjectStats, Idle, documents, TypeOK, Shape, Aggregates
<1>7. ASSUME NEW q \in Aggregates, Aggregate(q)
      PROVE  Typed'
  BY <1>7, AggregateStep DEF Aggregate, documents, TypeOK
<1>8. CASE Reply \/ AbortStats
  BY <1>8, StatsAssumption DEF Reply, AbortStats, Idle, documents, TypeOK, Shape
<1> QED
  BY <1>0, <1>1, <1>2, <1>3, <1>4, <1>5, <1>6, <1>7, <1>8 DEF Next

\* The state has the types that Stats gives it.
THEOREM TypeCorrect == Spec => []TypeOK
<1>1. Init => Typed
  BY InitTyped
<1>2. Typed /\ [Next]_vars => Typed'
  BY StepTyped
<1>3. Typed => TypeOK
  BY DEF Typed
<1> QED
  BY <1>1, <1>2, <1>3, PTL DEF Spec

-----------------------------------------------------------------------------
(* Counting. *)

\* Sets that differ only inside X differ in size by no more than that of X.
LEMMA Apart ==
  ASSUME NEW A, NEW B, NEW X, IsFiniteSet(A), IsFiniteSet(B), IsFiniteSet(X), A \ X = B \ X
  PROVE  /\ Cardinality(A) \in Nat /\ Cardinality(B) \in Nat /\ Cardinality(X) \in Nat
         /\ Cardinality(A) - Cardinality(B) \in -Cardinality(X)..Cardinality(X)
<1>1. /\ Cardinality(A) \in Nat /\ Cardinality(B) \in Nat /\ Cardinality(X) \in Nat
      /\ Cardinality(A \cap X) \in Nat /\ Cardinality(B \cap X) \in Nat
  <2>1. IsFiniteSet(A \cap X) /\ IsFiniteSet(B \cap X)
    BY FS_Intersection
  <2> QED BY <2>1, FS_CardinalityType
<1>2. /\ Cardinality(A \ X) = Cardinality(A) - Cardinality(A \cap X)
      /\ Cardinality(B \ X) = Cardinality(B) - Cardinality(B \cap X)
  BY FS_Difference
<1>3. Cardinality(A \cap X) <= Cardinality(X) /\ Cardinality(B \cap X) <= Cardinality(X)
  BY FS_Intersection
<1>4. Cardinality(A) - Cardinality(B) = Cardinality(A \cap X) - Cardinality(B \cap X)
  BY <1>1, <1>2
<1>5. \A a, b, c, d, n \in Nat :
        a - b = c - d /\ c <= n /\ d <= n => a - b \in -n..n
  OBVIOUS
<1> QED
  BY <1>1, <1>3, <1>4, <1>5

\* The collection is finite, and so is every part of it.
LEMMA Finite ==
  ASSUME NEW D, D \subseteq Log
  PROVE  IsFiniteSet(D) /\ Cardinality(D) \in Nat
BY FS_Subset, FS_CardinalityType, StatsAssumption

\* The smaller of two numbers.
LEMMA MinOfTwo ==
  ASSUME NEW m \in Nat, NEW n \in Nat
  PROVE  Min({m, n}) = IF m <= n THEN m ELSE n
<1> DEFINE k == IF m <= n THEN m ELSE n
<1>1. k \in {m, n} /\ \A y \in {m, n} : k <= y
  OBVIOUS
<1>2. \A x \in {m, n} : (\A y \in {m, n} : x <= y) => x = k
  OBVIOUS
<1> QED
  BY <1>1, <1>2 DEF Min

\* What the top of a list is: all of it or Top entries, none of which is below one left out.
LEMMA HighestIs ==
  ASSUME NEW E, IsFiniteSet(E), NEW T \in Highest(E, Top)
  PROVE  /\ T \subseteq E /\ IsFiniteSet(T) /\ Cardinality(T) \in Nat
         /\ Cardinality(T) <= Top
         /\ Cardinality(T) < Top => T = E
         /\ Cardinality(E) < Top => T = E
         /\ \A x \in T, y \in E \ T : x.requests >= y.requests
<1>1. /\ T \subseteq E /\ Cardinality(T) = Min({Top, Cardinality(E)})
      /\ \A x \in T, y \in E \ T : x.requests >= y.requests
  BY DEF Highest, kSubset
<1>2. Cardinality(E) \in Nat /\ Top \in Nat
  BY FS_CardinalityType, StatsAssumption
<1>3. Cardinality(T) = IF Top <= Cardinality(E) THEN Top ELSE Cardinality(E)
  BY <1>1, <1>2, MinOfTwo
<1>4. IsFiniteSet(T) /\ (Cardinality(E) = Cardinality(T) => E = T)
  BY <1>1, FS_Subset
<1> QED
  BY <1>1, <1>2, <1>3, <1>4

-----------------------------------------------------------------------------
(* What a step does to the documents that a request counts. *)

Window == Matched("summary", req.since)   \* those of its window
Failed == With(Window, Errors)
Of(c) == {l \in Window : doc[l].cred = c}

\* The steps that are not the request's.
Documents ==
  \/ Tick
  \/ \E l \in Log, c \in Cred, r \in Result : LogUsage(l, c, r)
  \/ \E l \in Log : Create(l) \/ Lose(l)
  \/ DeleteByProject

\* What changes in the collection while a request is reading is counted by churn, and a
\* stored document is not written again.
LEMMA Changed ==
  ASSUME Typed, Documents
  PROVE  /\ req' = req
         /\ Reading => \E X \in SUBSET Log :
              /\ churn' = churn + Cardinality(X)
              /\ stored \ X = stored' \ X
              /\ \A l \in stored \ X : doc'[l] = doc[l]
<1> DEFINE Within(X) == /\ churn' = churn + Cardinality(X)
                        /\ stored \ X = stored' \ X
                        /\ \A l \in stored \ X : doc'[l] = doc[l]
<1> USE DEF Typed, TypeOK
<1>0. Cardinality({}) = 0 /\ churn + 0 = churn
  BY FS_EmptySet
<1>1. CASE Tick
  <2>1. Within({})
    BY <1>0, <1>1 DEF Tick, stored
  <2> QED BY <1>1, <2>1 DEF Tick
<1>2. ASSUME NEW l \in Log, NEW c \in Cred, NEW r \in Result, LogUsage(l, c, r)
      PROVE  req' = req /\ Within({})
  BY <1>0, <1>2 DEF LogUsage, stored
<1>3. ASSUME NEW l \in Log, Create(l)
      PROVE  req' = req /\ (Reading => Within({l}))
  <2>1. Cardinality({l}) = 1
    BY FS_Singleton
  <2> QED BY <1>3, <2>1 DEF Create, Churn, stored
<1>4. ASSUME NEW l \in Log, Lose(l)
      PROVE  req' = req /\ Within({})
  BY <1>0, <1>4 DEF Lose, stored
<1>5. ASSUME DeleteByProject
      PROVE  req' = req /\ (Reading => \E X \in SUBSET Log : Within(X))
  <2>1. PICK D \in SUBSET stored :
          doc' = [l \in Log |-> IF l \in D THEN None ELSE doc[l]] /\ Churn(Cardinality(D))
    BY <1>5 DEF DeleteByProject
  <2>2. Reading => Within(D)
    BY <1>5, <2>1 DEF DeleteByProject, Churn, stored
  <2> QED BY <1>5, <2>2 DEF DeleteByProject, stored
<1> QED
  BY <1>1, <1>2, <1>3, <1>4, <1>5 DEF Documents

\* The difference of two numbers is at most n.
Within(a, b, n) == a \in Nat /\ b \in Nat /\ a - b \in -n..n

\* So the numbers of requests, of failed ones and of those of a credential change by no more.
LEMMA Drift ==
  ASSUME Typed, Documents, Reading
  PROVE  /\ req' = req /\ churn \in Nat /\ churn' \in Nat /\ churn' - churn \in Nat
         /\ Within(Cardinality(Window'), Cardinality(Window), churn' - churn)
         /\ Within(Cardinality(Failed'), Cardinality(Failed), churn' - churn)
         /\ \A c \in Cred : Within(Cardinality(Of(c)'), Cardinality(Of(c)), churn' - churn)
<1>1. PICK X \in SUBSET Log :
        /\ churn' = churn + Cardinality(X)
        /\ stored \ X = stored' \ X
        /\ \A l \in stored \ X : doc'[l] = doc[l]
  BY Changed
<1>2. req' = req
  BY Changed
<1>3. Cardinality(X) \in Nat /\ IsFiniteSet(X) /\ churn \in Nat /\ churn' - churn = Cardinality(X)
  BY <1>1, Finite, FS_Subset, StatsAssumption DEF Typed, TypeOK
<1>4. ASSUME NEW A, NEW B, A \subseteq Log, B \subseteq Log, A \ X = B \ X
      PROVE  Within(Cardinality(A), Cardinality(B), churn' - churn)
  <2>1. IsFiniteSet(A) /\ IsFiniteSet(B)
    BY <1>4, Finite
  <2> QED BY <1>3, <1>4, <2>1, Apart DEF Within
<1>5. Window \ X = Window' \ X
  BY <1>1, <1>2 DEF Window, Matched
<1>6. \A l \in Window \ X : doc'[l] = doc[l]
  BY <1>1 DEF Window, Matched
<1>7. Window \subseteq Log /\ Window' \subseteq Log
  BY DEF Window, Matched, stored
<1>8. Within(Cardinality(Failed'), Cardinality(Failed), churn' - churn)
  <2>1. Failed' \ X = Failed \ X
    BY <1>5, <1>6 DEF Failed, With
  <2>2. Failed \subseteq Log /\ Failed' \subseteq Log
    BY <1>7 DEF Failed, With
  <2> HIDE DEF Failed
  <2> QED BY <1>4, <2>1, <2>2
<1>9. ASSUME NEW c \in Cred
      PROVE  Within(Cardinality(Of(c)'), Cardinality(Of(c)), churn' - churn)
  <2>1. Of(c)' \ X = Of(c) \ X
    BY <1>5, <1>6 DEF Of
  <2>2. Of(c) \subseteq Log /\ Of(c)' \subseteq Log
    BY <1>7 DEF Of
  <2> QED BY <1>4, <2>1, <2>2
<1>10. Within(Cardinality(Window'), Cardinality(Window), churn' - churn)
  BY <1>4, <1>5, <1>7
<1>11. churn' \in Nat
  BY <1>1, <1>3
<1> QED
  BY <1>2, <1>3, <1>8, <1>9, <1>10, <1>11

-----------------------------------------------------------------------------
(* The buckets of the days, summed up. *)

\* Numbering the elements of every part numbers those of the whole.
LEMMA SumOfParts ==
  ASSUME NEW S, IsFiniteSet(S), NEW I, NEW part \in [I -> SUBSET S],
         \A x \in S : \E i \in I : x \in part[i],
         \A i, j \in I : i # j => part[i] \cap part[j] = {}
  PROVE  Cardinality(UNION {{i} \X (1 .. Cardinality(part[i])) : i \in I}) = Cardinality(S)
<1> DEFINE U == UNION {{i} \X (1 .. Cardinality(part[i])) : i \in I}
           number == [i \in I |-> CHOOSE g : g \in Bijection(1 .. Cardinality(part[i]), part[i])]
           element == [p \in U |-> number[p[1]][p[2]]]
<1>1. ASSUME NEW i \in I
      PROVE  number[i] \in Bijection(1 .. Cardinality(part[i]), part[i])
  <2>1. IsFiniteSet(part[i])
    BY FS_Subset
  <2>2. \E g : g \in Bijection(1 .. Cardinality(part[i]), part[i])
    BY <2>1, FS_CardinalityType DEF ExistsBijection
  <2> QED BY <2>2
<1> HIDE DEF number
<1>2. ASSUME NEW i \in I
      PROVE  /\ number[i] \in [1 .. Cardinality(part[i]) -> part[i]]
             /\ \A m, n \in 1 .. Cardinality(part[i]) : number[i][m] = number[i][n] => m = n
             /\ \A x \in part[i] : \E n \in 1 .. Cardinality(part[i]) : number[i][n] = x
  <2> DEFINE N == 1 .. Cardinality(part[i])
             P == part[i]
             g == number[i]
  <2>1. g \in Bijection(N, P)
    BY <1>1
  <2> HIDE DEF N, P, g
  <2>2. /\ g \in [N -> P]
        /\ \A m, n \in N : g[m] = g[n] => m = n
        /\ \A x \in P : \E n \in N : g[n] = x
    BY <2>1, Fun_BijectionProperties
  <2> QED BY <2>2 DEF N, P, g
<1>3. \A p \in U : /\ p = <<p[1], p[2]>> /\ p[1] \in I
                   /\ p[2] \in 1 .. Cardinality(part[p[1]])
                   /\ element[p] = number[p[1]][p[2]] /\ element[p] \in part[p[1]]
  <2> SUFFICES ASSUME NEW p \in U
               PROVE  /\ p = <<p[1], p[2]>> /\ p[1] \in I
                      /\ p[2] \in 1 .. Cardinality(part[p[1]])
                      /\ element[p] = number[p[1]][p[2]] /\ element[p] \in part[p[1]]
    OBVIOUS
  <2>1. PICK i \in I : p \in {i} \X (1 .. Cardinality(part[i]))
    OBVIOUS
  <2>2. p = <<p[1], p[2]>> /\ p[1] = i /\ p[2] \in 1 .. Cardinality(part[i])
    BY <2>1
  <2>3. number[i][p[2]] \in part[i]
    <3> DEFINE N == 1 .. Cardinality(part[i])
    <3>1. number[i] \in [N -> part[i]] /\ p[2] \in N
      BY <1>2, <2>2
    <3> HIDE DEF N
    <3> QED BY <3>1
  <2>4. element[p] = number[p[1]][p[2]]
    OBVIOUS
  <2> QED BY <2>2, <2>3, <2>4
<1>4. \A i \in I : \A n \in 1 .. Cardinality(part[i]) :
        <<i, n>> \in U /\ element[<<i, n>>] = number[i][n]
  OBVIOUS
<1>5. element \in [U -> S]
  BY <1>3
<1> HIDE DEF element, U
<1>6. \A p, r \in U : element[p] = element[r] => p = r
  BY <1>2, <1>3
<1>7. \A x \in S : \E p \in U : element[p] = x
  <2> SUFFICES ASSUME NEW x \in S
               PROVE  \E p \in U : element[p] = x
    OBVIOUS
  <2>1. PICK i \in I : x \in part[i]
    OBVIOUS
  <2>2. PICK n \in 1 .. Cardinality(part[i]) : number[i][n] = x
    BY <1>2, <2>1
  <2> QED BY <1>4, <2>2
<1>8. element \in Bijection(U, S)
  BY <1>5, <1>6, <1>7, Fun_IsBij
<1>9. ExistsBijection(S, U)
  BY <1>8, Fun_ExistsBijSymmetric DEF ExistsBijection
<1>10. Cardinality(U) = Cardinality(S)
  BY <1>9, FS_Bijection
<1> QED
  BY <1>10 DEF U

\* The buckets count every document once, and every failed one once.
LEMMA SumByDay ==
  ASSUME NEW D, IsFiniteSet(D)
  PROVE  /\ Sum(ByDay(D), "count") = Cardinality(D)
         /\ Sum(ByDay(D), "errors") = Cardinality(With(D, Errors))
<1> DEFINE I == {Day(l) : l \in D}
           part(S) == [i \in I |-> {l \in S : Day(l) = i}]
<1>1. ASSUME NEW S, S \subseteq D
      PROVE  Cardinality(UNION {{i} \X (1 .. Cardinality(part(S)[i])) : i \in I}) = Cardinality(S)
  <2>1. part(S) \in [I -> SUBSET S]
    OBVIOUS
  <2>2. \A x \in S : \E i \in I : x \in part(S)[i]
    BY <1>1
  <2>3. \A i, j \in I : i # j => part(S)[i] \cap part(S)[j] = {}
    OBVIOUS
  <2>4. IsFiniteSet(S)
    BY <1>1, FS_Subset
  <2> HIDE DEF part, I
  <2> QED BY <2>1, <2>2, <2>3, <2>4, SumOfParts
<1>2. /\ DOMAIN ByDay(D) = I
      /\ \A i \in I : /\ ByDay(D)[i]["count"] = Cardinality(part(D)[i])
                      /\ ByDay(D)[i]["errors"] = Cardinality(part(With(D, Errors))[i])
  <2>1. \A i \in I : With({l \in D : Day(l) = i}, Errors) = {l \in With(D, Errors) : Day(l) = i}
    BY DEF With
  <2> QED BY <2>1 DEF ByDay
<1>3. With(D, Errors) \subseteq D
  BY DEF With
<1> HIDE DEF I, part
<1>4. Sum(ByDay(D), "count") = Cardinality(D)
  BY <1>1, <1>2 DEF Sum
<1>5. Sum(ByDay(D), "errors") = Cardinality(With(D, Errors))
  BY <1>1, <1>2, <1>3 DEF Sum
<1> QED
  BY <1>4, <1>5

-----------------------------------------------------------------------------
(* The inductive invariant.  An aggregate that has run found the collection as it was then; *)
(* what is left of that is a bound that grows with churn.  Two figures are compared with    *)
(* each other as well as with the collection: the sum of their bounds would be twice churn. *)

Done(q) == req.pc = "aggregate" /\ q \notin req.todo

Figures ==
  LET s == req.result["summary"]
      total == s.totalRequests
      failures == s.totalRequests - s.successCount
      counted == Sum(req.result["byDay"], "count")
      errors == Sum(req.result["byDay"], "errors")
  IN  /\ Done("summary") =>
           /\ total \in Nat /\ failures \in Int
           /\ Near(total, Cardinality(Window)) /\ Near(failures, Cardinality(Failed))
      /\ Done("byDay") =>
           /\ counted \in Nat /\ errors \in Nat
           /\ Near(counted, Cardinality(Window)) /\ Near(errors, Cardinality(Failed))
      /\ Done("summary") /\ Done("byDay") => Near(total, counted) /\ Near(failures, errors)

\* A list R of the credentials K: nobody has gained on its own entry, and nobody left out on
\* any entry, by more than churn.
ListOf(R, K) ==
  /\ IsFiniteSet(R) /\ R \subseteq [cred : K, requests : Nat] /\ Cardinality(R) <= Top
  /\ \A e \in R : Cardinality(Of(e.cred)) <= e.requests + churn
  /\ \A c \in K : (\A e \in R : e.cred # c) =>
       /\ \A e \in R : Cardinality(Of(c)) <= e.requests + churn
       /\ Cardinality(R) < Top => Cardinality(Of(c)) <= churn

Lists ==
  /\ Done("topApiKeys") => ListOf(req.result["topApiKeys"], Key)
  /\ Done("topServiceKeys") => ListOf(req.result["topServiceKeys"], Service)

Inv == Typed /\ Figures /\ Lists

\* Of the requests of the window, the failed ones are those that are not successful.
LEMMA SummaryIs ==
  ASSUME TypeOK
  PROVE  /\ Summary(Window).totalRequests = Cardinality(Window)
         /\ Summary(Window).totalRequests - Summary(Window).successCount = Cardinality(Failed)
         /\ Cardinality(Window) \in Nat /\ Cardinality(Failed) \in Nat
<1>1. Window \subseteq Log /\ \A l \in Window : doc[l] \in Document
  BY DEF Window, Matched, stored, TypeOK
<1>2. Failed = Window \ With(Window, {"success"})
  <2>1. \A l \in Window : doc[l].result \in {"success", "revoked", "rate_limited"}
    BY <1>1, StatsAssumption DEF Document
  <2> QED BY <2>1 DEF Failed, With, Errors
<1>3. With(Window, {"success"}) \subseteq Window /\ Failed \subseteq Log
  BY <1>1 DEF With, Failed
<1>4. /\ IsFiniteSet(Window) /\ Cardinality(Window) \in Nat /\ Cardinality(Failed) \in Nat
      /\ Cardinality(With(Window, {"success"})) \in Nat
  BY <1>1, <1>3, Finite
<1>5. Window \cap With(Window, {"success"}) = With(Window, {"success"})
  BY <1>3
<1>6. Cardinality(Failed) = Cardinality(Window) - Cardinality(With(Window, {"success"}))
  <2> DEFINE good == With(Window, {"success"})
  <2>1. Failed = Window \ good /\ Window \cap good = good /\ IsFiniteSet(Window)
    BY <1>2, <1>4, <1>5
  <2> HIDE DEF good
  <2>2. Cardinality(Window \ good) = Cardinality(Window) - Cardinality(Window \cap good)
    BY <2>1, FS_Difference
  <2>3. Cardinality(Failed) = Cardinality(Window) - Cardinality(good)
    BY <2>1, <2>2
  <2> QED BY <2>3 DEF good
<1> QED
  BY <1>4, <1>6 DEF Summary

\* The aggregates that count find what is in the window.
LEMMA FiguresOfAggregate ==
  ASSUME Inv, NEW q \in Aggregates, Aggregate(q)
  PROVE  Figures'
<1>1. /\ req.pc = "aggregate" /\ q \in req.todo
      /\ req'.pc = "aggregate" /\ req'.since = req.since /\ req'.todo = req.todo \ {q}
      /\ req'.result[q] \in Results(q, req.since)
      /\ \A p \in Aggregates \ {q} : req'.result[p] = req.result[p]
  BY AggregateStep DEF Inv, Typed
<1>2. churn' = churn /\ stored' = stored /\ doc' = doc
  BY DEF Aggregate, documents, stored
<1>3. Window' = Window /\ Failed' = Failed
  BY <1>1, <1>2 DEF Window, Matched, Failed, With
<1>4. \A p \in Aggregates \ {q} : Done(p)' <=> Done(p)
  BY <1>1 DEF Done
<1>5. churn \in Nat /\ IsFiniteSet(Window)
  BY Finite, StatsAssumption DEF Inv, Typed, TypeOK, Window, Matched, stored
<1>6. \A a \in Nat : Near(a, a)
  BY <1>5 DEF Near
<1>7. CASE q = "summary"
  <2>1. req'.result["summary"] = Summary(Window)
    BY <1>1, <1>7 DEF Results, Window
  <2>2. req'.result["byDay"] = req.result["byDay"] /\ (Done("byDay")' <=> Done("byDay"))
    BY <1>1, <1>4, <1>7 DEF Aggregates
  <2>3. /\ req'.result["summary"].totalRequests = Cardinality(Window)
        /\ req'.result["summary"].totalRequests - req'.result["summary"].successCount
             = Cardinality(Failed)
        /\ Cardinality(Window) \in Nat /\ Cardinality(Failed) \in Nat
    BY <2>1, SummaryIs DEF Inv, Typed
  <2>4. Done("byDay") =>
          /\ Sum(req.result["byDay"], "count") \in Nat /\ Sum(req.result["byDay"], "errors") \in Nat
          /\ Near(Sum(req.result["byDay"], "count"), Cardinality(Window))
          /\ Near(Sum(req.result["byDay"], "errors"), Cardinality(Failed))
    BY DEF Inv, Figures
  <2> QED
    BY <1>2, <1>3, <1>5, <2>2, <2>3, <2>4 DEF Figures, Near
<1>8. CASE q = "byDay"
  <2>1. req'.result["byDay"] = ByDay(Window)
    BY <1>1, <1>8 DEF Results, Window, Matched
  <2>2. req'.result["summary"] = req.result["summary"] /\ (Done("summary")' <=> Done("summary"))
    BY <1>1, <1>4, <1>8 DEF Aggregates
  <2>3. /\ Sum(req'.result["byDay"], "count") = Cardinality(Window)
        /\ Sum(req'.result["byDay"], "errors") = Cardinality(Failed)
        /\ Cardinality(Window) \in Nat /\ Cardinality(Failed) \in Nat
    BY <1>5, <2>1, SumByDay, SummaryIs DEF Inv, Typed, Failed
  <2> QED
    BY <1>2, <1>3, <1>5, <2>2, <2>3 DEF Inv, Figures, Near
<1>9. CASE q \notin {"summary", "byDay"}
  <2>1. \A p \in {"summary", "byDay"} : req'.result[p] = req.result[p] /\ (Done(p)' <=> Done(p))
    BY <1>1, <1>4, <1>9 DEF Aggregates
  <2> QED
    BY <1>2, <1>3, <2>1 DEF Inv, Figures, Near
<1> QED
  BY <1>7, <1>8, <1>9

\* The groups of a top list, before it is sorted and cut: one for every credential of its
\* kind that has a request in the window, with as many requests as it has.
LEMMA RequestsAre ==
  ASSUME NEW K, NEW D, D = {l \in Window : doc[l].cred \in K}
  PROVE  /\ IsFiniteSet(Requests(D)) /\ Requests(D) \subseteq [cred : K, requests : Nat]
         /\ \A e \in Requests(D) : e.requests = Cardinality(Of(e.cred))
         /\ \A c \in K : Of(c) # {} =>
              [cred |-> c, requests |-> Cardinality(Of(c))] \in Requests(D)
<1> DEFINE requests(c) == Cardinality({l \in D : doc[l].cred = c})
           group(c) == [cred |-> c, requests |-> requests(c)]
           groupOf == [l \in D |-> group(doc[l].cred)]
<1>1. \A e : e \in Requests(D) <=> \E l \in D : e = group(doc[l].cred)
  <2>1. Requests(D) = {group(c) : c \in {doc[l].cred : l \in D}}
    BY DEF Requests
  <2> HIDE DEF group
  <2> QED BY <2>1
<1>2. \A c \in K : {l \in D : doc[l].cred = c} = Of(c)
  BY DEF Of
<1>3. D \subseteq Log /\ IsFiniteSet(D) /\ \A l \in D : doc[l].cred \in K
  BY Finite DEF Window, Matched, stored
<1>4. IsFiniteSet(Requests(D))
  <2> HIDE DEF group
  <2>1. groupOf \in [D -> Requests(D)]
    BY <1>1
  <2>2. \A e \in Requests(D) : \E l \in D : groupOf[l] = e
    BY <1>1
  <2> HIDE DEF groupOf
  <2>3. groupOf \in Surjection(D, Requests(D))
    BY <2>1, <2>2, Fun_IsSurj
  <2> QED BY <1>3, <2>3, FS_Surjection
<1>5. ASSUME NEW e \in Requests(D)
      PROVE  e \in [cred : K, requests : Nat] /\ e.requests = Cardinality(Of(e.cred))
  <2>1. PICK c \in K : e = group(c)
    <3> HIDE DEF group
    <3> QED BY <1>1, <1>3
  <2>2. Cardinality({l \in D : doc[l].cred = c}) \in Nat
    BY <1>3, Finite
  <2> QED BY <1>2, <2>1, <2>2
<1>6. ASSUME NEW c \in K, Of(c) # {}
      PROVE  [cred |-> c, requests |-> Cardinality(Of(c))] \in Requests(D)
  <2>1. PICK l \in D : doc[l].cred = c
    BY <1>2, <1>6
  <2>2. group(c) \in Requests(D)
    BY <1>1, <2>1
  <2>3. group(c) = [cred |-> c, requests |-> Cardinality(Of(c))]
    BY <1>2
  <2> QED BY <2>2, <2>3
<1> QED
  BY <1>4, <1>5, <1>6

\* A list that was just made has the bounds of one, for no drift at all.
LEMMA NewList ==
  ASSUME TypeOK, NEW K, NEW D, D = {l \in Window : doc[l].cred \in K},
         NEW R \in Highest(Requests(D), Top)
  PROVE  ListOf(R, K)
<1>1. /\ IsFiniteSet(Requests(D)) /\ Requests(D) \subseteq [cred : K, requests : Nat]
      /\ \A e \in Requests(D) : e.requests = Cardinality(Of(e.cred))
      /\ \A c \in K : Of(c) # {} => [cred |-> c, requests |-> Cardinality(Of(c))] \in Requests(D)
  BY RequestsAre
<1>2. /\ R \subseteq Requests(D) /\ IsFiniteSet(R) /\ Cardinality(R) <= Top
      /\ Cardinality(R) < Top => R = Requests(D)
      /\ \A x \in R, y \in Requests(D) \ R : x.requests >= y.requests
  BY <1>1, HighestIs
<1>3. churn \in Nat
  BY StatsAssumption DEF TypeOK
<1>4. \A c : Cardinality(Of(c)) \in Nat
  BY Finite DEF Of, Window, Matched, stored
<1>5. \A e \in R : e.requests \in Nat /\ Cardinality(Of(e.cred)) <= e.requests + churn
  BY <1>1, <1>2, <1>3
<1>6. ASSUME NEW c \in K, \A e \in R : e.cred # c
      PROVE  /\ \A e \in R : Cardinality(Of(c)) <= e.requests + churn
             /\ Cardinality(R) < Top => Cardinality(Of(c)) <= churn
  <2>1. CASE Of(c) = {}
    <3>1. Cardinality(Of(c)) = 0
      BY <2>1, FS_EmptySet
    <3> QED BY <1>3, <1>5, <3>1
  <2>2. CASE Of(c) # {}
    <3> DEFINE y == [cred |-> c, requests |-> Cardinality(Of(c))]
    <3>1. y \in Requests(D) \ R
      BY <1>1, <1>6, <2>2
    <3>2. \A e \in R : e.requests >= Cardinality(Of(c))
      BY <1>2, <3>1
    <3> QED BY <1>2, <1>3, <1>4, <1>5, <3>1, <3>2
  <2> QED BY <2>1, <2>2
<1> QED
  BY <1>1, <1>2, <1>5, <1>6 DEF ListOf

\* The aggregates of the top lists make such lists, the others leave them alone.
LEMMA ListsOfAggregate ==
  ASSUME Inv, NEW q \in Aggregates, Aggregate(q)
  PROVE  Lists'
<1>1. /\ req.pc = "aggregate" /\ q \in req.todo
      /\ req'.pc = "aggregate" /\ req'.since = req.since /\ req'.todo = req.todo \ {q}
      /\ req'.result[q] \in Results(q, req.since)
      /\ \A p \in Aggregates \ {q} : req'.result[p] = req.result[p]
  BY AggregateStep DEF Inv, Typed
<1>2. churn' = churn /\ stored' = stored /\ doc' = doc
  BY DEF Aggregate, documents, stored
<1>3. Window' = Window
  BY <1>1, <1>2 DEF Window, Matched
<1>4. ASSUME NEW p, NEW K, ListOf(req'.result[p], K)
      PROVE  ListOf(req.result[p], K)'
  <2>1. \A c : Of(c)' = Of(c)
    BY <1>2, <1>3 DEF Of
  <2> QED BY <1>2, <1>4, <2>1 DEF ListOf
<1>5. ASSUME NEW p, NEW K, <<p, K>> \in {<<"topApiKeys", Key>>, <<"topServiceKeys", Service>>},
             Done(p)'
      PROVE  ListOf(req.result[p], K)'
  <2>1. CASE p = q
    <3>1. Matched(q, req.since) = {l \in Window : doc[l].cred \in K}
      BY <1>5, <2>1 DEF Window, Matched
    <3>2. req'.result[p] \in Highest(Requests(Matched(q, req.since)), Top)
      BY <1>1, <1>5, <2>1 DEF Results
    <3>3. ListOf(req'.result[p], K)
      BY <3>1, <3>2, NewList DEF Inv, Typed
    <3> QED BY <1>4, <3>3
  <2>2. CASE p # q
    <3>1. Done(p) /\ req'.result[p] = req.result[p]
      BY <1>1, <1>5, <2>2 DEF Done, Aggregates
    <3>2. ListOf(req.result[p], K)
      BY <1>5, <3>1 DEF Inv, Lists
    <3>3. ListOf(req'.result[p], K)
      BY <3>1, <3>2
    <3> QED BY <1>4, <3>3
  <2> QED BY <2>1, <2>2
<1>6. Done("topApiKeys")' => ListOf(req.result["topApiKeys"], Key)'
  BY <1>5
<1>7. Done("topServiceKeys")' => ListOf(req.result["topServiceKeys"], Service)'
  BY <1>5
<1> QED
  BY <1>6, <1>7 DEF Lists

\* Distances add up.
LEMMA Distances ==
  ASSUME NEW a \in Int, NEW b \in Int, NEW m \in Nat, NEW n \in Nat, n - m \in Nat,
         a - b \in -m..m
  PROVE  /\ a - b \in -n..n
         /\ \A c \in Int : c - b \in -(n - m)..(n - m) => a - c \in -n..n
OBVIOUS

\* What a document that comes or goes does to the figures that were found before it.
LEMMA FiguresOfDocuments ==
  ASSUME Inv, Documents, Reading
  PROVE  Figures'
<1>1. /\ req' = req /\ churn \in Nat /\ churn' \in Nat /\ churn' - churn \in Nat
      /\ Within(Cardinality(Window'), Cardinality(Window), churn' - churn)
      /\ Within(Cardinality(Failed'), Cardinality(Failed), churn' - churn)
  BY Drift DEF Inv
<1>2. ASSUME NEW a \in Int, NEW b, NEW c, Near(a, b), Within(c, b, churn' - churn)
      PROVE  a - c \in -churn'..churn'
  <2>1. b \in Int /\ c \in Int /\ a - b \in -churn..churn
    BY <1>2 DEF Near, Within
  <2>2. c - b \in -(churn' - churn)..(churn' - churn)
    BY <1>2 DEF Within
  <2> QED BY <1>1, <2>1, <2>2, Distances
<1>3. ASSUME NEW a \in Int, NEW b \in Int, Near(a, b)
      PROVE  a - b \in -churn'..churn'
  BY <1>1, <1>3, Distances DEF Near
<1>4. \A q : Done(q)' <=> Done(q)
  BY <1>1 DEF Done
<1> DEFINE s == req.result["summary"]
           failures == s.totalRequests - s.successCount
           counted == Sum(req.result["byDay"], "count")
           errors == Sum(req.result["byDay"], "errors")
<1>5. /\ Done("summary") =>
           /\ s.totalRequests \in Nat /\ failures \in Int
           /\ Near(s.totalRequests, Cardinality(Window)) /\ Near(failures, Cardinality(Failed))
      /\ Done("byDay") =>
           /\ counted \in Nat /\ errors \in Nat
           /\ Near(counted, Cardinality(Window)) /\ Near(errors, Cardinality(Failed))
      /\ Done("summary") /\ Done("byDay") => Near(s.totalRequests, counted) /\ Near(failures, errors)
  BY DEF Inv, Figures
<1>6. s' = s /\ s.totalRequests' = s.totalRequests /\ failures' = failures
      /\ counted' = counted /\ errors' = errors
  BY <1>1
<1> HIDE DEF s, failures, counted, errors
<1>7. Done("summary") => /\ s.totalRequests - Cardinality(Window') \in -churn'..churn'
                         /\ failures - Cardinality(Failed') \in -churn'..churn'
  BY <1>1, <1>2, <1>5
<1>8. Done("byDay") => /\ counted - Cardinality(Window') \in -churn'..churn'
                       /\ errors - Cardinality(Failed') \in -churn'..churn'
  BY <1>1, <1>2, <1>5
<1>9. Done("summary") /\ Done("byDay") => /\ s.totalRequests - counted \in -churn'..churn'
                                          /\ failures - errors \in -churn'..churn'
  BY <1>3, <1>5
<1> QED
  BY <1>1, <1>4, <1>5, <1>7, <1>8, <1>9 DEF Figures, Near, s, failures, counted, errors

\* And to the lists.
LEMMA ListsOfDocuments ==
  ASSUME Inv, Documents, Reading
  PROVE  Lists'
<1>1. /\ req' = req /\ churn \in Nat /\ churn' \in Nat /\ churn' - churn \in Nat
      /\ \A c \in Cred : Within(Cardinality(Of(c)'), Cardinality(Of(c)), churn' - churn)
  BY Drift DEF Inv
<1>2. \A q : Done(q)' <=> Done(q)
  BY <1>1 DEF Done
<1>3. ASSUME NEW p, NEW K, K \subseteq Cred, ListOf(req.result[p], K)
      PROVE  ListOf(req.result[p], K)'
  <2> DEFINE R == req.result[p]
  <2>1. req'.result[p] = R
    BY <1>1
  <2>2. \A c \in Cred, n \in Nat : /\ Cardinality(Of(c)) <= n + churn => Cardinality(Of(c)') <= n + churn'
                                   /\ Cardinality(Of(c)) <= churn => Cardinality(Of(c)') <= churn'
    BY <1>1 DEF Within
  <2>3. \A e \in R : e.cred \in Cred /\ e.requests \in Nat
    BY <1>3 DEF ListOf
  <2>4. \A e \in R : Cardinality(Of(e.cred)') <= e.requests + churn'
    BY <1>3, <2>2, <2>3 DEF ListOf
  <2>5. \A c \in K : (\A e \in R : e.cred # c) =>
          /\ \A e \in R : Cardinality(Of(c)') <= e.requests + churn'
          /\ Cardinality(R) < Top => Cardinality(Of(c)') <= churn'
    BY <1>3, <2>2, <2>3 DEF ListOf
  <2> QED
    BY <1>3, <2>1, <2>4, <2>5 DEF ListOf
<1>4. Key \subseteq Cred /\ Service \subseteq Cred
  BY DEF Cred
<1> QED
  BY <1>2, <1>3, <1>4 DEF Inv, Lists

LEMMA InvInit == Init => Inv
BY InitTyped DEF Inv, Figures, Lists, Done, Init, Idle

LEMMA InvStep ==
  ASSUME Inv, [Next]_vars
  PROVE  Inv'
<1>1. Typed'
  BY StepTyped DEF Inv
<1>2. CASE Documents
  <2>1. CASE Reading
    BY <1>1, <1>2, <2>1, FiguresOfDocuments, ListsOfDocuments DEF Inv
  <2>2. CASE ~Reading
    <3>1. req' = req
      BY <1>2, Changed DEF Inv
    <3>2. \A q \in Aggregates : ~Done(q)'
      BY <2>2, <3>1 DEF Reading, Done
    <3> QED BY <1>1, <3>2 DEF Inv, Figures, Lists, Aggregates
  <2> QED BY <2>1, <2>2
<1>3. ASSUME NEW q \in Aggregates, Aggregate(q)
      PROVE  Inv'
  BY <1>1, <1>3, FiguresOfAggregate, ListsOfAggregate DEF Inv
<1>4. CASE Reply \/ AbortStats \/ \E range \in Ranges \cup {None} : GetProjectStats(range)
  <2>1. req'.pc = "idle" \/ req'.todo = Aggregates
    <3>1. CASE Reply \/ AbortStats
      BY <3>1 DEF Reply, AbortStats, Idle
    <3>2. ASSUME NEW range \in Ranges \cup {None}, GetProjectStats(range)
          PROVE  req'.todo = Aggregates
      BY <3>2 DEF GetProjectStats, Idle
    <3> QED BY <1>4, <3>1, <3>2
  <2>2. \A q \in Aggregates : ~Done(q)'
    BY <2>1 DEF Done
  <2> QED BY <1>1, <2>2 DEF Inv, Figures, Lists, Aggregates
<1>5. CASE UNCHANGED vars
  BY <1>1, <1>5 DEF vars, documents, Inv, Figures, Lists, ListOf, Done, Near, Of, Window, Failed,
                    Matched, With, stored
<1> QED
  BY <1>2, <1>3, <1>4, <1>5 DEF Next, Documents

LEMMA Invariant == Spec => []Inv
<1>1. Init => Inv
  BY InvInit
<1>2. Inv /\ [Next]_vars => Inv'
  BY InvStep
<1> QED
  BY <1>1, <1>2, PTL DEF Spec

-----------------------------------------------------------------------------
(* What an answer says. *)

\* The figures of an answer agree with each other and with the collection to within what
\* was written or deleted since the first aggregate ran.
THEOREM FiguresAddUp == Spec => []AnswersAddUp
<1>1. ASSUME Inv, Answerable, NEW a \in Answers
      PROVE  LET total == a.summary.totalRequests IN
               /\ Near(total, Cardinality(Matched("summary", req.since)))
               /\ Near(total, Sum(a.requestsByDay, "count"))
               /\ Near(total - a.summary.successCount, Sum(a.requestsByDay, "errors"))
  <2>1. Done("summary") /\ Done("byDay")
    BY <1>1 DEF Answerable, Done
  <2>2. a.summary = req.result["summary"] /\ a.requestsByDay = req.result["byDay"]
    BY <1>1 DEF Answers
  <2> QED
    BY <1>1, <2>1, <2>2 DEF Inv, Figures, Window
<1>2. Inv => AnswersAddUp
  BY <1>1 DEF AnswersAddUp
<1> QED
  BY <1>2, Invariant, PTL

\* A credential of kind K that the merged list leaves out.  Its own list either has it, and
\* then the merge has cut it, or is full of entries at least as high, one of which the
\* merge cut for every entry it took from the other list, or is short, and then the
\* credential has next to no requests.
LEMMA LeftOut ==
  ASSUME Typed, NEW K, NEW J, K \cap J = {}, NEW R, NEW S, ListOf(R, K), ListOf(S, J),
         NEW T \in Highest(R \cup S, Top), NEW c \in K, \A e \in T : e.cred # c
  PROVE  /\ \A e \in T : Cardinality(Of(c)) <= e.requests + churn
         /\ Cardinality(T) < Top => Cardinality(Of(c)) <= churn
<1> DEFINE n == Cardinality(Of(c))
<1>1. n \in Nat /\ churn \in Nat /\ Top \in Nat
  BY Finite, StatsAssumption DEF Typed, TypeOK, Of, Window, Matched, stored
<1>2. /\ IsFiniteSet(R) /\ IsFiniteSet(S) /\ IsFiniteSet(R \cup S)
      /\ Cardinality(R) \in Nat /\ Cardinality(R) <= Top
      /\ R \subseteq [cred : K, requests : Nat] /\ S \subseteq [cred : J, requests : Nat]
      /\ \A e \in R : Cardinality(Of(e.cred)) <= e.requests + churn
      /\ (\A e \in R : e.cred # c) =>
           (\A e \in R : n <= e.requests + churn) /\ (Cardinality(R) < Top => n <= churn)
  BY FS_Union, FS_CardinalityType DEF ListOf
<1>3. /\ T \subseteq R \cup S /\ IsFiniteSet(T) /\ Cardinality(T) \in Nat /\ Cardinality(T) <= Top
      /\ Cardinality(T) < Top => T = R \cup S
      /\ \A x \in T, y \in (R \cup S) \ T : x.requests >= y.requests
  BY <1>2, HighestIs
<1>4. \A e \in R \cup S : e.requests \in Nat
  BY <1>2
<1> HIDE DEF n
<1>5. CASE \E e \in R : e.cred = c
  <2>1. PICK e \in R : e.cred = c
    BY <1>5
  <2>2. e \in (R \cup S) \ T /\ n <= e.requests + churn
    BY <1>2, <2>1 DEF n
  <2>3. \A x \in T : n <= x.requests + churn
    BY <1>1, <1>3, <1>4, <2>2
  <2> QED BY <1>3, <2>2, <2>3 DEF n
<1>6. CASE \A e \in R : e.cred # c
  <2>1. \A x \in R : n <= x.requests + churn
    BY <1>2, <1>6
  <2>2. CASE Cardinality(R) < Top
    <3>1. n <= churn
      BY <1>2, <1>6, <2>2
    <3>2. \A x \in T : n <= x.requests + churn
      BY <1>1, <1>3, <1>4, <3>1
    <3> QED BY <3>1, <3>2 DEF n
  <2>3. CASE Cardinality(R) = Top
    <3>1. Cardinality(T) = Top
      <4>1. Cardinality(T) < Top => R \subseteq T
        BY <1>3
      <4>2. R \subseteq T => Cardinality(R) <= Cardinality(T)
        BY <1>3, FS_Subset
      <4> QED BY <1>1, <1>3, <2>3, <4>1, <4>2
    <3>2. ASSUME NEW x \in T \ R
          PROVE  n <= x.requests + churn
      <4>1. R \subseteq T => R = T
        BY <1>3, <2>3, <3>1, FS_Subset
      <4>2. PICK y \in R : y \notin T
        BY <3>2, <4>1
      <4>3. x.requests >= y.requests
        BY <1>3, <3>2, <4>2
      <4> QED BY <1>1, <1>3, <1>4, <2>1, <3>2, <4>2, <4>3
    <3>3. \A x \in T : n <= x.requests + churn
      BY <2>1, <3>2
    <3> QED BY <1>1, <3>1, <3>3 DEF n
  <2> QED BY <1>1, <1>2, <2>2, <2>3
<1> QED
  BY <1>5, <1>6

\* No credential is left out of the top list in favour of one with fewer requests, but for
\* what was written or deleted since the first aggregate ran.
THEOREM TopListIsTop == Spec => []TopKeysAreTop
<1>1. ASSUME Inv, Answerable, NEW a \in Answers,
             NEW y \in Requests(Matched("summary", req.since)),
             y.cred \notin {e.cred : e \in a.topKeys}
      PROVE  /\ \A e \in a.topKeys : y.requests <= e.requests + churn
             /\ Cardinality(a.topKeys) < Top => y.requests <= churn
  <2> DEFINE R == req.result["topApiKeys"]
             S == req.result["topServiceKeys"]
  <2>1. ListOf(R, Key) /\ ListOf(S, Service)
    BY <1>1 DEF Answerable, Done, Inv, Lists
  <2>2. a.topKeys \in Highest(R \cup S, Top)
    <3>1. PICK top \in Highest(R \cup S, Top) :
            a = [summary |-> req.result["summary"],
                 successRate |-> SuccessRate(req.result["summary"].successCount,
                                             req.result["summary"].totalRequests),
                 requestsByDay |-> req.result["byDay"], topKeys |-> top]
      BY <1>1 DEF Answers, MergeTop
    <3>2. a.topKeys = top
      BY <3>1
    <3> QED BY <3>2
  <2>3. y.cred \in Cred /\ y.requests = Cardinality(Of(y.cred))
    <3>1. Window = {l \in Window : doc[l].cred \in Cred}
      BY <1>1 DEF Inv, Typed, TypeOK, Window, Matched, stored, Document
    <3>2. y \in Requests(Window)
      BY <1>1 DEF Window
    <3>3. /\ Requests(Window) \subseteq [cred : Cred, requests : Nat]
          /\ \A e \in Requests(Window) : e.requests = Cardinality(Of(e.cred))
      BY <3>1, RequestsAre
    <3> QED BY <3>2, <3>3
  <2>4. \A e \in a.topKeys : e.cred # y.cred
    BY <1>1
  <2>5. Key \cap Service = {} /\ Service \cap Key = {} /\ R \cup S = S \cup R /\ Typed
    BY <1>1, StatsAssumption DEF Inv
  <2> HIDE DEF R, S
  <2>6. CASE y.cred \in Key
    BY <2>1, <2>2, <2>3, <2>4, <2>5, <2>6, LeftOut
  <2>7. CASE y.cred \in Service
    BY <2>1, <2>2, <2>3, <2>4, <2>5, <2>7, LeftOut
  <2> QED
    BY <2>3, <2>6, <2>7 DEF Cred
<1>2. Inv => TopKeysAreTop
  BY <1>1 DEF TopKeysAreTop
<1> QED
  BY <1>2, Invariant, PTL
=============================================================================
