------------------------------- MODULE Stats -------------------------------
(***************************************************************************)
(* The usage documents of one project and the statistics computed from     *)
(* them.  A verify handler builds its document when it answers and nobody  *)
(* waits for the insert; the project may be deleted meanwhile.  A stats    *)
(* request runs four aggregates at once, each of which the database        *)
(* executes when it pleases, and puts their results together.              *)
(***************************************************************************)
EXTENDS Integers, FiniteSetsExt

CONSTANTS
  Log,            \* usage documents there may be at a time
  Key, Service,   \* API keys and services of the project
  Result,         \* what a verify handler logs
  Ranges,         \* VALID_RANGES, in days
  DefaultRange,   \* the range of a query that names none of them
  DayLength,      \* ticks of the clock in a day
  Top,            \* entries of topKeys, and of each list it is merged from
  TimeBound,      \* bound: the clock stops here
  ChurnBound,     \* bound: documents stored or deleted between the aggregates of a request
  None            \* nothing yet

Cred == Key \cup Service
Aggregates == {"summary", "byDay", "topApiKeys", "topServiceKeys"}

\* A usage document.
Document == [time : 0..TimeBound, cred : Cred, result : Result]

ASSUME StatsAssumption ==
  /\ IsFiniteSet(Log)
  /\ Key \cap Service = {} /\ Result \subseteq {"success", "revoked", "rate_limited"}
  /\ Ranges \subseteq Nat /\ DefaultRange \in Ranges
  /\ DayLength \in Nat \ {0} /\ Top \in Nat /\ TimeBound \in Nat
  /\ ChurnBound \in Nat
  /\ None \notin Ranges \cup Document

VARIABLES
  now,       \* Date.now()
  doc,       \* usage documents, or None
  pending,   \* those whose insert is on its way; the others are in the collection
  req,       \* the stats request in flight
  churn      \* history: how many documents were stored or deleted since req's first aggregate

documents == <<now, doc, pending>>
vars == <<documents, req, churn>>

stored == {l \in Log \ pending : doc[l] # None}

Idle == [pc |-> "idle", since |-> 0, todo |-> {}, result |-> [q \in Aggregates |-> None]]

Init ==
  /\ now = 0
  /\ doc = [l \in Log |-> None]
  /\ pending = {}
  /\ req = Idle
  /\ churn = 0

\* An aggregate of the request has run: what changes from now on is counted.
Reading == req.pc = "aggregate" /\ req.todo # Aggregates

Churn(n) ==
  /\ Reading => churn + n <= ChurnBound
  /\ churn' = IF Reading THEN churn + n ELSE churn

Tick ==
  /\ now < TimeBound
  /\ now' = now + 1
  /\ UNCHANGED <<doc, pending, req, churn>>

-----------------------------------------------------------------------------
(* Usage documents. *)

\* UsageService.log: the document is built, with the time it is now, and sent.
LogUsage(l, c, r) ==
  /\ doc[l] = None
  /\ doc' = [doc EXCEPT ![l] = [time |-> now, cred |-> c, result |-> r]]
  /\ pending' = pending \cup {l}
  /\ UNCHANGED <<now, req, churn>>

\* The insert is executed; nothing asks whether the project still exists.
Create(l) ==
  /\ l \in pending
  /\ pending' = pending \ {l}
  /\ Churn(1)
  /\ UNCHANGED <<now, doc, req>>

\* Fault variant: the document is forgotten, and its insert still counted on.
LoseDocument(l) ==
  /\ l \in pending
  /\ doc' = [doc EXCEPT ![l] = None]
  /\ UNCHANGED <<now, pending, req, churn>>

\* The insert is rejected, or the process ends first: only the log file knows.
Lose(l) ==
  /\ l \in pending
  /\ doc' = [doc EXCEPT ![l] = None] /\ pending' = pending \ {l}
  /\ UNCHANGED <<now, req, churn>>

\* deleteMany({projectId}) in deleteProject, which if rejected may have deleted some.
DeleteByProject ==
  /\ \E D \in SUBSET stored :
       /\ doc' = [l \in Log |-> IF l \in D THEN None ELSE doc[l]]
       /\ Churn(Cardinality(D))
  /\ UNCHANGED <<now, pending, req>>

-----------------------------------------------------------------------------
(* The stats request. *)

\* The query's range, or the default for one that is not known.
Days(range) == IF range \in Ranges THEN range ELSE DefaultRange

\* assertOwnership has found the project (else: 404, and nothing changes).  Whether it still
\* exists is the subject of Projects: here documents come and go as long as they can.  The
\* start of the window is computed once, from the clock, for all four aggregates.
GetProjectStats(range) ==
  /\ req.pc = "idle"
  /\ req' = [Idle EXCEPT !.pc = "aggregate", !.since = now - Days(range) * DayLength,
                         !.todo = Aggregates]
  /\ UNCHANGED <<documents, churn>>

\* $match: the top lists take only documents that have their id field.
Matched(q, since) ==
  {l \in stored : /\ doc[l].time >= since
                  /\ q = "topApiKeys" => doc[l].cred \in Key
                  /\ q = "topServiceKeys" => doc[l].cred \in Service}

\* Fault variant: a refusal for the rate is not an error.
ErrorsWithoutLimit == {"invalid_key", "revoked", "error"}

Errors == {"invalid_key", "revoked", "rate_limited", "error"}

With(D, R) == {l \in D : doc[l].result \in R}
Day(l) == doc[l].time \div DayLength

Summary(D) ==
  [totalRequests |-> Cardinality(D), successCount |-> Cardinality(With(D, {"success"})),
   rateLimitHits |-> Cardinality(With(D, {"rate_limited"}))]

\* $group by $dateToString: a day without documents has no bucket.
ByDay(D) ==
  [day \in {Day(l) : l \in D} |->
     LET on == {l \in D : Day(l) = day}
     IN  [count |-> Cardinality(on), errors |-> Cardinality(With(on, Errors))]]

\* $group by credential.
Requests(D) ==
  {[cred |-> c, requests |-> Cardinality({l \in D : doc[l].cred = c})] : c \in {doc[l].cred : l \in D}}

\* The first n of E sorted by requests; which of several equal ones come last is left open.
Highest(E, n) ==
  {T \in kSubset(Min({n, Cardinality(E)}), E) :
     \A x \in T, y \in E \ T : x.requests >= y.requests}

Results(q, since) ==
  LET D == Matched(q, since)
  IN  IF q = "summary" THEN {Summary(D)}
      ELSE IF q = "byDay" THEN {ByDay(D)}
      ELSE Highest(Requests(D), Top)

\* Fault variant: each aggregate takes its window from the clock.
AggregateFromNow(q) ==
  /\ req.pc = "aggregate" /\ q \in req.todo
  /\ \E result \in Results(q, now - DefaultRange * DayLength) :
       req' = [req EXCEPT !.todo = @ \ {q}, !.result[q] = result]
  /\ UNCHANGED <<documents, churn>>

Aggregate(q) ==
  /\ req.pc = "aggregate" /\ q \in req.todo
  /\ \E result \in Results(q, req.since) :
       req' = [req EXCEPT !.todo = @ \ {q}, !.result[q] = result]
  /\ UNCHANGED <<documents, churn>>

\* Fault variant: the two lists are joined and cut, not sorted again.
JoinTop(api, service) ==
  {api \cup T : T \in kSubset(Min({Top - Cardinality(api), Cardinality(service)}), service)}

\* Both lists were cut to Top; joined, sorted and cut again.
MergeTop(api, service) == Highest(api \cup service, Top)

\* Math.round(success / total * 1000), the rate in thousandths.
SuccessRate(success, total) ==
  IF total > 0 THEN (2000 * success + total) \div (2 * total) ELSE 0

\* What the request may answer once all aggregates have: an answer is not kept anywhere.
Answers ==
  LET s == req.result["summary"]
  IN  {[summary |-> s, successRate |-> SuccessRate(s.successCount, s.totalRequests),
        requestsByDay |-> req.result["byDay"], topKeys |-> top] :
       top \in MergeTop(req.result["topApiKeys"], req.result["topServiceKeys"])}

Answerable == req.pc = "aggregate" /\ req.todo = {}

Reply ==
  /\ Answerable /\ Answers # {}
  /\ req' = Idle /\ churn' = 0
  /\ UNCHANGED documents

\* An aggregate was rejected: 500.
AbortStats ==
  /\ req.todo # {}
  /\ req' = Idle /\ churn' = 0
  /\ UNCHANGED documents

Next ==
  \/ Tick
  \/ \E l \in Log, c \in Cred, r \in Result : LogUsage(l, c, r)
  \/ \E l \in Log : Create(l) \/ Lose(l)
  \/ DeleteByProject
  \/ \E range \in Ranges \cup {None} : GetProjectStats(range)
  \/ \E q \in Aggregates : Aggregate(q)
  \/ Reply \/ AbortStats

Spec == Init /\ [][Next]_vars

-----------------------------------------------------------------------------
\* Type invariant.
TypeOK ==
  /\ now \in 0..TimeBound
  /\ doc \in [Log -> Document \cup {None}]
  /\ \A l \in Log : doc[l] # None => doc[l].time <= now
  /\ pending \subseteq {l \in Log : doc[l] # None}
  /\ req.pc \in {"idle", "aggregate"}
  /\ req.since \in Int /\ req.todo \subseteq Aggregates
  /\ churn \in 0..ChurnBound

Near(a, b) == a - b \in -churn..churn

\* The number of requests that the buckets count.
Sum(buckets, field) ==
  Cardinality(UNION {{day} \X (1 .. buckets[day][field]) : day \in DOMAIN buckets})

\* The figures of one answer come from four queries without a snapshot.  They agree with
\* each other, and with the collection, to within the documents that were written or
\* deleted since the first of them ran; exactly, if none was.
AnswersAddUp ==
  Answerable => \A a \in Answers :
    LET total == a.summary.totalRequests IN
      /\ Near(total, Cardinality(Matched("summary", req.since)))
      /\ Near(total, Sum(a.requestsByDay, "count"))
      /\ Near(total - a.summary.successCount, Sum(a.requestsByDay, "errors"))

\* decisions.md 031, one list for both kinds of credential: although it is merged from two
\* lists that were cut before, no credential of the project is left out in favour of one
\* with fewer requests, but for what was written or deleted since the first aggregate ran.
TopKeysAreTop ==
  Answerable => \A a \in Answers :
    LET listed == {e.cred : e \in a.topKeys} IN
      \A y \in Requests(Matched("summary", req.since)) : y.cred \notin listed =>
        /\ \A e \in a.topKeys : y.requests <= e.requests + churn
        /\ Cardinality(a.topKeys) < Top => y.requests <= churn
=============================================================================
