---------------------------- MODULE ClusterProofs ----------------------------
(***************************************************************************)
(* What holds of Cluster for any number of workers.  Both invariants are   *)
(* inductive as they stand.                                                *)
(***************************************************************************)
EXTENDS Cluster, TLAPS

\* Every step keeps the types.
LEMMA TypeStep ==
  ASSUME TypeOK, [Next]_vars
  PROVE  TypeOK'
<1> USE DEF TypeOK, LiveWorkers, Live, watch
<1>1. ASSUME NEW w \in Worker, Start(w)
      PROVE  TypeOK'
  BY <1>1 DEF Start, Become
<1>2. ASSUME NEW w \in Worker, Deliver(w)
      PROVE  TypeOK'
  <2>1. CASE state[w] = "booting"
    BY <1>2, <2>1 DEF Deliver, Become
  <2>2. CASE state[w] # "booting"
    BY <1>2, <2>2 DEF Deliver, Become
  <2> QED BY <2>1, <2>2
<1>3. ASSUME NEW w \in Worker, NEW reason \in {"code", "kill"}, Die(w, reason), told' \subseteq told
      PROVE  TypeOK'
  BY <1>3 DEF Die, Become
<1>4. ASSUME NEW w \in Worker, ExitClosed(w) \/ ForceExit(w) \/ Orphaned(w) \/ Crash(w)
      PROVE  TypeOK'
  BY <1>3, <1>4 DEF ExitClosed, ForceExit, Orphaned, Crash
<1>5. ASSUME NEW w \in Worker, ServerClosed(w)
      PROVE  TypeOK'
  BY <1>5 DEF ServerClosed, Become
<1>6. ASSUME NEW w \in Worker, Connect(w) \/ Hangup(w) \/ SignalWorker(w)
      PROVE  TypeOK'
  BY <1>6 DEF Connect, Hangup, SignalWorker
<1>7. ASSUME NEW w \in Worker, OnExit(w)
      PROVE  TypeOK'
  BY <1>7 DEF OnExit, Refill, Become
<1>8. CASE ShutdownPrimary \/ PrimaryTimeout \/ PrimaryDrained
  BY <1>8 DEF ShutdownPrimary, PrimaryTimeout, PrimaryDrained
<1>9. ASSUME NEW w \in Worker, MemoryInterval(w) \/ MemoryCheckFails(w)
      PROVE  TypeOK'
  BY <1>9 DEF MemoryInterval, MemoryCheckFails
<1>10. CASE UNCHANGED vars
  BY <1>10 DEF vars
<1> QED BY <1>1, <1>2, <1>4, <1>5, <1>6, <1>7, <1>8, <1>9, <1>10 DEF Next, WorkerStep

\* Type correctness; in particular only live workers await a signal, and only workers that
\* serve or are closing have connections: those are gone when server.close calls back.
THEOREM TypeCorrect == Spec => []TypeOK
<1>1. Init => TypeOK
  BY DEF Init, TypeOK, LiveWorkers, Live
<1>2. TypeOK /\ [Next]_vars => TypeOK'
  BY TypeStep
<1> QED BY <1>1, <1>2, PTL DEF Spec

LEMMA MissedStep ==
  ASSUME TypeOK, NoWorkerIsMissed, [Next]_vars
  PROVE  NoWorkerIsMissed'
<1> USE DEF TypeOK, NoWorkerIsMissed, LiveWorkers, Live, watch
<1>1. ASSUME NEW w \in Worker, Start(w) \/ Connect(w) \/ Hangup(w) \/ SignalWorker(w) \/ ServerClosed(w)
      PROVE  NoWorkerIsMissed'
  BY <1>1 DEF Start, Connect, Hangup, SignalWorker, ServerClosed, Become
<1>2. ASSUME NEW w \in Worker, Deliver(w)
      PROVE  NoWorkerIsMissed'
  <2>1. state'[w] \notin {"booting", "serving"}
    BY <1>2 DEF Deliver, Become
  <2>2. \A v \in Worker \ {w} : state'[v] = state[v] /\ (v \in pending => v \in pending')
    BY <1>2 DEF Deliver, Become
  <2> QED BY <1>2, <2>1, <2>2 DEF Deliver
<1>3. ASSUME NEW w \in Worker, NEW reason, Die(w, reason)
      PROVE  NoWorkerIsMissed'
  BY <1>3 DEF Die, Become
<1>4. ASSUME NEW w \in Worker, ExitClosed(w) \/ ForceExit(w) \/ Orphaned(w) \/ Crash(w)
      PROVE  NoWorkerIsMissed'
  BY <1>3, <1>4 DEF ExitClosed, ForceExit, Orphaned, Crash
<1>5. ASSUME NEW w \in Worker, OnExit(w)
      PROVE  NoWorkerIsMissed'
  BY <1>5 DEF OnExit, Refill, Become
<1>6. CASE ShutdownPrimary \/ PrimaryTimeout \/ PrimaryDrained
  BY <1>6 DEF ShutdownPrimary, PrimaryTimeout, PrimaryDrained
<1>7. ASSUME NEW w \in Worker, MemoryInterval(w) \/ MemoryCheckFails(w)
      PROVE  NoWorkerIsMissed'
  BY <1>7 DEF MemoryInterval, MemoryCheckFails
<1>8. CASE UNCHANGED vars
  BY <1>8 DEF vars
<1> QED BY <1>1, <1>2, <1>4, <1>5, <1>6, <1>7, <1>8 DEF Next, WorkerStep

\* However many workers there are and whatever phase a signal finds them in, a worker that
\* takes requests after the primary's signal and is not about to be signalled is one the
\* primary forked after it.
THEOREM ShutdownReachesAll == Spec => []NoWorkerIsMissed
<1>1. Init => NoWorkerIsMissed
  BY DEF Init, NoWorkerIsMissed
<1>2. TypeOK /\ NoWorkerIsMissed /\ [Next]_vars => NoWorkerIsMissed'
  BY MissedStep
<1> QED BY <1>1, <1>2, TypeCorrect, PTL DEF Spec
=============================================================================
