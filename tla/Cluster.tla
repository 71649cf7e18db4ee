------------------------------- MODULE Cluster -------------------------------
(***************************************************************************)
(* cluster.ts and index.ts: a primary process that forks one worker per    *)
(* CPU, forks another when one exits, passes SIGTERM and SIGINT on, and    *)
(* asks each worker for its memory every ten seconds; workers that         *)
(* connect, serve and, on a signal, close gracefully.                      *)
(*                                                                         *)
(*   worker:   booting -> serving -> closing -> closed -> dead             *)
(*   primary:  up -> stopping -> gone                                      *)
(*                                                                         *)
(* A worker has signal handlers only once it serves: start() installs them *)
(* after its connections are up.  Until then a signal kills it.            *)
(***************************************************************************)
EXTENDS FiniteSets

CONSTANT Worker    \* one slot per CPU: the worker in it and those that replace it

VARIABLES
  primary,   \* "up" | "stopping" | "gone"
  state,     \* of the worker in a slot; "none": not forked again
  how,       \* how a dead worker ended: "code" | "signal" (SIGTERM, SIGINT) | "kill"
  pending,   \* slots whose worker has a signal to be delivered
  conn,      \* slots whose worker has open client connections
  watched,   \* slots whose worker, which may have exited, has a memory interval running
  leftover,  \* slots where the interval of a worker before this one still runs
  told,      \* history: slots whose worker was delivered a signal and did not crash after it
  late       \* history: slots whose worker was forked after the primary's signal

watch == <<watched, leftover>>
vars == <<primary, state, how, pending, conn, told, late, watch>>

Live == {"booting", "serving", "closing", "closed"}

LiveWorkers == {w \in Worker : state[w] \in Live}

Init ==
  /\ primary = "up"
  /\ state = [w \in Worker |-> "booting"]
  /\ how = [w \in Worker |-> "none"]
  /\ pending = {} /\ conn = {} /\ told = {} /\ late = {}
  /\ watched = Worker /\ leftover = {}    \* 'fork' is emitted once its handler is there

Become(w, s) == state' = [state EXCEPT ![w] = s]

\* The process ends; its connections with it.
Die(w, reason) ==
  /\ Become(w, "dead")
  /\ how' = [how EXCEPT ![w] = reason]
  /\ pending' = pending \ {w} /\ conn' = conn \ {w}
  /\ UNCHANGED <<primary, late, watch>>

-----------------------------------------------------------------------------
(* The worker. *)

\* start(): MongoDB and Redis are connected, the server listens, the handlers are installed.
Start(w) ==
  /\ state[w] = "booting"
  /\ Become(w, "serving")
  /\ UNCHANGED <<primary, how, pending, conn, told, late, watch>>

\* A signal is delivered: fatal before start() is done; shutdown() after; nothing new if
\* the worker is already shutting down.
Deliver(w) ==
  /\ w \in pending /\ state[w] \in Live
  /\ told' = told \cup {w}
  /\ IF state[w] = "booting"
     THEN /\ Become(w, "dead")
          /\ how' = [how EXCEPT ![w] = "signal"]
     ELSE /\ Become(w, IF state[w] = "serving" THEN "closing" ELSE state[w])
          /\ UNCHANGED how
  /\ pending' = pending \ {w}
  /\ UNCHANGED <<primary, conn, late, watch>>

Connect(w) ==
  /\ state[w] = "serving"
  /\ conn' = conn \cup {w}
  /\ UNCHANGED <<primary, state, how, pending, told, late, watch>>

\* The last connection is done.
Hangup(w) ==
  /\ w \in conn
  /\ conn' = conn \ {w}
  /\ UNCHANGED <<primary, state, how, pending, told, late, watch>>

\* Fault variant: the connections are not waited for.
CloseAtOnce(w) ==
  /\ state[w] = "closing"
  /\ Become(w, "closed")
  /\ UNCHANGED <<primary, how, pending, conn, told, late, watch>>

\* The callback of server.close runs when no connection is left.
ServerClosed(w) ==
  /\ state[w] = "closing" /\ w \notin conn
  /\ Become(w, "closed")
  /\ UNCHANGED <<primary, how, pending, conn, told, late, watch>>

\* mongoose.disconnect, redis.quit, process.exit(0); process.exit(1) if one is rejected.
ExitClosed(w) == state[w] = "closed" /\ Die(w, "code") /\ UNCHANGED told

\* The ten seconds of shutdown() are over: process.exit(1), whatever is still open.
ForceExit(w) == state[w] \in {"closing", "closed"} /\ Die(w, "code") /\ UNCHANGED told

\* start() fails, an error nobody catches, the OOM killer.
Crash(w) ==
  /\ state[w] \in Live
  /\ \E reason \in {"code", "kill"} : Die(w, reason)
  /\ told' = told \ {w}

\* The IPC channel closes with the primary and Node's cluster module ends the worker.
Orphaned(w) == primary = "gone" /\ state[w] \in Live /\ Die(w, "code") /\ UNCHANGED told

-----------------------------------------------------------------------------
(* The primary. *)

\* Fault variant: only workers that are serving are signalled.
ShutdownServing ==
  /\ primary \in {"up", "stopping"}
  /\ primary' = "stopping"
  /\ pending' = pending \cup {w \in Worker : state[w] = "serving"}
  /\ late' = late \ LiveWorkers
  /\ UNCHANGED <<state, how, conn, told, watch>>

\* shutdownPrimary: every worker that is not dead is signalled, and fifteen seconds start.
ShutdownPrimary ==
  /\ primary \in {"up", "stopping"}
  /\ primary' = "stopping"
  /\ pending' = pending \cup LiveWorkers
  /\ late' = late \ LiveWorkers
  /\ UNCHANGED <<state, how, conn, told, watch>>

\* An operator signals one worker.
SignalWorker(w) ==
  /\ state[w] \in Live
  /\ pending' = pending \cup {w}
  /\ UNCHANGED <<primary, state, how, conn, told, late, watch>>

\* Another worker in slot w, with an interval of its own, or none.
Refill(w, replaced) ==
  /\ Become(w, IF replaced THEN "booting" ELSE "none")
  /\ how' = [how EXCEPT ![w] = "none"]
  /\ told' = told \ {w}
  /\ late' = IF replaced /\ primary = "stopping" THEN late \cup {w} ELSE late \ {w}
  /\ watched' = IF replaced THEN watched \cup {w} ELSE watched
  /\ leftover' = IF replaced THEN leftover \cup ({w} \cap watched) ELSE leftover
  /\ UNCHANGED <<primary, pending, conn>>

\* Fault variant: a worker that exits with a code is not replaced.
OnExitKilledOnly(w) ==
  primary # "gone" /\ state[w] = "dead" /\ Refill(w, how[w] = "kill")

\* cluster.on('exit'): a worker ended by SIGTERM or SIGINT is not replaced, any other is,
\* whether the primary is stopping or not.
OnExit(w) ==
  primary # "gone" /\ state[w] = "dead" /\ Refill(w, how[w] # "signal")

\* Fault variant: an interval ends only when a message cannot be sent.
MemoryIntervalOfLive(w) ==
  /\ w \in watched /\ state[w] \in Live
  /\ watched' = watched \ {w}
  /\ UNCHANGED <<primary, state, how, pending, conn, told, late, leftover>>

\* A memory interval comes round and ends: its worker is dead or gone.  For a live worker
\* it goes on, the answer is only logged; unless the send throws (MemoryCheckFails).
MemoryInterval(w) ==
  /\ primary # "gone"
  /\ \/ w \in watched /\ state[w] \notin Live /\ watched' = watched \ {w} /\ UNCHANGED leftover
     \/ w \in leftover /\ leftover' = leftover \ {w} /\ UNCHANGED watched
  /\ UNCHANGED <<primary, state, how, pending, conn, told, late>>

MemoryCheckFails(w) ==
  /\ primary # "gone"
  /\ w \in watched /\ state[w] \in Live
  /\ watched' = watched \ {w}
  /\ UNCHANGED <<primary, state, how, pending, conn, told, late, leftover>>

\* Fault variant: nobody waits for the fifteen seconds.
NeverTimesOut == primary = "stopping" /\ LiveWorkers = {} /\ primary' = "gone"
  /\ UNCHANGED <<state, how, pending, conn, told, late, watch>>

\* The fifteen seconds are over: process.exit(1).
PrimaryTimeout ==
  /\ primary = "stopping"
  /\ primary' = "gone"
  /\ UNCHANGED <<state, how, pending, conn, told, late, watch>>

\* Without workers and memory intervals nothing keeps the primary's event loop alive: the
\* fifteen seconds do not (unref).
PrimaryDrained ==
  /\ primary # "gone"
  /\ \A w \in Worker : state[w] = "none"
  /\ watched = {} /\ leftover = {}
  /\ primary' = "gone"
  /\ UNCHANGED <<state, how, pending, conn, told, late, watch>>

-----------------------------------------------------------------------------
WorkerStep(w) ==
  \/ Start(w) \/ Deliver(w) \/ ServerClosed(w) \/ ExitClosed(w) \/ ForceExit(w) \/ Orphaned(w)

Next ==
  \/ \E w \in Worker : WorkerStep(w) \/ Connect(w) \/ Hangup(w) \/ Crash(w)
                       \/ SignalWorker(w) \/ OnExit(w)
                       \/ MemoryInterval(w) \/ MemoryCheckFails(w)
  \/ ShutdownPrimary \/ PrimaryTimeout \/ PrimaryDrained

Spec == Init /\ [][Next]_vars

(***************************************************************************)
(* Processes run, signals and exit events are delivered, timers fire.      *)
(* Nothing is assumed of clients: a connection may stay open for ever.     *)
(***************************************************************************)
Fairness ==
  /\ \A w \in Worker : /\ WF_vars(Start(w)) /\ WF_vars(Deliver(w)) /\ WF_vars(ServerClosed(w))
                       /\ WF_vars(ExitClosed(w)) /\ WF_vars(ForceExit(w))
                       /\ WF_vars(Orphaned(w)) /\ WF_vars(OnExit(w)) /\ WF_vars(MemoryInterval(w))
  /\ WF_vars(PrimaryTimeout) /\ WF_vars(PrimaryDrained)

FairSpec == Spec /\ Fairness

-----------------------------------------------------------------------------
\* Type invariant.
TypeOK ==
  /\ primary \in {"up", "stopping", "gone"}
  /\ state \in [Worker -> Live \cup {"dead", "none"}]
  /\ how \in [Worker -> {"none", "code", "signal", "kill"}]
  /\ pending \subseteq LiveWorkers
  /\ conn \subseteq {w \in Worker : state[w] \in {"serving", "closing"}}
  /\ told \subseteq Worker /\ late \subseteq Worker
  /\ watched \subseteq Worker /\ leftover \subseteq Worker

\* Once the primary was signalled, a worker that takes requests and will not be stopped is
\* one the primary itself forked afterwards: no worker of the running cluster is missed,
\* in whichever phase of its start the signal finds it.
NoWorkerIsMissed ==
  primary = "stopping" =>
    \A w \in Worker : state[w] \in {"booting", "serving"} => w \in pending \cup late

\* A worker that is not ended by a signal is replaced, as long as the primary runs.
DeadIsReplaced ==
  \A w \in Worker : (state[w] = "dead" /\ how[w] # "signal") ~> (state[w] = "booting" \/ primary # "up")

\* Memory intervals do not outlive their workers for long, replaced or not: a primary whose
\* last worker was ended by a signal is not kept alive by the checks of workers that are gone.
PrimaryWithoutWorkersEnds == (\A w \in Worker : state[w] = "none") ~> primary = "gone"

\* A shutdown ends: the primary goes, and no worker survives it, although the primary
\* replaces the workers that exit.
ShutdownEnds == primary = "stopping" ~> (primary = "gone" /\ LiveWorkers = {})

\* cluster.ts: "workers closed with SIGTERM or SIGINT are not restarted".
SignalledIsNotReplaced ==
  [][\A w \in Worker : w \in told /\ state[w] = "dead" => state'[w] # "booting"]_vars
=============================================================================
