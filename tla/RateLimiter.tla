----------------------------- MODULE RateLimiter -----------------------------
(***************************************************************************)
(* The two fixed-window counters a verify request passes: ipRateLimiter,   *)
(* the middleware, which lets a request through when Redis fails, and      *)
(* checkRateLimit of the verification service, which refuses it.  A window *)
(* is a Redis counter: INCR creates it, the handler that read 1 sets its   *)
(* TTL with a second command, and the TTL deletes it.                      *)
(*                                                                         *)
(*   ip:  incr -> (read 1) expire -> pass, or ttl -> 429                   *)
(*   key: incr -> (read 1) expire -> ttl -> valid, or 429                  *)
(*                                                                         *)
(* One counter of each kind is modelled: counters of different IPs and     *)
(* projects never touch each other.                                        *)
(***************************************************************************)
EXTENDS Naturals

CONSTANTS
  Handler,      \* verify requests in flight
  Max,          \* requests per window: env.rateLimit.ip.max, env.rateLimit.key.max
  CountBound    \* bound: a counter at this value takes no more INCRs

Counter == {"ip", "key"}

ASSUME LimiterAssumption ==
  /\ Max \in [Counter -> Nat \ {0}]
  /\ CountBound \in Nat

VARIABLES
  count,     \* value of the Redis counter, 0 when there is no such key
  timed,     \* the counter has a TTL
  req,       \* requests in flight
  granted,   \* history: requests of this window let through for being within Max
  lost       \* history: the command that should have given this counter its TTL was lost

vars == <<count, timed, req, granted, lost>>

\* `current' is what INCR returned; `window' the counters that still are the ones it counted in.
Idle == [pc |-> "idle", at |-> "ip", current |-> 0, window |-> {}]

Init ==
  /\ count = [c \in Counter |-> 0]
  /\ timed = [c \in Counter |-> FALSE]
  /\ req = [h \in Handler |-> Idle]
  /\ granted = [c \in Counter |-> 0]
  /\ lost = [c \in Counter |-> FALSE]

\* Fault variant: the boundary is off by one.
ExceededLate(h) == req[h].current > Max[req[h].at] + 1

Exceeded(h) == req[h].current > Max[req[h].at]

\* Fault variant: INCR is taken to return the value before the increment.
CreatedBefore(n) == n = 0

\* Who sets the TTL: the handler whose INCR returned 1.
Created(n) == n = 1

Finish(h) == req' = [req EXCEPT ![h] = Idle]

\* next() of the middleware: the verification service may count the request or refuse
\* its credential before counting.
PassIp(h) ==
  \/ req' = [req EXCEPT ![h] = [@ EXCEPT !.pc = "incr", !.at = "key"]]
  \/ Finish(h)

\* A rejected command: ip fails open, key fails closed.
FailOver(h) == IF req[h].at = "ip" THEN PassIp(h) ELSE Finish(h)

\* History: h is let through by the counter it has just been compared with.
Grant(h) ==
  LET c == req[h].at
  IN  granted' = [granted EXCEPT ![c] = IF c \in req[h].window THEN @ + 1 ELSE @]

Lose(c) == lost' = [lost EXCEPT ![c] = TRUE]

-----------------------------------------------------------------------------
Arrive(h) ==
  /\ req[h].pc = "idle"
  /\ req' = [req EXCEPT ![h] = [Idle EXCEPT !.pc = "incr"]]
  /\ UNCHANGED <<count, timed, granted, lost>>

\* INCR.  The client library sends a command again when the connection drops before its
\* reply (maxRetriesPerRequest: 1), so it may be executed twice: the reply is the second value.
Incr(h) ==
  LET c == req[h].at
  IN  /\ req[h].pc = "incr"
      /\ \E times \in {1, 2} :
           /\ count[c] + times <= CountBound
           /\ count' = [count EXCEPT ![c] = @ + times]
           /\ req' = [req EXCEPT ![h] =
                [@ EXCEPT !.pc = IF Created(count[c] + times) THEN "expire" ELSE "counted",
                          !.current = count[c] + times, !.window = req[h].window \cup {c}]]
           /\ IF count[c] = 0 /\ times = 2 THEN Lose(c) ELSE UNCHANGED lost
      /\ UNCHANGED <<timed, granted>>

\* Fault variant: a rejected INCR is sent once more.
IncrResent(h) ==
  LET c == req[h].at
  IN  /\ req[h].pc = "incr" /\ count[c] < CountBound
      /\ count' = [count EXCEPT ![c] = @ + 2]
      /\ IF count[c] = 0 THEN Lose(c) ELSE UNCHANGED lost
      /\ FailOver(h)
      /\ UNCHANGED <<timed, granted>>

\* INCR is rejected, before Redis executed it or after.
IncrRejected(h) ==
  LET c == req[h].at
  IN  /\ req[h].pc = "incr"
      /\ \/ UNCHANGED <<count, lost>>
         \/ /\ count[c] < CountBound
            /\ count' = [count EXCEPT ![c] = @ + 1]
            /\ IF count[c] = 0 THEN Lose(c) ELSE UNCHANGED lost
      /\ FailOver(h)
      /\ UNCHANGED <<timed, granted>>

\* Fault variant: both counters' EXPIRE names the IP's counter.
SetTtlOfIp(h) ==
  LET c == req[h].at
  IN  /\ req[h].pc = "expire"
      /\ timed' = [timed EXCEPT !["ip"] = count["ip"] > 0]
      /\ lost' = [lost EXCEPT ![c] = FALSE]
      /\ \/ req' = [req EXCEPT ![h].pc = "counted"]
         \/ FailOver(h)
      /\ UNCHANGED <<count, granted>>

\* EXPIRE by the handler that read 1; it does nothing to a counter that is gone.
SetTtl(h) ==
  LET c == req[h].at
  IN  /\ req[h].pc = "expire"
      /\ timed' = [timed EXCEPT ![c] = count[c] > 0]
      /\ lost' = [lost EXCEPT ![c] = FALSE]
      /\ \/ req' = [req EXCEPT ![h].pc = "counted"]
         \/ FailOver(h)
      /\ UNCHANGED <<count, granted>>

\* EXPIRE is rejected before Redis executed it.
SetTtlRejected(h) ==
  /\ req[h].pc = "expire"
  /\ Lose(req[h].at)
  /\ FailOver(h)
  /\ UNCHANGED <<count, timed, granted>>

\* The middleware compares at once; it asks for the TTL only to answer 429.
DecideIp(h) ==
  /\ req[h].pc = "counted" /\ req[h].at = "ip"
  /\ IF Exceeded(h) THEN Finish(h) /\ UNCHANGED granted
                    ELSE Grant(h) /\ PassIp(h)
  /\ UNCHANGED <<count, timed, lost>>

\* checkRateLimit asks for the TTL first; if that is rejected the request is refused.
DecideKey(h) ==
  /\ req[h].pc = "counted" /\ req[h].at = "key"
  /\ \/ ~Exceeded(h) /\ Grant(h)
     \/ UNCHANGED granted
  /\ Finish(h)
  /\ UNCHANGED <<count, timed, lost>>

\* The worker dies.
Crash(h) ==
  /\ req[h].pc # "idle"
  /\ IF req[h].pc = "expire" THEN Lose(req[h].at) ELSE UNCHANGED lost
  /\ Finish(h)
  /\ UNCHANGED <<count, timed, granted>>

\* The TTL runs out: the window ends, whoever is still between INCR and its decision.
WindowEnds(c) ==
  /\ timed[c]
  /\ count' = [count EXCEPT ![c] = 0]
  /\ timed' = [timed EXCEPT ![c] = FALSE]
  /\ granted' = [granted EXCEPT ![c] = 0]
  /\ req' = [h \in Handler |-> [req[h] EXCEPT !.window = @ \ {c}]]
  /\ UNCHANGED lost

Step(h) ==
  \/ Incr(h) \/ IncrRejected(h) \/ SetTtl(h) \/ SetTtlRejected(h)
  \/ DecideIp(h) \/ DecideKey(h)

Next ==
  \/ \E h \in Handler : Arrive(h) \/ Step(h) \/ Crash(h)
  \/ \E c \in Counter : WindowEnds(c)

Spec == Init /\ [][Next]_vars

(***************************************************************************)
(* A handler's commands settle, and a TTL that is set runs out.            *)
(***************************************************************************)
FairSpec ==
  /\ Spec
  /\ \A h \in Handler : WF_vars(Step(h))
  /\ \A c \in Counter : WF_vars(WindowEnds(c))

-----------------------------------------------------------------------------
Request == [pc : {"idle", "incr", "expire", "counted"}, at : Counter,
            current : 0 .. CountBound, window : SUBSET Counter]

\* Type invariant.
TypeOK ==
  /\ count \in [Counter -> 0 .. CountBound]
  /\ timed \in [Counter -> BOOLEAN]
  /\ req \in [Handler -> Request]
  /\ granted \in [Counter -> Nat]
  /\ lost \in [Counter -> BOOLEAN]

\* Between the creation of a counter and its end at most Max of the requests that read
\* the reply of their INCR are let through by the comparison with the maximum, whatever
\* their interleaving and however many INCRs are duplicated: the decision is made from a
\* value read commands, or a whole window, ago. An IP request whose command is rejected is
\* let through without a comparison (ipRateLimiter fails open) and is not in granted.
WithinMax == \A c \in Counter : granted[c] <= Max[c]

\* A counter without a TTL has a handler about to set it, unless the command was lost:
\* the two ways a window can be left open for ever are these and no other.
TtlComing ==
  \A c \in Counter :
    count[c] > 0 /\ ~timed[c] =>
      \/ lost[c]
      \/ \E h \in Handler : req[h].pc = "expire" /\ req[h].at = c

\* Every window ends, unless its TTL was lost.
WindowReopensUnlessLost == \A c \in Counter : (count[c] > 0) ~> (count[c] = 0 \/ lost[c])
=============================================================================
