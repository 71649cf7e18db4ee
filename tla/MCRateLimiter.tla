---------------------------- MODULE MCRateLimiter ----------------------------
(* Instances of RateLimiter for TLC. *)
EXTENDS RateLimiter, TLC

CONSTANTS h1, h2, h3, IpMax, KeyMax

MCMax == [c \in Counter |-> IF c = "ip" THEN IpMax ELSE KeyMax]

HandlerSymmetry == Permutations(Handler)
=============================================================================
