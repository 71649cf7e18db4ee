----------------------------- MODULE MCSessions -----------------------------
(* Instances of Sessions for TLC. *)
EXTENDS Sessions, TLC

CONSTANTS u1, u2, t1, t2, t3, h1, h2

\* Every refresh token is the one user's.
OneUser == [t \in Refresh |-> u1]

\* Handlers are interchangeable, and so are the refresh tokens of one user.
SessionSymmetry == Permutations(Handler) \cup Permutations(Refresh)
=============================================================================
