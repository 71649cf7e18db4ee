------------------------------ MODULE MCStats ------------------------------
(* Instances of Stats for TLC. *)
EXTENDS Stats, TLC

CONSTANTS l1, l2, l3, k1, k2, s1

StatsSymmetry == Permutations(Log) \cup Permutations(Key)
=============================================================================
