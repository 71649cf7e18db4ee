------------------------------ MODULE MCCluster ------------------------------
(* Instances of Cluster for TLC. *)
EXTENDS Cluster

CONSTANTS w1, w2, w3
=============================================================================
