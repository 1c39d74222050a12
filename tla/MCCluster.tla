----------------------------- MODULE MCCluster -----------------------------
(* Instances of Cluster for TLC. *)
EXTENDS Cluster

CONSTANTS n1, n2, c1, m1, k1

OneKey == [x \in Msgs \cup Clients |-> k1]
=============================================================================
