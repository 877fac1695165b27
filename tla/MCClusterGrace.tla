--------------------------- MODULE MCClusterGrace ---------------------------
(* Instances of ClusterGrace for TLC. *)
EXTENDS ClusterGrace, TLC

Symmetry == Permutations(Nodes)
=============================================================================
