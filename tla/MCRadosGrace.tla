--------------------------- MODULE MCRadosGrace ---------------------------
(* Instances of RadosGrace for TLC. *)
EXTENDS RadosGrace, TLC

Symmetry == Permutations(Nodes) \cup Permutations(Callers)
===========================================================================
