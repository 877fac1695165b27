------------------------------ MODULE MCGrace ------------------------------
(* Instances of Grace for TLC. *)
EXTENDS Grace, TLC

Symmetry == Permutations(Workers) \cup Permutations(Clients)
============================================================================
