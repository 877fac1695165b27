----------------------------- MODULE MCSessions -----------------------------
(***************************************************************************)
(* Small instances of Sessions.  The client restarts, or a second principal *)
(* uses its name.                                                          *)
(***************************************************************************)
EXTENDS Sessions, TLC

MCRestart == {"before", "after"}
MCCollision == {"before", "other"}
MCPrincipal == [i \in Incs |-> IF i = "other" THEN "second" ELSE "first"]
MCSymmetry == Permutations(Workers)
=============================================================================
