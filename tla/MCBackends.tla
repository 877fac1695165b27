----------------------------- MODULE MCBackends -----------------------------
(* Backends for TLC.  One client is the failed server's, so that there is  *)
(* no symmetry among them.                                                 *)
EXTENDS Backends
=============================================================================
