----------------------------- MODULE MCDupReq -----------------------------
(* Instances of DupReq for TLC. *)
EXTENDS DupReq

CONSTANTS r1, r2, r3, k1, x1, x2

\* A call, a retransmission of it and another on a new connection.
MCKey == [r \in Reqs |-> k1]
MCXprt == [r \in Reqs |-> IF r \in {r1, r2} THEN x1 ELSE x2]
===========================================================================
