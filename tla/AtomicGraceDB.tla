--------------------------- MODULE AtomicGraceDB ---------------------------
(***************************************************************************)
(* What the operations of support/rados_grace.c promise: each takes effect *)
(* on the grace object at one point in time, whoever else is using it.     *)
(***************************************************************************)
EXTENDS GraceDB

VARIABLE db

AtomicInit == db = Created

AtomicStep(N) ==
    \/ CanAdd(db, N) /\ db' = Add(db, N)
    \/ \E start \in BOOLEAN : CanJoin(db, N, start) /\ db' = Join(db, N)
    \/ CanLift(db, N) /\ db' = Lift(db, N)
    \/ CanRemove(db, N) /\ db' = Remove(db, N)
    \/ \E on \in BOOLEAN : CanToggle(db, N) /\ db' = Toggle(db, N, on)

AtomicNext == \E N \in (SUBSET Nodes) \ {{}} : AtomicStep(N)

AtomicSpec == AtomicInit /\ [][AtomicNext]_db
============================================================================
