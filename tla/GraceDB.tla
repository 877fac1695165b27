------------------------------ MODULE GraceDB ------------------------------
(***************************************************************************)
(* The content of the cluster's grace object (support/rados_grace.c) and   *)
(* what each operation of that file makes of it.  The object holds two     *)
(* epochs and, per member node, a byte of flags:                           *)
(*   cur         the epoch new recovery records belong to                  *)
(*   rec         the epoch clients may reclaim from, 0 outside grace       *)
(*   member      the nodes that have a key in the omap                     *)
(*   need        those with RADOS_GRACE_NEED_GRACE                         *)
(*   enforcing   those with RADOS_GRACE_ENFORCING                          *)
(***************************************************************************)
EXTENDS Naturals, FiniteSets

CONSTANT Nodes   \* the node ids

ASSUME NodesAssumption == IsFiniteSet(Nodes) /\ Nodes # {}

Contents == [cur : Nat \ {0}, rec : Nat, member : SUBSET Nodes,
             need : SUBSET Nodes, enforcing : SUBSET Nodes]

\* rados_grace_create.  (The variant starts at an epoch that is not allowed.)
MutCreated == [cur |-> 0, rec |-> 0, member |-> {}, need |-> {}, enforcing |-> {}]
Created == [cur |-> 1, rec |-> 0, member |-> {}, need |-> {}, enforcing |-> {}]

\* rados_grace_add does nothing if one of the nodes is there already.
CanAdd(d, N) == N \cap d.member = {}
Add(d, N) == [d EXCEPT !.member = @ \cup N, !.enforcing = @ \cup N]

\* rados_grace_join_bulk: all nodes must be members, and unless "start" a
\* grace period must be in force.
CanJoin(d, N, start) == N \subseteq d.member /\ (start \/ d.rec # 0)

\* The part of the write that concerns the epochs, and all of it.  (The
\* variant begins a new epoch although a grace period is in force.)
MutNextEpoch(d) == [d EXCEPT !.rec = IF @ = 0 THEN d.cur ELSE @, !.cur = @ + 1]
NextEpoch(d) == IF d.rec = 0 THEN [d EXCEPT !.rec = d.cur, !.cur = @ + 1] ELSE d
Join(d, N) ==
    [NextEpoch(d) EXCEPT !.member = @ \cup N, !.need = @ \cup N,
                         !.enforcing = @ \cup N]

\* In grace nothing is lifted while a member is not enforcing.
Blocked(d) == d.rec # 0 /\ d.member # d.enforcing

\* rados_grace_lift_bulk, remove = false: only nodes with NEED are written.
CanLift(d, N) == ~Blocked(d) /\ N \subseteq d.member /\ N \cap d.need # {}

\* (The variant ends the grace period with the first node that is done.)
MutLift(d, N) ==
    [d EXCEPT !.need = @ \ N, !.rec = IF d.need \cap N # {} THEN 0 ELSE @]

Lift(d, N) ==
    [d EXCEPT !.need = @ \ N,
              !.rec = IF Cardinality(d.need) = Cardinality(d.need \cap N)
                      THEN 0 ELSE @]

\* The same with remove = true: all the nodes' keys go, and the number of
\* keys removed is compared with the number of nodes in need.
CanRemove(d, N) == ~Blocked(d) /\ N \subseteq d.member /\ N # {}
Remove(d, N) ==
    [d EXCEPT !.member = @ \ N, !.need = @ \ N, !.enforcing = @ \ N,
              !.rec = IF Cardinality(d.need) = Cardinality(N) THEN 0 ELSE @]

\* rados_grace_enforcing_toggle.
CanToggle(d, N) == N \subseteq d.member
Toggle(d, N, enable) ==
    [d EXCEPT !.member = @ \cup N,
              !.enforcing = IF enable THEN @ \cup N ELSE @ \ N]

\* rados_grace_enforcing_check for one node.
AllEnforcing(d, n) == d.member = d.enforcing /\ n \in d.member
============================================================================
