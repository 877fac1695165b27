----------------------------- MODULE RadosGrace -----------------------------
(***************************************************************************)
(* The grace object under concurrent use (support/rados_grace.c), by the   *)
(* servers of a cluster and by the ganesha-rados-grace tool.  Every        *)
(* operation reads the whole object, computes a new content from what it   *)
(* read and writes it with an assertion on the object's version; if the    *)
(* assertion fails (-ERANGE) it goes round again.  The arrays match[] and  *)
(* flags[] live outside that loop.                                         *)
(***************************************************************************)
EXTENDS AtomicGraceDB

CONSTANTS Callers,   \* the processes that use the object
          Ops,       \* the operations they perform
          MaxCalls   \* bound: how many calls a behaviour has

AllOps == {"add", "join", "start", "lift", "remove", "enforce", "noenforce"}

ASSUME RadosAssumption == Ops \subseteq AllOps /\ MaxCalls \in Nat

\* The object itself is the db of AtomicGraceDB.
VARIABLES ver,    \* its version
          call,   \* the call of each process
          calls   \* how many calls were made

vars == <<db, ver, call, calls>>

NodeSets == (SUBSET Nodes) \ {{}}

\* pc, the arguments, what the last read returned, and the arrays: the nodes
\* seen as members so far, and the NEED bit kept in flags[].
Call == [pc : {"idle", "read", "write"}, op : AllOps, nodes : NodeSets,
         snap : Contents, snapver : Nat, match : SUBSET Nodes,
         flagneed : SUBSET Nodes]

Init ==
    /\ db = Created
    /\ ver = 0
    /\ call \in [Callers -> {[pc |-> "idle", op |-> "add", nodes |-> Nodes,
                              snap |-> Created, snapver |-> 0, match |-> {},
                              flagneed |-> {}]}]
    /\ calls = 0

Begin(p, op, N) ==
    /\ call[p].pc = "idle"
    /\ calls < MaxCalls
    /\ calls' = calls + 1
    /\ call' = [call EXCEPT
         ![p] = [@ EXCEPT !.pc = "read", !.op = op, !.nodes = N,
                          !.match = {}, !.flagneed = {}]]
    /\ UNCHANGED <<db, ver>>

\* Whether the operation goes on to write: the checks it makes after reading
\* d, with match[] as it is by then.
GoesOn(op, d, N, match) ==
    CASE op = "add" -> CanAdd(d, N)
      [] op = "join" -> N \subseteq match /\ d.rec # 0
      [] op = "start" -> N \subseteq match
      [] op = "lift" -> ~Blocked(d) /\ N \subseteq match /\ N \cap d.need # {}
      [] op = "remove" -> ~Blocked(d) /\ N \subseteq match /\ N \cap d.member # {}
      [] op \in {"enforce", "noenforce"} -> N \subseteq match

\* (A variant of the read half that makes none of the checks.)
MutRead(p) ==
    /\ call[p].pc = "read"
    /\ call' = [call EXCEPT ![p].pc = "write", ![p].snap = db, ![p].snapver = ver,
                            ![p].match = @ \cup (call[p].nodes \cap db.member)]
    /\ UNCHANGED <<db, ver, calls>>

\* The read half of an iteration.  A node that is no longer in the omap keeps
\* its match[] and its flags[] of an earlier iteration.
Read(p) ==
    LET c == call[p]
        match == c.match \cup (c.nodes \cap db.member)
        flagneed == (c.flagneed \ db.member) \cup (c.nodes \cap db.need)
    IN  /\ c.pc = "read"
        /\ call' = [call EXCEPT
             ![p] = [@ EXCEPT !.pc = IF GoesOn(c.op, db, c.nodes, match)
                                     THEN "write" ELSE "idle",
                              !.snap = db, !.snapver = ver, !.match = match,
                              !.flagneed = flagneed]]
        /\ UNCHANGED <<db, ver, calls>>

\* The content that is written.
NewContent(c) ==
    LET d == c.snap
        N == c.nodes
    IN  CASE c.op = "add" -> Add(d, N)
          [] c.op \in {"join", "start"} -> Join(d, N)
          [] c.op = "lift" -> Lift(d, N)
          [] c.op = "remove" -> Remove(d, N \cap d.member)
          [] c.op = "enforce" ->
               [Toggle(d, N, TRUE) EXCEPT !.need = @ \cup c.flagneed]
          [] c.op = "noenforce" ->
               [Toggle(d, N, FALSE) EXCEPT !.need = @ \cup c.flagneed]

\* (Variants: a write without the version assertion; a version that is only
\* bumped when the epochs are written.)
MutWrite(p) ==
    /\ call[p].pc = "write"
    /\ db' = NewContent(call[p])
    /\ ver' = ver + 1
    /\ call' = [call EXCEPT ![p].pc = "idle"]
    /\ UNCHANGED calls

MutWriteVersion(p) ==
    /\ call[p].pc = "write"
    /\ IF ver = call[p].snapver
       THEN /\ db' = NewContent(call[p])
            /\ ver' = IF db'.rec = db.rec THEN ver ELSE ver + 1
            /\ call' = [call EXCEPT ![p].pc = "idle"]
       ELSE /\ call' = [call EXCEPT ![p].pc = "read"]
            /\ UNCHANGED <<db, ver>>
    /\ UNCHANGED calls

\* The write half: it succeeds if the version is still the one read.
Write(p) ==
    /\ call[p].pc = "write"
    /\ IF ver = call[p].snapver
       THEN /\ db' = NewContent(call[p])
            /\ ver' = ver + 1
            /\ call' = [call EXCEPT ![p].pc = "idle"]
       ELSE /\ call' = [call EXCEPT ![p].pc = "read"]
            /\ UNCHANGED <<db, ver>>
    /\ UNCHANGED calls

\* The process dies between the read and the write.
Die(p) ==
    /\ call[p].pc # "idle"
    /\ call' = [call EXCEPT ![p].pc = "idle"]
    /\ UNCHANGED <<db, ver, calls>>

Next ==
    \E p \in Callers :
      \/ \E op \in Ops, N \in NodeSets : Begin(p, op, N)
      \/ Read(p) \/ Write(p) \/ Die(p)

Spec == Init /\ [][Next]_vars

----------------------------------------------------------------------------
\* The type invariant: the flags are kept of members only, although a write
\* is computed from what an earlier read returned.
TypeOK ==
    /\ db \in Contents /\ db.need \subseteq db.member
    /\ db.enforcing \subseteq db.member
    /\ ver \in Nat /\ calls \in 0..MaxCalls
    /\ call \in [Callers -> Call]

\* Concurrent read-modify-write cycles lose no update: what happens to the
\* object is what would happen if each operation were atomic.
ImplementsAtomic == AtomicSpec

\* A grace period is in force exactly as long as a member needs one
\* (rados_grace_join_bulk starts it, rados_grace_lift_bulk ends it with the
\* last NEED flag).
GraceIffNeeded == db.rec # 0 <=> db.need # {}

\* The epoch clients reclaim from is the one before the current one: no
\* epoch is skipped, whoever starts a grace period at the same time.
EpochsAdjacent == db.rec # 0 => db.rec = db.cur - 1

\* A caller whose version is still the object's has read the object's present
\* content, so the write that passes the version assertion overwrites nothing
\* it has not seen.
VersionsTell ==
    \A p \in Callers : /\ call[p].snapver <= ver
                       /\ call[p].snapver = ver => call[p].snap = db

\* As long as no node is removed, match[] and flags[] kept over a retry are as
\* good as fresh ones, and a caller that is about to write has passed the
\* checks of its operation.
RetriesSound ==
    \A p \in Callers :
      LET c == call[p] IN
      /\ c.pc # "idle" => /\ c.op \in Ops
                          /\ c.match \subseteq db.member
                          /\ c.flagneed \subseteq c.match
      /\ c.pc = "write" => /\ GoesOn(c.op, c.snap, c.nodes, c.match)
                           /\ c.match \subseteq c.snap.member
                           /\ c.flagneed \subseteq c.snap.need

\* The manual page on "remove": it lifts the grace period "if there are no
\* more hosts that need one".
LiftedWhenNoneNeeds == [][db.rec # 0 /\ db'.rec = 0 => db'.need = {}]_vars
============================================================================
