-------------------------- MODULE RadosGraceProofs --------------------------
(* Theorems about RadosGrace, for any nodes, callers and number of calls. *)
EXTENDS RadosGrace, TLAPS, FiniteSetTheorems

\* The shape of a content: flags are kept of members only.
WellFormed(d) ==
    d \in Contents /\ d.need \subseteq d.member /\ d.enforcing \subseteq d.member

\* Every operation makes a well-formed content of a well-formed one.
LEMMA OperationsWellFormed ==
    ASSUME NEW d, WellFormed(d), NEW N \in SUBSET Nodes
    PROVE  /\ WellFormed(Add(d, N)) /\ WellFormed(Join(d, N))
           /\ WellFormed(Lift(d, N)) /\ WellFormed(Remove(d, N))
           /\ \A on \in BOOLEAN : WellFormed(Toggle(d, N, on))
  <1>1. WellFormed(Add(d, N))
    BY Zenon DEF WellFormed, Contents, Add
  <1>2. WellFormed(NextEpoch(d)) /\ NextEpoch(d).member = d.member
    <2>1. CASE d.rec = 0
      <3>1. NextEpoch(d) = [d EXCEPT !.rec = d.cur, !.cur = @ + 1]
        BY <2>1 DEF NextEpoch
      <3>2. d.cur \in Nat \ {0} /\ d.cur + 1 \in Nat \ {0}
        BY DEF WellFormed, Contents
      <3> QED
        BY <3>1, <3>2, Zenon DEF WellFormed, Contents
    <2>2. CASE d.rec # 0
      BY <2>2 DEF WellFormed, NextEpoch
    <2> QED
      BY <2>1, <2>2
  <1>3. WellFormed(Join(d, N))
    BY <1>2, Zenon DEF WellFormed, Contents, Join
  <1>4. WellFormed(Lift(d, N))
    BY Zenon DEF WellFormed, Contents, Lift
  <1>5. WellFormed(Remove(d, N))
    BY Zenon DEF WellFormed, Contents, Remove
  <1>6. ASSUME NEW on \in BOOLEAN PROVE WellFormed(Toggle(d, N, on))
    BY Zenon DEF WellFormed, Contents, Toggle
  <1> QED
    BY <1>1, <1>3, <1>4, <1>5, <1>6

\* What a caller writes is well formed if what it read was.
LEMMA NewContentWellFormed ==
    ASSUME NEW c \in Call, WellFormed(c.snap), c.flagneed \subseteq c.nodes
    PROVE  WellFormed(NewContent(c))
  <1> c.nodes \in SUBSET Nodes /\ c.op \in AllOps
    BY DEF Call, NodeSets
  <1>1. CASE c.op = "add"
    BY <1>1, OperationsWellFormed DEF NewContent
  <1>2. CASE c.op \in {"join", "start"}
    BY <1>2, OperationsWellFormed DEF NewContent
  <1>3. CASE c.op = "lift"
    BY <1>3, OperationsWellFormed DEF NewContent
  <1>4. CASE c.op = "remove"
    <2>1. c.nodes \cap c.snap.member \in SUBSET Nodes
      OBVIOUS
    <2> QED
      BY <1>4, <2>1, OperationsWellFormed DEF NewContent
  <1>5. ASSUME NEW on \in BOOLEAN
        PROVE  WellFormed([Toggle(c.snap, c.nodes, on)
                             EXCEPT !.need = @ \cup c.flagneed])
    BY Zenon DEF WellFormed, Contents, Toggle
  <1>6. CASE c.op = "enforce"
    BY <1>5, <1>6, Zenon DEF NewContent
  <1>7. CASE c.op = "noenforce"
    BY <1>5, <1>7, Zenon DEF NewContent
  <1> QED
    BY <1>1, <1>2, <1>3, <1>4, <1>6, <1>7 DEF AllOps

\* The type invariant with what makes it inductive: a caller's snapshot is
\* well formed, and flags[] are those of nodes it was called with.
CallsTyped ==
    \A p \in Callers : /\ WellFormed(call[p].snap)
                       /\ call[p].flagneed \subseteq call[p].nodes
TypeInv == TypeOK /\ CallsTyped

\* The updates that Begin and Read make of a call keep it one.
LEMMA CallUpdates ==
    ASSUME NEW c \in Call
    PROVE  /\ \A op \in AllOps, N \in NodeSets :
                [c EXCEPT !.pc = "read", !.op = op, !.nodes = N,
                          !.match = {}, !.flagneed = {}] \in Call
           /\ \A l \in {"idle", "read", "write"}, s \in Contents, v \in Nat,
                 m \in SUBSET Nodes, f \in SUBSET Nodes :
                [c EXCEPT !.pc = l, !.snap = s, !.snapver = v, !.match = m,
                          !.flagneed = f] \in Call
  BY Zenon DEF Call

\* The initial database and calls are typed.
LEMMA TypeInit == Init => TypeInv
  <1> SUFFICES ASSUME Init PROVE TypeInv
    OBVIOUS
  <1> USE NodesAssumption, RadosAssumption
  <1>1. WellFormed(Created)
    BY DEF WellFormed, Contents, Created
  <1>2. call \in [Callers -> Call]
    BY <1>1 DEF Init, Call, NodeSets, AllOps, WellFormed
  <1>3. CallsTyped
    BY <1>1 DEF Init, CallsTyped
  <1> QED
    BY <1>1, <1>2, <1>3 DEF Init, TypeInv, TypeOK, WellFormed

\* Every step keeps the database and the calls typed.
LEMMA TypeStep == TypeInv /\ [Next]_vars => TypeInv'
  <1> SUFFICES ASSUME TypeInv, [Next]_vars PROVE TypeInv'
    OBVIOUS
  <1> USE NodesAssumption, RadosAssumption
  <1>0. WellFormed(db)
    BY DEF TypeInv, TypeOK, WellFormed
  <1>1. ASSUME NEW p \in Callers, NEW op \in Ops, NEW N \in NodeSets, Begin(p, op, N)
        PROVE  TypeInv'
    <2>1. call' \in [Callers -> Call]
      BY <1>1, CallUpdates, Zenon DEF Begin, TypeInv, TypeOK
    <2>2. ASSUME NEW q \in Callers
          PROVE  WellFormed(call[q].snap)' /\ (call[q].flagneed \subseteq call[q].nodes)'
      <3>1. call'[q].snap = call[q].snap
        BY <1>1 DEF Begin, TypeInv, TypeOK, Call
      <3>2. q # p => call'[q] = call[q]
        BY <1>1 DEF Begin, TypeInv, TypeOK
      <3>3. call'[p].flagneed = {}
        BY <1>1 DEF Begin, TypeInv, TypeOK, Call
      <3> QED
        BY <3>1, <3>2, <3>3 DEF TypeInv, CallsTyped, WellFormed
    <2> QED
      BY <1>1, <2>1, <2>2 DEF Begin, TypeInv, TypeOK, CallsTyped
  <1>2. ASSUME NEW p \in Callers, Read(p)
        PROVE  TypeInv'
    <2>1. call' \in [Callers -> Call]
      <3> DEFINE m == call[p].match \cup (call[p].nodes \cap db.member)
                 f == (call[p].flagneed \ db.member) \cup (call[p].nodes \cap db.need)
                 l == IF GoesOn(call[p].op, db, call[p].nodes, m) THEN "write" ELSE "idle"
      <3>1. call[p] \in Call /\ db \in Contents /\ ver \in Nat
        BY DEF TypeInv, TypeOK
      <3>2. m \in SUBSET Nodes /\ f \in SUBSET Nodes /\ l \in {"idle", "read", "write"}
        BY <3>1 DEF Call, NodeSets, Contents
      <3>3. call' = [call EXCEPT ![p] =
                       [@ EXCEPT !.pc = l, !.snap = db, !.snapver = ver,
                                 !.match = m, !.flagneed = f]]
        BY <1>2 DEF Read
      <3> HIDE DEF m, f, l
      <3>4. [call[p] EXCEPT !.pc = l, !.snap = db, !.snapver = ver,
                            !.match = m, !.flagneed = f] \in Call
        BY <3>1, <3>2, CallUpdates, Zenon
      <3> QED
        BY <3>3, <3>4 DEF TypeInv, TypeOK
    <2>2. ASSUME NEW q \in Callers
          PROVE  WellFormed(call[q].snap)' /\ (call[q].flagneed \subseteq call[q].nodes)'
      <3>1. q # p => call'[q] = call[q]
        BY <1>2 DEF Read, TypeInv, TypeOK
      <3>2. call'[p].snap = db /\ call'[p].nodes = call[p].nodes
        BY <1>2 DEF Read, TypeInv, TypeOK, Call
      <3>3. call'[p].flagneed =
               (call[p].flagneed \ db.member) \cup (call[p].nodes \cap db.need)
        BY <1>2 DEF Read, TypeInv, TypeOK, Call
      <3> QED
        BY <1>0, <3>1, <3>2, <3>3 DEF TypeInv, CallsTyped, WellFormed
    <2> QED
      BY <1>2, <2>1, <2>2 DEF Read, TypeInv, TypeOK, CallsTyped
  <1>3. ASSUME NEW p \in Callers, Write(p)
        PROVE  TypeInv'
    <2>1. call' \in [Callers -> Call] /\ CallsTyped'
      BY <1>3 DEF Write, TypeInv, TypeOK, CallsTyped, Call
    <2>2. WellFormed(NewContent(call[p]))
      BY NewContentWellFormed DEF TypeInv, TypeOK, CallsTyped
    <2>3. WellFormed(db')
      BY <1>0, <1>3, <2>2 DEF Write
    <2> QED
      BY <1>3, <2>1, <2>3 DEF Write, TypeInv, TypeOK, WellFormed
  <1>4. ASSUME NEW p \in Callers, Die(p)
        PROVE  TypeInv'
    BY <1>4 DEF Die, TypeInv, TypeOK, CallsTyped, Call
  <1>5. CASE UNCHANGED vars
    BY <1>5 DEF vars, TypeInv, TypeOK, CallsTyped
  <1> QED
    BY <1>1, <1>2, <1>3, <1>4, <1>5 DEF Next

\* The object and the calls keep their shape (rados_grace.c never writes flags
\* of a node without a key), for any number of nodes, callers and calls.
THEOREM TypeCorrect == Spec => []TypeOK
  <1>1. Spec => []TypeInv
    BY TypeInit, TypeStep, PTL DEF Spec
  <1> QED
    BY <1>1, PTL DEF TypeInv

----------------------------------------------------------------------------
\* How the steps change the parts of a call that VersionsTell looks at.
LEMMA SnapSteps ==
    ASSUME TypeInv, Next, NEW q \in Callers
    PROVE  \/ /\ db' = db /\ ver' = ver
              /\ \/ call'[q].snap = call[q].snap /\ call'[q].snapver = call[q].snapver
                 \/ call'[q].snap = db /\ call'[q].snapver = ver
           \/ /\ ver' = ver + 1
              /\ call'[q].snap = call[q].snap /\ call'[q].snapver = call[q].snapver
  <1>1. ASSUME NEW p \in Callers, NEW op \in Ops, NEW N \in NodeSets, Begin(p, op, N)
        PROVE  /\ db' = db /\ ver' = ver
               /\ call'[q].snap = call[q].snap /\ call'[q].snapver = call[q].snapver
    BY <1>1 DEF Begin, TypeInv, TypeOK, Call
  <1>2. ASSUME NEW p \in Callers, Read(p)
        PROVE  /\ db' = db /\ ver' = ver
               /\ \/ call'[q].snap = call[q].snap /\ call'[q].snapver = call[q].snapver
                  \/ call'[q].snap = db /\ call'[q].snapver = ver
    <2>1. CASE q = p
      BY <1>2, <2>1 DEF Read, TypeInv, TypeOK, Call
    <2>2. CASE q # p
      BY <1>2, <2>2 DEF Read, TypeInv, TypeOK
    <2> QED
      BY <2>1, <2>2
  <1>3. ASSUME NEW p \in Callers, Write(p)
        PROVE  /\ (db' = db /\ ver' = ver) \/ ver' = ver + 1
               /\ call'[q].snap = call[q].snap /\ call'[q].snapver = call[q].snapver
    BY <1>3 DEF Write, TypeInv, TypeOK, Call
  <1>4. ASSUME NEW p \in Callers, Die(p)
        PROVE  /\ db' = db /\ ver' = ver
               /\ call'[q].snap = call[q].snap /\ call'[q].snapver = call[q].snapver
    BY <1>4 DEF Die, TypeInv, TypeOK, Call
  <1> QED
    BY <1>1, <1>2, <1>3, <1>4 DEF Next

\* The version assertion of a write succeeds only on the content the caller
\* has read.
THEOREM VersionsCorrect == Spec => []VersionsTell
  <1>1. Init => VersionsTell
    BY DEF Init, VersionsTell
  <1>2. TypeInv /\ VersionsTell /\ [Next]_vars => VersionsTell'
    <2> SUFFICES ASSUME TypeInv, VersionsTell, [Next]_vars PROVE VersionsTell'
      OBVIOUS
    <2>1. CASE UNCHANGED vars
      BY <2>1 DEF vars, VersionsTell
    <2>2. CASE Next
      <3> SUFFICES ASSUME NEW q \in Callers
                   PROVE  (call[q].snapver <= ver)'
                          /\ (call[q].snapver = ver => call[q].snap = db)'
        BY DEF VersionsTell
      <3>1. call[q].snapver \in Nat /\ ver \in Nat
        BY DEF TypeInv, TypeOK, Call
      <3> QED
        BY <2>2, <3>1, SnapSteps DEF VersionsTell
    <2> QED
      BY <2>1, <2>2
  <1>3. Spec => []TypeInv
    BY TypeInit, TypeStep, PTL DEF Spec
  <1> QED
    BY <1>1, <1>2, <1>3, PTL DEF Spec

\* An operation makes adjacent epochs of adjacent epochs.
LEMMA OperationsAdjacent ==
    ASSUME NEW c \in Call, c.snap.rec # 0 => c.snap.rec = c.snap.cur - 1
    PROVE  NewContent(c).rec # 0 => NewContent(c).rec = NewContent(c).cur - 1
  <1> c.snap \in Contents /\ c.op \in AllOps
    BY DEF Call
  <1>1. CASE c.op \in {"add", "enforce", "noenforce"}
    <2>1. NewContent(c).rec = c.snap.rec /\ NewContent(c).cur = c.snap.cur
      BY <1>1 DEF NewContent, Add, Toggle, Contents
    <2> QED
      BY <2>1
  <1>2. CASE c.op \in {"join", "start"}
    <2>1. NewContent(c).rec = NextEpoch(c.snap).rec
          /\ NewContent(c).cur = NextEpoch(c.snap).cur
      BY <1>2, Zenon DEF NewContent, Join, NextEpoch, Contents
    <2>2. CASE c.snap.rec = 0
      <3>1. NextEpoch(c.snap).rec = c.snap.cur /\ NextEpoch(c.snap).cur = c.snap.cur + 1
        BY <2>2 DEF NextEpoch, Contents
      <3> QED
        BY <2>1, <3>1 DEF Contents
    <2>3. CASE c.snap.rec # 0
      BY <2>1, <2>3 DEF NextEpoch
    <2> QED
      BY <2>2, <2>3
  <1>3. CASE c.op \in {"lift", "remove"}
    <2>1. NewContent(c).rec \in {0, c.snap.rec} /\ NewContent(c).cur = c.snap.cur
      BY <1>3, Zenon DEF NewContent, Lift, Remove, Contents
    <2> QED
      BY <2>1
  <1> QED
    BY <1>1, <1>2, <1>3 DEF AllOps

\* Whoever starts grace periods, and however their calls interleave, clients
\* reclaim from the epoch before the current one.
THEOREM EpochsCorrect == Spec => []EpochsAdjacent
  <1> DEFINE Inv == /\ EpochsAdjacent
                    /\ \A q \in Callers : call[q].snap.rec # 0
                          => call[q].snap.rec = call[q].snap.cur - 1
  <1>1. Init => Inv
    BY DEF Init, EpochsAdjacent, Created
  <1>2. TypeInv /\ Inv /\ [Next]_vars => Inv'
    <2> SUFFICES ASSUME TypeInv, Inv, [Next]_vars PROVE Inv'
      OBVIOUS
    <2>1. CASE UNCHANGED vars
      BY <2>1 DEF vars, EpochsAdjacent
    <2>2. CASE Next
      <3>1. ASSUME NEW q \in Callers
            PROVE  call'[q].snap.rec # 0 => call'[q].snap.rec = call'[q].snap.cur - 1
        BY <2>2, SnapSteps DEF EpochsAdjacent
      <3>2. EpochsAdjacent'
        <4>1. ASSUME NEW p \in Callers, Write(p) PROVE EpochsAdjacent'
          <5>1. call[p] \in Call
            BY DEF TypeInv, TypeOK
          <5>2. db' = db \/ db' = NewContent(call[p])
            BY <4>1 DEF Write
          <5> QED
            BY <5>1, <5>2, OperationsAdjacent DEF EpochsAdjacent
        <4>2. (\A p \in Callers : ~Write(p)) => db' = db
          BY <2>2, Zenon DEF Next, Begin, Read, Die
        <4> QED
          BY <4>1, <4>2 DEF EpochsAdjacent
      <3> QED
        BY <3>1, <3>2
    <2> QED
      BY <2>1, <2>2
  <1>3. Spec => []TypeInv
    BY TypeInit, TypeStep, PTL DEF Spec
  <1> QED
    BY <1>1, <1>2, <1>3, PTL DEF Spec

----------------------------------------------------------------------------
\* What follows is about clusters in which no node is removed while others
\* use the object.
NoRemove == "remove" \notin Ops

\* The fields of a call after each kind of step.
LEMMA BeginFields ==
    ASSUME TypeInv, NEW p \in Callers, NEW op \in Ops, NEW N \in NodeSets,
           Begin(p, op, N)
    PROVE  /\ call'[p].pc = "read" /\ call'[p].op = op /\ call'[p].match = {}
           /\ call'[p].flagneed = {} /\ db' = db
           /\ \A q \in Callers \ {p} : call'[q] = call[q]
  BY DEF Begin, TypeInv, TypeOK, Call

\* What the read of a call changes.
LEMMA ReadFields ==
    ASSUME TypeInv, NEW p \in Callers, Read(p)
    PROVE  /\ call[p].pc = "read"
           /\ call'[p].op = call[p].op /\ call'[p].nodes = call[p].nodes
           /\ call'[p].match = call[p].match \cup (call[p].nodes \cap db.member)
           /\ call'[p].flagneed =
                (call[p].flagneed \ db.member) \cup (call[p].nodes \cap db.need)
           /\ call'[p].snap = db /\ db' = db
           /\ call'[p].pc = "write" =>
                GoesOn(call[p].op, db, call[p].nodes, call'[p].match)
           /\ \A q \in Callers \ {p} : call'[q] = call[q]
  BY DEF Read, TypeInv, TypeOK, Call

\* What the write of a call, or its death, changes.
LEMMA WriteFields ==
    ASSUME TypeInv, NEW p \in Callers, Write(p) \/ Die(p)
    PROVE  /\ call'[p].pc \in {"idle", "read"}
           /\ call'[p].pc = "read" => call[p].pc = "write"
           /\ call'[p].op = call[p].op /\ call'[p].match = call[p].match
           /\ call'[p].flagneed = call[p].flagneed
           /\ \A q \in Callers \ {p} : call'[q] = call[q]
  BY DEF Write, Die, TypeInv, TypeOK, Call

\* RetriesSound for one call.
RetrySound(c) ==
    /\ c.pc # "idle" => /\ c.op \in Ops
                        /\ c.match \subseteq db.member
                        /\ c.flagneed \subseteq c.match
    /\ c.pc = "write" => /\ GoesOn(c.op, c.snap, c.nodes, c.match)
                         /\ c.match \subseteq c.snap.member
                         /\ c.flagneed \subseteq c.snap.need

\* Without "remove" no write takes a member away.
LEMMA MembersGrow ==
    ASSUME TypeInv, VersionsTell, RetriesSound, NoRemove,
           NEW p \in Callers, Write(p)
    PROVE  db.member \subseteq db'.member
  <1> DEFINE c == call[p]
  <1>1. c \in Call /\ c.op \in Ops /\ c.op \in AllOps /\ c.op # "remove"
    BY RadosAssumption DEF TypeInv, TypeOK, RetriesSound, Write, NoRemove
  <1>2. db' = db \/ (c.snap = db /\ db' = NewContent(c))
    BY DEF Write, VersionsTell
  <1>3. c.snap \in Contents
    BY <1>1 DEF Call
  <1> HIDE DEF c
  <1>4. c.snap.member \subseteq NewContent(c).member
    <2>1. CASE c.op \in {"add", "lift", "enforce", "noenforce"}
      BY <1>3, <2>1 DEF NewContent, Add, Lift, Toggle, Contents
    <2>2. CASE c.op \in {"join", "start"}
      BY <1>3, <2>2, Zenon DEF NewContent, Join, NextEpoch, Contents
    <2> QED
      BY <1>1, <2>1, <2>2 DEF AllOps
  <1> QED
    BY <1>2, <1>4

\* Every step keeps what a call has gathered over its retries sound.
LEMMA RetriesStep ==
    ASSUME TypeInv, VersionsTell, RetriesSound, NoRemove, [Next]_vars
    PROVE  RetriesSound'
  <1>0. \A q \in Callers : RetrySound(call[q])
    BY DEF RetriesSound, RetrySound
  <1> SUFFICES ASSUME NEW q \in Callers PROVE RetrySound(call[q])'
    BY DEF RetriesSound, RetrySound
  <1>1. ASSUME NEW p \in Callers, NEW op \in Ops, NEW N \in NodeSets, Begin(p, op, N)
        PROVE  RetrySound(call[q])'
    <2>1. CASE q = p
      BY <1>1, <2>1, BeginFields DEF RetrySound
    <2>2. CASE q # p
      BY <1>0, <1>1, <2>2, BeginFields DEF RetrySound
    <2> QED
      BY <2>1, <2>2
  <1>2. ASSUME NEW p \in Callers, Read(p)
        PROVE  RetrySound(call[q])'
    <2>1. CASE q = p
      <3>1. call[p].match \subseteq db.member /\ call[p].flagneed \subseteq call[p].match
            /\ call[p].op \in Ops
        BY <1>0, <1>2, ReadFields DEF RetrySound
      <3>2. call'[p].match \subseteq db.member
        BY <1>2, <3>1, ReadFields
      <3>3. call'[p].flagneed \subseteq db.need /\ call'[p].flagneed \subseteq call'[p].match
        <4>1. db.need \subseteq db.member
          BY DEF TypeInv, TypeOK
        <4>2. call'[p].flagneed = call[p].nodes \cap db.need
          BY <1>2, <3>1, ReadFields
        <4> QED
          BY <1>2, <4>1, <4>2, ReadFields
      <3> QED
        BY <1>2, <2>1, <3>1, <3>2, <3>3, ReadFields DEF RetrySound
    <2>2. CASE q # p
      BY <1>0, <1>2, <2>2, ReadFields DEF RetrySound
    <2> QED
      BY <2>1, <2>2
  <1>3. ASSUME NEW p \in Callers, Write(p) \/ Die(p)
        PROVE  RetrySound(call[q])'
    <2>1. db.member \subseteq db'.member
      BY <1>3, MembersGrow DEF Die
    <2>2. CASE q = p
      BY <1>0, <1>3, <2>1, <2>2, WriteFields DEF RetrySound
    <2>3. CASE q # p
      BY <1>0, <1>3, <2>1, <2>3, WriteFields DEF RetrySound
    <2> QED
      BY <2>2, <2>3
  <1>4. CASE UNCHANGED vars
    BY <1>0, <1>4 DEF vars, RetrySound
  <1> QED
    BY <1>1, <1>2, <1>3, <1>4 DEF Next

\* If no node is removed, the arrays kept over a retry are as good as fresh.
THEOREM RetriesCorrect ==
    ASSUME NoRemove
    PROVE  Spec => []RetriesSound
  <1>1. Init => RetriesSound
    BY DEF Init, RetriesSound
  <1>2. TypeInv /\ VersionsTell /\ RetriesSound /\ [Next]_vars => RetriesSound'
    BY RetriesStep
  <1>3. Spec => []TypeInv
    BY TypeInit, TypeStep, PTL DEF Spec
  <1> QED
    BY <1>1, <1>2, <1>3, VersionsCorrect, PTL DEF Spec

----------------------------------------------------------------------------
\* The steps of the atomic specification other than a removal.
KeepStep(N) ==
    \/ CanAdd(db, N) /\ db' = Add(db, N)
    \/ \E start \in BOOLEAN : CanJoin(db, N, start) /\ db' = Join(db, N)
    \/ CanLift(db, N) /\ db' = Lift(db, N)
    \/ \E on \in BOOLEAN : CanToggle(db, N) /\ db' = Toggle(db, N, on)

\* A write that takes effect is one of them.
LEMMA WriteIsAtomic ==
    ASSUME TypeInv, VersionsTell, RetriesSound, NoRemove,
           NEW p \in Callers, Write(p), db' # db
    PROVE  KeepStep(call[p].nodes)
  <1> DEFINE c == call[p]
             N == c.nodes
  <1>1. c \in Call /\ c.op \in AllOps /\ c.op # "remove" /\ c.snap \in Contents
        /\ c.snap = db
    BY RadosAssumption
    DEF TypeInv, TypeOK, RetriesSound, Write, NoRemove, Call, VersionsTell
  <1>2. db' = NewContent(c)
    BY DEF Write
  <1>3. GoesOn(c.op, db, N, c.match) /\ c.match \subseteq db.member
        /\ c.flagneed \subseteq db.need
    BY <1>1 DEF RetriesSound, Write
  <1> HIDE DEF c
  <1> SUFFICES KeepStep(N)
    BY DEF c
  <1>4. CASE c.op = "add"
    <2>1. db' = Add(db, N) /\ CanAdd(db, N)
      BY <1>1, <1>2, <1>3, <1>4 DEF NewContent, GoesOn
    <2> QED
      BY <2>1 DEF KeepStep
  <1>5. CASE c.op \in {"join", "start"}
    <2>1. db' = Join(db, N) /\ \E start \in BOOLEAN : CanJoin(db, N, start)
      BY <1>1, <1>2, <1>3, <1>5, Zenon DEF NewContent, GoesOn, CanJoin
    <2> QED
      BY <2>1 DEF KeepStep
  <1>6. CASE c.op = "lift"
    <2>1. db' = Lift(db, N) /\ CanLift(db, N)
      BY <1>1, <1>2, <1>3, <1>6 DEF NewContent, GoesOn, CanLift
    <2> QED
      BY <2>1 DEF KeepStep
  <1>7. ASSUME NEW on \in BOOLEAN
        PROVE  [Toggle(db, N, on) EXCEPT !.need = @ \cup c.flagneed] = Toggle(db, N, on)
    <2>1. db.need \cup c.flagneed = db.need
      BY <1>3
    <2>2. db \in Contents
      BY <1>1
    <2> QED
      BY <2>1, <2>2, Zenon DEF Toggle, Contents
  <1>8. CASE c.op \in {"enforce", "noenforce"}
    <2>1. /\ \E on \in BOOLEAN : db' = Toggle(db, N, on)
          /\ CanToggle(db, N)
      BY <1>1, <1>2, <1>3, <1>7, <1>8, Zenon DEF NewContent, GoesOn, CanToggle
    <2> QED
      BY <2>1 DEF KeepStep
  <1> QED
    BY <1>1, <1>4, <1>5, <1>6, <1>8 DEF AllOps

\* If no node is removed, the retry loops of rados_grace.c are as good as
\* atomic operations on the grace object: no update is lost or made twice,
\* and none rests on a check that no longer holds.
THEOREM Refinement ==
    ASSUME NoRemove
    PROVE  Spec => ImplementsAtomic
  <1>1. Init => AtomicInit
    BY DEF Init, AtomicInit
  <1>2. TypeInv /\ VersionsTell /\ RetriesSound /\ [Next]_vars
          => [AtomicNext]_db
    <2> SUFFICES ASSUME TypeInv, VersionsTell, RetriesSound, [Next]_vars, db' # db
                 PROVE  AtomicNext
      OBVIOUS
    <2>1. PICK p \in Callers : Write(p)
      BY Zenon DEF Next, Begin, Read, Die, vars
    <2>2. call[p].nodes \in (SUBSET Nodes) \ {{}}
      BY DEF TypeInv, TypeOK, Call, NodeSets
    <2> QED
      BY <2>1, <2>2, WriteIsAtomic DEF AtomicNext, AtomicStep, KeepStep
  <1>3. Spec => []TypeInv
    BY TypeInit, TypeStep, PTL DEF Spec
  <1> QED
    BY <1>1, <1>2, <1>3, VersionsCorrect, RetriesCorrect, PTL
    DEF Spec, ImplementsAtomic, AtomicSpec

\* The comparison of counts in rados_grace_lift_bulk finds the last NEED flag.
LEMMA LiftsWithLast ==
    ASSUME NEW d \in Contents, NEW N \in SUBSET Nodes
    PROVE  (Cardinality(d.need) = Cardinality(d.need \cap N)) <=> d.need \subseteq N
  <1>1. IsFiniteSet(d.need) /\ d.need \cap N \subseteq d.need
    BY NodesAssumption, FS_Subset DEF Contents
  <1>2. ASSUME d.need \cap N # d.need
        PROVE  Cardinality(d.need \cap N) # Cardinality(d.need)
    BY <1>1, <1>2, FS_Subset, FS_CardinalityType
  <1> QED
    BY <1>2

\* If no node is removed, a grace period is in force exactly while a node
\* needs one: it neither ends under a node that is recovering nor outlives the
\* last one.
THEOREM NeedCorrect ==
    ASSUME NoRemove
    PROVE  Spec => []GraceIffNeeded
  <1>1. Init => GraceIffNeeded
    BY DEF Init, GraceIffNeeded, Created
  <1>2. TypeInv /\ VersionsTell /\ RetriesSound /\ GraceIffNeeded /\ [Next]_vars
          => GraceIffNeeded'
    <2> SUFFICES ASSUME TypeInv, VersionsTell, RetriesSound, GraceIffNeeded,
                        [Next]_vars, db' # db
                 PROVE  GraceIffNeeded'
      BY DEF GraceIffNeeded
    <2>1. PICK p \in Callers : Write(p)
      BY Zenon DEF Next, Begin, Read, Die, vars
    <2> DEFINE N == call[p].nodes
    <2>2. N \in SUBSET Nodes /\ N # {} /\ db \in Contents
      BY DEF TypeInv, TypeOK, Call, NodeSets
    <2>3. KeepStep(N)
      BY <2>1, WriteIsAtomic
    <2> HIDE DEF N
    <2>4. CASE db' = Add(db, N) \/ \E on \in BOOLEAN : db' = Toggle(db, N, on)
      BY <2>2, <2>4, Zenon DEF Add, Toggle, Contents, GraceIffNeeded
    <2>5. CASE db' = Join(db, N)
      <3>1. db'.need = db.need \cup N
        BY <2>2, <2>5 DEF Join, NextEpoch, Contents
      <3>2. db'.rec # 0
        BY <2>2, <2>5 DEF Join, NextEpoch, Contents
      <3> QED
        BY <2>2, <3>1, <3>2 DEF GraceIffNeeded
    <2>6. CASE CanLift(db, N) /\ db' = Lift(db, N)
      <3>1. db'.need = db.need \ N
        BY <2>2, <2>6 DEF Lift, Contents
      <3>2. db'.rec = IF db.need \subseteq N THEN 0 ELSE db.rec
        BY <2>2, <2>6, LiftsWithLast DEF Lift, Contents
      <3>3. db.rec # 0
        BY <2>6 DEF GraceIffNeeded, CanLift
      <3> QED
        BY <3>1, <3>2, <3>3 DEF GraceIffNeeded
    <2> QED
      BY <2>3, <2>4, <2>5, <2>6 DEF KeepStep
  <1>3. Spec => []TypeInv
    BY TypeInit, TypeStep, PTL DEF Spec
  <1> QED
    BY <1>1, <1>2, <1>3, VersionsCorrect, RetriesCorrect, PTL DEF Spec
============================================================================
