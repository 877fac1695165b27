------------------------- MODULE ClusterGraceProofs -------------------------
(***************************************************************************)
(* Proofs about ClusterGrace, for all sets of servers and clients and any  *)
(* number of epochs and crashes: the types, ReclaimsExclusiveButAstray,    *)
(* Recoverable and RecordsExact.                                           *)
(***************************************************************************)
EXTENDS ClusterGrace, FiniteSetTheorems, TLAPS

\* The prover of the leaves that name no other.
USE ZenonT(30)


-----------------------------------------------------------------------------
(***************************************************************************)
(* The inductive invariant                                                 *)
(***************************************************************************)
Up == {"wait", "serving", "stopping"}
Joined == {"create", "read"} \cup Up

\* The object: a period is in force exactly while a member needs it, and
\* clients reclaim from the epoch before the current one.
ObjectInv ==
    /\ db.member = Nodes
    /\ db.rec # 0 <=> db.need # {}
    /\ db.rec # 0 => db.cur = db.rec + 1

\* What a server has at each point of its life.
Shape(n) ==
    /\ srv[n].main = "down" => srv[n].status = "normal"
    /\ srv[n].main \in {"enforce", "join", "create", "read"} =>
         srv[n].status = "grace"
    /\ srv[n].main \notin {"serving", "stopping"} =>
         srv[n].confirmed = {} /\ srv[n].removing = {}
    /\ srv[n].main \in Joined => srv[n].recov # 0
    /\ srv[n].old # 0 => srv[n].old < srv[n].recov
    /\ srv[n].reaper # "idle" => srv[n].main \in {"wait", "serving"}
    /\ srv[n].reaper \in {"snapped", "start", "flag"} => srv[n].main = "serving"
    /\ srv[n].reaper \in {"snapped", "start"} => ~Active(n)
    /\ srv[n].reaper = "flag" => srv[n].status = "grace"
    /\ srv[n].reaper \in {"ending", "removing"} => srv[n].status = "closing"
    /\ srv[n].adding \subseteq srv[n].confirmed
    /\ srv[n].removing \cap srv[n].confirmed = {}
    /\ srv[n].destroying \subseteq srv[n].confirmed \ srv[n].adding
    /\ srv[n].held \subseteq
         srv[n].confirmed \ (srv[n].adding \cup srv[n].destroying)
    /\ srv[n].allow \subseteq
         (srv[n].confirmed \ (srv[n].adding \cup srv[n].destroying)) \cap srv[n].clids

\* Its flags.  A server with NEED is in grace and recovers into the current
\* epoch; one that enforces is in grace, and one in grace enforces unless it
\* is about to report it, or has just withdrawn it.
Flags(n) ==
    /\ srv[n].main \in {"create", "read"} => n \in db.need
    /\ n \in db.need /\ srv[n].main \in Joined =>
         /\ Active(n) /\ srv[n].reaper = "idle"
         /\ srv[n].recov = db.cur /\ srv[n].old = db.rec
    /\ Active(n) /\ srv[n].main # "enforce" /\ srv[n].reaper \in {"idle", "ending"}
         => n \in db.enforcing
    /\ srv[n].main \in Up /\ (Active(n) => srv[n].reaper \in {"flag", "removing"})
         => n \notin db.enforcing

\* The epochs a server has in hand.  While it enters a period the period
\* cannot end; one that ends a period is overtaken by the next, and if it still
\* seems to enforce it is astray.
Epoch(n) ==
    /\ srv[n].reaper \in {"snapped", "start", "flag"} =>
         db.rec # 0 /\ srv[n].recov = db.cur
    /\ srv[n].reaper \in {"ending", "removing"} /\ db.rec # 0 =>
         srv[n].recov < db.cur
    /\ srv[n].reaper = "ending" /\ db.rec # 0 => n \in astray
    /\ srv[n].main \in Up /\ n \notin astray =>
         \/ srv[n].recov = db.cur
         \/ srv[n].recov = db.rec /\ n \notin db.enforcing

\* Who is open to change, and not to be looked for in a database.
Open(n) ==
    srv[n].adding \cup srv[n].removing \cup srv[n].destroying \cup exempt[n]

\* What a server has recorded: a database that is new is empty, one that is in
\* use exact, also once a client that is being destroyed has left the table;
\* what it read at boot is still there while it needs it.
Recorded(n) ==
    /\ srv[n].main \in {"read", "wait"} => records[srv[n].recov][n] = {}
    /\ srv[n].main = "serving" /\ srv[n].reaper # "snapped" =>
         records[srv[n].recov][n] \ Open(n) = srv[n].confirmed \ Open(n)
    /\ srv[n].reaper = "snapped" =>
         /\ srv[n].snap \ Open(n) = srv[n].confirmed \ Open(n)
         /\ srv[n].destroying \subseteq exempt[n]
    /\ srv[n].main = "serving" =>
         records[srv[n].recov][n] \cap srv[n].destroying \subseteq exempt[n]
    /\ n \in db.need /\ srv[n].main \in Up =>
         srv[n].clids \subseteq records[db.rec][n]

\* Whom a server owes recovery.  Outside grace the confirmed clients are in the
\* database of the period that has begun elsewhere; a server that enforces and
\* has nobody to recover has its clients in the new one as well.
Promise(n) ==
    /\ srv[n].main \in Joined /\ n \notin db.need => owed[n] = {}
    /\ n \notin astray =>
         (srv[n].held \cup owed[n]) \ exempt[n] \subseteq records[Canonical][n]
    /\ n \notin astray /\ db.rec # 0 /\ srv[n].main = "serving" /\ ~Active(n) =>
         (srv[n].confirmed \ (srv[n].adding \cup srv[n].destroying)) \ exempt[n]
           \subseteq records[db.rec][n]
    /\ db.rec # 0 /\ n \in db.enforcing \ (astray \cup half \cup db.need) =>
         (srv[n].held \cup owed[n]) \ exempt[n] \subseteq records[db.cur][n]

\* While a server admits reclaims all others enforce, but for those astray.
Exclusive ==
    \A n, m \in Nodes : Recovering(n) /\ m \notin astray => m \in db.enforcing

\* The inductive invariant.
NodeInv(n) == Shape(n) /\ Flags(n) /\ Epoch(n) /\ Recorded(n) /\ Promise(n)
IInv == TypeOK /\ ObjectInv /\ (\A n \in Nodes : NodeInv(n)) /\ Exclusive
-----------------------------------------------------------------------------
(***************************************************************************)
(* What the operations on the object do to it, as ObjectInv has it         *)
(***************************************************************************)

\* rados_grace_join_bulk of one server begins an epoch unless a grace period
\* is in force, and sets both flags of the server.
LEMMA JoinFields ==
  ASSUME TypeOK, ObjectInv, NEW n \in Nodes
  PROVE  LET d == Join(db, {n})
         IN  /\ d.member = Nodes /\ d.need = db.need \cup {n}
             /\ d.enforcing = db.enforcing \cup {n}
             /\ db.rec # 0 => d.rec = db.rec /\ d.cur = db.cur
             /\ db.rec = 0 => d.rec = db.cur /\ d.cur = db.cur + 1
             /\ d \in [cur : Nat, rec : Nat, member : SUBSET Nodes,
                       need : SUBSET Nodes, enforcing : SUBSET Nodes]
<1> DEFINE e == NextEpoch(db)
           R == [cur : Nat, rec : Nat, member : SUBSET Nodes,
                 need : SUBSET Nodes, enforcing : SUBSET Nodes]
<1>1. /\ e \in R /\ e.member = Nodes /\ e.need = db.need
      /\ e.enforcing = db.enforcing
      /\ db.rec # 0 => e.rec = db.rec /\ e.cur = db.cur
      /\ db.rec = 0 => e.rec = db.cur /\ e.cur = db.cur + 1
  <2>1. CASE db.rec = 0
    <3>1. e = [db EXCEPT !.rec = db.cur, !.cur = @ + 1]
      BY <2>1 DEF NextEpoch
    <3>2. db.cur \in Nat /\ db.cur + 1 \in Nat /\ db.member = Nodes
      BY SMT DEF TypeOK, Contents, ObjectInv
    <3> HIDE DEF e
    <3> QED
      BY <2>1, <3>1, <3>2 DEF TypeOK, Contents
  <2>2. CASE db.rec # 0
    BY <2>2 DEF TypeOK, ObjectInv, Contents, NextEpoch
  <2> QED
    BY <2>1, <2>2
<1>2. Join(db, {n}) = [e EXCEPT !.member = @ \cup {n}, !.need = @ \cup {n},
                                !.enforcing = @ \cup {n}]
  BY DEF Join
<1> HIDE DEF e
<1>3. Nodes \cup {n} = Nodes
  OBVIOUS
<1> QED
  BY <1>1, <1>2, <1>3

\* rados_grace_lift_bulk of one server takes its NEED flag, while all members
\* enforce, and ends the period if it was the last.
LEMMA LiftFields ==
  ASSUME TypeOK, ObjectInv, NEW n \in Nodes, CanLift(db, {n})
  PROVE  LET d == Lift(db, {n})
         IN  /\ n \in db.need /\ db.rec # 0 /\ db.enforcing = Nodes
             /\ d.member = Nodes /\ d.need = db.need \ {n}
             /\ d.enforcing = db.enforcing /\ d.cur = db.cur
             /\ d.rec = IF db.need = {n} THEN 0 ELSE db.rec
             /\ d \in Contents
<1>1. n \in db.need /\ db.rec # 0 /\ db.enforcing = Nodes
  BY DEF CanLift, Blocked, ObjectInv, TypeOK, Contents
<1>2. IsFiniteSet(db.need)
  BY NodesAssumption, FS_Subset DEF TypeOK, Contents
<1>3. db.need \cap {n} = {n} /\ Cardinality({n}) = 1
  BY <1>1, FS_Singleton
<1>4. Cardinality(db.need) = 1 <=> db.need = {n}
  BY <1>1, <1>2, FS_Singleton, SMT
<1>5. Lift(db, {n}) = [db EXCEPT !.need = @ \ {n},
                                 !.rec = IF db.need = {n} THEN 0 ELSE @]
  BY <1>3, <1>4 DEF Lift
<1>6. db \in Contents /\ db.member = Nodes /\ 0 \in Nat
  BY DEF TypeOK, ObjectInv
<1>7. (IF db.need = {n} THEN 0 ELSE db.rec) \in Nat
  BY <1>6 DEF Contents
<1> QED
  BY <1>1, <1>5, <1>6, <1>7 DEF Contents

\* rados_grace_enforcing_toggle changes one flag of one server.
LEMMA ToggleFields ==
  ASSUME TypeOK, ObjectInv, NEW n \in Nodes, NEW on \in BOOLEAN
  PROVE  LET d == Toggle(db, {n}, on)
         IN  /\ d.member = Nodes /\ d.need = db.need
             /\ d.enforcing = IF on THEN db.enforcing \cup {n} ELSE db.enforcing \ {n}
             /\ d.cur = db.cur /\ d.rec = db.rec
             /\ d \in Contents
<1>1. Toggle(db, {n}, on) =
        [db EXCEPT !.member = @ \cup {n},
                   !.enforcing = IF on THEN @ \cup {n} ELSE @ \ {n}]
  BY DEF Toggle
<1>2. db \in Contents /\ db.member = Nodes /\ Nodes \cup {n} = Nodes
  BY DEF TypeOK, ObjectInv
<1> QED
  BY <1>1, <1>2 DEF Contents

-----------------------------------------------------------------------------
(***************************************************************************)
(* What a step of one server is to another                                 *)
(***************************************************************************)

\* Nothing that is the other server's own changes.
Kept(m) ==
    /\ srv'[m] = srv[m] /\ owed'[m] = owed[m] /\ exempt'[m] = exempt[m]
    /\ \A e \in Epochs : records'[e][m] = records[e][m]
    /\ m \in half' <=> m \in half
    /\ m \in db'.need <=> m \in db.need
    /\ m \in db'.enforcing <=> m \in db.enforcing

\* What is said of a server stays true while the epochs stay the same,
LEMMA OtherSame ==
  ASSUME TypeOK, ObjectInv, NEW m \in Nodes, NodeInv(m), Kept(m),
         db'.cur = db.cur, db'.rec = db.rec, m \in astray' <=> m \in astray
  PROVE  NodeInv(m)'
<1>1. Shape(m)'
  BY DEF NodeInv, Kept, Shape, Active
<1>2. Flags(m)'
  BY DEF NodeInv, Kept, Flags, Active
<1>3. Epoch(m)'
  BY DEF NodeInv, Kept, Epoch
<1>4. Recorded(m)'
  <2>1. srv[m].main \in Joined => srv[m].recov \in Epochs
    BY ClusterAssumption, SMT DEF NodeInv, Shape, TypeOK, Servers, Epochs
  <2>2. db.rec # 0 => db.rec \in Epochs
    BY ClusterAssumption, SMT DEF TypeOK, Contents, Epochs, ObjectInv
  <2>3. srv[m].reaper = "snapped" => srv[m].main = "serving"
    BY DEF NodeInv, Shape
  <2>4. Open(m)' = Open(m)
    BY DEF Kept, Open
  <2> QED
    BY <2>1, <2>2, <2>3, <2>4 DEF NodeInv, Kept, Recorded, ObjectInv, Joined, Up
<1>5. Promise(m)'
  <2>1. /\ Canonical' = Canonical /\ Canonical \in Epochs
        /\ db.rec # 0 => db.rec \in Epochs
    BY ClusterAssumption, SMT DEF Canonical, TypeOK, Contents, Epochs, ObjectInv
  <2>2. db.cur \in Epochs
    BY DEF TypeOK
  <2> QED
    BY <2>1, <2>2 DEF NodeInv, Kept, Promise, Active
<1> QED
  BY <1>1, <1>2, <1>3, <1>4, <1>5 DEF NodeInv

\* when a grace period begins: a server that then seems to take part, and has
\* something to lose, goes astray; one that does not is still recorded in what
\* was the current epoch,
LEMMA OtherBegun ==
  ASSUME TypeOK, ObjectInv, NEW m \in Nodes, NodeInv(m), Kept(m),
         db.rec = 0, db'.rec = db.cur, db'.cur = db.cur + 1,
         m \in astray' <=> \/ m \in astray
                           \/ m \in db.enforcing /\ (srv[m].main \in Up \/ owed[m] # {})
  PROVE  NodeInv(m)'
<1>0. m \notin db.need
  BY DEF ObjectInv
<1>1. Shape(m)'
  BY DEF NodeInv, Kept, Shape, Active
<1>2. Flags(m)'
  BY <1>0 DEF NodeInv, Kept, Flags, Active
<1>3. Epoch(m)'
  BY <1>0, SMT
     DEF NodeInv, Kept, Epoch, Shape, Flags, Active, TypeOK, Contents, Servers,
         Epochs, Up, Joined
<1>4. Recorded(m)'
  <2>1. srv[m].main \in Joined => srv[m].recov \in Epochs
    BY ClusterAssumption, SMT DEF NodeInv, Shape, TypeOK, Servers, Epochs
  <2>2. db.rec # 0 => db.rec \in Epochs
    BY ClusterAssumption DEF TypeOK, Contents, Epochs, ObjectInv
  <2>3. srv[m].reaper = "snapped" => srv[m].main = "serving"
    BY DEF NodeInv, Shape
  <2>4. Open(m)' = Open(m)
    BY DEF Kept, Open
  <2> QED
    BY <1>0, <2>1, <2>2, <2>3, <2>4 DEF NodeInv, Kept, Recorded, ObjectInv, Joined, Up
<1>5. Promise(m)'
  BY <1>0, SMT
     DEF NodeInv, Kept, Promise, Shape, Flags, Epoch, Recorded, Open,
         Canonical, Active, TypeOK, Contents, Servers, Epochs, ObjectInv,
         Joined, Up
<1> QED
  BY <1>1, <1>2, <1>3, <1>4, <1>5 DEF NodeInv

\* and when one ends: all servers enforce it then, and those that only seem to
\* go astray.
LEMMA OtherEnded ==
  ASSUME TypeOK, ObjectInv, NEW m \in Nodes, NodeInv(m), Kept(m),
         db.rec # 0, db'.rec = 0, db'.cur = db.cur, m \notin db.need,
         m \in db.enforcing, m \in astray' <=> m \in astray \cup half
  PROVE  NodeInv(m)'
<1>1. Shape(m)'
  BY DEF NodeInv, Kept, Shape, Active
<1>2. Flags(m)'
  BY DEF NodeInv, Kept, Flags, Active
<1>3. Epoch(m)'
  BY
     DEF NodeInv, Kept, Epoch, Shape, Flags, Active, TypeOK, Contents, Servers,
         Epochs, Up, Joined
<1>4. Recorded(m)'
  <2>1. srv[m].main \in Joined => srv[m].recov \in Epochs
    BY ClusterAssumption, SMT DEF NodeInv, Shape, TypeOK, Servers, Epochs
  <2>2. db.rec # 0 => db.rec \in Epochs
    BY ClusterAssumption, SMT DEF TypeOK, Contents, Epochs, ObjectInv
  <2>3. srv[m].reaper = "snapped" => srv[m].main = "serving"
    BY DEF NodeInv, Shape
  <2>4. Open(m)' = Open(m)
    BY DEF Kept, Open
  <2> QED
    BY <2>1, <2>2, <2>3, <2>4 DEF NodeInv, Kept, Recorded, ObjectInv, Joined, Up
<1>5. Promise(m)'
  BY
     DEF NodeInv, Kept, Promise, Shape, Flags, Epoch, Recorded, Open,
         Canonical, Active, TypeOK, Contents, Servers, Epochs, ObjectInv,
         Joined, Up
<1> QED
  BY <1>1, <1>2, <1>3, <1>4, <1>5 DEF NodeInv

\* A step that leaves the object alone, and all that is another server's.
LEMMA LocalStep ==
  ASSUME IInv, NEW n \in Nodes, NodeInv(n)',
         UNCHANGED <<db, half, astray>>,
         \A m \in Nodes \ {n} :
           /\ srv'[m] = srv[m] /\ owed'[m] = owed[m] /\ exempt'[m] = exempt[m]
           /\ \A e \in Epochs : records'[e][m] = records[e][m],
         Recovering(n)' => Recovering(n) \/ db.enforcing = Nodes,
         TypeOK'
  PROVE  IInv'
<1>1. ASSUME NEW m \in Nodes PROVE NodeInv(m)'
  <2>1. CASE m # n
    <3>1. Kept(m)
      BY <2>1 DEF Kept
    <3> QED
      BY <3>1, OtherSame DEF IInv
  <2> QED
    BY <2>1
<1>2. Exclusive'
  BY DEF IInv, Exclusive, Recovering
<1>3. ObjectInv'
  BY DEF IInv, ObjectInv
<1> QED
  BY <1>1, <1>2, <1>3 DEF IInv

\* A server begins to start (nfs_start_grace at boot): nothing is its own
\* yet.
LEMMA BootInv ==
  ASSUME IInv, NEW n \in Nodes, Boot(n)
  PROVE  IInv'
<1>1. TypeOK /\ ObjectInv /\ NodeInv(n)
  BY DEF IInv
<1>2. Shape(n)'
  BY <1>1, SMT DEF NodeInv, TypeOK, Contents, Servers, Epochs, Shape, Active,
     Joined, Up, Boot
<1>3. Flags(n)'
  BY <1>1, SMT DEF NodeInv, TypeOK, Contents, Servers, Epochs, Shape, Flags,
     Active, Joined, Up, ObjectInv, Boot
<1>4. Epoch(n)'
  BY <1>1, SMT DEF NodeInv, TypeOK, Contents, Servers, Epochs, Shape, Flags,
     Epoch, Active, Joined, Up, ObjectInv, Boot
<1>5. Recorded(n)'
  BY <1>1, SMT DEF NodeInv, TypeOK, Contents, Servers, Epochs, Shape, Flags,
     Epoch, Recorded, Open, Active, Joined, Up, ObjectInv, Boot
<1>6. Promise(n)'
  BY <1>1, SMT DEF NodeInv, TypeOK, Contents, Servers, Epochs, Shape, Flags,
     Epoch, Recorded, Promise, Open, Canonical, Active, Joined, Up, ObjectInv,
     Boot
<1>7. TypeOK'
  <2>1. srv' \in [Nodes -> Servers]
    <3>1. srv[n] \in Servers
      BY <1>1 DEF TypeOK
    <3>2. /\ "enforce" \in Mains
          /\ "grace" \in Statuses
      BY <3>1, <1>1, ClusterAssumption
         DEF Servers, Mains, Statuses, Reapers, TypeOK, Contents, Epochs,
             NodeInv, Shape, Flags, Joined, Up, ObjectInv
    <3> DEFINE s == [srv[n] EXCEPT !.main = "enforce",
                                   !.status = "grace"]
    <3>3. s \in Servers
      BY <3>1, <3>2 DEF Servers
    <3>4. srv' = [srv EXCEPT ![n] = s]
      BY <1>1 DEF TypeOK, Boot
    <3> QED
      BY <1>1, <3>3, <3>4 DEF TypeOK
  <2>2. \A m \in Nodes : srv'[m].recov <= db'.cur
    BY <1>1 DEF TypeOK, Contents, Servers, Boot
  <2>3. records' \in [Epochs -> [Nodes -> SUBSET Clients]]
    BY <1>1 DEF TypeOK, Servers, Boot
  <2> QED
    BY <1>1, <2>1, <2>2, <2>3, ClusterAssumption DEF TypeOK, Boot
<1>8. \A m \in Nodes \ {n} :
        /\ srv'[m] = srv[m] /\ owed'[m] = owed[m] /\ exempt'[m] = exempt[m]
        /\ \A e \in Epochs : records'[e][m] = records[e][m]
  BY <1>1 DEF TypeOK, Boot
<1>9. Recovering(n)' => Recovering(n) \/ db.enforcing = Nodes
  BY <1>1, SMT
     DEF Recovering, NodeInv, Shape, Flags, Active, Joined, Up, TypeOK,
         ObjectInv, Servers, AllEnforcing, Boot
<1>10. UNCHANGED <<db, half, astray>>
  BY DEF Boot
<1> QED
  BY <1>2, <1>3, <1>4, <1>5, <1>6, <1>7, <1>8, <1>9, <1>10, LocalStep
     DEF NodeInv

\* rados_kv_create_recov_dir makes the database of the new epoch, which no
\* promise is about.
LEMMA BootCreateInv ==
  ASSUME IInv, NEW n \in Nodes, BootCreate(n)
  PROVE  IInv'
<1>1. TypeOK /\ ObjectInv /\ NodeInv(n)
  BY DEF IInv
<1>2. Shape(n)'
  BY <1>1, SMT DEF NodeInv, TypeOK, Contents, Servers, Epochs, Shape, Active,
     Joined, Up, BootCreate
<1>3. Flags(n)'
  BY <1>1, SMT DEF NodeInv, TypeOK, Contents, Servers, Epochs, Shape, Flags,
     Active, Joined, Up, ObjectInv, BootCreate
<1>4. Epoch(n)'
  BY <1>1, SMT DEF NodeInv, TypeOK, Contents, Servers, Epochs, Shape, Flags,
     Epoch, Active, Joined, Up, ObjectInv, BootCreate
<1>5. Recorded(n)'
  BY <1>1, SMT DEF NodeInv, TypeOK, Contents, Servers, Epochs, Shape, Flags,
     Epoch, Recorded, Open, Active, Joined, Up, ObjectInv, BootCreate
<1>6. Promise(n)'
  BY <1>1, SMT DEF NodeInv, TypeOK, Contents, Servers, Epochs, Shape, Flags,
     Epoch, Recorded, Promise, Open, Canonical, Active, Joined, Up, ObjectInv,
     BootCreate
<1>7. TypeOK'
  <2>1. srv' \in [Nodes -> Servers]
    <3>1. srv[n] \in Servers
      BY <1>1 DEF TypeOK
    <3>2. "read" \in Mains
      BY <3>1, <1>1, ClusterAssumption
         DEF Servers, Mains, Statuses, Reapers, TypeOK, Contents, Epochs,
             NodeInv, Shape, Flags, Joined, Up, ObjectInv
    <3> DEFINE s == [srv[n] EXCEPT !.main = "read"]
    <3>3. s \in Servers
      BY <3>1, <3>2 DEF Servers
    <3>4. srv' = [srv EXCEPT ![n] = s]
      BY <1>1 DEF TypeOK, BootCreate
    <3> QED
      BY <1>1, <3>3, <3>4 DEF TypeOK
  <2>2. \A m \in Nodes : srv'[m].recov <= db'.cur
    BY <1>1 DEF TypeOK, Contents, Servers, BootCreate
  <2>3. records' \in [Epochs -> [Nodes -> SUBSET Clients]]
    BY <1>1 DEF TypeOK, Servers, BootCreate
  <2> QED
    BY <1>1, <2>1, <2>2, <2>3, ClusterAssumption DEF TypeOK, BootCreate
<1>8. \A m \in Nodes \ {n} :
        /\ srv'[m] = srv[m] /\ owed'[m] = owed[m] /\ exempt'[m] = exempt[m]
        /\ \A e \in Epochs : records'[e][m] = records[e][m]
  BY <1>1 DEF TypeOK, BootCreate
<1>9. Recovering(n)' => Recovering(n) \/ db.enforcing = Nodes
  BY <1>1, SMT
     DEF Recovering, NodeInv, Shape, Flags, Active, Joined, Up, TypeOK,
         ObjectInv, Servers, AllEnforcing, BootCreate
<1>10. UNCHANGED <<db, half, astray>>
  BY DEF BootCreate
<1> QED
  BY <1>2, <1>3, <1>4, <1>5, <1>6, <1>7, <1>8, <1>9, <1>10, LocalStep
     DEF NodeInv

\* rados_kv_read_recov_clids_recover reads the database of the epoch before.
LEMMA BootReadInv ==
  ASSUME IInv, NEW n \in Nodes, BootRead(n)
  PROVE  IInv'
<1>1. TypeOK /\ ObjectInv /\ NodeInv(n)
  BY DEF IInv
<1>2. Shape(n)'
  BY <1>1, SMT DEF NodeInv, TypeOK, Contents, Servers, Epochs, Shape, Active,
     Joined, Up, BootRead
<1>3. Flags(n)'
  BY <1>1, SMT DEF NodeInv, TypeOK, Contents, Servers, Epochs, Shape, Flags,
     Active, Joined, Up, ObjectInv, BootRead
<1>4. Epoch(n)'
  BY <1>1, SMT DEF NodeInv, TypeOK, Contents, Servers, Epochs, Shape, Flags,
     Epoch, Active, Joined, Up, ObjectInv, BootRead
<1>5. Recorded(n)'
  BY <1>1, SMT DEF NodeInv, TypeOK, Contents, Servers, Epochs, Shape, Flags,
     Epoch, Recorded, Open, Active, Joined, Up, ObjectInv, BootRead
<1>6. Promise(n)'
  BY <1>1, SMT DEF NodeInv, TypeOK, Contents, Servers, Epochs, Shape, Flags,
     Epoch, Recorded, Promise, Open, Canonical, Active, Joined, Up, ObjectInv,
     BootRead
<1>7. TypeOK'
  <2>1. srv' \in [Nodes -> Servers]
    <3>1. srv[n] \in Servers
      BY <1>1 DEF TypeOK
    <3>2. /\ "wait" \in Mains
          /\ records[srv[n].old][n] \in SUBSET Clients
      BY <3>1, <1>1, ClusterAssumption, SMT
         DEF Servers, Mains, Statuses, Reapers, TypeOK, Contents, Epochs,
             NodeInv, Shape, Flags, Joined, Up, ObjectInv, BootRead
    <3> DEFINE s == [srv[n] EXCEPT !.main = "wait",
                                   !.clids = records[srv[n].old][n]]
    <3>3. s \in Servers
      BY <3>1, <3>2 DEF Servers
    <3>4. srv' = [srv EXCEPT ![n] = s]
      BY <1>1 DEF TypeOK, BootRead
    <3> QED
      BY <1>1, <3>3, <3>4 DEF TypeOK
  <2>2. \A m \in Nodes : srv'[m].recov <= db'.cur
    BY <1>1 DEF TypeOK, Contents, Servers, BootRead
  <2>3. records' \in [Epochs -> [Nodes -> SUBSET Clients]]
    BY <1>1 DEF TypeOK, Servers, BootRead
  <2> QED
    BY <1>1, <2>1, <2>2, <2>3, ClusterAssumption DEF TypeOK, BootRead
<1>8. \A m \in Nodes \ {n} :
        /\ srv'[m] = srv[m] /\ owed'[m] = owed[m] /\ exempt'[m] = exempt[m]
        /\ \A e \in Epochs : records'[e][m] = records[e][m]
  BY <1>1 DEF TypeOK, BootRead
<1>9. Recovering(n)' => Recovering(n) \/ db.enforcing = Nodes
  BY <1>1, SMT
     DEF Recovering, NodeInv, Shape, Flags, Active, Joined, Up, TypeOK,
         ObjectInv, Servers, AllEnforcing, BootRead
<1>10. UNCHANGED <<db, half, astray>>
  BY DEF BootRead
<1> QED
  BY <1>2, <1>3, <1>4, <1>5, <1>6, <1>7, <1>8, <1>9, <1>10, LocalStep
     DEF NodeInv

\* A server admits requests once it is out of grace, or all members enforce
\* it.
LEMMA ServeInv ==
  ASSUME IInv, NEW n \in Nodes, Serve(n)
  PROVE  IInv'
<1>1. TypeOK /\ ObjectInv /\ NodeInv(n)
  BY DEF IInv
<1>2. Shape(n)'
  BY <1>1, SMT DEF NodeInv, TypeOK, Contents, Servers, Epochs, Shape, Active,
     Joined, Up, Serve
<1>3. Flags(n)'
  BY <1>1, SMT DEF NodeInv, TypeOK, Contents, Servers, Epochs, Shape, Flags,
     Active, Joined, Up, ObjectInv, Serve
<1>4. Epoch(n)'
  BY <1>1, SMT DEF NodeInv, TypeOK, Contents, Servers, Epochs, Shape, Flags,
     Epoch, Active, Joined, Up, ObjectInv, Serve
<1>5. Recorded(n)'
  BY <1>1, SMT DEF NodeInv, TypeOK, Contents, Servers, Epochs, Shape, Flags,
     Epoch, Recorded, Open, Active, Joined, Up, ObjectInv, Serve
<1>6. Promise(n)'
  BY <1>1, SMT DEF NodeInv, TypeOK, Contents, Servers, Epochs, Shape, Flags,
     Epoch, Recorded, Promise, Open, Canonical, Active, Joined, Up, ObjectInv,
     Serve
<1>7. TypeOK'
  <2>1. srv' \in [Nodes -> Servers]
    <3>1. srv[n] \in Servers
      BY <1>1 DEF TypeOK
    <3>2. "serving" \in Mains
      BY <3>1, <1>1, ClusterAssumption
         DEF Servers, Mains, Statuses, Reapers, TypeOK, Contents, Epochs,
             NodeInv, Shape, Flags, Joined, Up, ObjectInv
    <3> DEFINE s == [srv[n] EXCEPT !.main = "serving"]
    <3>3. s \in Servers
      BY <3>1, <3>2 DEF Servers
    <3>4. srv' = [srv EXCEPT ![n] = s]
      BY <1>1 DEF TypeOK, Serve
    <3> QED
      BY <1>1, <3>3, <3>4 DEF TypeOK
  <2>2. \A m \in Nodes : srv'[m].recov <= db'.cur
    BY <1>1 DEF TypeOK, Contents, Servers, Serve
  <2>3. records' \in [Epochs -> [Nodes -> SUBSET Clients]]
    BY <1>1 DEF TypeOK, Servers, Serve
  <2> QED
    BY <1>1, <2>1, <2>2, <2>3, ClusterAssumption DEF TypeOK, Serve
<1>8. \A m \in Nodes \ {n} :
        /\ srv'[m] = srv[m] /\ owed'[m] = owed[m] /\ exempt'[m] = exempt[m]
        /\ \A e \in Epochs : records'[e][m] = records[e][m]
  BY <1>1 DEF TypeOK, Serve
<1>9. Recovering(n)' => Recovering(n) \/ db.enforcing = Nodes
  BY <1>1
     DEF Recovering, NodeInv, Shape, Flags, Active, Joined, Up, TypeOK,
         ObjectInv, Servers, AllEnforcing, Serve
<1>10. UNCHANGED <<db, half, astray>>
  BY DEF Serve
<1> QED
  BY <1>2, <1>3, <1>4, <1>5, <1>6, <1>7, <1>8, <1>9, <1>10, LocalStep
     DEF NodeInv

\* A server that sees a grace period takes its epochs and collects its
\* clients; it does not enforce, so that the period lasts.
LEMMA SnapshotInv ==
  ASSUME IInv, NEW n \in Nodes, Snapshot(n)
  PROVE  IInv'
<1>1. TypeOK /\ ObjectInv /\ NodeInv(n)
  BY DEF IInv
<1>2. Shape(n)'
  BY <1>1, SMT DEF NodeInv, TypeOK, Contents, Servers, Epochs, Shape, Active,
     Joined, Up, Snapshot
<1>3. Flags(n)'
  BY <1>1, SMT DEF NodeInv, TypeOK, Contents, Servers, Epochs, Shape, Flags,
     Active, Joined, Up, ObjectInv, Snapshot
<1>4. Epoch(n)'
  BY <1>1, SMT DEF NodeInv, TypeOK, Contents, Servers, Epochs, Shape, Flags,
     Epoch, Active, Joined, Up, ObjectInv, Snapshot
<1>5. Recorded(n)'
  BY <1>1, SMT DEF NodeInv, TypeOK, Contents, Servers, Epochs, Shape, Flags,
     Epoch, Recorded, Open, Active, Joined, Up, ObjectInv, Snapshot
<1>6. Promise(n)'
  BY <1>1, SMT DEF NodeInv, TypeOK, Contents, Servers, Epochs, Shape, Flags,
     Epoch, Recorded, Promise, Open, Canonical, Active, Joined, Up, ObjectInv,
     Snapshot
<1>7. TypeOK'
  <2>1. srv' \in [Nodes -> Servers]
    <3>1. srv[n] \in Servers
      BY <1>1 DEF TypeOK
    <3>2. /\ "snapped" \in Reapers
          /\ db.cur \in 0..MaxEpoch
          /\ db.rec \in 0..MaxEpoch
          /\ srv[n].confirmed \in SUBSET Clients
      BY <3>1, <1>1, ClusterAssumption, SMT
         DEF Servers, Mains, Statuses, Reapers, TypeOK, Contents, Epochs,
             NodeInv, Shape, Flags, Joined, Up, ObjectInv
    <3> DEFINE s == [srv[n] EXCEPT !.reaper = "snapped",
                                   !.recov = db.cur,
                                   !.old = db.rec,
                                   !.snap = srv[n].confirmed]
    <3>3. s \in Servers
      BY <3>1, <3>2 DEF Servers
    <3>4. srv' = [srv EXCEPT ![n] = s]
      BY <1>1 DEF TypeOK, Snapshot
    <3> QED
      BY <1>1, <3>3, <3>4 DEF TypeOK
  <2>2. \A m \in Nodes : srv'[m].recov <= db'.cur
    BY <1>1, SMT DEF TypeOK, Contents, Servers, Snapshot
  <2>3. records' \in [Epochs -> [Nodes -> SUBSET Clients]]
    BY <1>1 DEF TypeOK, Servers, Snapshot
  <2>4. exempt' \in [Nodes -> SUBSET Clients]
    <3>1. exempt[n] \cup srv[n].destroying \in SUBSET Clients
      BY <1>1 DEF TypeOK, Servers
    <3> QED
      BY <1>1, <3>1 DEF TypeOK, Snapshot
  <2> QED
    BY <1>1, <2>1, <2>2, <2>3, <2>4, ClusterAssumption DEF TypeOK, Snapshot
<1>8. \A m \in Nodes \ {n} :
        /\ srv'[m] = srv[m] /\ owed'[m] = owed[m] /\ exempt'[m] = exempt[m]
        /\ \A e \in Epochs : records'[e][m] = records[e][m]
  BY <1>1 DEF TypeOK, Snapshot
<1>9. Recovering(n)' => Recovering(n) \/ db.enforcing = Nodes
  BY <1>1
     DEF Recovering, NodeInv, Shape, Flags, Active, Joined, Up, TypeOK,
         ObjectInv, Servers, AllEnforcing, Snapshot
<1>10. UNCHANGED <<db, half, astray>>
  BY DEF Snapshot
<1> QED
  BY <1>2, <1>3, <1>4, <1>5, <1>6, <1>7, <1>8, <1>9, <1>10, LocalStep
     DEF NodeInv

\* The clients collected are written as one new database.
LEMMA WriteDBInv ==
  ASSUME IInv, NEW n \in Nodes, WriteDB(n)
  PROVE  IInv'
<1>1. TypeOK /\ ObjectInv /\ NodeInv(n)
  BY DEF IInv
<1>2. Shape(n)'
  BY <1>1, SMT DEF NodeInv, TypeOK, Contents, Servers, Epochs, Shape, Active,
     Joined, Up, WriteDB
<1>3. Flags(n)'
  BY <1>1, SMT DEF NodeInv, TypeOK, Contents, Servers, Epochs, Shape, Flags,
     Active, Joined, Up, ObjectInv, WriteDB
<1>4. Epoch(n)'
  BY <1>1, SMTT(30) DEF NodeInv, TypeOK, Contents, Servers, Epochs, Shape, Flags,
     Epoch, Active, Joined, Up, ObjectInv, WriteDB
<1>5. Recorded(n)'
  BY <1>1, SMT DEF NodeInv, TypeOK, Contents, Servers, Epochs, Shape, Flags,
     Epoch, Recorded, Open, Active, Joined, Up, ObjectInv, WriteDB
<1>6. Promise(n)'
  BY <1>1, SMT DEF NodeInv, TypeOK, Contents, Servers, Epochs, Shape, Flags,
     Epoch, Recorded, Promise, Open, Canonical, Active, Joined, Up, ObjectInv,
     WriteDB
<1>7. TypeOK'
  <2>1. srv' \in [Nodes -> Servers]
    <3>1. srv[n] \in Servers
      BY <1>1 DEF TypeOK
    <3>2. /\ "start" \in Reapers
          /\ {} \in SUBSET Clients
      BY <3>1, <1>1, ClusterAssumption
         DEF Servers, Mains, Statuses, Reapers, TypeOK, Contents, Epochs,
             NodeInv, Shape, Flags, Joined, Up, ObjectInv
    <3> DEFINE s == [srv[n] EXCEPT !.reaper = "start",
                                   !.snap = {}]
    <3>3. s \in Servers
      BY <3>1, <3>2 DEF Servers
    <3>4. srv' = [srv EXCEPT ![n] = s]
      BY <1>1 DEF TypeOK, WriteDB
    <3> QED
      BY <1>1, <3>3, <3>4 DEF TypeOK
  <2>2. \A m \in Nodes : srv'[m].recov <= db'.cur
    BY <1>1 DEF TypeOK, Contents, Servers, WriteDB
  <2>3. records' \in [Epochs -> [Nodes -> SUBSET Clients]]
    BY <1>1 DEF TypeOK, Servers, WriteDB
  <2> QED
    BY <1>1, <2>1, <2>2, <2>3, ClusterAssumption DEF TypeOK, WriteDB
<1>8. \A m \in Nodes \ {n} :
        /\ srv'[m] = srv[m] /\ owed'[m] = owed[m] /\ exempt'[m] = exempt[m]
        /\ \A e \in Epochs : records'[e][m] = records[e][m]
  BY <1>1 DEF TypeOK, WriteDB
<1>9. Recovering(n)' => Recovering(n) \/ db.enforcing = Nodes
  BY <1>1
     DEF Recovering, NodeInv, Shape, Flags, Active, Joined, Up, TypeOK,
         ObjectInv, Servers, AllEnforcing, WriteDB
<1>10. UNCHANGED <<db, half, astray>>
  BY DEF WriteDB
<1> QED
  BY <1>2, <1>3, <1>4, <1>5, <1>6, <1>7, <1>8, <1>9, <1>10, LocalStep
     DEF NodeInv

\* nfs_start_grace(JUST_GRACE), with references outstanding or without.
LEMMA StartGraceInv ==
  ASSUME IInv, NEW n \in Nodes, StartGrace(n)
  PROVE  IInv'
<1>1. TypeOK /\ ObjectInv /\ NodeInv(n)
  BY DEF IInv
<1>0. PICK s \in {"drain", "grace"}, r \in {"idle", "flag"} :
        /\ srv' = [srv EXCEPT ![n].status = s, ![n].reaper = r]
        /\ s = "drain" <=> r = "idle"
  BY DEF StartGrace
<1>2. Shape(n)'
  BY <1>0, <1>1, SMT DEF NodeInv, TypeOK, Contents, Servers, Epochs, Shape,
     Active, Joined, Up, StartGrace
<1>3. Flags(n)'
  BY <1>0, <1>1, SMT DEF NodeInv, TypeOK, Contents, Servers, Epochs, Shape,
     Flags, Active, Joined, Up, ObjectInv, StartGrace
<1>4. Epoch(n)'
  BY <1>0, <1>1, SMT DEF NodeInv, TypeOK, Contents, Servers, Epochs, Shape,
     Flags, Epoch, Active, Joined, Up, ObjectInv, StartGrace
<1>5. Recorded(n)'
  BY <1>0, <1>1, SMT DEF NodeInv, TypeOK, Contents, Servers, Epochs, Shape,
     Flags, Epoch, Recorded, Open, Active, Joined, Up, ObjectInv, StartGrace
<1>6. Promise(n)'
  BY <1>0, <1>1, SMT DEF NodeInv, TypeOK, Contents, Servers, Epochs, Shape,
     Flags, Epoch, Recorded, Promise, Open, Canonical, Active, Joined, Up,
     ObjectInv, StartGrace
<1>7. TypeOK'
  <2>1. srv' \in [Nodes -> Servers]
    <3>1. srv[n] \in Servers
      BY <1>1 DEF TypeOK
    <3>2. /\ s \in Statuses
          /\ r \in Reapers
      BY <3>1, <1>0, <1>1, ClusterAssumption
         DEF Servers, Mains, Statuses, Reapers, TypeOK, Contents, Epochs,
             NodeInv, Shape, Flags, Joined, Up, ObjectInv
    <3> DEFINE t == [srv[n] EXCEPT !.status = s, !.reaper = r]
    <3>3. t \in Servers
      BY <3>1, <3>2 DEF Servers
    <3>4. srv' = [srv EXCEPT ![n] = t]
      BY <1>0, <1>1 DEF TypeOK, StartGrace
    <3> QED
      BY <1>1, <3>3, <3>4 DEF TypeOK
  <2>2. \A m \in Nodes : srv'[m].recov <= db'.cur
    BY <1>0, <1>1, SMT DEF TypeOK, Contents, Servers, StartGrace
  <2>3. records' \in [Epochs -> [Nodes -> SUBSET Clients]]
    BY <1>0, <1>1 DEF TypeOK, Servers, StartGrace
  <2> QED
    BY <1>1, <2>1, <2>2, <2>3, ClusterAssumption DEF TypeOK, StartGrace
<1>8. \A m \in Nodes \ {n} :
        /\ srv'[m] = srv[m] /\ owed'[m] = owed[m] /\ exempt'[m] = exempt[m]
        /\ \A e \in Epochs : records'[e][m] = records[e][m]
  BY <1>1 DEF TypeOK, StartGrace
<1>9. Recovering(n)' => Recovering(n) \/ db.enforcing = Nodes
  BY <1>0, <1>1
     DEF Recovering, NodeInv, Shape, Flags, Active, Joined, Up, TypeOK,
         ObjectInv, Servers, AllEnforcing, StartGrace
<1>10. UNCHANGED <<db, half, astray>>
  BY DEF StartGrace
<1> QED
  BY <1>2, <1>3, <1>4, <1>5, <1>6, <1>7, <1>8, <1>9, <1>10, LocalStep
     DEF NodeInv

\* nfs_try_lift_grace closes the local period to new references.
LEMMA CloseGraceInv ==
  ASSUME IInv, NEW n \in Nodes, CloseGrace(n)
  PROVE  IInv'
<1>1. TypeOK /\ ObjectInv /\ NodeInv(n)
  BY DEF IInv
<1>2. Shape(n)'
  BY <1>1, SMT DEF NodeInv, TypeOK, Contents, Servers, Epochs, Shape, Active,
     Joined, Up, CloseGrace, Ready
<1>3. Flags(n)'
  BY <1>1, SMT DEF NodeInv, TypeOK, Contents, Servers, Epochs, Shape, Flags,
     Active, Joined, Up, ObjectInv, CloseGrace, Ready
<1>4. Epoch(n)'
  BY <1>1, SMT DEF NodeInv, TypeOK, Contents, Servers, Epochs, Shape, Flags,
     Epoch, Active, Joined, Up, ObjectInv, CloseGrace, Ready
<1>5. Recorded(n)'
  BY <1>1, SMT DEF NodeInv, TypeOK, Contents, Servers, Epochs, Shape, Flags,
     Epoch, Recorded, Open, Active, Joined, Up, ObjectInv, CloseGrace, Ready
<1>6. Promise(n)'
  BY <1>1, SMT DEF NodeInv, TypeOK, Contents, Servers, Epochs, Shape, Flags,
     Epoch, Recorded, Promise, Open, Canonical, Active, Joined, Up, ObjectInv,
     CloseGrace, Ready
<1>7. TypeOK'
  <2>1. srv' \in [Nodes -> Servers]
    <3>1. srv[n] \in Servers
      BY <1>1 DEF TypeOK
    <3>2. "closing" \in Statuses
      BY <3>1, <1>1, ClusterAssumption
         DEF Servers, Mains, Statuses, Reapers, TypeOK, Contents, Epochs,
             NodeInv, Shape, Flags, Joined, Up, ObjectInv
    <3> DEFINE s == [srv[n] EXCEPT !.status = "closing"]
    <3>3. s \in Servers
      BY <3>1, <3>2 DEF Servers
    <3>4. srv' = [srv EXCEPT ![n] = s]
      BY <1>1 DEF TypeOK, CloseGrace
    <3> QED
      BY <1>1, <3>3, <3>4 DEF TypeOK
  <2>2. \A m \in Nodes : srv'[m].recov <= db'.cur
    BY <1>1 DEF TypeOK, Contents, Servers, CloseGrace, Ready
  <2>3. records' \in [Epochs -> [Nodes -> SUBSET Clients]]
    BY <1>1 DEF TypeOK, Servers, CloseGrace, Ready
  <2> QED
    BY <1>1, <2>1, <2>2, <2>3, ClusterAssumption DEF TypeOK, CloseGrace
<1>8. \A m \in Nodes \ {n} :
        /\ srv'[m] = srv[m] /\ owed'[m] = owed[m] /\ exempt'[m] = exempt[m]
        /\ \A e \in Epochs : records'[e][m] = records[e][m]
  BY <1>1 DEF TypeOK, CloseGrace
<1>9. Recovering(n)' => Recovering(n) \/ db.enforcing = Nodes
  BY <1>1, SMT
     DEF Recovering, NodeInv, Shape, Flags, Active, Joined, Up, TypeOK,
         ObjectInv, Servers, AllEnforcing, CloseGrace, Ready
<1>10. UNCHANGED <<db, half, astray>>
  BY DEF CloseGrace
<1> QED
  BY <1>2, <1>3, <1>4, <1>5, <1>6, <1>7, <1>8, <1>9, <1>10, LocalStep
     DEF NodeInv

\* rados_cluster_end_grace deletes the old database, which is older than any
\* that a server would recover from.
LEMMA RemoveOldInv ==
  ASSUME IInv, NEW n \in Nodes, RemoveOld(n)
  PROVE  IInv'
<1>1. TypeOK /\ ObjectInv /\ NodeInv(n)
  BY DEF IInv
<1>2. Shape(n)'
  BY <1>1, SMT DEF NodeInv, TypeOK, Contents, Servers, Epochs, Shape, Active,
     Joined, Up, RemoveOld
<1>3. Flags(n)'
  BY <1>1, SMT DEF NodeInv, TypeOK, Contents, Servers, Epochs, Shape, Flags,
     Active, Joined, Up, ObjectInv, RemoveOld
<1>4. Epoch(n)'
  BY <1>1, SMT DEF NodeInv, TypeOK, Contents, Servers, Epochs, Shape, Flags,
     Epoch, Active, Joined, Up, ObjectInv, RemoveOld
<1>5. Recorded(n)'
  BY <1>1, SMT DEF NodeInv, TypeOK, Contents, Servers, Epochs, Shape, Flags,
     Epoch, Recorded, Open, Active, Joined, Up, ObjectInv, RemoveOld
<1>6. Promise(n)'
  BY <1>1, SMT DEF NodeInv, TypeOK, Contents, Servers, Epochs, Shape, Flags,
     Epoch, Recorded, Promise, Open, Canonical, Active, Joined, Up, ObjectInv,
     RemoveOld
<1>7. TypeOK'
  <2>1. srv' \in [Nodes -> Servers]
    <3>1. srv[n] \in Servers
      BY <1>1 DEF TypeOK
    <3>2. /\ "idle" \in Reapers
          /\ 0 \in 0..MaxEpoch
          /\ "normal" \in Statuses
      BY <3>1, <1>1, ClusterAssumption, SMT
         DEF Servers, Mains, Statuses, Reapers, TypeOK, Contents, Epochs,
             NodeInv, Shape, Flags, Joined, Up, ObjectInv
    <3> DEFINE s == [srv[n] EXCEPT !.reaper = "idle",
                                   !.old = 0,
                                   !.status = "normal"]
    <3>3. s \in Servers
      BY <3>1, <3>2 DEF Servers
    <3>4. srv' = [srv EXCEPT ![n] = s]
      BY <1>1 DEF TypeOK, RemoveOld
    <3> QED
      BY <1>1, <3>3, <3>4 DEF TypeOK
  <2>2. \A m \in Nodes : srv'[m].recov <= db'.cur
    BY <1>1, SMT DEF TypeOK, Contents, Servers, RemoveOld
  <2>3. records' \in [Epochs -> [Nodes -> SUBSET Clients]]
    BY <1>1 DEF TypeOK, Servers, RemoveOld
  <2> QED
    BY <1>1, <2>1, <2>2, <2>3, ClusterAssumption DEF TypeOK, RemoveOld
<1>8. \A m \in Nodes \ {n} :
        /\ srv'[m] = srv[m] /\ owed'[m] = owed[m] /\ exempt'[m] = exempt[m]
        /\ \A e \in Epochs : records'[e][m] = records[e][m]
  BY <1>1 DEF TypeOK, RemoveOld
<1>9. Recovering(n)' => Recovering(n) \/ db.enforcing = Nodes
  BY <1>1
     DEF Recovering, NodeInv, Shape, Flags, Active, Joined, Up, TypeOK,
         ObjectInv, Servers, AllEnforcing, RemoveOld
<1>10. UNCHANGED <<db, half, astray>>
  BY DEF RemoveOld
<1> QED
  BY <1>2, <1>3, <1>4, <1>5, <1>6, <1>7, <1>8, <1>9, <1>10, LocalStep
     DEF NodeInv

\* A client is confirmed, and about to be recorded.
LEMMA ConfirmInv ==
  ASSUME IInv, NEW n \in Nodes, NEW c \in Clients, Confirm(n, c)
  PROVE  IInv'
<1>1. TypeOK /\ ObjectInv /\ NodeInv(n)
  BY DEF IInv
<1>2. Shape(n)'
  BY <1>1, SMT DEF NodeInv, TypeOK, Contents, Servers, Epochs, Shape, Active,
     Joined, Up, Confirm
<1>3. Flags(n)'
  BY <1>1, SMT DEF NodeInv, TypeOK, Contents, Servers, Epochs, Shape, Flags,
     Active, Joined, Up, ObjectInv, Confirm
<1>4. Epoch(n)'
  BY <1>1, SMT DEF NodeInv, TypeOK, Contents, Servers, Epochs, Shape, Flags,
     Epoch, Active, Joined, Up, ObjectInv, Confirm
<1>5. Recorded(n)'
  BY <1>1, SMT DEF NodeInv, TypeOK, Contents, Servers, Epochs, Shape, Flags,
     Epoch, Recorded, Open, Active, Joined, Up, ObjectInv, Confirm
<1>6. Promise(n)'
  BY <1>1, SMT DEF NodeInv, TypeOK, Contents, Servers, Epochs, Shape, Flags,
     Epoch, Recorded, Promise, Open, Canonical, Active, Joined, Up, ObjectInv,
     Confirm
<1>7. TypeOK'
  <2>1. srv' \in [Nodes -> Servers]
    <3>1. srv[n] \in Servers
      BY <1>1 DEF TypeOK
    <3>2. /\ (srv[n].confirmed \cup {c}) \in SUBSET Clients
          /\ (srv[n].adding \cup {c}) \in SUBSET Clients
      BY <3>1, <1>1, ClusterAssumption
         DEF Servers, Mains, Statuses, Reapers, TypeOK, Contents, Epochs,
             NodeInv, Shape, Flags, Joined, Up, ObjectInv
    <3> DEFINE s == [srv[n] EXCEPT !.confirmed = @ \cup {c},
                                   !.adding = @ \cup {c}]
    <3>3. s \in Servers
      BY <3>1, <3>2 DEF Servers
    <3>4. srv' = [srv EXCEPT ![n] = s]
      BY <1>1 DEF TypeOK, Confirm
    <3> QED
      BY <1>1, <3>3, <3>4 DEF TypeOK
  <2>2. \A m \in Nodes : srv'[m].recov <= db'.cur
    BY <1>1, SMT DEF TypeOK, Contents, Servers, Confirm
  <2>3. records' \in [Epochs -> [Nodes -> SUBSET Clients]]
    BY <1>1 DEF TypeOK, Servers, Confirm
  <2> QED
    BY <1>1, <2>1, <2>2, <2>3, ClusterAssumption DEF TypeOK, Confirm
<1>8. \A m \in Nodes \ {n} :
        /\ srv'[m] = srv[m] /\ owed'[m] = owed[m] /\ exempt'[m] = exempt[m]
        /\ \A e \in Epochs : records'[e][m] = records[e][m]
  BY <1>1 DEF TypeOK, Confirm
<1>9. Recovering(n)' => Recovering(n) \/ db.enforcing = Nodes
  BY <1>1, SMT
     DEF Recovering, NodeInv, Shape, Flags, Active, Joined, Up, TypeOK,
         ObjectInv, Servers, AllEnforcing, Confirm
<1>10. UNCHANGED <<db, half, astray>>
  BY DEF Confirm
<1> QED
  BY <1>2, <1>3, <1>4, <1>5, <1>6, <1>7, <1>8, <1>9, <1>10, LocalStep
     DEF NodeInv

\* rados_kv_add_clid records the client in the database in use.
LEMMA AddClidInv ==
  ASSUME IInv, NEW n \in Nodes, NEW c \in Clients, AddClid(n, c)
  PROVE  IInv'
<1>1. TypeOK /\ ObjectInv /\ NodeInv(n)
  BY DEF IInv
<1>0. srv[n].recov \in Epochs
  BY <1>1, ClusterAssumption, SMT
     DEF NodeInv, Shape, TypeOK, Servers, Mains, Joined, Up, Epochs, AddClid
<1>2. Shape(n)'
  BY <1>1, SMT DEF NodeInv, TypeOK, Contents, Servers, Epochs, Shape, Active,
     Joined, Up, AddClid
<1>3. Flags(n)'
  BY <1>1, SMT DEF NodeInv, TypeOK, Contents, Servers, Epochs, Shape, Flags,
     Active, Joined, Up, ObjectInv, AddClid
<1>4. Epoch(n)'
  BY <1>1, SMTT(30) DEF NodeInv, TypeOK, Contents, Servers, Epochs, Shape, Flags,
     Epoch, Active, Joined, Up, ObjectInv, AddClid
<1>5. Recorded(n)'
  BY <1>1, SMTT(30) DEF NodeInv, TypeOK, Contents, Servers, Epochs, Shape, Flags,
     Epoch, Recorded, Open, Active, Joined, Up, ObjectInv, AddClid
<1>6. Promise(n)'
  BY <1>1, SMT DEF NodeInv, TypeOK, Contents, Servers, Epochs, Shape, Flags,
     Epoch, Recorded, Promise, Open, Canonical, Active, Joined, Up, ObjectInv,
     AddClid
<1>7. TypeOK'
  <2>1. srv' \in [Nodes -> Servers]
    <3>1. srv[n] \in Servers
      BY <1>1 DEF TypeOK
    <3>2. /\ (srv[n].adding \ {c}) \in SUBSET Clients
          /\ (IF c \in srv[n].clids THEN srv[n].allow \cup {c} ELSE srv[n].allow)
               \in SUBSET Clients
      BY <3>1, <1>1, ClusterAssumption
         DEF Servers, Mains, Statuses, Reapers, TypeOK, Contents, Epochs,
             NodeInv, Shape, Flags, Joined, Up, ObjectInv
    <3> DEFINE s == [srv[n] EXCEPT !.adding = @ \ {c},
                                   !.allow = IF c \in srv[n].clids THEN @ \cup {c} ELSE @]
    <3>3. s \in Servers
      BY <3>1, <3>2 DEF Servers
    <3>4. srv' = [srv EXCEPT ![n] = s]
      BY <1>1 DEF TypeOK, AddClid
    <3> QED
      BY <1>1, <3>3, <3>4 DEF TypeOK
  <2>2. \A m \in Nodes : srv'[m].recov <= db'.cur
    BY <1>1 DEF TypeOK, Contents, Servers, AddClid
  <2>3. records' \in [Epochs -> [Nodes -> SUBSET Clients]]
    <3>1. records[srv[n].recov][n] \cup {c} \in SUBSET Clients
      BY <1>0, <1>1, SMT DEF TypeOK
    <3>2. records' = [records EXCEPT ![srv[n].recov] =
                         [records[srv[n].recov] EXCEPT
                            ![n] = records[srv[n].recov][n] \cup {c}]]
      BY <1>1 DEF TypeOK, AddClid
    <3> QED
      BY <1>1, <3>1, <3>2 DEF TypeOK
  <2> QED
    BY <1>1, <2>1, <2>2, <2>3, ClusterAssumption DEF TypeOK, AddClid
<1>8. \A m \in Nodes \ {n} :
        /\ srv'[m] = srv[m] /\ owed'[m] = owed[m] /\ exempt'[m] = exempt[m]
        /\ \A e \in Epochs : records'[e][m] = records[e][m]
  BY <1>1 DEF TypeOK, AddClid
<1>9. Recovering(n)' => Recovering(n) \/ db.enforcing = Nodes
  BY <1>1, SMT
     DEF Recovering, NodeInv, Shape, Flags, Active, Joined, Up, TypeOK,
         ObjectInv, Servers, AllEnforcing, AddClid
<1>10. UNCHANGED <<db, half, astray>>
  BY DEF AddClid
<1> QED
  BY <1>2, <1>3, <1>4, <1>5, <1>6, <1>7, <1>8, <1>9, <1>10, LocalStep
     DEF NodeInv

\* State is given out to recorded clients.
LEMMA AcquireInv ==
  ASSUME IInv, NEW n \in Nodes, NEW c \in Clients, Acquire(n, c)
  PROVE  IInv'
<1>1. TypeOK /\ ObjectInv /\ NodeInv(n)
  BY DEF IInv
<1>2. Shape(n)'
  BY <1>1, SMT DEF NodeInv, TypeOK, Contents, Servers, Epochs, Shape, Active,
     Joined, Up, Acquire
<1>3. Flags(n)'
  BY <1>1, SMT DEF NodeInv, TypeOK, Contents, Servers, Epochs, Shape, Flags,
     Active, Joined, Up, ObjectInv, Acquire
<1>4. Epoch(n)'
  BY <1>1, SMT DEF NodeInv, TypeOK, Contents, Servers, Epochs, Shape, Flags,
     Epoch, Active, Joined, Up, ObjectInv, Acquire
<1>5. Recorded(n)'
  BY <1>1, SMT DEF NodeInv, TypeOK, Contents, Servers, Epochs, Shape, Flags,
     Epoch, Recorded, Open, Active, Joined, Up, ObjectInv, Acquire
<1>6. Promise(n)'
  BY <1>1, SMT DEF NodeInv, TypeOK, Contents, Servers, Epochs, Shape, Flags,
     Epoch, Recorded, Promise, Open, Canonical, Active, Joined, Up, ObjectInv,
     Acquire
<1>7. TypeOK'
  <2>1. srv' \in [Nodes -> Servers]
    <3>1. srv[n] \in Servers
      BY <1>1 DEF TypeOK
    <3>2. (srv[n].held \cup {c}) \in SUBSET Clients
      BY <3>1, <1>1, ClusterAssumption
         DEF Servers, Mains, Statuses, Reapers, TypeOK, Contents, Epochs,
             NodeInv, Shape, Flags, Joined, Up, ObjectInv
    <3> DEFINE s == [srv[n] EXCEPT !.held = @ \cup {c}]
    <3>3. s \in Servers
      BY <3>1, <3>2 DEF Servers
    <3>4. srv' = [srv EXCEPT ![n] = s]
      BY <1>1 DEF TypeOK, Acquire
    <3> QED
      BY <1>1, <3>3, <3>4 DEF TypeOK
  <2>2. \A m \in Nodes : srv'[m].recov <= db'.cur
    BY <1>1 DEF TypeOK, Contents, Servers, Acquire
  <2>3. records' \in [Epochs -> [Nodes -> SUBSET Clients]]
    BY <1>1 DEF TypeOK, Servers, Acquire
  <2> QED
    BY <1>1, <2>1, <2>2, <2>3, ClusterAssumption DEF TypeOK, Acquire
<1>8. \A m \in Nodes \ {n} :
        /\ srv'[m] = srv[m] /\ owed'[m] = owed[m] /\ exempt'[m] = exempt[m]
        /\ \A e \in Epochs : records'[e][m] = records[e][m]
  BY <1>1 DEF TypeOK, Acquire
<1>9. Recovering(n)' => Recovering(n) \/ db.enforcing = Nodes
  BY <1>1
     DEF Recovering, NodeInv, Shape, Flags, Active, Joined, Up, TypeOK,
         ObjectInv, Servers, AllEnforcing, Acquire
<1>10. UNCHANGED <<db, half, astray>>
  BY DEF Acquire
<1> QED
  BY <1>2, <1>3, <1>4, <1>5, <1>6, <1>7, <1>8, <1>9, <1>10, LocalStep
     DEF NodeInv

\* State is reclaimed by clients found in the old database.
LEMMA ReclaimInv ==
  ASSUME IInv, NEW n \in Nodes, NEW c \in Clients, Reclaim(n, c)
  PROVE  IInv'
<1>1. TypeOK /\ ObjectInv /\ NodeInv(n)
  BY DEF IInv
<1>2. Shape(n)'
  BY <1>1, SMT DEF NodeInv, TypeOK, Contents, Servers, Epochs, Shape, Active,
     Joined, Up, Reclaim
<1>3. Flags(n)'
  BY <1>1, SMT DEF NodeInv, TypeOK, Contents, Servers, Epochs, Shape, Flags,
     Active, Joined, Up, ObjectInv, Reclaim
<1>4. Epoch(n)'
  BY <1>1, SMT DEF NodeInv, TypeOK, Contents, Servers, Epochs, Shape, Flags,
     Epoch, Active, Joined, Up, ObjectInv, Reclaim
<1>5. Recorded(n)'
  BY <1>1, SMT DEF NodeInv, TypeOK, Contents, Servers, Epochs, Shape, Flags,
     Epoch, Recorded, Open, Active, Joined, Up, ObjectInv, Reclaim
<1>6. Promise(n)'
  BY <1>1, SMT DEF NodeInv, TypeOK, Contents, Servers, Epochs, Shape, Flags,
     Epoch, Recorded, Promise, Open, Canonical, Active, Joined, Up, ObjectInv,
     Reclaim
<1>7. TypeOK'
  <2>1. srv' \in [Nodes -> Servers]
    <3>1. srv[n] \in Servers
      BY <1>1 DEF TypeOK
    <3>2. (srv[n].held \cup {c}) \in SUBSET Clients
      BY <3>1, <1>1, ClusterAssumption
         DEF Servers, Mains, Statuses, Reapers, TypeOK, Contents, Epochs,
             NodeInv, Shape, Flags, Joined, Up, ObjectInv
    <3> DEFINE s == [srv[n] EXCEPT !.held = @ \cup {c}]
    <3>3. s \in Servers
      BY <3>1, <3>2 DEF Servers
    <3>4. srv' = [srv EXCEPT ![n] = s]
      BY <1>1 DEF TypeOK, Reclaim
    <3> QED
      BY <1>1, <3>3, <3>4 DEF TypeOK
  <2>2. \A m \in Nodes : srv'[m].recov <= db'.cur
    BY <1>1 DEF TypeOK, Contents, Servers, Reclaim
  <2>3. records' \in [Epochs -> [Nodes -> SUBSET Clients]]
    BY <1>1 DEF TypeOK, Servers, Reclaim
  <2> QED
    BY <1>1, <2>1, <2>2, <2>3, ClusterAssumption DEF TypeOK, Reclaim
<1>8. \A m \in Nodes \ {n} :
        /\ srv'[m] = srv[m] /\ owed'[m] = owed[m] /\ exempt'[m] = exempt[m]
        /\ \A e \in Epochs : records'[e][m] = records[e][m]
  BY <1>1 DEF TypeOK, Reclaim
<1>9. Recovering(n)' => Recovering(n) \/ db.enforcing = Nodes
  BY <1>1
     DEF Recovering, NodeInv, Shape, Flags, Active, Joined, Up, TypeOK,
         ObjectInv, Servers, AllEnforcing, Reclaim
<1>10. UNCHANGED <<db, half, astray>>
  BY DEF Reclaim
<1> QED
  BY <1>2, <1>3, <1>4, <1>5, <1>6, <1>7, <1>8, <1>9, <1>10, LocalStep
     DEF NodeInv

\* A client expires, with its state, and is about to be deleted.
LEMMA ExpireInv ==
  ASSUME IInv, NEW n \in Nodes, NEW c \in Clients, Expire(n, c)
  PROVE  IInv'
<1>1. TypeOK /\ ObjectInv /\ NodeInv(n)
  BY DEF IInv
<1>2. Shape(n)'
  BY <1>1, SMT DEF NodeInv, TypeOK, Contents, Servers, Epochs, Shape, Active,
     Joined, Up, Expire
<1>3. Flags(n)'
  BY <1>1, SMT DEF NodeInv, TypeOK, Contents, Servers, Epochs, Shape, Flags,
     Active, Joined, Up, ObjectInv, Expire
<1>4. Epoch(n)'
  BY <1>1, SMTT(30) DEF NodeInv, TypeOK, Contents, Servers, Epochs, Shape, Flags,
     Epoch, Active, Joined, Up, ObjectInv, Expire
<1>5. Recorded(n)'
  BY <1>1, SMT DEF NodeInv, TypeOK, Contents, Servers, Epochs, Shape, Flags,
     Epoch, Recorded, Open, Active, Joined, Up, ObjectInv, Expire
<1>6. Promise(n)'
  BY <1>1, SMT DEF NodeInv, TypeOK, Contents, Servers, Epochs, Shape, Flags,
     Epoch, Recorded, Promise, Open, Canonical, Active, Joined, Up, ObjectInv,
     Expire
<1>7. TypeOK'
  <2>1. srv' \in [Nodes -> Servers]
    <3>1. srv[n] \in Servers
      BY <1>1 DEF TypeOK
    <3>2. /\ (srv[n].confirmed \ {c}) \in SUBSET Clients
          /\ (srv[n].held \ {c}) \in SUBSET Clients
          /\ (srv[n].allow \ {c}) \in SUBSET Clients
          /\ (srv[n].removing \cup {c}) \in SUBSET Clients
      BY <3>1, <1>1, ClusterAssumption
         DEF Servers, Mains, Statuses, Reapers, TypeOK, Contents, Epochs,
             NodeInv, Shape, Flags, Joined, Up, ObjectInv
    <3> DEFINE s == [srv[n] EXCEPT !.confirmed = @ \ {c},
                                   !.held = @ \ {c},
                                   !.allow = @ \ {c},
                                   !.removing = @ \cup {c}]
    <3>3. s \in Servers
      BY <3>1, <3>2 DEF Servers
    <3>4. srv' = [srv EXCEPT ![n] = s]
      BY <1>1 DEF TypeOK, Expire
    <3> QED
      BY <1>1, <3>3, <3>4 DEF TypeOK
  <2>2. \A m \in Nodes : srv'[m].recov <= db'.cur
    BY <1>1, SMT DEF TypeOK, Contents, Servers, Expire
  <2>3. records' \in [Epochs -> [Nodes -> SUBSET Clients]]
    BY <1>1 DEF TypeOK, Servers, Expire
  <2> QED
    BY <1>1, <2>1, <2>2, <2>3, ClusterAssumption DEF TypeOK, Expire
<1>8. \A m \in Nodes \ {n} :
        /\ srv'[m] = srv[m] /\ owed'[m] = owed[m] /\ exempt'[m] = exempt[m]
        /\ \A e \in Epochs : records'[e][m] = records[e][m]
  BY <1>1 DEF TypeOK, Expire
<1>9. Recovering(n)' => Recovering(n) \/ db.enforcing = Nodes
  BY <1>1, SMT
     DEF Recovering, NodeInv, Shape, Flags, Active, Joined, Up, TypeOK,
         ObjectInv, Servers, AllEnforcing, Expire
<1>10. UNCHANGED <<db, half, astray>>
  BY DEF Expire
<1> QED
  BY <1>2, <1>3, <1>4, <1>5, <1>6, <1>7, <1>8, <1>9, <1>10, LocalStep
     DEF NodeInv

\* rados_kv_rm_clid deletes the client from the database in use.
LEMMA RmClidInv ==
  ASSUME IInv, NEW n \in Nodes, NEW c \in Clients, RmClid(n, c)
  PROVE  IInv'
<1>1. TypeOK /\ ObjectInv /\ NodeInv(n)
  BY DEF IInv
<1>0. srv[n].recov \in Epochs
  BY <1>1, ClusterAssumption, SMT
     DEF NodeInv, Shape, TypeOK, Servers, Mains, Joined, Up, Epochs, RmClid
<1>2. Shape(n)'
  BY <1>1, SMT DEF NodeInv, TypeOK, Contents, Servers, Epochs, Shape, Active,
     Joined, Up, RmClid
<1>3. Flags(n)'
  BY <1>1, SMT DEF NodeInv, TypeOK, Contents, Servers, Epochs, Shape, Flags,
     Active, Joined, Up, ObjectInv, RmClid
<1>4. Epoch(n)'
  BY <1>1, SMT DEF NodeInv, TypeOK, Contents, Servers, Epochs, Shape, Flags,
     Epoch, Active, Joined, Up, ObjectInv, RmClid
<1>5. Recorded(n)'
  BY <1>1, SMT DEF NodeInv, TypeOK, Contents, Servers, Epochs, Shape, Flags,
     Epoch, Recorded, Open, Active, Joined, Up, ObjectInv, RmClid
<1>6. Promise(n)'
  BY <1>1, SMT DEF NodeInv, TypeOK, Contents, Servers, Epochs, Shape, Flags,
     Epoch, Recorded, Promise, Open, Canonical, Active, Joined, Up, ObjectInv,
     RmClid
<1>7. TypeOK'
  <2>1. srv' \in [Nodes -> Servers]
    <3>1. srv[n] \in Servers
      BY <1>1 DEF TypeOK
    <3>2. (srv[n].removing \ {c}) \in SUBSET Clients
      BY <3>1, <1>1, ClusterAssumption
         DEF Servers, Mains, Statuses, Reapers, TypeOK, Contents, Epochs,
             NodeInv, Shape, Flags, Joined, Up, ObjectInv
    <3> DEFINE s == [srv[n] EXCEPT !.removing = @ \ {c}]
    <3>3. s \in Servers
      BY <3>1, <3>2 DEF Servers
    <3>4. srv' = [srv EXCEPT ![n] = s]
      BY <1>1 DEF TypeOK, RmClid
    <3> QED
      BY <1>1, <3>3, <3>4 DEF TypeOK
  <2>2. \A m \in Nodes : srv'[m].recov <= db'.cur
    BY <1>1 DEF TypeOK, Contents, Servers, RmClid
  <2>3. records' \in [Epochs -> [Nodes -> SUBSET Clients]]
    <3>1. records[srv[n].recov][n] \ {c} \in SUBSET Clients
      BY <1>0, <1>1, SMT DEF TypeOK
    <3>2. records' = [records EXCEPT ![srv[n].recov] =
                         [records[srv[n].recov] EXCEPT
                            ![n] = records[srv[n].recov][n] \ {c}]]
      BY <1>1 DEF TypeOK, RmClid
    <3> QED
      BY <1>1, <3>1, <3>2 DEF TypeOK
  <2> QED
    BY <1>1, <2>1, <2>2, <2>3, ClusterAssumption DEF TypeOK, RmClid
<1>8. \A m \in Nodes \ {n} :
        /\ srv'[m] = srv[m] /\ owed'[m] = owed[m] /\ exempt'[m] = exempt[m]
        /\ \A e \in Epochs : records'[e][m] = records[e][m]
  BY <1>1 DEF TypeOK, RmClid
<1>9. Recovering(n)' => Recovering(n) \/ db.enforcing = Nodes
  BY <1>1, SMT
     DEF Recovering, NodeInv, Shape, Flags, Active, Joined, Up, TypeOK,
         ObjectInv, Servers, AllEnforcing, RmClid
<1>10. UNCHANGED <<db, half, astray>>
  BY DEF RmClid
<1> QED
  BY <1>2, <1>3, <1>4, <1>5, <1>6, <1>7, <1>8, <1>9, <1>10, LocalStep
     DEF NodeInv

\* DESTROY_CLIENTID deletes the record of a client that is still in the table.
LEMMA DestroyClientidInv ==
  ASSUME IInv, NEW n \in Nodes, NEW c \in Clients, DestroyClientid(n, c)
  PROVE  IInv'
<1>1. TypeOK /\ ObjectInv /\ NodeInv(n)
  BY DEF IInv
<1>0. srv[n].recov \in Epochs
  BY <1>1, ClusterAssumption, SMT
     DEF NodeInv, Shape, TypeOK, Servers, Mains, Joined, Up, Epochs, DestroyClientid
<1>2. Shape(n)'
  BY <1>1, SMT DEF NodeInv, TypeOK, Contents, Servers, Epochs, Shape, Active,
     Joined, Up, DestroyClientid
<1>3. Flags(n)'
  BY <1>1, SMT DEF NodeInv, TypeOK, Contents, Servers, Epochs, Shape, Flags,
     Active, Joined, Up, ObjectInv, DestroyClientid
<1>4. Epoch(n)'
  BY <1>1, SMTT(30) DEF NodeInv, TypeOK, Contents, Servers, Epochs, Shape, Flags,
     Epoch, Active, Joined, Up, ObjectInv, DestroyClientid
<1>5. Recorded(n)'
  BY <1>1, SMTT(30) DEF NodeInv, TypeOK, Contents, Servers, Epochs, Shape, Flags,
     Epoch, Recorded, Open, Active, Joined, Up, ObjectInv, DestroyClientid
<1>6. Promise(n)'
  BY <1>1, SMT DEF NodeInv, TypeOK, Contents, Servers, Epochs, Shape, Flags,
     Epoch, Recorded, Promise, Open, Canonical, Active, Joined, Up, ObjectInv,
     DestroyClientid
<1>7. TypeOK'
  <2>1. srv' \in [Nodes -> Servers]
    <3>1. srv[n] \in Servers
      BY <1>1 DEF TypeOK
    <3>2. /\ (srv[n].destroying \cup {c}) \in SUBSET Clients
          /\ (srv[n].held \ {c}) \in SUBSET Clients
          /\ (srv[n].allow \ {c}) \in SUBSET Clients
      BY <3>1, <1>1, ClusterAssumption
         DEF Servers, Mains, Statuses, Reapers, TypeOK, Contents, Epochs,
             NodeInv, Shape, Flags, Joined, Up, ObjectInv
    <3> DEFINE s == [srv[n] EXCEPT !.destroying = @ \cup {c},
                                   !.held = @ \ {c},
                                   !.allow = @ \ {c}]
    <3>3. s \in Servers
      BY <3>1, <3>2 DEF Servers
    <3>4. srv' = [srv EXCEPT ![n] = s]
      BY <1>1 DEF TypeOK, DestroyClientid
    <3> QED
      BY <1>1, <3>3, <3>4 DEF TypeOK
  <2>2. \A m \in Nodes : srv'[m].recov <= db'.cur
    BY <1>1 DEF TypeOK, Contents, Servers, DestroyClientid
  <2>3. records' \in [Epochs -> [Nodes -> SUBSET Clients]]
    <3>1. records[srv[n].recov][n] \ {c} \in SUBSET Clients
      BY <1>0, <1>1, SMT DEF TypeOK
    <3>2. records' = [records EXCEPT ![srv[n].recov] =
                         [records[srv[n].recov] EXCEPT
                            ![n] = records[srv[n].recov][n] \ {c}]]
      BY <1>1 DEF TypeOK, DestroyClientid
    <3> QED
      BY <1>1, <3>1, <3>2 DEF TypeOK
  <2> QED
    BY <1>1, <2>1, <2>2, <2>3, ClusterAssumption DEF TypeOK, DestroyClientid
<1>8. \A m \in Nodes \ {n} :
        /\ srv'[m] = srv[m] /\ owed'[m] = owed[m] /\ exempt'[m] = exempt[m]
        /\ \A e \in Epochs : records'[e][m] = records[e][m]
  BY <1>1 DEF TypeOK, DestroyClientid
<1>9. Recovering(n)' => Recovering(n) \/ db.enforcing = Nodes
  BY <1>1, SMT
     DEF Recovering, NodeInv, Shape, Flags, Active, Joined, Up, TypeOK,
         ObjectInv, Servers, AllEnforcing, DestroyClientid
<1>10. UNCHANGED <<db, half, astray>>
  BY DEF DestroyClientid
<1> QED
  BY <1>2, <1>3, <1>4, <1>5, <1>6, <1>7, <1>8, <1>9, <1>10, LocalStep
     DEF NodeInv

\* The client leaves the table; what the walk put back of it is exempt.
LEMMA RemoveConfirmedInv ==
  ASSUME IInv, NEW n \in Nodes, NEW c \in Clients, RemoveConfirmed(n, c)
  PROVE  IInv'
<1>1. TypeOK /\ ObjectInv /\ NodeInv(n)
  BY DEF IInv
<1>2. Shape(n)'
  BY <1>1, SMT DEF NodeInv, TypeOK, Contents, Servers, Epochs, Shape, Active,
     Joined, Up, RemoveConfirmed
<1>3. Flags(n)'
  BY <1>1, SMT DEF NodeInv, TypeOK, Contents, Servers, Epochs, Shape, Flags,
     Active, Joined, Up, ObjectInv, RemoveConfirmed
<1>4. Epoch(n)'
  BY <1>1, SMT DEF NodeInv, TypeOK, Contents, Servers, Epochs, Shape, Flags,
     Epoch, Active, Joined, Up, ObjectInv, RemoveConfirmed
<1>5. Recorded(n)'
  BY <1>1, SMT DEF NodeInv, TypeOK, Contents, Servers, Epochs, Shape, Flags,
     Epoch, Recorded, Open, Active, Joined, Up, ObjectInv, RemoveConfirmed
<1>6. Promise(n)'
  BY <1>1, SMT DEF NodeInv, TypeOK, Contents, Servers, Epochs, Shape, Flags,
     Epoch, Recorded, Promise, Open, Canonical, Active, Joined, Up, ObjectInv,
     RemoveConfirmed
<1>7. TypeOK'
  <2>1. srv' \in [Nodes -> Servers]
    <3>1. srv[n] \in Servers
      BY <1>1 DEF TypeOK
    <3>2. /\ (srv[n].confirmed \ {c}) \in SUBSET Clients
          /\ (srv[n].destroying \ {c}) \in SUBSET Clients
      BY <3>1, <1>1, ClusterAssumption
         DEF Servers, Mains, Statuses, Reapers, TypeOK, Contents, Epochs,
             NodeInv, Shape, Flags, Joined, Up, ObjectInv
    <3> DEFINE s == [srv[n] EXCEPT !.confirmed = @ \ {c},
                                   !.destroying = @ \ {c}]
    <3>3. s \in Servers
      BY <3>1, <3>2 DEF Servers
    <3>4. srv' = [srv EXCEPT ![n] = s]
      BY <1>1 DEF TypeOK, RemoveConfirmed
    <3> QED
      BY <1>1, <3>3, <3>4 DEF TypeOK
  <2>2. \A m \in Nodes : srv'[m].recov <= db'.cur
    BY <1>1, SMT DEF TypeOK, Contents, Servers, RemoveConfirmed
  <2>3. records' \in [Epochs -> [Nodes -> SUBSET Clients]]
    BY <1>1 DEF TypeOK, Servers, RemoveConfirmed
  <2> QED
    BY <1>1, <2>1, <2>2, <2>3, ClusterAssumption DEF TypeOK, RemoveConfirmed
<1>8. \A m \in Nodes \ {n} :
        /\ srv'[m] = srv[m] /\ owed'[m] = owed[m] /\ exempt'[m] = exempt[m]
        /\ \A e \in Epochs : records'[e][m] = records[e][m]
  BY <1>1 DEF TypeOK, RemoveConfirmed
<1>9. Recovering(n)' => Recovering(n) \/ db.enforcing = Nodes
  BY <1>1, SMT
     DEF Recovering, NodeInv, Shape, Flags, Active, Joined, Up, TypeOK,
         ObjectInv, Servers, AllEnforcing, RemoveConfirmed
<1>10. UNCHANGED <<db, half, astray>>
  BY DEF RemoveConfirmed
<1> QED
  BY <1>2, <1>3, <1>4, <1>5, <1>6, <1>7, <1>8, <1>9, <1>10, LocalStep
     DEF NodeInv

\* A crash turns the state held into state owed.
LEMMA CrashInv ==
  ASSUME IInv, NEW n \in Nodes, Crash(n)
  PROVE  IInv'
<1>1. TypeOK /\ ObjectInv /\ NodeInv(n)
  BY DEF IInv
<1>2. Shape(n)'
  BY <1>1 DEF NodeInv, TypeOK, Contents, Servers, Epochs, Shape, Active,
     Joined, Up, Crash, Down
<1>3. Flags(n)'
  BY <1>1 DEF NodeInv, TypeOK, Contents, Servers, Epochs, Shape, Flags,
     Active, Joined, Up, ObjectInv, Crash, Down
<1>4. Epoch(n)'
  BY <1>1 DEF NodeInv, TypeOK, Contents, Servers, Epochs, Shape, Flags,
     Epoch, Active, Joined, Up, ObjectInv, Crash, Down
<1>5. Recorded(n)'
  BY <1>1 DEF NodeInv, TypeOK, Contents, Servers, Epochs, Shape, Flags,
     Epoch, Recorded, Open, Active, Joined, Up, ObjectInv, Crash, Down
<1>6. Promise(n)'
  BY <1>1 DEF NodeInv, TypeOK, Contents, Servers, Epochs, Shape, Flags,
     Epoch, Recorded, Promise, Open, Canonical, Active, Joined, Up, ObjectInv,
     Crash, Down
<1>7. TypeOK'
  <2>1. srv' \in [Nodes -> Servers]
    <3>1. Down \in Servers
      BY ClusterAssumption, SMT DEF Down, Servers, Mains, Statuses, Reapers
    <3> QED
      BY <1>1, <3>1 DEF TypeOK, Crash
  <2>2. \A m \in Nodes : srv'[m].recov <= db'.cur
    BY <1>1, SMT DEF TypeOK, Contents, Servers, Crash, Down
  <2>3. records' \in [Epochs -> [Nodes -> SUBSET Clients]]
    BY <1>1 DEF TypeOK, Servers, Crash, Down
  <2>4. crashes' \in 0..MaxCrashes
    BY <1>1, ClusterAssumption, SMT DEF TypeOK, Crash
  <2>5. owed' \in [Nodes -> SUBSET Clients]
    BY <1>1 DEF TypeOK, Servers, Crash
  <2> QED
    BY <1>1, <2>1, <2>2, <2>3, <2>4, <2>5 DEF TypeOK, Crash
<1>8. \A m \in Nodes \ {n} :
        /\ srv'[m] = srv[m] /\ owed'[m] = owed[m] /\ exempt'[m] = exempt[m]
        /\ \A e \in Epochs : records'[e][m] = records[e][m]
  BY <1>1 DEF TypeOK, Crash
<1>9. Recovering(n)' => Recovering(n) \/ db.enforcing = Nodes
  BY <1>1
     DEF Recovering, NodeInv, Shape, Flags, Active, Joined, Up, TypeOK,
         ObjectInv, Servers, AllEnforcing, Crash, Down
<1>10. UNCHANGED <<db, half, astray>>
  BY DEF Crash
<1> QED
  BY <1>2, <1>3, <1>4, <1>5, <1>6, <1>7, <1>8, <1>9, <1>10, LocalStep
     DEF NodeInv

\* A server stops with no request and no reaper under way.
LEMMA StopInv ==
  ASSUME IInv, NEW n \in Nodes, Stop(n)
  PROVE  IInv'
<1>1. TypeOK /\ ObjectInv /\ NodeInv(n)
  BY DEF IInv
<1>2. Shape(n)'
  BY <1>1, SMT DEF NodeInv, TypeOK, Contents, Servers, Epochs, Shape, Active,
     Joined, Up, Stop
<1>3. Flags(n)'
  BY <1>1, SMT DEF NodeInv, TypeOK, Contents, Servers, Epochs, Shape, Flags,
     Active, Joined, Up, ObjectInv, Stop
<1>4. Epoch(n)'
  BY <1>1, SMT DEF NodeInv, TypeOK, Contents, Servers, Epochs, Shape, Flags,
     Epoch, Active, Joined, Up, ObjectInv, Stop
<1>5. Recorded(n)'
  BY <1>1, SMT DEF NodeInv, TypeOK, Contents, Servers, Epochs, Shape, Flags,
     Epoch, Recorded, Open, Active, Joined, Up, ObjectInv, Stop
<1>6. Promise(n)'
  BY <1>1, SMT DEF NodeInv, TypeOK, Contents, Servers, Epochs, Shape, Flags,
     Epoch, Recorded, Promise, Open, Canonical, Active, Joined, Up, ObjectInv,
     Stop
<1>7. TypeOK'
  <2>1. srv' \in [Nodes -> Servers]
    <3>1. srv[n] \in Servers
      BY <1>1 DEF TypeOK
    <3>2. "stopping" \in Mains
      BY <3>1, <1>1, ClusterAssumption
         DEF Servers, Mains, Statuses, Reapers, TypeOK, Contents, Epochs,
             NodeInv, Shape, Flags, Joined, Up, ObjectInv
    <3> DEFINE s == [srv[n] EXCEPT !.main = "stopping"]
    <3>3. s \in Servers
      BY <3>1, <3>2 DEF Servers
    <3>4. srv' = [srv EXCEPT ![n] = s]
      BY <1>1 DEF TypeOK, Stop
    <3> QED
      BY <1>1, <3>3, <3>4 DEF TypeOK
  <2>2. \A m \in Nodes : srv'[m].recov <= db'.cur
    BY <1>1 DEF TypeOK, Contents, Servers, Stop
  <2>3. records' \in [Epochs -> [Nodes -> SUBSET Clients]]
    BY <1>1 DEF TypeOK, Servers, Stop
  <2> QED
    BY <1>1, <2>1, <2>2, <2>3, ClusterAssumption, SMT DEF TypeOK, Stop
<1>8. \A m \in Nodes \ {n} :
        /\ srv'[m] = srv[m] /\ owed'[m] = owed[m] /\ exempt'[m] = exempt[m]
        /\ \A e \in Epochs : records'[e][m] = records[e][m]
  BY <1>1 DEF TypeOK, Stop
<1>9. Recovering(n)' => Recovering(n) \/ db.enforcing = Nodes
  BY <1>1, SMT
     DEF Recovering, NodeInv, Shape, Flags, Active, Joined, Up, TypeOK,
         ObjectInv, Servers, AllEnforcing, Stop
<1>10. UNCHANGED <<db, half, astray>>
  BY DEF Stop
<1> QED
  BY <1>2, <1>3, <1>4, <1>5, <1>6, <1>7, <1>8, <1>9, <1>10, LocalStep
     DEF NodeInv

\* rados_grace_enforcing_on at boot: the server seems to enforce before it
\* joins, with clients that it owes recovery.
LEMMA BootEnforcingInv ==
  ASSUME IInv, NEW n \in Nodes, BootEnforcing(n)
  PROVE  IInv'
<1>1. TypeOK /\ ObjectInv /\ NodeInv(n)
  BY DEF IInv
<1>2. /\ db'.member = Nodes /\ db'.need = db.need
      /\ db'.enforcing = db.enforcing \cup {n}
      /\ db'.cur = db.cur /\ db'.rec = db.rec /\ db' \in Contents
  BY <1>1, ToggleFields DEF BootEnforcing
<1>3. /\ srv[n].main = "enforce"
      /\ srv' = [srv EXCEPT ![n].main = "join"]
      /\ half' = half \cup ({n} \ db.need)
      /\ UNCHANGED <<records, crashes, owed, exempt, astray>>
  BY DEF BootEnforcing
<1>4. Shape(n)'
  BY <1>1, <1>2, <1>3, SMT DEF NodeInv, TypeOK, Contents, Servers, Epochs,
     Shape, Active, Joined, Up
<1>5. Flags(n)'
  BY <1>1, <1>2, <1>3, SMT DEF NodeInv, TypeOK, Contents, Servers, Epochs,
     Shape, Flags, Active, Joined, Up, ObjectInv
<1>6. Epoch(n)'
  BY <1>1, <1>2, <1>3, SMT DEF NodeInv, TypeOK, Contents, Servers, Epochs,
     Shape, Flags, Epoch, Active, Joined, Up, ObjectInv
<1>7. Recorded(n)'
  BY <1>1, <1>2, <1>3, SMT DEF NodeInv, TypeOK, Contents, Servers, Epochs,
     Shape, Flags, Epoch, Recorded, Open, Active, Joined, Up, ObjectInv
<1>8. Promise(n)'
  BY <1>1, <1>2, <1>3, SMT DEF NodeInv, TypeOK, Contents, Servers, Epochs,
     Shape, Flags, Epoch, Recorded, Promise, Open, Canonical, Active, Joined,
     Up, ObjectInv
<1>9. TypeOK'
  <2>0. db'.cur \in Epochs /\ db'.need \subseteq db'.member
    BY <1>1, <1>2 DEF TypeOK, Contents
  <2>1. srv' \in [Nodes -> Servers]
    <3>1. srv[n] \in Servers
      BY <1>1 DEF TypeOK
    <3>2. "join" \in Mains
      BY <3>1, <1>1, <1>2, <1>3, <2>0, ClusterAssumption
         DEF Servers, Mains, Statuses, Reapers, TypeOK, Contents, Epochs,
             NodeInv, Shape, Flags, Joined, Up, ObjectInv
    <3> DEFINE s == [srv[n] EXCEPT !.main = "join"]
    <3>3. s \in Servers
      BY <3>1, <3>2 DEF Servers
    <3>4. srv' = [srv EXCEPT ![n] = s]
      BY <1>1, <1>3 DEF TypeOK
    <3> QED
      BY <1>1, <3>3, <3>4 DEF TypeOK
  <2>2. \A m \in Nodes : srv'[m].recov <= db'.cur
    BY <1>1, <1>2, <1>3, SMT DEF TypeOK, Contents, Servers
  <2>3. owed' \in [Nodes -> SUBSET Clients]
    BY <1>1, <1>3 DEF TypeOK, Servers
  <2>4. half' \subseteq Nodes /\ astray' \subseteq Nodes
    BY <1>1, <1>3 DEF TypeOK, Contents
  <2> QED
    BY <1>1, <1>2, <1>3, <2>0, <2>1, <2>2, <2>3, <2>4 DEF TypeOK
<1>10. ObjectInv'
  BY <1>1, <1>2 DEF ObjectInv, TypeOK, Contents
<1>11. ASSUME NEW m \in Nodes, m # n PROVE NodeInv(m)'
  <2>1. TypeOK /\ ObjectInv /\ NodeInv(m)
    BY DEF IInv
  <2>2. Kept(m)
    BY <1>1, <1>2, <1>3, <1>11 DEF Kept, TypeOK
  <2>3. m \in astray' <=> m \in astray
    BY <1>3, <1>11
  <2> QED
    BY <1>2, <2>1, <2>2, <2>3, OtherSame
<1>12. Exclusive'
  <2>1. \A k \in Nodes : Recovering(k)' => Recovering(k)
    BY <1>1, <1>2, <1>3 DEF Recovering, TypeOK, Servers
  <2>2. astray \subseteq astray' /\ db.enforcing \subseteq db'.enforcing
    BY <1>2, <1>3
  <2> QED
    BY <2>1, <2>2 DEF IInv, Exclusive
<1> QED
  BY <1>4, <1>5, <1>6, <1>7, <1>8, <1>9, <1>10, <1>11, <1>12 DEF IInv, NodeInv

\* rados_cluster_set_enforcing reports that the server is in grace.
LEMMA SetEnforcingInv ==
  ASSUME IInv, NEW n \in Nodes, SetEnforcing(n)
  PROVE  IInv'
<1>1. TypeOK /\ ObjectInv /\ NodeInv(n)
  BY DEF IInv
<1>2. /\ db'.member = Nodes /\ db'.need = db.need
      /\ db'.enforcing = db.enforcing \cup {n}
      /\ db'.cur = db.cur /\ db'.rec = db.rec /\ db' \in Contents
  BY <1>1, ToggleFields DEF SetEnforcing
<1>3. /\ srv[n].reaper = "flag"
      /\ srv' = [srv EXCEPT ![n].reaper = "idle"]
      /\ UNCHANGED <<records, crashes, owed, exempt, half, astray>>
  BY DEF SetEnforcing
<1>4. Shape(n)'
  BY <1>1, <1>2, <1>3, SMT DEF NodeInv, TypeOK, Contents, Servers, Epochs,
     Shape, Active, Joined, Up
<1>5. Flags(n)'
  BY <1>1, <1>2, <1>3, SMT DEF NodeInv, TypeOK, Contents, Servers, Epochs,
     Shape, Flags, Active, Joined, Up, ObjectInv
<1>6. Epoch(n)'
  BY <1>1, <1>2, <1>3, SMT DEF NodeInv, TypeOK, Contents, Servers, Epochs,
     Shape, Flags, Epoch, Active, Joined, Up, ObjectInv
<1>7. Recorded(n)'
  BY <1>1, <1>2, <1>3, SMT DEF NodeInv, TypeOK, Contents, Servers, Epochs,
     Shape, Flags, Epoch, Recorded, Open, Active, Joined, Up, ObjectInv
<1>8. Promise(n)'
  BY <1>1, <1>2, <1>3, SMT DEF NodeInv, TypeOK, Contents, Servers, Epochs,
     Shape, Flags, Epoch, Recorded, Promise, Open, Canonical, Active, Joined,
     Up, ObjectInv
<1>9. TypeOK'
  <2>0. db'.cur \in Epochs /\ db'.need \subseteq db'.member
    BY <1>1, <1>2 DEF TypeOK, Contents
  <2>1. srv' \in [Nodes -> Servers]
    <3>1. srv[n] \in Servers
      BY <1>1 DEF TypeOK
    <3>2. "idle" \in Reapers
      BY <3>1, <1>1, <1>2, <1>3, <2>0, ClusterAssumption
         DEF Servers, Mains, Statuses, Reapers, TypeOK, Contents, Epochs,
             NodeInv, Shape, Flags, Joined, Up, ObjectInv
    <3> DEFINE s == [srv[n] EXCEPT !.reaper = "idle"]
    <3>3. s \in Servers
      BY <3>1, <3>2 DEF Servers
    <3>4. srv' = [srv EXCEPT ![n] = s]
      BY <1>1, <1>3 DEF TypeOK
    <3> QED
      BY <1>1, <3>3, <3>4 DEF TypeOK
  <2>2. \A m \in Nodes : srv'[m].recov <= db'.cur
    BY <1>1, <1>2, <1>3, SMT DEF TypeOK, Contents, Servers
  <2>3. owed' \in [Nodes -> SUBSET Clients]
    BY <1>1, <1>3 DEF TypeOK, Servers
  <2>4. half' \subseteq Nodes /\ astray' \subseteq Nodes
    BY <1>1, <1>3 DEF TypeOK, Contents
  <2> QED
    BY <1>1, <1>2, <1>3, <2>0, <2>1, <2>2, <2>3, <2>4 DEF TypeOK
<1>10. ObjectInv'
  BY <1>1, <1>2 DEF ObjectInv, TypeOK, Contents
<1>11. ASSUME NEW m \in Nodes, m # n PROVE NodeInv(m)'
  <2>1. TypeOK /\ ObjectInv /\ NodeInv(m)
    BY DEF IInv
  <2>2. Kept(m)
    BY <1>1, <1>2, <1>3, <1>11 DEF Kept, TypeOK
  <2>3. m \in astray' <=> m \in astray
    BY <1>3, <1>11
  <2> QED
    BY <1>2, <2>1, <2>2, <2>3, OtherSame
<1>12. Exclusive'
  <2>1. \A k \in Nodes : Recovering(k)' => Recovering(k)
    BY <1>1, <1>2, <1>3 DEF Recovering, TypeOK, Servers
  <2>2. astray \subseteq astray' /\ db.enforcing \subseteq db'.enforcing
    BY <1>2, <1>3
  <2> QED
    BY <2>1, <2>2 DEF IInv, Exclusive
<1> QED
  BY <1>4, <1>5, <1>6, <1>7, <1>8, <1>9, <1>10, <1>11, <1>12 DEF IInv, NodeInv

\* rados_grace_enforcing_off withdraws the flag.  If a grace period is in
\* force the server is astray and stays so.
LEMMA EnforcingOffInv ==
  ASSUME IInv, NEW n \in Nodes, EnforcingOff(n)
  PROVE  IInv'
<1>1. TypeOK /\ ObjectInv /\ NodeInv(n)
  BY DEF IInv
<1>2. /\ db'.member = Nodes /\ db'.need = db.need
      /\ db'.enforcing = db.enforcing \ {n}
      /\ db'.cur = db.cur /\ db'.rec = db.rec /\ db' \in Contents
  BY <1>1, ToggleFields DEF EnforcingOff
<1>3. /\ srv[n].reaper = "ending"
      /\ srv' = [srv EXCEPT ![n].reaper = "removing"]
      /\ astray' = IF srv[n].recov = db.cur THEN astray \ {n} ELSE astray
      /\ UNCHANGED <<records, crashes, owed, exempt, half>>
  BY DEF EnforcingOff
<1>4. Shape(n)'
  BY <1>1, <1>2, <1>3, SMT DEF NodeInv, TypeOK, Contents, Servers, Epochs,
     Shape, Active, Joined, Up
<1>5. Flags(n)'
  BY <1>1, <1>2, <1>3, SMT DEF NodeInv, TypeOK, Contents, Servers, Epochs,
     Shape, Flags, Active, Joined, Up, ObjectInv
<1>6. Epoch(n)'
  BY <1>1, <1>2, <1>3, SMT DEF NodeInv, TypeOK, Contents, Servers, Epochs,
     Shape, Flags, Epoch, Active, Joined, Up, ObjectInv
<1>7. Recorded(n)'
  BY <1>1, <1>2, <1>3, SMT DEF NodeInv, TypeOK, Contents, Servers, Epochs,
     Shape, Flags, Epoch, Recorded, Open, Active, Joined, Up, ObjectInv
<1>8. Promise(n)'
  BY <1>1, <1>2, <1>3, SMT DEF NodeInv, TypeOK, Contents, Servers, Epochs,
     Shape, Flags, Epoch, Recorded, Promise, Open, Canonical, Active, Joined,
     Up, ObjectInv
<1>9. TypeOK'
  <2>0. db'.cur \in Epochs /\ db'.need \subseteq db'.member
    BY <1>1, <1>2 DEF TypeOK, Contents
  <2>1. srv' \in [Nodes -> Servers]
    <3>1. srv[n] \in Servers
      BY <1>1 DEF TypeOK
    <3>2. "removing" \in Reapers
      BY <3>1, <1>1, <1>2, <1>3, <2>0, ClusterAssumption
         DEF Servers, Mains, Statuses, Reapers, TypeOK, Contents, Epochs,
             NodeInv, Shape, Flags, Joined, Up, ObjectInv
    <3> DEFINE s == [srv[n] EXCEPT !.reaper = "removing"]
    <3>3. s \in Servers
      BY <3>1, <3>2 DEF Servers
    <3>4. srv' = [srv EXCEPT ![n] = s]
      BY <1>1, <1>3 DEF TypeOK
    <3> QED
      BY <1>1, <3>3, <3>4 DEF TypeOK
  <2>2. \A m \in Nodes : srv'[m].recov <= db'.cur
    BY <1>1, <1>2, <1>3, SMT DEF TypeOK, Contents, Servers
  <2>3. owed' \in [Nodes -> SUBSET Clients]
    BY <1>1, <1>3 DEF TypeOK, Servers
  <2>4. half' \subseteq Nodes /\ astray' \subseteq Nodes
    BY <1>1, <1>3 DEF TypeOK, Contents
  <2> QED
    BY <1>1, <1>2, <1>3, <2>0, <2>1, <2>2, <2>3, <2>4 DEF TypeOK
<1>10. ObjectInv'
  BY <1>1, <1>2 DEF ObjectInv, TypeOK, Contents
<1>11. ASSUME NEW m \in Nodes, m # n PROVE NodeInv(m)'
  <2>1. TypeOK /\ ObjectInv /\ NodeInv(m)
    BY DEF IInv
  <2>2. Kept(m)
    BY <1>1, <1>2, <1>3, <1>11 DEF Kept, TypeOK
  <2>3. m \in astray' <=> m \in astray
    BY <1>3, <1>11
  <2> QED
    BY <1>2, <2>1, <2>2, <2>3, OtherSame
<1>12. Exclusive'
  <2>1. \A k \in Nodes : Recovering(k)' => Recovering(k)
    BY <1>1, <1>2, <1>3, SMT DEF Recovering, TypeOK, Servers
  <2>2. \A k \in Nodes : Recovering(k) => n \in astray /\ astray' = astray
    BY <1>1, <1>3, SMT
       DEF Recovering, NodeInv, Epoch, ObjectInv, TypeOK, Contents, Servers
  <2> QED
    BY <1>2, <2>1, <2>2 DEF IInv, Exclusive
<1> QED
  BY <1>4, <1>5, <1>6, <1>7, <1>8, <1>9, <1>10, <1>11, <1>12 DEF IInv, NodeInv

\* rados_grace_join at boot joins the period or begins one.
LEMMA BootJoinInv ==
  ASSUME IInv, NEW n \in Nodes, BootJoin(n)
  PROVE  IInv'
<1>1. TypeOK /\ ObjectInv /\ NodeInv(n)
  BY DEF IInv
<1>2. /\ db'.member = Nodes /\ db'.need = db.need \cup {n}
      /\ db'.enforcing = db.enforcing \cup {n}
      /\ db.rec # 0 => db'.rec = db.rec /\ db'.cur = db.cur
      /\ db.rec = 0 => db'.rec = db.cur /\ db'.cur = db.cur + 1
      /\ db' \in [cur : Nat, rec : Nat, member : SUBSET Nodes,
                  need : SUBSET Nodes, enforcing : SUBSET Nodes]
  BY <1>1, JoinFields DEF BootJoin, JoinGrace
<1>3. /\ srv[n].main = "join"
      /\ srv' = [srv EXCEPT ![n].main = "create", ![n].recov = db'.cur,
                           ![n].old = db'.rec]
      /\ half' = half \ {n}
      /\ UNCHANGED <<records, crashes, owed, exempt>>
      /\ db.rec # 0 \/ db.cur < MaxEpoch
      /\ db.rec # 0 => astray' = astray
      /\ db.rec = 0 =>
           astray' = astray \cup {m \in db.enforcing \ {n} :
                                  srv[m].main \in Up \/ owed[m] # {}}
  BY DEF BootJoin, JoinGrace, Up
<1>4. Shape(n)'
  BY <1>1, <1>2, <1>3, SMT DEF NodeInv, TypeOK, Contents, Servers, Epochs,
     Shape, Active, Joined, Up
<1>5. Flags(n)'
  BY <1>1, <1>2, <1>3, SMT DEF NodeInv, TypeOK, Contents, Servers, Epochs,
     Shape, Flags, Active, Joined, Up, ObjectInv
<1>6. Epoch(n)'
  BY <1>1, <1>2, <1>3, SMT DEF NodeInv, TypeOK, Contents, Servers, Epochs,
     Shape, Flags, Epoch, Active, Joined, Up, ObjectInv
<1>7. Recorded(n)'
  BY <1>1, <1>2, <1>3, SMT DEF NodeInv, TypeOK, Contents, Servers, Epochs,
     Shape, Flags, Epoch, Recorded, Open, Active, Joined, Up, ObjectInv
<1>8. Promise(n)'
  BY <1>1, <1>2, <1>3, SMT DEF NodeInv, TypeOK, Contents, Servers, Epochs,
     Shape, Flags, Epoch, Recorded, Promise, Open, Canonical, Active, Joined,
     Up, ObjectInv
<1>9. TypeOK'
  <2>0. /\ db' \in Contents /\ db'.need \subseteq db'.member
        /\ db'.cur \in Epochs /\ db'.rec \in Epochs
    BY <1>1, <1>2, <1>3, ClusterAssumption, SMT
       DEF TypeOK, Contents, Epochs, ObjectInv
  <2>1. srv' \in [Nodes -> Servers]
    <3>1. srv[n] \in Servers
      BY <1>1 DEF TypeOK
    <3>2. /\ "create" \in Mains
          /\ db'.cur \in 0..MaxEpoch
          /\ db'.rec \in 0..MaxEpoch
      BY <3>1, <1>1, <1>2, <1>3, <2>0, ClusterAssumption, SMT
         DEF Servers, Mains, Statuses, Reapers, TypeOK, Contents, Epochs,
             NodeInv, Shape, Flags, Joined, Up, ObjectInv
    <3> DEFINE s == [srv[n] EXCEPT !.main = "create",
                                   !.recov = db'.cur,
                                   !.old = db'.rec]
    <3>3. s \in Servers
      BY <3>1, <3>2 DEF Servers
    <3>4. srv' = [srv EXCEPT ![n] = s]
      BY <1>1, <1>3 DEF TypeOK
    <3> QED
      BY <1>1, <3>3, <3>4 DEF TypeOK
  <2>2. \A m \in Nodes : srv'[m].recov <= db'.cur
    BY <1>1, <1>2, <1>3, SMT DEF TypeOK, Contents, Servers
  <2>3. owed' \in [Nodes -> SUBSET Clients]
    BY <1>1, <1>3 DEF TypeOK, Servers
  <2>4. half' \subseteq Nodes /\ astray' \subseteq Nodes
    BY <1>1, <1>3 DEF TypeOK, Contents
  <2> QED
    BY <1>1, <1>2, <1>3, <2>0, <2>1, <2>2, <2>3, <2>4 DEF TypeOK
<1>10. ObjectInv'
  BY <1>1, <1>2 DEF ObjectInv, TypeOK, Contents
<1>11. ASSUME NEW m \in Nodes, m # n PROVE NodeInv(m)'
  <2>1. TypeOK /\ ObjectInv /\ NodeInv(m)
    BY DEF IInv
  <2>2. Kept(m)
    BY <1>1, <1>2, <1>3, <1>11 DEF Kept, TypeOK
  <2>3. CASE db.rec # 0
    BY <1>2, <1>3, <2>1, <2>2, <2>3, OtherSame
  <2>4. CASE db.rec = 0
    <3>1. m \in astray' <=> \/ m \in astray
                            \/ m \in db.enforcing /\ (srv[m].main \in Up \/ owed[m] # {})
      BY <1>3, <1>11, <2>4
    <3> QED
      BY <1>2, <2>1, <2>2, <2>4, <3>1, OtherBegun
  <2> QED
    BY <2>3, <2>4
<1>12. Exclusive'
  <2>1. \A k \in Nodes : Recovering(k)' => Recovering(k)
    BY <1>1, <1>2, <1>3, SMT DEF Recovering, TypeOK, Servers
  <2>2. astray \subseteq astray' /\ db.enforcing \subseteq db'.enforcing
    BY <1>2, <1>3
  <2> QED
    BY <2>1, <2>2 DEF IInv, Exclusive
<1> QED
  BY <1>4, <1>5, <1>6, <1>7, <1>8, <1>9, <1>10, <1>11, <1>12 DEF IInv, NodeInv

\* rados_cluster_shutdown does the same for the server that leaves.
LEMMA ShutdownInv ==
  ASSUME IInv, NEW n \in Nodes, Shutdown(n)
  PROVE  IInv'
<1>1. TypeOK /\ ObjectInv /\ NodeInv(n)
  BY DEF IInv
<1>2. /\ db'.member = Nodes /\ db'.need = db.need \cup {n}
      /\ db'.enforcing = db.enforcing \cup {n}
      /\ db.rec # 0 => db'.rec = db.rec /\ db'.cur = db.cur
      /\ db.rec = 0 => db'.rec = db.cur /\ db'.cur = db.cur + 1
      /\ db' \in [cur : Nat, rec : Nat, member : SUBSET Nodes,
                  need : SUBSET Nodes, enforcing : SUBSET Nodes]
  BY <1>1, JoinFields DEF Shutdown, JoinGrace
<1>3. /\ srv[n].main = "stopping"
      /\ srv' = [srv EXCEPT ![n] = Down]
      /\ owed' = [owed EXCEPT ![n] = @ \cup srv[n].held]
      /\ UNCHANGED <<records, crashes, exempt, half>>
      /\ db.rec # 0 \/ db.cur < MaxEpoch
      /\ db.rec # 0 => astray' = astray
      /\ db.rec = 0 =>
           astray' = astray \cup {m \in db.enforcing \ {n} :
                                  srv[m].main \in Up \/ owed[m] # {}}
  BY DEF Shutdown, JoinGrace, Up
<1>4. Shape(n)'
  BY <1>1, <1>2, <1>3 DEF NodeInv, TypeOK, Contents, Servers, Epochs,
     Shape, Active, Joined, Up, Down
<1>5. Flags(n)'
  BY <1>1, <1>2, <1>3 DEF NodeInv, TypeOK, Contents, Servers, Epochs,
     Shape, Flags, Active, Joined, Up, ObjectInv, Down
<1>6. Epoch(n)'
  BY <1>1, <1>2, <1>3 DEF NodeInv, TypeOK, Contents, Servers, Epochs,
     Shape, Flags, Epoch, Active, Joined, Up, ObjectInv, Down
<1>7. Recorded(n)'
  BY <1>1, <1>2, <1>3 DEF NodeInv, TypeOK, Contents, Servers, Epochs,
     Shape, Flags, Epoch, Recorded, Open, Active, Joined, Up, ObjectInv, Down
<1>8. Promise(n)'
  BY <1>1, <1>2, <1>3, SMT DEF NodeInv, TypeOK, Contents, Servers, Epochs,
     Shape, Flags, Epoch, Recorded, Promise, Open, Canonical, Active, Joined,
     Up, ObjectInv, Down
<1>9. TypeOK'
  <2>0. /\ db' \in Contents /\ db'.need \subseteq db'.member
        /\ db'.cur \in Epochs /\ db'.rec \in Epochs
    BY <1>1, <1>2, <1>3, ClusterAssumption, SMT
       DEF TypeOK, Contents, Epochs, ObjectInv
  <2>1. srv' \in [Nodes -> Servers]
    <3>1. Down \in Servers
      BY ClusterAssumption, SMT DEF Down, Servers, Mains, Statuses, Reapers
    <3> QED
      BY <1>1, <1>3, <3>1 DEF TypeOK
  <2>2. \A m \in Nodes : srv'[m].recov <= db'.cur
    BY <1>1, <1>2, <1>3, SMT DEF TypeOK, Contents, Servers, Down
  <2>3. owed' \in [Nodes -> SUBSET Clients]
    BY <1>1, <1>3 DEF TypeOK, Servers
  <2>4. half' \subseteq Nodes /\ astray' \subseteq Nodes
    BY <1>1, <1>3 DEF TypeOK, Contents
  <2> QED
    BY <1>1, <1>2, <1>3, <2>0, <2>1, <2>2, <2>3, <2>4 DEF TypeOK
<1>10. ObjectInv'
  BY <1>1, <1>2 DEF ObjectInv, TypeOK, Contents
<1>11. ASSUME NEW m \in Nodes, m # n PROVE NodeInv(m)'
  <2>1. TypeOK /\ ObjectInv /\ NodeInv(m)
    BY DEF IInv
  <2>2. Kept(m)
    BY <1>1, <1>2, <1>3, <1>11 DEF Kept, TypeOK
  <2>3. CASE db.rec # 0
    BY <1>2, <1>3, <2>1, <2>2, <2>3, OtherSame
  <2>4. CASE db.rec = 0
    <3>1. m \in astray' <=> \/ m \in astray
                            \/ m \in db.enforcing /\ (srv[m].main \in Up \/ owed[m] # {})
      BY <1>3, <1>11, <2>4
    <3> QED
      BY <1>2, <2>1, <2>2, <2>4, <3>1, OtherBegun
  <2> QED
    BY <2>3, <2>4
<1>12. Exclusive'
  <2>1. \A k \in Nodes : Recovering(k)' => Recovering(k)
    BY <1>1, <1>2, <1>3 DEF Recovering, TypeOK, Servers, Down
  <2>2. astray \subseteq astray' /\ db.enforcing \subseteq db'.enforcing
    BY <1>2, <1>3
  <2> QED
    BY <2>1, <2>2 DEF IInv, Exclusive
<1> QED
  BY <1>4, <1>5, <1>6, <1>7, <1>8, <1>9, <1>10, <1>11, <1>12 DEF IInv, NodeInv

\* rados_grace_lift: the last server in need ends the period, and all are
\* enforcing then.
LEMMA LiftGraceInv ==
  ASSUME IInv, NEW n \in Nodes, LiftGrace(n)
  PROVE  IInv'
<1>1. TypeOK /\ ObjectInv /\ NodeInv(n)
  BY DEF IInv
<1>2. /\ db'.member = Nodes /\ db'.enforcing = db.enforcing /\ db'.cur = db.cur
      /\ db' \in Contents
      /\ \/ db' = db
         \/ /\ n \in db.need /\ db.rec # 0 /\ db.enforcing = Nodes
            /\ db'.need = db.need \ {n}
            /\ db'.rec = IF db.need = {n} THEN 0 ELSE db.rec
  <2>1. CASE CanLift(db, {n})
    <3>1. db' = Lift(db, {n})
      BY <2>1 DEF LiftGrace
    <3> QED
      BY <1>1, <2>1, <3>1, LiftFields
  <2>2. CASE ~CanLift(db, {n})
    BY <1>1, <2>2 DEF LiftGrace, TypeOK, ObjectInv
  <2> QED
    BY <2>1, <2>2
<1>3. /\ srv[n].status = "closing"
      /\ srv[n].reaper = "idle"
      /\ Ready(n)
      /\ srv' = [srv EXCEPT ![n].reaper =
                               IF db'.rec = 0 THEN "ending" ELSE "idle"]
      /\ owed' = [owed EXCEPT ![n] = IF n \in db.need \ db'.need THEN {} ELSE @]
      /\ astray' = astray \cup IF db.rec # 0 /\ db'.rec = 0 THEN half ELSE {}
      /\ UNCHANGED <<records, crashes, exempt, half>>
  BY DEF LiftGrace
<1>4. Shape(n)'
  BY <1>1, <1>2, <1>3, SMT DEF NodeInv, TypeOK, Contents, Servers, Epochs,
     Shape, Active, Joined, Up, Ready
<1>5. Flags(n)'
  BY <1>1, <1>2, <1>3, SMT DEF NodeInv, TypeOK, Contents, Servers, Epochs,
     Shape, Flags, Active, Joined, Up, ObjectInv, Ready
<1>6. Epoch(n)'
  BY <1>1, <1>2, <1>3, SMT DEF NodeInv, TypeOK, Contents, Servers, Epochs,
     Shape, Flags, Epoch, Active, Joined, Up, ObjectInv, Ready
<1>7. Recorded(n)'
  BY <1>1, <1>2, <1>3, SMT DEF NodeInv, TypeOK, Contents, Servers, Epochs,
     Shape, Flags, Epoch, Recorded, Open, Active, Joined, Up, ObjectInv, Ready
<1>8. Promise(n)'
  BY <1>1, <1>2, <1>3, SMTT(30) DEF NodeInv, TypeOK, Contents, Servers, Epochs,
     Shape, Flags, Epoch, Recorded, Promise, Open, Canonical, Active, Joined,
     Up, ObjectInv, Ready
<1>9. TypeOK'
  <2>0. db'.cur \in Epochs /\ db'.need \subseteq db'.member
    BY <1>1, <1>2 DEF TypeOK, Contents
  <2>1. srv' \in [Nodes -> Servers]
    <3>1. srv[n] \in Servers
      BY <1>1 DEF TypeOK
    <3>2. (IF db'.rec = 0 THEN "ending" ELSE "idle") \in Reapers
      BY <3>1, <1>1, <1>2, <1>3, <2>0, ClusterAssumption
         DEF Servers, Mains, Statuses, Reapers, TypeOK, Contents, Epochs,
             NodeInv, Shape, Flags, Joined, Up, ObjectInv
    <3> DEFINE s == [srv[n] EXCEPT !.reaper =
                                     IF db'.rec = 0 THEN "ending" ELSE "idle"]
    <3>3. s \in Servers
      BY <3>1, <3>2 DEF Servers
    <3>4. srv' = [srv EXCEPT ![n] = s]
      BY <1>1, <1>3 DEF TypeOK
    <3> QED
      BY <1>1, <3>3, <3>4 DEF TypeOK
  <2>2. \A m \in Nodes : srv'[m].recov <= db'.cur
    BY <1>1, <1>2, <1>3, SMT DEF TypeOK, Contents, Servers, Ready
  <2>3. owed' \in [Nodes -> SUBSET Clients]
    BY <1>1, <1>3 DEF TypeOK, Servers
  <2>4. half' \subseteq Nodes /\ astray' \subseteq Nodes
    BY <1>1, <1>3 DEF TypeOK, Contents
  <2> QED
    BY <1>1, <1>2, <1>3, <2>0, <2>1, <2>2, <2>3, <2>4 DEF TypeOK
<1>10. ObjectInv'
  BY <1>1, <1>2, SMT DEF ObjectInv, TypeOK, Contents
<1>11. ASSUME NEW m \in Nodes, m # n PROVE NodeInv(m)'
  <2>1. TypeOK /\ ObjectInv /\ NodeInv(m)
    BY DEF IInv
  <2>2. Kept(m)
    BY <1>1, <1>2, <1>3, <1>11 DEF Kept, TypeOK
  <2>3. CASE db'.rec = db.rec
    <3>1. m \in astray' <=> m \in astray
      BY <1>3, <2>3
    <3> QED
      BY <1>2, <2>1, <2>2, <2>3, <3>1, OtherSame
  <2>4. CASE db'.rec # db.rec
    <3>1. db.rec # 0 /\ db'.rec = 0 /\ m \notin db.need /\ m \in db.enforcing
      BY <1>2, <1>11, <2>4
    <3>2. m \in astray' <=> m \in astray \cup half
      BY <1>3, <3>1
    <3> QED
      BY <1>2, <2>1, <2>2, <3>1, <3>2, OtherEnded
  <2> QED
    BY <2>3, <2>4
<1>12. Exclusive'
  <2>1. \A k \in Nodes : Recovering(k)' => Recovering(k)
    BY <1>1, <1>2, <1>3, SMT DEF Recovering, TypeOK, Servers, Ready
  <2>2. astray \subseteq astray' /\ db.enforcing \subseteq db'.enforcing
    BY <1>2, <1>3
  <2> QED
    BY <2>1, <2>2 DEF IInv, Exclusive
<1> QED
  BY <1>4, <1>5, <1>6, <1>7, <1>8, <1>9, <1>10, <1>11, <1>12 DEF IInv, NodeInv

-----------------------------------------------------------------------------
(***************************************************************************)
(* The theorems                                                            *)
(***************************************************************************)

\* A new object, to which all servers have been added, none of which runs.
LEMMA InitInv == Init => IInv
<1> SUFFICES ASSUME Init PROVE IInv
  OBVIOUS
<1>1. db = [cur |-> 1, rec |-> 0, member |-> Nodes, need |-> {},
            enforcing |-> Nodes]
  BY DEF Init, Add, Created
<1>2. Down \in Servers
  BY ClusterAssumption, SMT DEF Down, Servers, Mains, Statuses, Reapers
<1>3. TypeOK
  BY <1>1, <1>2, ClusterAssumption, SMT DEF Init, TypeOK, Contents, Epochs, Down
<1>4. ObjectInv
  BY <1>1 DEF ObjectInv
<1>5. ASSUME NEW n \in Nodes PROVE NodeInv(n)
  <2>1. srv[n] = Down /\ owed[n] = {} /\ exempt[n] = {}
    BY DEF Init
  <2>2. Shape(n) /\ Flags(n) /\ Epoch(n)
    BY <1>1, <2>1, SMTT(30) DEF Shape, Flags, Epoch, Active, Joined, Up, Down
  <2>3. Recorded(n) /\ Promise(n)
    BY <1>1, <2>1, SMT DEF Recorded, Promise, Active, Joined, Up, Down
  <2> QED
    BY <2>2, <2>3 DEF NodeInv
<1>6. Exclusive
  BY <1>1, SMT DEF Init, Exclusive, Recovering
<1> QED
  BY <1>3, <1>4, <1>5, <1>6 DEF IInv

\* Every step of every server keeps the invariant.
LEMMA NextInv == IInv /\ [Next]_vars => IInv'
<1> SUFFICES ASSUME IInv, [Next]_vars PROVE IInv'
  OBVIOUS
<1>1. CASE UNCHANGED vars
  <2>1. ASSUME NEW n \in Nodes PROVE NodeInv(n)'
    <3>1. Kept(n) /\ TypeOK /\ ObjectInv /\ NodeInv(n)
      BY <1>1 DEF vars, Kept, IInv
    <3> QED
      BY <1>1, <3>1, OtherSame DEF vars
  <2>2. TypeOK' /\ ObjectInv'
    BY <1>1 DEF vars, IInv, TypeOK, ObjectInv
  <2>3. Exclusive'
    BY <1>1 DEF vars, IInv, Exclusive, Recovering
  <2> QED
    BY <2>1, <2>2, <2>3 DEF IInv
<1>2. ASSUME NEW n \in Nodes, BootStep(n) PROVE IInv'
  BY <1>2, BootInv, BootEnforcingInv, BootJoinInv, BootCreateInv, BootReadInv,
     ServeInv DEF BootStep
<1>3. ASSUME NEW n \in Nodes, ReaperStep(n) PROVE IInv'
  BY <1>3, SnapshotInv, WriteDBInv, StartGraceInv, SetEnforcingInv,
     CloseGraceInv, LiftGraceInv, EnforcingOffInv, RemoveOldInv DEF ReaperStep
<1>4. ASSUME NEW n \in Nodes, NEW c \in Clients, ClientStep(n, c) PROVE IInv'
  BY <1>4, ConfirmInv, AddClidInv, AcquireInv, ReclaimInv, ExpireInv, RmClidInv,
     DestroyClientidInv, RemoveConfirmedInv DEF ClientStep
<1> QED
  BY <1>1, <1>2, <1>3, <1>4, CrashInv, StopInv, ShutdownInv DEF Next

\* So it holds throughout.
LEMMA Invariant == Spec => []IInv
<1> QED
  BY InitInv, NextInv, PTL DEF Spec

\* The object, the databases and the servers keep their types; no server
\* records in an epoch that has not begun.
THEOREM TypeCorrect == Spec => []TypeOK
<1>1. IInv => TypeOK
  BY DEF IInv
<1> QED
  BY <1>1, Invariant, PTL

\* The promise of the clustered grace period: while a server that needs it
\* admits reclaims, no other one hands out new state, unless its flag is that of
\* an earlier period (nfs_wait_for_grace_enforcement, rados_grace_lift).
THEOREM ExclusiveCorrect == Spec => []ReclaimsExclusiveButAstray
<1>1. IInv => ReclaimsExclusiveButAstray
  BY DEF IInv, TypeOK, Servers, NodeInv, Flags, Joined, Up, Active, Exclusive,
         ReclaimsExclusiveButAstray
<1> QED
  BY <1>1, Invariant, PTL

\* Whoever has state on a server, or is owed it, is in the database that the
\* server would recover from: across any number of crashes and grace periods
\* no record is deleted too early (rados_cluster_end_grace) or missed by the
\* new database (rados_cluster_maybe_start_grace).
THEOREM RecoverableCorrect == Spec => []Recoverable
<1>1. IInv => Recoverable
  BY DEF IInv, NodeInv, Promise, Recoverable
<1> QED
  BY <1>1, Invariant, PTL

\* A server's database in use holds its confirmed clients, but for those being
\* recorded or deleted (rados_kv_add_clid, rados_kv_rm_clid).
THEOREM RecordsCorrect == Spec => []RecordsExact
<1>1. IInv => RecordsExact
  BY DEF IInv, NodeInv, Recorded, Open, RecordsExact
<1> QED
  BY <1>1, Invariant, PTL
=============================================================================
