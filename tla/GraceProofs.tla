---------------------------- MODULE GraceProofs ----------------------------
(***************************************************************************)
(* Proofs about Grace, for any number of workers and clients and any       *)
(* grace period: type correctness, the drain of the references, and that   *)
(* grace is not lifted early without every listed client being done.       *)
(***************************************************************************)
EXTENDS Grace, TLAPS, FiniteSetTheorems

\* The type invariant holds initially.
LEMMA TypeInit == Init => TypeOK
<1> SUFFICES ASSUME Init
             PROVE  TypeOK
  OBVIOUS
<1> USE GraceAssumption DEF Init, Service
<1>1. StatusOK
  <2>1. active \in BOOLEAN /\ change_req \in BOOLEAN /\ count \in Nat
    BY Zenon
  <2>2. grace_mutex \in Service \cup {"free"} /\ left \in 0..GracePeriod
    OBVIOUS
  <2> QED
    BY <2>1, <2>2 DEF StatusOK
<1>2. ClidsOK
  <2>1. clid_list \in SUBSET Clients /\ completed \in SUBSET Clients
    OBVIOUS
  <2>2. clid_count \in Nat /\ reclaim_completes \in Int
    OBVIOUS
  <2> QED
    BY <2>1, <2>2, Zenon DEF ClidsOK
<1>3. RecordsOK
  BY DEF RecordsOK, Records, NoRecord
<1>4. ControlOK
  <2>1. op \in [Workers -> {"idle", "reclaim", "normal"}]
    OBVIOUS
  <2>2. pc \in [Service -> PCs]
    BY DEF PCs
  <2>3. gsp \in [Service -> Events \cup {"NULL", "JUST_GRACE"}]
    OBVIOUS
  <2>4. was_grace \in BOOLEAN /\ graceless \in BOOLEAN
    BY Zenon
  <2>5. events \in 0..MaxEvents
    OBVIOUS
  <2> QED
    BY <2>1, <2>2, <2>3, <2>4, <2>5 DEF ControlOK
<1> QED
  BY <1>1, <1>2, <1>3, <1>4 DEF TypeOK

\* A finished request was counted, so that the count stays natural
\* (nfs_put_grace_status).
LEMMA CountPositive ==
  ASSUME TypeOK, RefsCounted, NEW w \in Workers, op[w] # "idle"
  PROVE  count \in Nat \ {0}
<1> DEFINE S == {v \in Workers : op[v] # "idle"}
<1>1. IsFiniteSet(S)
  BY GraceAssumption, FS_Subset
<1>2. S # {}
  OBVIOUS
<1> QED
  BY <1>1, <1>2, FS_EmptySet, FS_CardinalityType DEF RefsCounted

\* The status word, the mutex and the timer keep their types.
LEMMA StatusStep ==
  ASSUME TypeOK, RefsCounted, [Next]_vars
  PROVE  StatusOK'
<1> USE GraceAssumption DEF TypeOK, StatusOK, Service
<1>1. ASSUME NEW t \in Service, StartGrace(t)
      PROVE  StatusOK'
  <2>1. left' \in 0..GracePeriod
    BY <1>1 DEF StartGrace
  <2>2. CASE ExtendGrace(t)
    BY <2>1, <2>2 DEF ExtendGrace, word
  <2>3. CASE EnterGrace(t)
    BY <2>1, <2>3, Zenon DEF EnterGrace
  <2>4. CASE RequestGrace(t)
    BY <2>1, <2>4 DEF RequestGrace
  <2> QED
    BY <1>1, <2>2, <2>3, <2>4 DEF StartGrace
<1>2. ASSUME NEW t \in Service, StartGraceless(t)
      PROVE  StatusOK'
  BY <1>2, Zenon DEF StartGraceless
<1>3. ASSUME NEW t \in Service, LoadClids(t) \/ TryLift(t)
      PROVE  StatusOK'
  BY <1>3 DEF LoadClids, TryLift, word
<1>4. ASSUME NEW t \in Service, TryLiftLocked(t)
      PROVE  StatusOK'
  BY <1>4 DEF TryLiftLocked, word
<1>5. ASSUME NEW t \in Service, RequestLift(t)
      PROVE  StatusOK'
  BY <1>5 DEF RequestLift
<1>6. ASSUME NEW t \in Service, LiftGrace(t)
      PROVE  StatusOK'
  BY <1>6, Zenon DEF LiftGrace
<1>7. ASSUME NEW c \in Clients, ClientStep(c)
      PROVE  StatusOK'
  BY <1>7, Zenon DEF ClientStep, Confirm, ReclaimCompleteCheck, ReclaimCompleteSet,
              ReclaimCompleteOld, Expire, Replace, DestroyClientid, KeepOld,
              ExpireStale, ReleaseClient, word
<1>8. ASSUME NEW w \in Workers, NEW kind, StartOp(w, kind)
      PROVE  StatusOK'
  BY <1>8 DEF StartOp
<1>9. ASSUME NEW w \in Workers, EndOp(w)
      PROVE  StatusOK'
  BY <1>9, CountPositive DEF EndOp
<1>10. ASSUME NEW ev \in Events, DbusGrace(ev)
       PROVE  StatusOK'
  BY <1>10 DEF DbusGrace, word
<1>11. CASE ReleaseDone \/ NorefsWaitReturns \/ ReaperRun \/ WaitEnforcement
  BY <1>11, Zenon DEF ReleaseDone, NorefsWaitReturns, ReaperRun, WaitEnforcement, word
<1>12. CASE Tick
  BY <1>12 DEF Tick, word
<1>13. CASE UNCHANGED vars
  BY <1>13 DEF vars, word
<1> QED
  BY <1>1, <1>2, <1>3, <1>4, <1>5, <1>6, <1>7, <1>8, <1>9, <1>10, <1>11,
     <1>12, <1>13
     DEF Next, ServiceStep, WorkerStep, Lock, Open

\* The list of clients and its counters keep their types.
LEMMA ClidsStep ==
  ASSUME TypeOK, [Next]_vars
  PROVE  ClidsOK'
<1> USE GraceAssumption DEF TypeOK, ClidsOK
<1>1. ASSUME NEW t \in Service, LoadClids(t)
      PROVE  ClidsOK'
  <2>1. \A S \in SUBSET Clients : Cardinality(S) \in Nat
    BY FS_Subset, FS_CardinalityType
  <2>2. ASSUME NEW S \in SUBSET Clients, ReloadClids(S)
        PROVE  ClidsOK'
    <3>1. completed' \in SUBSET Clients /\ clid_list' \in SUBSET Clients
      BY <2>2 DEF ReloadClids
    <3>2. clid_count' \in Nat /\ reclaim_completes' \in Int
      BY <2>1, <2>2 DEF ReloadClids
    <3> QED
      BY <2>2, <3>1, <3>2, Zenon DEF ReloadClids
  <2>3. ASSUME NEW S \in SUBSET Clients, AppendClids(S)
        PROVE  ClidsOK'
    BY <2>1, <2>3 DEF AppendClids
  <2>4. CASE UNCHANGED clids
    BY <2>4 DEF clids
  <2> QED
    BY <1>1, <2>2, <2>3, <2>4 DEF LoadClids
<1>2. ASSUME NEW r \in Records, NEW c \in Clients, NEW owed \in BOOLEAN,
             Completes(r, c, owed), UNCHANGED <<clid_list, clid_count>>
      PROVE  ClidsOK'
  BY <1>2 DEF Completes, Records
<1>3. ASSUME NEW c \in Clients, ReclaimCompleteSet(c)
      PROVE  ClidsOK'
  BY <1>2, <1>3, Zenon DEF ReclaimCompleteSet, RecordsOK
<1>4. ASSUME NEW c \in Clients, ReclaimCompleteOld(c)
      PROVE  ClidsOK'
  BY <1>2, <1>4, Zenon DEF ReclaimCompleteOld, RecordsOK
<1>5. ASSUME NEW c \in Clients,
             Expire(c) \/ Replace(c) \/ ExpireStale(c) \/ ReleaseClient(c)
      PROVE  ClidsOK'
  BY <1>5 DEF Expire, Replace, ExpireStale, ReleaseClient, Uncount
<1>6. ASSUME NEW c \in Clients, DestroyClientid(c)
      PROVE  ClidsOK'
  BY <1>6 DEF DestroyClientid
<1>7. CASE UNCHANGED clids
  BY <1>7 DEF clids
<1>8. ASSUME NEW t \in Service, ServiceStep(t), ~LoadClids(t)
      PROVE  UNCHANGED clids
  BY <1>8 DEF ServiceStep, StartGrace, StartGraceless, TryLift, TryLiftLocked,
              RequestLift, LiftGrace
<1>9. ASSUME NEW c \in Clients, Confirm(c) \/ ReclaimCompleteCheck(c)
      PROVE  UNCHANGED clids
  BY <1>9 DEF Confirm, ReclaimCompleteCheck
<1>10. ASSUME NEW w \in Workers, WorkerStep(w)
       PROVE  UNCHANGED clids
  BY <1>10 DEF WorkerStep, Lock, Open, StartOp, EndOp
<1>11. ASSUME NEW ev \in Events, DbusGrace(ev)
       PROVE  UNCHANGED clids
  BY <1>11 DEF DbusGrace
<1>12. ASSUME \/ ReleaseDone \/ NorefsWaitReturns \/ ReaperRun
              \/ WaitEnforcement \/ Tick \/ UNCHANGED vars
       PROVE  UNCHANGED clids
  BY <1>12, Zenon DEF ReleaseDone, NorefsWaitReturns, ReaperRun, WaitEnforcement,
               Tick, vars
<1> QED
  BY <1>1, <1>3, <1>4, <1>5, <1>6, <1>7, <1>8, <1>9, <1>10, <1>11, <1>12
     DEF Next, ClientStep

\* What confirmation and RECLAIM_COMPLETE write into a record is a record.
LEMMA RecordUpdates ==
  ASSUME NEW r \in Records, NEW b \in BOOLEAN, NEW n \in Nat
  PROVE  /\ [r EXCEPT !.state = "confirmed", !.allow_reclaim = b] \in Records
         /\ [r EXCEPT !.pending = n, !.reclaim_complete = TRUE] \in Records
  BY Zenon DEF Records

\* The client records keep their types.
LEMMA RecordsStep ==
  ASSUME TypeOK, [Next]_vars
  PROVE  RecordsOK'
<1>0. /\ \A f \in [Clients -> Records], c \in Clients, r \in Records :
           [f EXCEPT ![c] = r] \in [Clients -> Records]
      /\ NoRecord \in Records
  BY DEF Records, NoRecord
<1> USE <1>0 DEF TypeOK, RecordsOK
<1>1. ASSUME NEW c \in Clients, Confirm(c)
      PROVE  RecordsOK'
  <2> DEFINE r == [client[c] EXCEPT !.state = "confirmed",
                                    !.allow_reclaim = (c \in clid_list)]
  <2>1. client' = [client EXCEPT ![c] = r] /\ UNCHANGED old
    BY <1>1, Zenon DEF Confirm
  <2>2. client[c] \in Records /\ (c \in clid_list) \in BOOLEAN
    OBVIOUS
  <2>3. r \in Records
    BY <2>2, RecordUpdates, Zenon
  <2> QED
    BY <2>1, <2>3
<1>2. ASSUME NEW c \in Clients, ReclaimCompleteCheck(c)
      PROVE  RecordsOK'
  <2> DEFINE r == [client[c] EXCEPT !.pending = @ + 1]
  <2>1. client' = [client EXCEPT ![c] = r] /\ UNCHANGED old
    BY <1>2 DEF ReclaimCompleteCheck
  <2>2. r \in Records
    BY DEF Records
  <2> QED
    BY <2>1, <2>2
<1>3. ASSUME NEW c \in Clients, ReclaimCompleteSet(c)
      PROVE  RecordsOK'
  <2> DEFINE r == [client[c] EXCEPT !.pending = @ - 1,
                                    !.reclaim_complete = TRUE]
  <2>1. client' = [client EXCEPT ![c] = r] /\ UNCHANGED old
    BY <1>3, Zenon DEF ReclaimCompleteSet
  <2>2. client[c] \in Records /\ client[c].pending - 1 \in Nat
    BY <1>3 DEF Records, ReclaimCompleteSet
  <2>3. r \in Records
    BY <2>2, RecordUpdates, Zenon
  <2> QED
    BY <2>1, <2>3
<1>4. ASSUME NEW c \in Clients, ReclaimCompleteOld(c)
      PROVE  RecordsOK'
  <2>1. old[c] \in Records /\ old[c].pending - 1 \in Nat
    BY <1>4 DEF Records, ReclaimCompleteOld
  <2>2. [old[c] EXCEPT !.pending = @ - 1, !.reclaim_complete = TRUE] \in Records
    BY <2>1, RecordUpdates, Zenon
  <2> QED
    BY <1>4, <2>2 DEF ReclaimCompleteOld
<1>5. ASSUME NEW c \in Clients,
             \/ Expire(c) \/ Replace(c) \/ DestroyClientid(c)
             \/ ExpireStale(c) \/ ReleaseClient(c)
      PROVE  RecordsOK'
  <2>1. /\ [client[c] EXCEPT !.state = "expired"] \in Records
        /\ [client[c] EXCEPT !.state = "stale"] \in Records
    BY DEF Records
  <2>2. CASE Expire(c) \/ ExpireStale(c)
    BY <2>2 DEF Expire, ExpireStale
  <2>3. CASE Replace(c) \/ DestroyClientid(c)
    BY <2>1, <2>3 DEF Replace, DestroyClientid, KeepOld
  <2>4. CASE ReleaseClient(c)
    BY <2>1, <2>4 DEF ReleaseClient
  <2> QED
    BY <1>5, <2>2, <2>3, <2>4
<1>6. CASE UNCHANGED clientvars
  BY <1>6 DEF clientvars
<1>7. ASSUME NEW t \in Service, ServiceStep(t)
      PROVE  UNCHANGED clientvars
  BY <1>7 DEF ServiceStep, StartGrace, StartGraceless, LoadClids, TryLift,
              TryLiftLocked, RequestLift, LiftGrace
<1>8. ASSUME NEW w \in Workers, WorkerStep(w)
      PROVE  UNCHANGED clientvars
  BY <1>8 DEF WorkerStep, Lock, Open, StartOp, EndOp
<1>9. ASSUME NEW ev \in Events, DbusGrace(ev)
      PROVE  UNCHANGED clientvars
  BY <1>9 DEF DbusGrace
<1>10. ASSUME \/ ReleaseDone \/ NorefsWaitReturns \/ ReaperRun
              \/ WaitEnforcement \/ Tick \/ UNCHANGED vars
       PROVE  UNCHANGED clientvars
  BY <1>10, Zenon DEF ReleaseDone, NorefsWaitReturns, ReaperRun, WaitEnforcement,
               Tick, vars
<1> QED
  BY <1>1, <1>2, <1>3, <1>4, <1>5, <1>6, <1>7, <1>8, <1>9, <1>10
     DEF Next, ClientStep

\* The workers, the threads' control state and the bookkeeping keep their
\* types.
LEMMA ControlStep ==
  ASSUME TypeOK, [Next]_vars
  PROVE  ControlOK'
<1> USE GraceAssumption DEF TypeOK, ControlOK
<1>1. ASSUME NEW t \in Service, ServiceStep(t)
      PROVE  ControlOK'
  <2>1. /\ UNCHANGED <<op, gsp, events, graceless>>
        /\ was_grace' \in BOOLEAN
    BY <1>1, Zenon DEF ServiceStep, StartGrace, ExtendGrace, EnterGrace, RequestGrace,
                StartGraceless, LoadClids, TryLift, TryLiftLocked,
                RequestLift, LiftGrace
  <2>2. \E l \in PCs : pc' = [pc EXCEPT ![t] = l]
    BY <1>1 DEF ServiceStep, StartGrace, ExtendGrace, EnterGrace, RequestGrace,
                StartGraceless, LoadClids, TryLift, TryLiftLocked, RequestLift,
                LiftGrace, AfterStart, AfterAgain, AfterLift, PCs
  <2> QED
    BY <2>1, <2>2
<1>2. ASSUME NEW w \in Workers, WorkerStep(w)
      PROVE  ControlOK'
  BY <1>2 DEF WorkerStep, Lock, Open, StartOp, EndOp, control
<1>3. ASSUME NEW ev \in Events, DbusGrace(ev)
      PROVE  ControlOK'
  BY <1>3 DEF DbusGrace, PCs, Service
<1>4. CASE ReleaseDone \/ NorefsWaitReturns
  BY <1>4 DEF ReleaseDone, NorefsWaitReturns, PCs, Service
<1>5. CASE ReaperRun \/ WaitEnforcement
  <2>1. CASE ReaperRun
    <3>1. \E l \in PCs : pc' = [pc EXCEPT !["reaper"] = l]
      BY <2>1 DEF ReaperRun, PCs
    <3>2. \/ UNCHANGED gsp
          \/ gsp' = [gsp EXCEPT !["reaper"] = "JUST_GRACE"]
      BY <2>1 DEF ReaperRun
    <3> QED
      BY <2>1, <3>1, <3>2, Zenon DEF ReaperRun
  <2>2. CASE WaitEnforcement
    <3>1. \E l \in PCs : pc' = [pc EXCEPT !["main"] = l]
      BY <2>2, Zenon DEF WaitEnforcement, PCs
    <3>2. \/ UNCHANGED gsp
          \/ gsp' = [gsp EXCEPT !["main"] = "JUST_GRACE"]
      BY <2>2, Zenon DEF WaitEnforcement
    <3> QED
      BY <2>2, <3>1, <3>2, Zenon DEF WaitEnforcement
  <2> QED
    BY <1>5, <2>1, <2>2
<1>6. CASE UNCHANGED <<op, control, graceless>>
  BY <1>6 DEF control
<1>7. ASSUME NEW c \in Clients, ClientStep(c)
      PROVE  UNCHANGED <<op, control, graceless>>
  BY <1>7, Zenon DEF ClientStep, Confirm, ReclaimCompleteCheck, ReclaimCompleteSet,
              ReclaimCompleteOld, Expire, Replace, DestroyClientid, KeepOld,
              ExpireStale, ReleaseClient
<1>8. ASSUME Tick \/ UNCHANGED vars
      PROVE  UNCHANGED <<op, control, graceless>>
  BY <1>8 DEF Tick, vars
<1> QED
  BY <1>1, <1>2, <1>3, <1>4, <1>5, <1>6, <1>7, <1>8 DEF Next

\* Every step preserves the type invariant.
LEMMA TypeStep ==
  ASSUME TypeOK, RefsCounted, [Next]_vars
  PROVE  TypeOK'
  BY StatusStep, ClidsStep, RecordsStep, ControlStep DEF TypeOK

----------------------------------------------------------------------------
(* The drain of the references.                                            *)

\* A count of zero means that no request is in progress.
LEMMA NoRefs ==
  ASSUME TypeOK, RefsCounted, count = 0
  PROVE  \A w \in Workers : op[w] = "idle"
  BY CountPositive

\* The drain invariant holds initially.
LEMMA DrainInit == Init => DrainInv
<1> SUFFICES ASSUME Init
             PROVE  DrainInv
  OBVIOUS
<1>1. {w \in Workers : op[w] # "idle"} = {}
  BY DEF Init
<1>2. RefsCounted
  BY <1>1, FS_EmptySet DEF Init, RefsCounted
<1>3. AdmittedUnderStatus
  BY DEF Init, AdmittedUnderStatus
<1>4. MutexHeld
  BY DEF Init, MutexHeld, Service
<1>5. LiftStands
  BY DEF Init, LiftStands, Service
<1>6. graceless => ~active
  BY DEF Init
<1> QED
  BY <1>2, <1>3, <1>4, <1>5, <1>6 DEF DrainInv

\* Taking a reference (nfs_get_grace_status) preserves the drain invariant.
LEMMA DrainStart ==
  ASSUME TypeOK, DrainInv, NEW w \in Workers,
         NEW kind \in {"reclaim", "normal"}, StartOp(w, kind)
  PROVE  DrainInv'
<1> DEFINE S == {v \in Workers : op[v] # "idle"}
<1>1. IsFiniteSet(S) /\ w \notin S
  BY GraceAssumption, FS_Subset DEF StartOp
<1>2. {v \in Workers : op'[v] # "idle"} = S \cup {w}
  BY DEF StartOp, TypeOK, ControlOK
<1>3. RefsCounted'
  BY <1>1, <1>2, FS_AddElement, Zenon DEF DrainInv, RefsCounted, StartOp
<1>4. AdmittedUnderStatus'
  BY Zenon DEF DrainInv, AdmittedUnderStatus, StartOp, MayGet, TypeOK, ControlOK
<1>5. MutexHeld'
  BY DEF DrainInv, MutexHeld, StartOp, control
<1>6. LiftStands'
  BY DEF DrainInv, LiftStands, StartOp, MayGet, control
<1>7. (graceless => ~active)'
  BY DEF DrainInv, StartOp
<1> QED
  BY <1>3, <1>4, <1>5, <1>6, <1>7 DEF DrainInv

\* Returning one (nfs_put_grace_status) does.
LEMMA DrainEnd ==
  ASSUME TypeOK, DrainInv, NEW w \in Workers, EndOp(w)
  PROVE  DrainInv'
<1> DEFINE S == {v \in Workers : op[v] # "idle"}
<1>1. IsFiniteSet(S) /\ w \in S
  BY GraceAssumption, FS_Subset DEF EndOp
<1>2. {v \in Workers : op'[v] # "idle"} = S \ {w}
  BY DEF EndOp, TypeOK, ControlOK
<1>3. RefsCounted'
  BY <1>1, <1>2, FS_RemoveElement DEF DrainInv, RefsCounted, EndOp
<1>4. AdmittedUnderStatus'
  BY DEF DrainInv, AdmittedUnderStatus, EndOp, TypeOK, ControlOK
<1>5. MutexHeld'
  BY DEF DrainInv, MutexHeld, EndOp, control
<1>6. LiftStands'
  BY NoRefs DEF DrainInv, LiftStands, EndOp, control
<1>7. (graceless => ~active)'
  BY DEF DrainInv, EndOp
<1> QED
  BY <1>3, <1>4, <1>5, <1>6, <1>7 DEF DrainInv

\* nfs_start_grace up to the reading of the client list preserves the drain
\* invariant: the status flips only when no ordinary request is counted.
LEMMA DrainStartGrace ==
  ASSUME TypeOK, DrainInv, NEW t \in Service, StartGrace(t)
  PROVE  DrainInv'
<1> USE DEF DrainInv, StartGrace
<1>1. RefsCounted'
  BY DEF RefsCounted, ExtendGrace, EnterGrace, RequestGrace, word
<1>2. AdmittedUnderStatus'
  BY NoRefs DEF AdmittedUnderStatus, ExtendGrace, EnterGrace, RequestGrace, word
<1>3. pc[t] = "start" /\ grace_mutex = "free" /\ grace_mutex \notin Service
  BY DEF Service
<1>4. \A u \in Service : pc[u] \notin {"load", "request", "lift"}
  BY <1>3 DEF MutexHeld
<1>5. MutexHeld'
  <2>1. CASE grace_mutex' = t /\ pc' = [pc EXCEPT ![t] = "load"]
    BY <1>4, <2>1 DEF MutexHeld, TypeOK, ControlOK
  <2>2. CASE UNCHANGED grace_mutex /\ pc' = [pc EXCEPT ![t] = AfterAgain(t)]
    BY <1>3, <1>4, <2>2 DEF MutexHeld, TypeOK, ControlOK, AfterAgain
  <2> QED
    BY <2>1, <2>2 DEF ExtendGrace, EnterGrace, RequestGrace
<1>6. LiftStands'
  <2>1. \A u \in Service : pc'[u] # "lift"
    BY <1>4 DEF ExtendGrace, EnterGrace, RequestGrace, AfterAgain, TypeOK,
                ControlOK
  <2> QED
    BY <2>1 DEF LiftStands
<1>7. (graceless => ~active)'
  OBVIOUS
<1> QED
  BY <1>1, <1>2, <1>5, <1>6, <1>7

\* nfs_try_lift_grace and nfs_lift_grace_locked do: what was seen when
\* CHANGE_REQ was set still holds when the bits are cleared.
LEMMA DrainLift ==
  ASSUME TypeOK, DrainInv, NEW t \in Service,
         TryLift(t) \/ TryLiftLocked(t) \/ RequestLift(t) \/ LiftGrace(t)
  PROVE  DrainInv'
<1> USE DEF DrainInv
<1>1. RefsCounted'
  BY DEF RefsCounted, TryLift, TryLiftLocked, RequestLift, LiftGrace, word
<1>2. AdmittedUnderStatus'
  <2>1. CASE LiftGrace(t)
    BY <2>1, NoRefs DEF LiftGrace, LiftStands, AdmittedUnderStatus
  <2> QED
    BY <2>1 DEF AdmittedUnderStatus, TryLift, TryLiftLocked, RequestLift, word
<1>3. MutexHeld'
  <2>1. CASE TryLift(t)
    BY <2>1 DEF TryLift, AfterLift, MutexHeld, TypeOK, ControlOK
  <2>2. CASE TryLiftLocked(t)
    <3>1. \A u \in Service : pc[u] \notin {"load", "request", "lift"}
      BY <2>2 DEF TryLiftLocked, MutexHeld, Service
    <3> QED
      BY <2>2, <3>1 DEF TryLiftLocked, AfterLift, MutexHeld, TypeOK, ControlOK,
                        Service
  <2>3. CASE RequestLift(t) \/ LiftGrace(t)
    BY <2>3 DEF RequestLift, LiftGrace, AfterLift, MutexHeld, TypeOK, ControlOK,
                Service
  <2> QED
    BY <2>1, <2>2, <2>3
<1>4. LiftStands'
  <2>1. CASE TryLift(t)
    BY <2>1 DEF TryLift, AfterLift, LiftStands, TypeOK, ControlOK, word
  <2>2. CASE TryLiftLocked(t)
    BY <2>2 DEF TryLiftLocked, AfterLift, LiftStands, TypeOK, ControlOK, word
  <2>3. CASE RequestLift(t)
    BY <2>3, Zenon DEF RequestLift, MayLift, AfterLift, LiftStands, TypeOK, ControlOK
  <2>4. CASE LiftGrace(t)
    BY <2>4 DEF LiftGrace, AfterLift, LiftStands, MutexHeld, TypeOK, ControlOK
  <2> QED
    BY <2>1, <2>2, <2>3, <2>4
<1>5. (graceless => ~active)'
  BY Zenon DEF TryLift, TryLiftLocked, RequestLift, LiftGrace, word
<1> QED
  BY <1>1, <1>2, <1>3, <1>4, <1>5

\* Every step preserves the drain invariant.
LEMMA DrainStep ==
  ASSUME TypeOK, DrainInv, [Next]_vars
  PROVE  DrainInv'
<1>1. ASSUME NEW w \in Workers, WorkerStep(w)
      PROVE  DrainInv'
  BY <1>1, DrainStart, DrainEnd DEF WorkerStep, Lock, Open
<1>2. ASSUME NEW t \in Service, StartGraceless(t)
      PROVE  DrainInv'
  <2>1. \A u \in Service : pc[u] \notin {"load", "request", "lift"}
    BY <1>2 DEF StartGraceless, DrainInv, MutexHeld, Service
  <2>2. ~active /\ ~active'
    BY <1>2 DEF StartGraceless, DrainInv
  <2>3. RefsCounted' /\ AdmittedUnderStatus'
    BY <1>2, <2>2
       DEF StartGraceless, DrainInv, RefsCounted, AdmittedUnderStatus
  <2>4. MutexHeld' /\ LiftStands'
    BY <1>2, <2>1 DEF StartGraceless, AfterStart, DrainInv, MutexHeld,
                      LiftStands, TypeOK, ControlOK, Service
  <2> QED
    BY <1>2, <2>2, <2>3, <2>4 DEF DrainInv
<1>3. ASSUME NEW t \in Service, LoadClids(t)
      PROVE  DrainInv'
  <2>1. RefsCounted' /\ AdmittedUnderStatus' /\ (graceless => ~active)'
    BY <1>3 DEF LoadClids, DrainInv, RefsCounted, AdmittedUnderStatus, word
  <2>2. MutexHeld'
    BY <1>3 DEF LoadClids, AfterStart, DrainInv, MutexHeld, TypeOK, ControlOK,
                Service
  <2>3. LiftStands'
    BY <1>3 DEF LoadClids, AfterStart, DrainInv, LiftStands, TypeOK, ControlOK,
                word
  <2> QED
    BY <2>1, <2>2, <2>3 DEF DrainInv
<1>4. ASSUME UNCHANGED <<word, grace_mutex, op, graceless>>,
             NEW t \in Service, pc[t] \notin {"load", "request", "lift"},
             NEW l \in {"idle", "start", "trylift"},
             pc' = [pc EXCEPT ![t] = l]
      PROVE  DrainInv'
  BY <1>4 DEF DrainInv, RefsCounted, AdmittedUnderStatus, MutexHeld, LiftStands,
              TypeOK, ControlOK, word
<1>5. ASSUME NEW ev \in Events, DbusGrace(ev)
      PROVE  DrainInv'
  BY <1>4, <1>5 DEF DbusGrace, Service
<1>6. CASE ReleaseDone \/ NorefsWaitReturns
  BY <1>4, <1>6 DEF ReleaseDone, NorefsWaitReturns, Service
<1>7. CASE ReaperRun \/ WaitEnforcement
  BY <1>4, <1>7, Zenon DEF ReaperRun, WaitEnforcement, Service
<1>8. CASE UNCHANGED <<word, grace_mutex, op, pc, graceless>>
  BY <1>8 DEF DrainInv, RefsCounted, AdmittedUnderStatus, MutexHeld, LiftStands,
              word
<1>9. ASSUME NEW c \in Clients, ClientStep(c)
      PROVE  UNCHANGED <<word, grace_mutex, op, pc, graceless>>
  BY <1>9, Zenon DEF ClientStep, Confirm, ReclaimCompleteCheck, ReclaimCompleteSet,
              ReclaimCompleteOld, Expire, Replace, DestroyClientid, KeepOld,
              ExpireStale, ReleaseClient, control
<1>10. ASSUME Tick \/ UNCHANGED vars
       PROVE  UNCHANGED <<word, grace_mutex, op, pc, graceless>>
  BY <1>10 DEF Tick, vars, control
<1> QED
  BY <1>1, <1>2, <1>3, <1>5, <1>6, <1>7, <1>8, <1>9, <1>10, DrainStartGrace,
     DrainLift
     DEF Next, ServiceStep

\* The type invariant and the drain invariant hold in every state.
THEOREM DrainCorrect == Spec => [](TypeOK /\ DrainInv)
<1>1. Init => TypeOK /\ DrainInv
  BY TypeInit, DrainInit
<1>2. TypeOK /\ DrainInv /\ [Next]_vars => (TypeOK /\ DrainInv)'
  BY TypeStep, DrainStep DEF DrainInv
<1> QED
  BY <1>1, <1>2, PTL DEF Spec

\* Type correctness.  The count in grace_status never goes below zero.
THEOREM TypeCorrect == Spec => []TypeOK
  BY DrainCorrect, PTL

\* No request runs under the wrong grace status, whatever the interleaving of
\* workers with the threads that start and lift grace.
THEOREM Admission == Spec => []AdmittedUnderStatus
<1>1. TypeOK /\ DrainInv => AdmittedUnderStatus
  BY DEF DrainInv
<1> QED
  BY <1>1, DrainCorrect, PTL

\* The assertion in nfs_lift_grace_locked never fails.
THEOREM LiftAssertion == Spec => []LiftFindsNoRefs
<1>1. TypeOK /\ DrainInv => LiftFindsNoRefs
  BY DEF DrainInv, LiftStands, LiftFindsNoRefs
<1> QED
  BY <1>1, DrainCorrect, PTL

----------------------------------------------------------------------------
(* The counters that nfs_try_lift_grace compares.                          *)

\* The sets that are counted are finite.
LEMMA FinishedFinite ==
  ASSUME TypeOK
  PROVE  /\ IsFiniteSet(clid_list) /\ Cardinality(clid_list) \in Nat
         /\ IsFiniteSet(Finished) /\ Cardinality(Finished) \in Nat
         /\ Cardinality(Finished) <= Cardinality(clid_list)
         /\ Cardinality(Finished) = Cardinality(clid_list) =>
              clid_list \subseteq completed
<1>1. IsFiniteSet(clid_list)
  BY GraceAssumption, FS_Subset DEF TypeOK, ClidsOK
<1>2. Finished \in SUBSET clid_list
  BY DEF Finished
<1>3. /\ IsFiniteSet(Finished)
      /\ Cardinality(Finished) <= Cardinality(clid_list)
      /\ Cardinality(clid_list) = Cardinality(Finished) => clid_list = Finished
  BY <1>1, <1>2, FS_Subset
<1> QED
  BY <1>1, <1>3, FS_CardinalityType DEF Finished

\* Equal counters mean that all are done.
LEMMA ReadyMeansDone ==
  ASSUME TypeOK, CountInv, Ready
  PROVE  GraceIsDone
<1>1. CASE left = 0
  BY <1>1 DEF GraceIsDone
<1>2. CASE miscounted
  BY <1>2, GraceAssumption DEF Ready, GraceIsDone
<1>3. ASSUME left # 0, ~miscounted
      PROVE  GraceIsDone
  <2>1. ~EnableNLM /\ reclaim_completes = clid_count
    BY <1>3 DEF Ready
  <2>2. Cardinality(Finished) = Cardinality(clid_list)
    BY <1>3, <2>1, FinishedFinite
       DEF CountInv, ListCounted, CompletesCounted, TypeOK, ClidsOK
  <2> QED
    BY <2>1, <2>2, FinishedFinite DEF GraceIsDone
<1> QED
  BY <1>1, <1>2, <1>3

\* Equal lists, completions and records leave the counted set alone.
LEMMA FinishedSame ==
  ASSUME UNCHANGED <<clid_list, completed, client>>
  PROVE  Finished' = Finished
  BY DEF Finished, Counted

\* The counting invariant holds initially.
LEMMA CountInit == Init => CountInv
<1> SUFFICES ASSUME Init
             PROVE  CountInv
  OBVIOUS
<1>1. ListCounted
  BY FS_EmptySet DEF Init, ListCounted
<1>2. Finished = {}
  BY DEF Init, Finished
<1>3. CompletesCounted
  BY <1>2, FS_EmptySet DEF Init, CompletesCounted
<1>4. DecisionStands
  BY DEF Init, DecisionStands, Service
<1> QED
  BY <1>1, <1>3, <1>4 DEF CountInv

\* Everything but nfs_start_grace, which needs grace_mutex, leaves a finished
\* grace period finished.
LEMMA DoneStays ==
  ASSUME TypeOK, GraceIsDone, [Next]_vars,
         \A t \in Service : ~StartGrace(t) /\ ~LoadClids(t)
  PROVE  GraceIsDone'
<1>1. left = 0 => left' = 0
  <2>1. ASSUME NEW c \in Clients, ClientStep(c)
        PROVE  UNCHANGED left
    BY <2>1, Zenon DEF ClientStep, Confirm, ReclaimCompleteCheck, ReclaimCompleteSet,
                ReclaimCompleteOld, Expire, Replace, DestroyClientid, KeepOld,
                ExpireStale, ReleaseClient
  <2>2. CASE Tick
    BY <2>2 DEF Tick
  <2> QED
    BY <2>1, <2>2, Zenon DEF Next, ServiceStep, StartGraceless, TryLift,
                TryLiftLocked, RequestLift, LiftGrace, WorkerStep, Lock, Open,
                StartOp, EndOp, DbusGrace, ReleaseDone, NorefsWaitReturns,
                ReaperRun, WaitEnforcement, vars
<1>2. \/ UNCHANGED clids
      \/ /\ UNCHANGED clid_list
         /\ completed \subseteq completed' /\ (miscounted => miscounted')
  <2>1. ASSUME NEW c \in Clients, ClientStep(c)
        PROVE  \/ UNCHANGED clids
               \/ /\ UNCHANGED clid_list
                  /\ completed \subseteq completed' /\ (miscounted => miscounted')
    BY <2>1, Zenon DEF ClientStep, Confirm, ReclaimCompleteCheck, ReclaimCompleteSet,
                ReclaimCompleteOld, Completes, Expire, Replace, DestroyClientid, KeepOld,
                ExpireStale, ReleaseClient, Uncount
  <2> QED
    BY <2>1, Zenon DEF Next, ServiceStep, StartGraceless, TryLift, TryLiftLocked,
                RequestLift, LiftGrace, WorkerStep, Lock, Open, StartOp, EndOp,
                DbusGrace, ReleaseDone, NorefsWaitReturns, ReaperRun,
                WaitEnforcement, Tick, vars
<1> QED
  BY <1>1, <1>2 DEF GraceIsDone, clids

\* A thread that has decided to lift grace keeps a valid reason.
LEMMA DecisionStep ==
  ASSUME TypeOK, DrainInv, CountInv, [Next]_vars
  PROVE  DecisionStands'
<1>1. ASSUME NEW t \in Service, StartGrace(t)
      PROVE  DecisionStands'
  <2>1. \A u \in Service : pc[u] \notin {"load", "request", "lift"}
    BY <1>1 DEF StartGrace, DrainInv, MutexHeld, Service
  <2>2. \A u \in Service : pc'[u] \notin {"request", "lift"}
    BY <1>1, <2>1 DEF StartGrace, ExtendGrace, EnterGrace, RequestGrace,
                      AfterAgain, TypeOK, ControlOK
  <2> QED
    BY <2>2 DEF DecisionStands
<1>2. ASSUME NEW t \in Service, LoadClids(t)
      PROVE  DecisionStands'
  <2>1. \A u \in Service \ {t} : pc[u] \notin {"load", "request", "lift"}
    BY <1>2 DEF LoadClids, DrainInv, MutexHeld
  <2>2. \A u \in Service : pc'[u] \notin {"request", "lift"}
    BY <1>2, <2>1 DEF LoadClids, AfterStart, TypeOK, ControlOK
  <2> QED
    BY <2>2 DEF DecisionStands
<1>3. ASSUME NEW t \in Service, TryLiftLocked(t)
      PROVE  DecisionStands'
  <2>1. \A u \in Service : pc[u] \notin {"load", "request", "lift"}
    BY <1>3 DEF TryLiftLocked, DrainInv, MutexHeld, Service
  <2>2. ASSUME NEW u \in Service, pc'[u] \in {"request", "lift"}
        PROVE  Ready
    BY <1>3, <2>1, <2>2 DEF TryLiftLocked, AfterLift, TypeOK, ControlOK
  <2>3. GraceIsDone' = GraceIsDone
    BY <1>3 DEF TryLiftLocked, GraceIsDone, clids
  <2> QED
    BY <2>2, <2>3, ReadyMeansDone DEF DecisionStands
<1>4. ASSUME \A t \in Service :
               ~StartGrace(t) /\ ~LoadClids(t) /\ ~TryLiftLocked(t)
      PROVE  DecisionStands'
  <2>1. ASSUME NEW u \in Service, pc'[u] \in {"request", "lift"}
        PROVE  pc[u] \in {"request", "lift"}
    <3>1. ASSUME NEW t \in Service, ServiceStep(t)
          PROVE  pc[u] \in {"request", "lift"}
      BY <1>4, <2>1, <3>1
         DEF ServiceStep, StartGraceless, TryLift, RequestLift, LiftGrace,
             AfterStart, AfterLift, TypeOK, ControlOK
    <3>2. ASSUME NEW ev \in Events, DbusGrace(ev)
          PROVE  pc[u] \in {"request", "lift"}
      BY <2>1, <3>2 DEF DbusGrace, TypeOK, ControlOK
    <3>3. ASSUME \/ ReleaseDone \/ NorefsWaitReturns
                 \/ ReaperRun \/ WaitEnforcement
          PROVE  pc[u] \in {"request", "lift"}
      BY <2>1, <3>3, Zenon DEF ReleaseDone, NorefsWaitReturns, ReaperRun,
                        WaitEnforcement, TypeOK, ControlOK
    <3>4. ASSUME UNCHANGED pc
          PROVE  pc[u] \in {"request", "lift"}
      BY <2>1, <3>4
    <3>5. ASSUME NEW c \in Clients, ClientStep(c)
          PROVE  UNCHANGED pc
      BY <3>5, Zenon DEF ClientStep, Confirm, ReclaimCompleteCheck, ReclaimCompleteSet,
                  ReclaimCompleteOld, Expire, Replace, DestroyClientid, KeepOld,
                  ExpireStale, ReleaseClient, control
    <3>6. ASSUME NEW w \in Workers, WorkerStep(w)
          PROVE  UNCHANGED pc
      BY <3>6 DEF WorkerStep, Lock, Open, StartOp, EndOp, control
    <3>7. ASSUME Tick \/ UNCHANGED vars
          PROVE  UNCHANGED pc
      BY <3>7 DEF Tick, vars, control
    <3> QED
      BY <3>1, <3>2, <3>3, <3>4, <3>5, <3>6, <3>7 DEF Next
  <2> QED
    BY <1>4, <2>1, DoneStays DEF DecisionStands, CountInv
<1> QED
  BY <1>1, <1>2, <1>3, <1>4

\* The list is never longer than its count says (nfs4_add_clid_entry).
LEMMA ListStep ==
  ASSUME TypeOK, CountInv, [Next]_vars
  PROVE  ListCounted'
<1> USE DEF CountInv, ListCounted
<1>1. ASSUME NEW t \in Service, LoadClids(t)
      PROVE  ListCounted'
  <2>1. ASSUME NEW S \in SUBSET Clients, ReloadClids(S)
        PROVE  ListCounted'
    <3>1. Cardinality(S) \in Nat
      BY GraceAssumption, FS_Subset, FS_CardinalityType
    <3> QED
      BY <2>1, <3>1 DEF ReloadClids
  <2>2. ASSUME NEW S \in SUBSET Clients, AppendClids(S)
        PROVE  ListCounted'
    <3>1. IsFiniteSet(S) /\ IsFiniteSet(clid_list)
      BY GraceAssumption, FS_Subset, FinishedFinite
    <3>2. Cardinality(S \cap clid_list) \in Nat
      <4>1. S \cap clid_list \in SUBSET S
        OBVIOUS
      <4> QED
        BY <3>1, <4>1, FS_Subset, FS_CardinalityType
    <3>3. /\ Cardinality(S \cup clid_list) =
               Cardinality(S) + Cardinality(clid_list) - Cardinality(S \cap clid_list)
          /\ Cardinality(S) \in Nat /\ Cardinality(clid_list) \in Nat
      BY <3>1, FS_Union, FS_CardinalityType, Zenon
    <3>4. clid_list' = S \cup clid_list /\ clid_count' = clid_count + Cardinality(S)
      BY <2>2 DEF AppendClids
    <3> QED
      BY <3>2, <3>3, <3>4 DEF TypeOK, ClidsOK
  <2> QED
    BY <1>1, <2>1, <2>2 DEF LoadClids, clids
<1>2. ASSUME NEW c \in Clients, ClientStep(c)
      PROVE  UNCHANGED <<clid_list, clid_count>>
  BY <1>2, Zenon DEF ClientStep, Confirm, ReclaimCompleteCheck, ReclaimCompleteSet,
              ReclaimCompleteOld, Expire, Replace, DestroyClientid, KeepOld,
              ExpireStale, ReleaseClient, clids
<1>3. ASSUME NEW t \in Service, ServiceStep(t), ~LoadClids(t)
      PROVE  UNCHANGED <<clid_list, clid_count>>
  BY <1>3 DEF ServiceStep, StartGrace, StartGraceless, TryLift, TryLiftLocked,
              RequestLift, LiftGrace, clids
<1> QED
  BY <1>1, <1>2, <1>3, Zenon DEF Next, WorkerStep, Lock, Open, StartOp, EndOp,
     DbusGrace, ReleaseDone, NorefsWaitReturns, ReaperRun, WaitEnforcement,
     Tick, vars, clids

\* A counted RECLAIM_COMPLETE of a listed client adds that client to the
\* finished ones; every other one is recorded as miscounted.
LEMMA CompletesSet ==
  ASSUME TypeOK, CountInv, NEW c \in Clients, ReclaimCompleteSet(c)
  PROVE  CompletesCounted'
<1> USE DEF TypeOK, ClidsOK, RecordsOK, CountInv, CompletesCounted
<1>1. IsFiniteSet(Finished) /\ Cardinality(Finished) \in Nat
  BY FinishedFinite
<1>2. CASE miscounted'
  BY <1>2
<1>3. ASSUME ~miscounted', client[c].allow_reclaim
      PROVE  CompletesCounted'
  <2>1. ~miscounted /\ c \in clid_list /\ ~client[c].reclaim_complete
    BY <1>3, Zenon DEF ReclaimCompleteSet, Completes
  <2>2. Finished' = Finished \cup {c} /\ c \notin Finished
    BY <1>3, <2>1 DEF ReclaimCompleteSet, Completes, Finished, Counted, Records
  <2>3. Cardinality(Finished') = Cardinality(Finished) + 1
    BY <1>1, <2>2, FS_AddElement, Zenon
  <2> QED
    BY <1>1, <1>3, <2>1, <2>3 DEF ReclaimCompleteSet, Completes
<1>4. ASSUME ~miscounted', ~client[c].allow_reclaim
      PROVE  CompletesCounted'
  <2>1. ~miscounted /\ UNCHANGED reclaim_completes
    BY <1>4 DEF ReclaimCompleteSet, Completes
  <2>2. Finished' = Finished
    BY <1>4 DEF ReclaimCompleteSet, Completes, Finished, Counted, Records
  <2> QED
    BY <2>1, <2>2
<1> QED
  BY <1>2, <1>3, <1>4 DEF ReclaimCompleteSet, Completes, Records

\* A record that goes away takes its RECLAIM_COMPLETE off the counter.
LEMMA CompletesRemoved ==
  ASSUME TypeOK, CountInv, NEW c \in Clients,
         Uncount(client[c]), client' = [client EXCEPT ![c] = NoRecord],
         UNCHANGED <<clid_list, completed, miscounted>>
  PROVE  CompletesCounted'
<1> USE DEF TypeOK, ClidsOK, RecordsOK, CountInv, CompletesCounted
<1>1. IsFiniteSet(Finished) /\ Cardinality(Finished) \in Nat
  BY FinishedFinite
<1>2. Finished' = Finished \ {c}
  BY DEF Finished, Counted, NoRecord
<1>3. CASE Counted(client[c])
  <2>1. Cardinality(Finished') =
          IF c \in Finished THEN Cardinality(Finished) - 1
                            ELSE Cardinality(Finished)
    BY <1>1, <1>2, FS_RemoveElement, Zenon
  <2>2. reclaim_completes' = reclaim_completes - 1
    BY <1>3 DEF Uncount
  <2> QED
    BY <1>1, <2>1, <2>2
<1>4. CASE ~Counted(client[c])
  <2>1. Finished' = Finished
    BY <1>2, <1>4 DEF Finished
  <2>2. reclaim_completes' = reclaim_completes
    BY <1>4 DEF Uncount
  <2> QED
    BY <2>1, <2>2
<1> QED
  BY <1>3, <1>4

\* Every step of a client preserves the bound on reclaim_completes.
LEMMA CompletesClient ==
  ASSUME TypeOK, CountInv, NEW c \in Clients, ClientStep(c)
  PROVE  CompletesCounted'
<1> USE DEF CountInv, CompletesCounted
<1>1. CASE Confirm(c) \/ ReclaimCompleteCheck(c)
  <2>1. UNCHANGED <<miscounted, reclaim_completes, clid_list, completed>>
    BY <1>1 DEF Confirm, ReclaimCompleteCheck, clids
  <2>2. \A d \in Clients : Counted(client'[d]) <=> Counted(client[d])
    <3>1. CASE Confirm(c)
      BY <3>1 DEF Confirm, Counted, NoRecord, TypeOK, RecordsOK, Records
    <3>2. CASE ReclaimCompleteCheck(c)
      BY <3>2 DEF ReclaimCompleteCheck, Counted, TypeOK, RecordsOK, Records
    <3> QED
      BY <1>1, <3>1, <3>2
  <2>3. Finished' = Finished
    BY <2>1, <2>2 DEF Finished, TypeOK, ClidsOK
  <2> QED
    BY <2>1, <2>3
<1>2. CASE ReclaimCompleteSet(c)
  BY <1>2, CompletesSet
<1>3. CASE ReclaimCompleteOld(c)
  <2>1. CASE miscounted'
    BY <2>1
  <2>2. ASSUME ~miscounted'
        PROVE  CompletesCounted'
    <3>1. ~miscounted /\ UNCHANGED reclaim_completes
      BY <1>3, <2>2 DEF ReclaimCompleteOld, Completes, TypeOK, ClidsOK,
                        RecordsOK, Records
    <3>2. Finished \in SUBSET Finished'
      BY <1>3 DEF ReclaimCompleteOld, Completes, Finished, Counted
    <3>3. Finished' \in SUBSET clid_list
      BY <1>3 DEF ReclaimCompleteOld, Finished
    <3>4. IsFiniteSet(Finished')
      BY <3>3, FinishedFinite, FS_Subset
    <3>5. /\ Cardinality(Finished) <= Cardinality(Finished')
          /\ Cardinality(Finished) \in Nat /\ Cardinality(Finished') \in Nat
      BY <3>2, <3>4, FS_Subset, FS_CardinalityType, FinishedFinite
    <3> QED
      BY <3>1, <3>5 DEF TypeOK, ClidsOK
  <2> QED
    BY <2>1, <2>2
<1>4. CASE Expire(c) \/ Replace(c) \/ ReleaseClient(c)
  BY <1>4, CompletesRemoved DEF Expire, Replace, ReleaseClient
<1>5. CASE DestroyClientid(c)
  <2>1. CASE Counted(client[c])
    BY <1>5, <2>1, Zenon DEF DestroyClientid
  <2>2. CASE ~Counted(client[c])
    <3>1. Finished' = Finished
      BY <1>5, <2>2 DEF DestroyClientid, Finished, Counted, NoRecord, TypeOK,
                        ClidsOK, RecordsOK
    <3>2. UNCHANGED <<miscounted, reclaim_completes>>
      BY <1>5, <2>2 DEF DestroyClientid, TypeOK, ClidsOK
    <3> QED
      BY <3>1, <3>2
  <2> QED
    BY <2>1, <2>2
<1>6. CASE ExpireStale(c)
  <2>1. Finished' = Finished
    BY <1>6, FinishedSame DEF ExpireStale
  <2>2. reclaim_completes' <= reclaim_completes /\ UNCHANGED miscounted
    BY <1>6 DEF ExpireStale, Uncount, TypeOK, ClidsOK
  <2>3. Cardinality(Finished) \in Nat /\ reclaim_completes' \in Int
    BY <1>6, FinishedFinite DEF ExpireStale, Uncount, TypeOK, ClidsOK
  <2> QED
    BY <2>1, <2>2, <2>3 DEF TypeOK, ClidsOK
<1> QED
  BY <1>1, <1>2, <1>3, <1>4, <1>5, <1>6 DEF ClientStep

\* Every step preserves the bound on reclaim_completes.
LEMMA CompletesStep ==
  ASSUME TypeOK, CountInv, [Next]_vars
  PROVE  CompletesCounted'
<1> USE DEF CountInv, CompletesCounted
<1>1. ASSUME NEW t \in Service, LoadClids(t)
      PROVE  CompletesCounted'
  <2>1. UNCHANGED client
    BY <1>1 DEF LoadClids, clientvars
  <2>2. ASSUME NEW S \in SUBSET Clients, ReloadClids(S)
        PROVE  CompletesCounted'
    <3>1. Finished' = {}
      BY <2>2 DEF ReloadClids, Finished
    <3> QED
      BY <2>2, <3>1, FS_EmptySet DEF ReloadClids
  <2>3. ASSUME NEW S \in SUBSET Clients, AppendClids(S)
        PROVE  CompletesCounted'
    <3>1. Finished \in SUBSET Finished' /\ Finished' \in SUBSET Clients
      BY <2>1, <2>3 DEF AppendClids, Finished, Counted, TypeOK, ClidsOK
    <3>2. IsFiniteSet(Finished')
      BY <3>1, GraceAssumption, FS_Subset
    <3>3. /\ Cardinality(Finished) <= Cardinality(Finished')
          /\ Cardinality(Finished) \in Nat /\ Cardinality(Finished') \in Nat
      BY <3>1, <3>2, FS_Subset, FS_CardinalityType, FinishedFinite
    <3> QED
      BY <2>3, <3>3 DEF AppendClids, TypeOK, ClidsOK
  <2>4. CASE UNCHANGED clids
    BY <2>1, <2>4, FinishedSame DEF clids
  <2> QED
    BY <1>1, <2>2, <2>3, <2>4 DEF LoadClids
<1>2. CASE UNCHANGED <<clids, clientvars>>
  BY <1>2, FinishedSame DEF clids, clientvars
<1>3. ASSUME NEW t \in Service, ServiceStep(t), ~LoadClids(t)
      PROVE  UNCHANGED <<clids, clientvars>>
  BY <1>3 DEF ServiceStep, StartGrace, StartGraceless, TryLift, TryLiftLocked,
              RequestLift, LiftGrace
<1>4. ASSUME NEW w \in Workers, WorkerStep(w)
      PROVE  UNCHANGED <<clids, clientvars>>
  BY <1>4, Zenon DEF WorkerStep, Lock, Open, StartOp, EndOp
<1>5. ASSUME NEW ev \in Events, DbusGrace(ev)
      PROVE  UNCHANGED <<clids, clientvars>>
  BY <1>5 DEF DbusGrace
<1>6. ASSUME \/ ReleaseDone \/ NorefsWaitReturns \/ ReaperRun
             \/ WaitEnforcement \/ Tick \/ UNCHANGED vars
      PROVE  UNCHANGED <<clids, clientvars>>
  BY <1>6, Zenon DEF ReleaseDone, NorefsWaitReturns, ReaperRun, WaitEnforcement,
              Tick, vars
<1> QED
  BY <1>1, <1>2, <1>3, <1>4, <1>5, <1>6, CompletesClient DEF Next

\* The counting invariant holds in every state.
THEOREM CountCorrect == Spec => []CountInv
<1>1. Init => CountInv
  BY CountInit
<1>2. TypeOK /\ DrainInv /\ CountInv /\ [Next]_vars => CountInv'
  BY ListStep, CompletesStep, DecisionStep DEF CountInv
<1> QED
  BY <1>1, <1>2, DrainCorrect, PTL DEF Spec

\* Grace ends early only when every listed client is done, unless an event
\* recorded in "miscounted" took place, for any number of clients and any
\* interleaving of their RECLAIM_COMPLETEs and expiries with the reaper.
THEOREM LiftsForAReason == Spec => LiftJustified
<1>1. ASSUME TypeOK, DrainInv, CountInv, [Next]_vars, active, ~active'
      PROVE  GraceIsDone
  <2>1. PICK t \in Service : ServiceStep(t)
    <3>1. ASSUME NEW c \in Clients, ClientStep(c)
          PROVE  FALSE
      BY <1>1, <3>1, Zenon
         DEF ClientStep, Confirm, ReclaimCompleteCheck, ReclaimCompleteSet,
             ReclaimCompleteOld, Expire, Replace, DestroyClientid, KeepOld,
             ExpireStale, ReleaseClient, word
    <3> QED
      BY <1>1, <3>1, Zenon
         DEF Next, WorkerStep, Lock, Open, StartOp, EndOp, DbusGrace,
             ReleaseDone, NorefsWaitReturns, ReaperRun, WaitEnforcement, Tick,
             vars, word
  <2>2. LiftGrace(t)
    BY <1>1, <2>1, Zenon DEF ServiceStep, StartGrace, ExtendGrace, EnterGrace,
       RequestGrace, StartGraceless, LoadClids, TryLift, TryLiftLocked,
       RequestLift, DrainInv, word
  <2> QED
    BY <1>1, <2>2 DEF LiftGrace, CountInv, DecisionStands
<1>2. TypeOK /\ DrainInv /\ CountInv /\ [Next]_vars =>
        [active /\ ~active' => GraceIsDone]_vars
  BY <1>1
<1> QED
  BY <1>2, DrainCorrect, CountCorrect, PTL DEF Spec, LiftJustified
============================================================================
