------------------------------- MODULE Grace -------------------------------
(***************************************************************************)
(* The grace period of one server instance (SAL/nfs4_recovery.c).          *)
(*                                                                         *)
(* After a start or a failover event the server is "in grace": only        *)
(* reclaims are admitted.  Outside grace only ordinary requests are.       *)
(* Every lock, open, ... takes a reference on the state it was admitted    *)
(* under, and the state flips only when no reference is left.  The word    *)
(* grace_status is changed by compare-and-swap loops, each of which takes  *)
(* effect at its successful swap (or at the load it returns on), so each   *)
(* is one step here.  What runs under grace_mutex is split at the points   *)
(* where a lock-free reader can see an intermediate value.                 *)
(***************************************************************************)
EXTENDS Integers, FiniteSets

CONSTANTS Workers,        \* RPC worker threads
          Clients,        \* client names, as the recovery database keys them
          GracePeriod,    \* nfsv4_param.grace_period, in ticks
          EnableNLM,      \* core_param.enable_NLM
          Events,         \* the events the D-Bus "grace" method is called with
          MaxEvents,      \* bound: how many such calls a behaviour has
          MaxRC,          \* bound: RECLAIM_COMPLETEs in flight on one record
          MaxCompletes,   \* bound: reclaim_completes stays within +- this
          Clustered,      \* the recovery backend has a maybe_start_grace hook
          LiftAnswers,    \* what the backend's try_lift_grace may answer
          EnforceAnswers  \* what the backend's grace_enforcing may answer

TakeEvents == {"UPDATE_CLIENTS", "TAKE_IP", "TAKE_NODEID"}
AllEvents == TakeEvents \cup {"JUST_GRACE", "CLEAR_BLOCKED", "RELEASE_IP"}

ASSUME GraceAssumption ==
    /\ IsFiniteSet(Workers)
    /\ IsFiniteSet(Clients)
    /\ GracePeriod \in Nat
    /\ EnableNLM \in BOOLEAN
    /\ Events \subseteq AllEvents
    /\ MaxEvents \in Nat
    /\ MaxRC \in Nat /\ MaxCompletes \in Nat
    /\ Clustered \in BOOLEAN
    /\ LiftAnswers \subseteq BOOLEAN
    /\ EnforceAnswers \subseteq BOOLEAN

VARIABLES
    active,             \* GRACE_STATUS_ACTIVE
    change_req,         \* GRACE_STATUS_CHANGE_REQ
    count,              \* the reference count in the upper bits of grace_status
    grace_mutex,        \* the service thread that holds it, or "free"
    left,               \* ticks until current_grace + grace_period
    clid_list,          \* names of the clients that may reclaim
    clid_count,         \* length of clid_list; a name may be in it twice
    reclaim_completes,  \* RECLAIM_COMPLETEs counted
    client,             \* the confirmed record of each client name
    old,                \* a record of the name that is STALE, or expired
                        \*   with requests still running on it
    completed,          \* history: who sent RECLAIM_COMPLETE since the cleanup
    miscounted,         \* history: reclaim_completes grew without a client
    op,                 \* what each worker was admitted for
    pc, gsp, was_grace, \* control and locals of the service threads
    graceless,          \* nfsv4_param.graceless
    events              \* D-Bus calls made so far

word == <<active, change_req, count>>
clids == <<clid_list, clid_count, reclaim_completes, completed, miscounted>>
clientvars == <<client, old>>
control == <<pc, gsp, was_grace, events>>
vars == <<word, grace_mutex, left, clids, clientvars, op, control, graceless>>

Service == {"main", "dbus", "reaper"}
PCs == {"idle", "start", "load", "wait", "release", "trylift", "lock",
        "request", "lift", "enforce"}

\* What nfs_client_id_t holds that matters here, and how many
\* RECLAIM_COMPLETEs on it have passed the COMPLETE_ALREADY check.
Records == [state : {"none", "confirmed", "stale", "expired"},
            allow_reclaim : BOOLEAN, reclaim_complete : BOOLEAN, pending : Nat]
NoRecord == [state |-> "none", allow_reclaim |-> FALSE,
             reclaim_complete |-> FALSE, pending |-> 0]

\* main has passed nfs_wait_for_grace_enforcement: the service threads run.
Serving == pc["main"] = "idle"

Init ==
    /\ active = FALSE /\ change_req = FALSE /\ count = 0
    /\ grace_mutex = "free"
    /\ left = 0
    /\ clid_list = {} /\ clid_count = 0 /\ reclaim_completes = 0
    /\ completed = {} /\ miscounted = FALSE
    /\ client = [c \in Clients |-> NoRecord]
    /\ old = [c \in Clients |-> NoRecord]
    /\ op = [w \in Workers |-> "idle"]
    /\ pc = [t \in Service |-> IF t = "main" THEN "start" ELSE "idle"]
    /\ gsp = [t \in Service |-> "NULL"]
    /\ was_grace = FALSE
    /\ graceless \in BOOLEAN
    /\ events = 0

----------------------------------------------------------------------------
(* Request processing: nfs_get_grace_status and nfs_put_grace_status.      *)

MutMayGetIgnoresChange(want) == active = want

\* The conditions under which nfs_get_grace_status hands out a reference.
MayGet(want) == active = want /\ ~change_req

MutStartOpNoRef(w, kind) ==
    /\ Serving
    /\ op[w] = "idle"
    /\ MayGet(kind = "reclaim")
    /\ op' = [op EXCEPT ![w] = kind]
    /\ UNCHANGED <<word, grace_mutex, left, clids, clientvars, control,
                   graceless>>

\* A worker is admitted: LOCK and NLM requests ask only that a reclaiming
\* client be allowed to reclaim; OPEN also looks at RECLAIM_COMPLETE.
StartOp(w, kind) ==
    /\ Serving
    /\ op[w] = "idle"
    /\ MayGet(kind = "reclaim")
    /\ count' = count + 1
    /\ op' = [op EXCEPT ![w] = kind]
    /\ UNCHANGED <<active, change_req, grace_mutex, left, clids, clientvars,
                   control, graceless>>

Lock(w, c, reclaim) ==
    /\ client[c].state = "confirmed"
    /\ reclaim => client[c].allow_reclaim
    /\ StartOp(w, IF reclaim THEN "reclaim" ELSE "normal")

Open(w, c, reclaim) ==
    /\ client[c].state = "confirmed"
    /\ reclaim => client[c].allow_reclaim /\ ~client[c].reclaim_complete
    /\ ~reclaim => client[c].reclaim_complete
    /\ StartOp(w, IF reclaim THEN "reclaim" ELSE "normal")

\* nfs_put_grace_status.  The wakeups it sends only shorten waits that also
\* time out, so they add no step.
EndOp(w) ==
    /\ op[w] # "idle"
    /\ op' = [op EXCEPT ![w] = "idle"]
    /\ count' = count - 1
    /\ UNCHANGED <<active, change_req, grace_mutex, left, clids, clientvars,
                   control, graceless>>

----------------------------------------------------------------------------
(* Client records: confirmation, RECLAIM_COMPLETE and expiry.              *)

\* nfs_client_id_confirm, then nfs4_chk_clid under grace_mutex.
Confirm(c) ==
    /\ Serving
    /\ client[c] = NoRecord
    /\ grace_mutex = "free"
    /\ client' = [client EXCEPT ![c].state = "confirmed",
                                ![c].allow_reclaim = (c \in clid_list)]
    /\ UNCHANGED <<word, grace_mutex, left, clids, old, op, control,
                   graceless>>

Counted(r) == r.allow_reclaim /\ r.reclaim_complete

\* nfs4_op_reclaim_complete up to its COMPLETE_ALREADY check ...
ReclaimCompleteCheck(c) ==
    /\ client[c].state = "confirmed"
    /\ ~client[c].reclaim_complete
    /\ client[c].pending < MaxRC
    /\ client' = [client EXCEPT ![c].pending = @ + 1]
    /\ UNCHANGED <<word, grace_mutex, left, clids, old, op, control, graceless>>

\* ... and from there: cid_reclaim_complete is set and, if the record may
\* reclaim, reclaim_completes incremented.  "owed" says the increment stands
\* for a client of the current list.
Completes(r, c, owed) ==
    /\ reclaim_completes < MaxCompletes
    /\ reclaim_completes' =
         reclaim_completes + IF r.allow_reclaim THEN 1 ELSE 0
    /\ completed' = completed \cup {c}
    /\ miscounted' = (miscounted \/ (r.allow_reclaim /\ ~owed))

\* Nothing orders it with a second RECLAIM_COMPLETE of the same session, and
\* the record may stem from an earlier grace period.
ReclaimCompleteSet(c) ==
    /\ client[c].pending > 0
    /\ client' = [client EXCEPT ![c].pending = @ - 1,
                                ![c].reclaim_complete = TRUE]
    /\ Completes(client[c], c, ~client[c].reclaim_complete /\ c \in clid_list)
    /\ UNCHANGED <<word, grace_mutex, left, clid_list, clid_count, old, op,
                   control, graceless>>

\* The record was replaced, destroyed or marked STALE while the request ran.  An expired
\* record goes away with the last request on it.
ReclaimCompleteOld(c) ==
    /\ old[c].pending > 0
    /\ old' = [old EXCEPT ![c] =
                 IF old[c].state = "expired" /\ old[c].pending = 1
                 THEN NoRecord
                 ELSE [old[c] EXCEPT !.pending = @ - 1,
                                     !.reclaim_complete = TRUE]]
    /\ Completes(old[c], c, FALSE)
    /\ UNCHANGED <<word, grace_mutex, left, clid_list, clid_count, client, op,
                   control, graceless>>

MutUncount(r) == UNCHANGED reclaim_completes

\* The counter's part of nfs_client_id_expire.
Uncount(r) ==
    /\ reclaim_completes > -MaxCompletes
    /\ reclaim_completes' = reclaim_completes - IF Counted(r) THEN 1 ELSE 0

\* The lease ran out: nfs_client_id_expire(clientid, false).  A request in
\* progress has reserved the lease, which keeps it valid.
Expire(c) ==
    /\ client[c].state = "confirmed"
    /\ client[c].pending = 0
    /\ client' = [client EXCEPT ![c] = NoRecord]
    /\ Uncount(client[c])
    /\ UNCHANGED <<word, grace_mutex, left, clid_list, clid_count, completed,
                   miscounted, old, op, control, graceless>>

\* A record that is dropped lives on, expired, while requests run on it.
KeepOld(c) ==
    \/ client[c].pending = 0 /\ UNCHANGED old
    \/ /\ client[c].pending > 0
       /\ old[c] = NoRecord
       /\ old' = [old EXCEPT ![c] = [client[c] EXCEPT !.state = "expired"]]

\* The client rebooted: CREATE_SESSION or SETCLIENTID_CONFIRM of its new
\* record expires the old one, whatever requests still run on it.
Replace(c) ==
    /\ client[c].state = "confirmed"
    /\ KeepOld(c)
    /\ client' = [client EXCEPT ![c] = NoRecord]
    /\ Uncount(client[c])
    /\ UNCHANGED <<word, grace_mutex, left, clid_list, clid_count, completed,
                   miscounted, op, control, graceless>>

\* DESTROY_CLIENTID of a client without sessions, whose requests may yet run:
\* remove_confirmed_client_id does not touch reclaim_completes.
DestroyClientid(c) ==
    /\ client[c].state = "confirmed"
    /\ KeepOld(c)
    /\ client' = [client EXCEPT ![c] = NoRecord]
    /\ miscounted' = (miscounted \/ Counted(client[c]))
    /\ UNCHANGED <<word, grace_mutex, left, clid_list, clid_count,
                   reclaim_completes, completed, op, control, graceless>>

\* nfs_client_id_expire(clientid, false) on a STALE record: its flags are
\* still set, so the counter goes down a second time.
ExpireStale(c) ==
    /\ old[c].state = "stale"
    /\ old[c].pending = 0
    /\ old' = [old EXCEPT ![c] = NoRecord]
    /\ Uncount(old[c])
    /\ UNCHANGED <<word, grace_mutex, left, clid_list, clid_count, completed,
                   miscounted, client, op, control, graceless>>

----------------------------------------------------------------------------
(* nfs_start_grace, called by main, by the D-Bus thread and, in a cluster, *)
(* by the reaper.                                                          *)

\* Where a thread goes on after nfs_start_grace returned 0 (-EAGAIN: again).
AfterStart(t) == IF t = "dbus" THEN "idle" ELSE "trylift"
AfterAgain(t) == IF t = "dbus" THEN "wait" ELSE "trylift"

\* admin_dbus_grace: a call with one event.
DbusGrace(ev) ==
    /\ Serving
    /\ pc["dbus"] = "idle"
    /\ events < MaxEvents
    /\ events' = events + 1
    /\ gsp' = [gsp EXCEPT !["dbus"] = ev]
    /\ pc' = [pc EXCEPT !["dbus"] = "start"]
    /\ UNCHANGED <<word, grace_mutex, left, clids, clientvars, op, was_grace,
                   graceless>>

\* Grace already active: the period is extended.
ExtendGrace(t) ==
    /\ active
    /\ grace_mutex' = t
    /\ was_grace' = TRUE
    /\ pc' = [pc EXCEPT ![t] = "load"]
    /\ UNCHANGED word

MutStartEagerly(t) ==
    /\ ~active
    /\ active' = TRUE /\ change_req' = FALSE
    /\ grace_mutex' = t
    /\ was_grace' = FALSE
    /\ pc' = [pc EXCEPT ![t] = "load"]
    /\ UNCHANGED count

\* No references: the status flips.
EnterGrace(t) ==
    /\ ~active
    /\ count = 0
    /\ active' = TRUE /\ change_req' = FALSE
    /\ grace_mutex' = t
    /\ was_grace' = FALSE
    /\ pc' = [pc EXCEPT ![t] = "load"]
    /\ UNCHANGED count

MutRequestGrace(t) ==
    /\ ~active
    /\ count > 0
    /\ pc' = [pc EXCEPT ![t] = AfterAgain(t)]
    /\ UNCHANGED <<word, grace_mutex, was_grace>>

\* Ordinary requests hold references: ask for the change, return -EAGAIN.
RequestGrace(t) ==
    /\ ~active
    /\ count > 0
    /\ change_req' = TRUE
    /\ pc' = [pc EXCEPT ![t] = AfterAgain(t)]
    /\ UNCHANGED <<active, count, grace_mutex, was_grace>>

StartGrace(t) ==
    /\ pc[t] = "start"
    /\ grace_mutex = "free"
    /\ ~graceless
    /\ left' = GracePeriod
    /\ ExtendGrace(t) \/ EnterGrace(t) \/ RequestGrace(t)
    /\ UNCHANGED <<clids, clientvars, op, gsp, events, graceless>>

\* Graceless = true: nfs_lift_grace_locked and out.
StartGraceless(t) ==
    /\ pc[t] = "start"
    /\ grace_mutex = "free"
    /\ graceless
    /\ active' = FALSE
    /\ change_req' = (change_req /\ ~active)
    /\ pc' = [pc EXCEPT ![t] = AfterStart(t)]
    /\ UNCHANGED <<count, grace_mutex, left, clids, clientvars, op, gsp,
                   was_grace, events, graceless>>

\* nfs4_cleanup_clid_entries and then the names the backend reads.
ReloadClids(S) ==
    /\ clid_list' = S
    /\ clid_count' = Cardinality(S)
    /\ reclaim_completes' = 0
    /\ completed' = {}
    /\ miscounted' = FALSE

\* The names the backend reads, appended to what is there.
AppendClids(S) ==
    /\ clid_list' = clid_list \cup S
    /\ clid_count' = clid_count + Cardinality(S)
    /\ UNCHANGED <<reclaim_completes, completed, miscounted>>

LoadsAtStartup(t) == gsp[t] = "NULL" /\ ~was_grace
LoadsForTakeover(t) == gsp[t] \in TakeEvents

\* The tail of nfs_start_grace, still under grace_mutex.
LoadClids(t) ==
    /\ pc[t] = "load"
    /\ grace_mutex' = "free"
    /\ pc' = [pc EXCEPT ![t] = IF gsp[t] = "RELEASE_IP" THEN "release"
                               ELSE AfterStart(t)]
    /\ \/ /\ LoadsAtStartup(t) \/ (LoadsForTakeover(t) /\ ~was_grace)
          /\ \E S \in SUBSET Clients : ReloadClids(S)
       \/ /\ LoadsForTakeover(t) /\ was_grace
          /\ \E S \in SUBSET Clients : AppendClids(S)
       \/ /\ ~LoadsAtStartup(t) /\ ~LoadsForTakeover(t)
          /\ UNCHANGED clids
    /\ UNCHANGED <<word, left, clientvars, op, gsp, was_grace, events,
                   graceless>>

\* nfs_release_v4_clients: nfs_client_id_expire(cp, true) on the confirmed
\* clients that match the address, one after the other, without grace_mutex.
ReleaseClient(c) ==
    /\ pc["dbus"] = "release"
    /\ client[c].state = "confirmed"
    /\ old[c] = NoRecord
    /\ old' = [old EXCEPT ![c] = [client[c] EXCEPT !.state = "stale"]]
    /\ client' = [client EXCEPT ![c] = NoRecord]
    /\ Uncount(client[c])
    /\ UNCHANGED <<word, grace_mutex, left, clid_list, clid_count, completed,
                   miscounted, op, control, graceless>>

ReleaseDone ==
    /\ pc["dbus"] = "release"
    /\ pc' = [pc EXCEPT !["dbus"] = "idle"]
    /\ UNCHANGED <<word, grace_mutex, left, clids, clientvars, op, gsp,
                   was_grace, events, graceless>>

\* nfs_wait_for_grace_norefs returns, by the broadcast or after 5 seconds.
NorefsWaitReturns ==
    /\ pc["dbus"] = "wait"
    /\ pc' = [pc EXCEPT !["dbus"] = "start"]
    /\ UNCHANGED <<word, grace_mutex, left, clids, clientvars, op, gsp,
                   was_grace, events, graceless>>

----------------------------------------------------------------------------
(* The reaper, nfs_try_lift_grace and main's wait for enforcement.         *)

AfterLift(t) == IF t = "main" THEN "enforce" ELSE "idle"

\* reaper_run: nfs_maybe_start_grace, then nfs_try_lift_grace.
ReaperRun ==
    /\ Serving
    /\ pc["reaper"] = "idle"
    /\ \/ /\ ~active /\ Clustered
          /\ gsp' = [gsp EXCEPT !["reaper"] = "JUST_GRACE"]
          /\ pc' = [pc EXCEPT !["reaper"] = "start"]
       \/ /\ UNCHANGED gsp
          /\ pc' = [pc EXCEPT !["reaper"] = "trylift"]
    /\ UNCHANGED <<word, grace_mutex, left, clids, clientvars, op, was_grace,
                   events, graceless>>

\* The check without the mutex: already lifted?
TryLift(t) ==
    /\ pc[t] = "trylift"
    /\ pc' = [pc EXCEPT ![t] = IF active THEN "lock" ELSE AfterLift(t)]
    /\ UNCHANGED <<word, grace_mutex, left, clids, clientvars, op, gsp,
                   was_grace, events, graceless>>

MutReadyNoTimeout == ~EnableNLM /\ reclaim_completes = clid_count

\* All clients have completed their reclaims, as far as counting tells, or
\* the period is over.
Ready == left = 0 \/ (~EnableNLM /\ reclaim_completes = clid_count)

TryLiftLocked(t) ==
    /\ pc[t] = "lock"
    /\ grace_mutex = "free"
    /\ IF Ready
       THEN grace_mutex' = t /\ pc' = [pc EXCEPT ![t] = "request"]
       ELSE UNCHANGED grace_mutex /\ pc' = [pc EXCEPT ![t] = AfterLift(t)]
    /\ UNCHANGED <<word, left, clids, clientvars, op, gsp, was_grace, events,
                   graceless>>

MutMayLift(answer) == answer

\* No references were left when CHANGE_REQ was seen set, and the backend,
\* asked only then, agrees.
MayLift(answer) == count = 0 /\ answer

RequestLift(t) ==
    /\ pc[t] = "request"
    /\ change_req' = (change_req \/ active)
    /\ \E answer \in LiftAnswers :
         IF active /\ MayLift(answer)
         THEN pc' = [pc EXCEPT ![t] = "lift"] /\ UNCHANGED grace_mutex
         ELSE pc' = [pc EXCEPT ![t] = AfterLift(t)] /\ grace_mutex' = "free"
    /\ UNCHANGED <<active, count, left, clids, clientvars, op, gsp, was_grace,
                   events, graceless>>

\* nfs_lift_grace_locked: nfs_end_grace, then both bits are cleared.
LiftGrace(t) ==
    /\ pc[t] = "lift"
    /\ active' = FALSE /\ change_req' = FALSE
    /\ grace_mutex' = "free"
    /\ pc' = [pc EXCEPT ![t] = AfterLift(t)]
    /\ UNCHANGED <<count, left, clids, clientvars, op, gsp, was_grace, events,
                   graceless>>

\* The loop of nfs_wait_for_grace_enforcement: done, or wait (for the
\* broadcast or 5 seconds) and go round with nfs_start_grace(JUST_GRACE).
WaitEnforcement ==
    /\ pc["main"] = "enforce"
    /\ \/ /\ ~active \/ TRUE \in EnforceAnswers
          /\ pc' = [pc EXCEPT !["main"] = "idle"]
          /\ UNCHANGED gsp
       \/ /\ active /\ FALSE \in EnforceAnswers
          /\ pc' = [pc EXCEPT !["main"] = "start"]
          /\ gsp' = [gsp EXCEPT !["main"] = "JUST_GRACE"]
    /\ UNCHANGED <<word, grace_mutex, left, clids, clientvars, op, was_grace,
                   events, graceless>>

\* Time passes.
Tick ==
    /\ left > 0
    /\ left' = left - 1
    /\ UNCHANGED <<word, grace_mutex, clids, clientvars, op, control,
                   graceless>>

----------------------------------------------------------------------------
ServiceStep(t) ==
    \/ StartGrace(t) \/ StartGraceless(t) \/ LoadClids(t)
    \/ TryLift(t) \/ TryLiftLocked(t) \/ RequestLift(t) \/ LiftGrace(t)

ClientStep(c) ==
    \/ Confirm(c) \/ ReclaimCompleteCheck(c) \/ ReclaimCompleteSet(c)
    \/ ReclaimCompleteOld(c) \/ Expire(c) \/ Replace(c) \/ DestroyClientid(c)
    \/ ExpireStale(c) \/ ReleaseClient(c)

WorkerStep(w) ==
    \/ \E c \in Clients, reclaim \in BOOLEAN :
         Lock(w, c, reclaim) \/ Open(w, c, reclaim)
    \/ EndOp(w)

Next ==
    \/ \E t \in Service : ServiceStep(t)
    \/ \E c \in Clients : ClientStep(c)
    \/ \E w \in Workers : WorkerStep(w)
    \/ \E ev \in Events : DbusGrace(ev)
    \/ ReleaseDone \/ NorefsWaitReturns
    \/ ReaperRun \/ WaitEnforcement \/ Tick

Spec == Init /\ [][Next]_vars

----------------------------------------------------------------------------
(* Safety.                                                                 *)

StatusOK ==
    /\ active \in BOOLEAN /\ change_req \in BOOLEAN /\ count \in Nat
    /\ grace_mutex \in Service \cup {"free"}
    /\ left \in 0..GracePeriod

ClidsOK ==
    /\ clid_list \in SUBSET Clients /\ clid_count \in Nat
    /\ reclaim_completes \in Int
    /\ completed \in SUBSET Clients /\ miscounted \in BOOLEAN

RecordsOK == client \in [Clients -> Records] /\ old \in [Clients -> Records]

ControlOK ==
    /\ op \in [Workers -> {"idle", "reclaim", "normal"}]
    /\ pc \in [Service -> PCs]
    /\ gsp \in [Service -> Events \cup {"NULL", "JUST_GRACE"}]
    /\ was_grace \in BOOLEAN /\ graceless \in BOOLEAN
    /\ events \in 0..MaxEvents

\* The type of every variable: in particular grace_status, whose count is
\* decremented without a check, keeps a nonnegative one.
TypeOK == StatusOK /\ ClidsOK /\ RecordsOK /\ ControlOK

\* No request ever runs under the wrong status: while a reclaim is being
\* processed the server stays in grace, and while an ordinary request is,
\* grace does not begin (nfs_get_grace_status, nfs_put_grace_status and the
\* two transitions that wait for the references to drain).
AdmittedUnderStatus ==
    \A w \in Workers : /\ op[w] = "reclaim" => active
                       /\ op[w] = "normal" => ~active

\* The assertion of nfs_lift_grace_locked: the references that were zero when
\* CHANGE_REQ was seen set are still zero when the bits are cleared, although
\* workers take references without the mutex.
LiftFindsNoRefs == \A t \in Service : pc[t] = "lift" => count = 0

\* The period is over, or NLM is off and every client of the list has sent
\* RECLAIM_COMPLETE, unless reclaim_completes was incremented without a
\* client of the list behind it (see "miscounted" for the ways).
GraceIsDone ==
    left = 0 \/ (~EnableNLM /\ (miscounted \/ clid_list \subseteq completed))

\* Grace is lifted before its time only for a good reason, although
\* nfs_try_lift_grace only compares two counters that other threads change.
LiftJustified == [][active /\ ~active' => GraceIsDone]_vars

\* The comment in nfs_try_lift_grace: without NLM the period is done when all
\* previous clients have sent a RECLAIM_COMPLETE.
LiftWhenAllCompleted ==
    [][active /\ ~active' => left = 0 \/ clid_list \subseteq completed]_vars

----------------------------------------------------------------------------
(* The inductive invariants behind the safety properties.                  *)

\* grace_status counts exactly the requests in progress.
RefsCounted == count = Cardinality({w \in Workers : op[w] # "idle"})

\* Between its two halves a locked section has the mutex.
MutexHeld ==
    \A t \in Service : pc[t] \in {"load", "request", "lift"} <=> grace_mutex = t

\* What nfs_try_lift_grace saw when it decided to lift stays so: CHANGE_REQ
\* keeps workers out, the mutex everyone else.
LiftStands ==
    \A t \in Service : pc[t] = "lift" => active /\ change_req /\ count = 0

\* No thread is past a check that has become false: the requests in progress
\* are counted, were admitted under the present status, and a decision to
\* lift stands until it is carried out.
DrainInv ==
    /\ RefsCounted
    /\ AdmittedUnderStatus
    /\ MutexHeld
    /\ LiftStands
    /\ graceless => ~active

\* The listed clients whose RECLAIM_COMPLETE reclaim_completes stands for.
Finished == {c \in clid_list : Counted(client[c]) /\ c \in completed}

ListCounted == clid_count >= Cardinality(clid_list)
CompletesCounted == miscounted \/ reclaim_completes <= Cardinality(Finished)
DecisionStands ==
    \A t \in Service : pc[t] \in {"request", "lift"} => GraceIsDone

\* reclaim_completes is at most the number of listed clients that are done,
\* clid_count at least the number of listed clients, so that equality in
\* nfs_try_lift_grace means all are done; and what it concluded stays so
\* while it holds grace_mutex, although RECLAIM_COMPLETE, expiry and
\* confirmation go on without it.
CountInv == ListCounted /\ CompletesCounted /\ DecisionStands

----------------------------------------------------------------------------
(* Liveness.  Every thread keeps running; a lock that is free again and    *)
(* again is eventually taken (the reaper sleeps between two passes).       *)

Fairness ==
    /\ \A t \in Service : /\ WF_vars(LoadClids(t) \/ TryLift(t) \/
                                     RequestLift(t) \/ LiftGrace(t))
                          /\ SF_vars(StartGrace(t))
                          /\ SF_vars(StartGraceless(t))
                          /\ SF_vars(TryLiftLocked(t))
    /\ \A w \in Workers : WF_vars(EndOp(w))
    /\ WF_vars(ReleaseDone) /\ WF_vars(NorefsWaitReturns)
    /\ WF_vars(ReaperRun) /\ WF_vars(WaitEnforcement) /\ WF_vars(Tick)

FairSpec == Spec /\ Fairness

\* A grace period does not last for ever (nfs_try_lift_grace, called by the
\* reaper, and the drain of the reclaims that hold references).
GraceEnds == active ~> ~active

\* A failover event is eventually acted on: admin_dbus_grace's retries end,
\* because CHANGE_REQ keeps new requests from taking references.
DbusGraceReturns == pc["dbus"] = "start" ~> pc["dbus"] = "idle"
============================================================================
