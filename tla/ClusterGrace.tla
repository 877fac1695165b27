---------------------------- MODULE ClusterGrace ----------------------------
(***************************************************************************)
(* A cluster of servers that share a grace object: what the rados_cluster  *)
(* recovery backend (SAL/recovery/recovery_rados_cluster.c) makes of the   *)
(* boot sequence, the reaper and the shutdown of each server.              *)
(*                                                                         *)
(* Operations on the grace object are atomic (RadosGraceProofs) and so are *)
(* operations on client state: Grace shows that one runs to its end under  *)
(* the grace status that admitted it.  A step of this module is one remote *)
(* operation of a server, with the local work around it, or one request.   *)
(***************************************************************************)
EXTENDS GraceDB

CONSTANTS Clients,      \* the NFS clients of a server
          MaxEpoch,     \* bound: the last epoch of the grace object
          MaxCrashes    \* bound: how many crashes and shutdowns there are

ASSUME ClusterAssumption == MaxEpoch \in Nat \ {0} /\ MaxCrashes \in Nat

VARIABLES db,        \* the grace object
          records,   \* records[e][n]: the object rec-<e>:<n>, {} if there is none
          srv,       \* the servers
          crashes,   \* how many crashes and shutdowns there were
          owed,      \* history: clients whose state was lost with their server
          exempt,    \* history: clients recorded or deleted while the database
                     \* changed, or let reclaim by a server without NEED, until
                     \* they are recorded again
          half,      \* history: servers flagged as enforcing that did not join yet
          astray     \* history: servers a grace period began or ended without

vars == <<db, records, srv, crashes, owed, exempt, half, astray>>

Epochs == 1..MaxEpoch

\* Where the main thread is: down, in nfs_start_grace(NULL) at boot (enforce,
\* join, create, read), waiting for enforcement, serving, stopping.
Mains == {"down", "enforce", "join", "create", "read", "wait", "serving", "stopping"}

\* Where the thread is that starts and lifts grace periods (the reaper, or
\* the main thread while it waits).
Reapers == {"idle", "snapped", "start", "flag", "ending", "removing"}

\* The two bits of grace_status: ACTIVE in grace and closing, CHANGE_REQ in
\* drain and closing.
Statuses == {"normal", "drain", "grace", "closing"}

\* recov and old are the epochs in rados_recov_oid and rados_recov_old_oid (0
\* for NULL), snap what hashtable_for_each collected, clids the list of
\* clients that may reclaim; adding and removing are clients whose record is
\* still to be written or deleted, destroying those whose record is deleted
\* and that are still in the table.
Servers ==
    [main : Mains, status : Statuses, reaper : Reapers,
     recov : 0..MaxEpoch, old : 0..MaxEpoch, snap : SUBSET Clients,
     confirmed : SUBSET Clients, adding : SUBSET Clients,
     removing : SUBSET Clients, destroying : SUBSET Clients,
     allow : SUBSET Clients, held : SUBSET Clients, clids : SUBSET Clients]

Down ==
    [main |-> "down", status |-> "normal", reaper |-> "idle", recov |-> 0,
     old |-> 0, snap |-> {}, confirmed |-> {}, adding |-> {}, removing |-> {},
     destroying |-> {}, allow |-> {}, held |-> {}, clids |-> {}]

\* The tool has added all nodes to a new object; none of them runs.
Init ==
    /\ db = Add(Created, Nodes)
    /\ records = [e \in Epochs |-> [n \in Nodes |-> {}]]
    /\ srv = [n \in Nodes |-> Down]
    /\ crashes = 0
    /\ owed = [n \in Nodes |-> {}]
    /\ exempt = [n \in Nodes |-> {}]
    /\ half = {}
    /\ astray = {}

Active(n) == srv[n].status \in {"grace", "closing"}

\* The epoch a server would recover from if it started now.
Canonical == IF db.rec # 0 THEN db.rec ELSE db.cur

\* Server n joins the grace period or starts one.  A server still flagged from
\* an earlier period goes astray if it is up or has clients to recover: it
\* seems to take part in the new one.
JoinGrace(n) ==
    /\ db.rec # 0 \/ db.cur < MaxEpoch
    /\ db' = Join(db, {n})
    /\ astray' = IF db.rec # 0 THEN astray
                 ELSE astray \cup {m \in db.enforcing \ {n} :
                                     \/ srv[m].main \in {"wait", "serving", "stopping"}
                                     \/ owed[m] # {}}

----------------------------------------------------------------------------
(* Boot: nfs4_recovery_init, nfs_start_grace(NULL) and                     *)
(* nfs_wait_for_grace_enforcement.                                         *)

Boot(n) ==
    /\ srv[n].main = "down"
    /\ n \in db.member
    /\ srv' = [srv EXCEPT ![n].main = "enforce", ![n].status = "grace"]
    /\ UNCHANGED <<db, records, crashes, owed, exempt, half, astray>>

BootEnforcing(n) ==
    /\ srv[n].main = "enforce"
    /\ db' = Toggle(db, {n}, TRUE)
    /\ srv' = [srv EXCEPT ![n].main = "join"]
    /\ half' = half \cup ({n} \ db.need)
    /\ UNCHANGED <<records, crashes, owed, exempt, astray>>

BootJoin(n) ==
    /\ srv[n].main = "join"
    /\ JoinGrace(n)
    /\ srv' = [srv EXCEPT ![n].main = "create", ![n].recov = db'.cur,
                          ![n].old = db'.rec]
    /\ half' = half \ {n}
    /\ UNCHANGED <<records, crashes, owed, exempt>>

BootCreate(n) ==
    /\ srv[n].main = "create"
    /\ records' = [records EXCEPT ![srv[n].recov][n] = {}]
    /\ srv' = [srv EXCEPT ![n].main = "read"]
    /\ UNCHANGED <<db, crashes, owed, exempt, half, astray>>

BootRead(n) ==
    /\ srv[n].main = "read"
    /\ srv' = [srv EXCEPT ![n].main = "wait",
                          ![n].clids = records[srv[n].old][n]]
    /\ UNCHANGED <<db, records, crashes, owed, exempt, half, astray>>

\* (A variant that does not wait for the other servers.)
MutServe(n) ==
    /\ srv[n].main = "wait"
    /\ srv[n].reaper = "idle"
    /\ srv' = [srv EXCEPT ![n].main = "serving"]
    /\ UNCHANGED <<db, records, crashes, owed, exempt, half, astray>>

Serve(n) ==
    /\ srv[n].main = "wait"
    /\ srv[n].reaper = "idle"
    /\ ~Active(n) \/ AllEnforcing(db, n)
    /\ srv' = [srv EXCEPT ![n].main = "serving"]
    /\ UNCHANGED <<db, records, crashes, owed, exempt, half, astray>>

----------------------------------------------------------------------------
(* nfs_maybe_start_grace: enter a grace period that another server started.*)

\* rados_grace_epochs, the exchange of the object names and the walk over the
\* table of confirmed clients.  A client that DESTROY_CLIENTID has yet to take
\* out of the table is recorded again.
Snapshot(n) ==
    /\ srv[n].main = "serving"
    /\ srv[n].reaper = "idle"
    /\ ~Active(n)
    /\ db.rec # 0
    /\ srv' = [srv EXCEPT ![n].reaper = "snapped", ![n].recov = db.cur,
                          ![n].old = db.rec, ![n].snap = srv[n].confirmed]
    /\ exempt' = [exempt EXCEPT ![n] = @ \cup srv[n].destroying]
    /\ UNCHANGED <<db, records, crashes, owed, half, astray>>

WriteDB(n) ==
    /\ srv[n].reaper = "snapped"
    /\ records' = [records EXCEPT ![srv[n].recov][n] = srv[n].snap]
    /\ srv' = [srv EXCEPT ![n].reaper = "start", ![n].snap = {}]
    /\ UNCHANGED <<db, crashes, owed, exempt, half, astray>>

\* nfs_start_grace(JUST_GRACE): with references outstanding it only requests
\* the change, and the next pass begins again.
StartGrace(n) ==
    /\ srv[n].reaper = "start"
    /\ \/ srv' = [srv EXCEPT ![n].status = "drain", ![n].reaper = "idle"]
       \/ srv' = [srv EXCEPT ![n].status = "grace", ![n].reaper = "flag"]
    /\ UNCHANGED <<db, records, crashes, owed, exempt, half, astray>>

\* (A variant that does not report to the cluster.)
MutSetEnforcing(n) ==
    /\ srv[n].reaper = "flag"
    /\ srv' = [srv EXCEPT ![n].reaper = "idle"]
    /\ UNCHANGED <<db, records, crashes, owed, exempt, half, astray>>

SetEnforcing(n) ==
    /\ srv[n].reaper = "flag"
    /\ db' = Toggle(db, {n}, TRUE)
    /\ srv' = [srv EXCEPT ![n].reaper = "idle"]
    /\ UNCHANGED <<records, crashes, owed, exempt, half, astray>>

----------------------------------------------------------------------------
(* nfs_try_lift_grace, by the reaper or at boot.                           *)

\* Whether nfs_try_lift_grace finds that the local period is over: a server
\* that waits at boot renews the timeout each time, so only if nobody is to
\* reclaim; later at any time, when the clients are done or by the timeout.
Ready(n) == srv[n].main = "serving" \/ (srv[n].main = "wait" /\ srv[n].clids = {})

CloseGrace(n) ==
    /\ srv[n].status = "grace"
    /\ srv[n].reaper = "idle"
    /\ Ready(n)
    /\ srv' = [srv EXCEPT ![n].status = "closing"]
    /\ UNCHANGED <<db, records, crashes, owed, exempt, half, astray>>

\* rados_cluster_try_lift_grace, once all references are gone.  With its NEED
\* flag the server gives up those who did not reclaim.
LiftGrace(n) ==
    /\ srv[n].status = "closing"
    /\ srv[n].reaper = "idle"
    /\ Ready(n)
    /\ db' = IF CanLift(db, {n}) THEN Lift(db, {n}) ELSE db
    /\ srv' = [srv EXCEPT ![n].reaper = IF db'.rec = 0 THEN "ending" ELSE "idle"]
    /\ owed' = [owed EXCEPT ![n] = IF n \in db.need \ db'.need THEN {} ELSE @]
    /\ astray' = astray \cup IF db.rec # 0 /\ db'.rec = 0 THEN half ELSE {}
    /\ UNCHANGED <<records, crashes, exempt, half>>

\* rados_cluster_end_grace: the flag, then the old database; then the status.
EnforcingOff(n) ==
    /\ srv[n].reaper = "ending"
    /\ db' = Toggle(db, {n}, FALSE)
    /\ srv' = [srv EXCEPT ![n].reaper = "removing"]
    /\ astray' = IF srv[n].recov = db.cur THEN astray \ {n} ELSE astray
    /\ UNCHANGED <<records, crashes, owed, exempt, half>>

\* (A variant that deletes the database now in use.)
MutRemoveOld(n) ==
    /\ srv[n].reaper = "removing"
    /\ records' = [records EXCEPT ![srv[n].recov][n] = {}]
    /\ srv' = [srv EXCEPT ![n].reaper = "idle", ![n].old = 0,
                          ![n].status = "normal"]
    /\ UNCHANGED <<db, crashes, owed, exempt, half, astray>>

RemoveOld(n) ==
    /\ srv[n].reaper = "removing"
    /\ records' = [records EXCEPT ![srv[n].old][n] = {}]
    /\ srv' = [srv EXCEPT ![n].reaper = "idle", ![n].old = 0,
                          ![n].status = "normal"]
    /\ UNCHANGED <<db, crashes, owed, exempt, half, astray>>

----------------------------------------------------------------------------
(* Clients.  cr_mutex serialises what is done to one client.               *)

\* nfs_client_id_confirm inserts the client in the table and then records it
\* (rados_kv_add_clid); nfs4_chk_clid then looks it up in the list.
Confirm(n, c) ==
    /\ srv[n].main = "serving"
    /\ c \notin srv[n].confirmed \cup srv[n].removing
    /\ srv' = [srv EXCEPT ![n].confirmed = @ \cup {c}, ![n].adding = @ \cup {c}]
    /\ UNCHANGED <<db, records, crashes, owed, exempt, half, astray>>

AddClid(n, c) ==
    /\ c \in srv[n].adding
    /\ records' = [records EXCEPT ![srv[n].recov][n] = @ \cup {c}]
    /\ srv' = [srv EXCEPT ![n].adding = @ \ {c},
                          ![n].allow = IF c \in srv[n].clids
                                       THEN @ \cup {c} ELSE @]
    /\ exempt' = [exempt EXCEPT ![n] =
                    IF ~Active(n) /\ db.rec # 0 /\ srv[n].recov # db.rec
                    THEN @ \cup {c} ELSE @ \ ({c} \ owed[n])]
    /\ UNCHANGED <<db, crashes, owed, half, astray>>

\* State is acquired outside grace, or reclaimed in grace.
Acquire(n, c) ==
    /\ srv[n].main = "serving"
    /\ c \in srv[n].confirmed
            \ (srv[n].adding \cup srv[n].destroying \cup srv[n].held)
    /\ srv[n].status = "normal"
    /\ srv' = [srv EXCEPT ![n].held = @ \cup {c}]
    /\ UNCHANGED <<db, records, crashes, owed, exempt, half, astray>>

Reclaim(n, c) ==
    /\ srv[n].main = "serving"
    /\ c \in srv[n].allow
    /\ srv[n].status = "grace"
    /\ srv' = [srv EXCEPT ![n].held = @ \cup {c}]
    /\ exempt' = [exempt EXCEPT ![n] = IF n \in db.need THEN @ ELSE @ \cup {c}]
    /\ UNCHANGED <<db, records, crashes, owed, half, astray>>

\* nfs_client_id_expire takes the client out of the table, releases its state
\* and then deletes its record (rados_kv_rm_clid).
Expire(n, c) ==
    /\ srv[n].main = "serving"
    /\ c \in srv[n].confirmed \ (srv[n].adding \cup srv[n].destroying)
    /\ srv' = [srv EXCEPT ![n].confirmed = @ \ {c}, ![n].held = @ \ {c},
                          ![n].allow = @ \ {c}, ![n].removing = @ \cup {c}]
    /\ UNCHANGED <<db, records, crashes, owed, exempt, half, astray>>

\* (A variant that forgets the record.)
MutRmClid(n, c) ==
    /\ c \in srv[n].removing
    /\ srv' = [srv EXCEPT ![n].removing = @ \ {c}]
    /\ UNCHANGED <<db, records, crashes, owed, exempt, half, astray>>

RmClid(n, c) ==
    /\ c \in srv[n].removing
    /\ records' = [records EXCEPT ![srv[n].recov][n] = @ \ {c}]
    /\ srv' = [srv EXCEPT ![n].removing = @ \ {c}]
    /\ exempt' = [exempt EXCEPT ![n] = IF srv[n].reaper = "snapped"
                                       THEN @ \cup {c} ELSE @]
    /\ UNCHANGED <<db, crashes, owed, half, astray>>

\* nfs4_op_destroy_clientid, for a client without sessions, works the other way
\* round: it deletes the record (nfs4_rm_clid) and then takes the client out of
\* the table (remove_confirmed_client_id).  The client gives up what state it
\* still has.
DestroyClientid(n, c) ==
    /\ srv[n].main = "serving"
    /\ c \in srv[n].confirmed \ (srv[n].adding \cup srv[n].destroying)
    /\ records' = [records EXCEPT ![srv[n].recov][n] = @ \ {c}]
    /\ srv' = [srv EXCEPT ![n].destroying = @ \cup {c}, ![n].held = @ \ {c},
                          ![n].allow = @ \ {c}]
    /\ exempt' = [exempt EXCEPT ![n] = IF srv[n].reaper = "snapped"
                                       THEN @ \cup {c} ELSE @]
    /\ UNCHANGED <<db, crashes, owed, half, astray>>

RemoveConfirmed(n, c) ==
    /\ c \in srv[n].destroying
    /\ srv' = [srv EXCEPT ![n].destroying = @ \ {c}, ![n].confirmed = @ \ {c}]
    /\ UNCHANGED <<db, records, crashes, owed, exempt, half, astray>>

----------------------------------------------------------------------------
(* The end of a server.                                                    *)

Crash(n) ==
    /\ srv[n].main # "down"
    /\ crashes < MaxCrashes
    /\ crashes' = crashes + 1
    /\ srv' = [srv EXCEPT ![n] = Down]
    /\ owed' = [owed EXCEPT ![n] = @ \cup srv[n].held]
    /\ UNCHANGED <<db, records, exempt, half, astray>>

\* do_shutdown stops the service and the reaper; requests have ended by then.
Stop(n) ==
    /\ srv[n].main = "serving"
    /\ srv[n].reaper = "idle"
    /\ srv[n].adding \cup srv[n].removing \cup srv[n].destroying = {}
    /\ crashes < MaxCrashes
    /\ crashes' = crashes + 1
    /\ srv' = [srv EXCEPT ![n].main = "stopping"]
    /\ UNCHANGED <<db, records, owed, exempt, half, astray>>

\* rados_cluster_shutdown asks for a grace period, and the server is gone.
Shutdown(n) ==
    /\ srv[n].main = "stopping"
    /\ JoinGrace(n)
    /\ srv' = [srv EXCEPT ![n] = Down]
    /\ owed' = [owed EXCEPT ![n] = @ \cup srv[n].held]
    /\ UNCHANGED <<records, crashes, exempt, half>>

BootStep(n) ==
    \/ Boot(n) \/ BootEnforcing(n) \/ BootJoin(n) \/ BootCreate(n)
    \/ BootRead(n) \/ Serve(n)
ReaperStep(n) ==
    \/ Snapshot(n) \/ WriteDB(n) \/ StartGrace(n) \/ SetEnforcing(n)
    \/ CloseGrace(n) \/ LiftGrace(n) \/ EnforcingOff(n) \/ RemoveOld(n)
ClientStep(n, c) ==
    \/ Confirm(n, c) \/ AddClid(n, c) \/ Acquire(n, c) \/ Reclaim(n, c)
    \/ Expire(n, c) \/ RmClid(n, c) \/ DestroyClientid(n, c)
    \/ RemoveConfirmed(n, c)

Next ==
    \E n \in Nodes :
      \/ BootStep(n) \/ ReaperStep(n)
      \/ \E c \in Clients : ClientStep(n, c)
      \/ Crash(n) \/ Stop(n) \/ Shutdown(n)

Spec == Init /\ [][Next]_vars

----------------------------------------------------------------------------
\* The type invariant; flags belong to members, and the epoch a server
\* records in is never ahead of the object's.
TypeOK ==
    /\ db \in Contents /\ db.need \subseteq db.member /\ db.cur \in Epochs
    /\ records \in [Epochs -> [Nodes -> SUBSET Clients]]
    /\ srv \in [Nodes -> Servers]
    /\ \A n \in Nodes : srv[n].recov <= db.cur
    /\ crashes \in 0..MaxCrashes
    /\ owed \in [Nodes -> SUBSET Clients] /\ exempt \in [Nodes -> SUBSET Clients]
    /\ half \subseteq Nodes /\ astray \subseteq Nodes

\* A server that recovers, has its NEED flag and admits reclaims.
Recovering(n) ==
    srv[n].main = "serving" /\ srv[n].status = "grace" /\ n \in db.need

\* "Once all of the siblings are enforcing the grace period, the recovering
\* server can then ... allow clients to begin reclaiming their state": while a
\* server admits reclaims no other one hands out new state.  The code leaves one
\* exception, a server whose flag is that of an earlier grace period.
ReclaimsExclusiveButAstray ==
    \A n, m \in Nodes :
      Recovering(n) /\ srv[m].main = "serving" /\ m \notin astray => Active(m)

\* If a server went down now, each client that has state on it, and each one
\* it still owes a chance to reclaim, would be found in the database it would
\* recover from.
Recoverable ==
    \A n \in Nodes \ astray :
      (srv[n].held \cup owed[n]) \ exempt[n] \subseteq records[Canonical][n]

\* A server's current database holds its confirmed clients, no more and no
\* fewer, but for those about to be recorded or deleted (in either order of the
\* table and the record) and those recorded or deleted while a survivor moved
\* to a new database: nothing of a client is left behind, or missing, for good
\* by any other way.
RecordsExact ==
    \A n \in Nodes :
      srv[n].main = "serving" /\ srv[n].reaper # "snapped" =>
        LET open == srv[n].adding \cup srv[n].removing \cup srv[n].destroying
                      \cup exempt[n]
        IN  records[srv[n].recov][n] \ open = srv[n].confirmed \ open

\* "Make a new DB for "cur" that has all of the currently active clients in
\* it": once it is written it has every client that was recorded before.
NewDBHasClients ==
    \A n \in Nodes :
      srv[n].reaper = "start" =>
        srv[n].confirmed \ srv[n].adding \subseteq records[srv[n].recov][n]

\* "The surviving servers must however establish a new client recovery
\* database at this point": out of grace, servers record in the current epoch.
SurvivorsKeepUp ==
    \A n \in Nodes :
      db.rec = 0 /\ srv[n].main = "serving" /\ srv[n].status = "normal"
        => srv[n].recov = db.cur

----------------------------------------------------------------------------
\* Servers that are down are started again and their main thread goes on; the
\* reaper runs every few seconds and when the object changes (the watch).  A
\* local grace period ends by its timeout at the latest, and the references
\* that hold up the start of one are given back, as none is given out then.
Fairness ==
    \A n \in Nodes :
      /\ WF_vars(BootStep(n)) /\ WF_vars(ReaperStep(n)) /\ WF_vars(Shutdown(n))
      /\ SF_vars(StartGrace(n) /\ srv'[n].status = "grace")

FairSpec == Spec /\ Fairness

\* Every grace period of the cluster ends: no two servers wait for each
\* other's flags forever, and a crash at any point holds nothing up for good.
GraceLifted == db.rec # 0 ~> db.rec = 0
============================================================================
