# A TLA+ verification of the NFS server's protocol state

The repository is NFS-Ganesha 5.7, a user-space NFS server
(`src/nfs-ganesha-5.7/src`, written `P/` below), with a file system layer of
its own, `P/FSAL/FSAL_SIM`. This directory models the parts of it whose
correctness depends on the order in which threads, servers and crashes act,
model-checks small instances with TLC and proves the central results with
TLAPS for every size.

## 1. Inventory

| Part | State | Operations that change it | What makes it hard |
|---|---|---|---|
| Grace period (`P/SAL/nfs4_recovery.c`) | `grace_status` (two bits and a reference count in one word), `grace_mutex`, start time, list and number of reclaiming clients, `reclaim_completes` | get/put of the status by requests, start, extend, lift, load of the client list, RECLAIM_COMPLETE, expiry | workers use the word without the mutex; counters are compared without a lock; a request may be running when the status is to change |
| Cluster grace object (`P/support/rados_grace.c`) | two epochs, members and their NEED / ENFORCING flags in one RADOS object | create, add, start, join, lift, remove, enforce, noenforce | several servers and a command-line tool update it by optimistic retry |
| Clustered backend (`P/SAL/recovery/recovery_rados_cluster.c`) | one record object per epoch and server, names of the current and the old one | boot, join, create, read, snapshot, lift, end, shutdown; add / remove of a client record | crashes at any step; the flag, the epoch and the records are separate writes |
| Stand-alone backends (`recovery_fs.c`, `recovery_fs_ng.c`, `recovery_rados_kv.c`, `recovery_rados_ng.c`) | directories or objects with client records | add, remove, read, end of grace, takeover | crash between two steps of the hand-over from one instance to the next |
| Client ids and leases (`nfs4_clientid.c`, `nfs4_lease.c`, `nfs4_op_setclientid*.c`, `nfs4_op_exchange_id.c`, `nfs4_op_create_session.c`) | confirmed and unconfirmed tables, one record per client owner, lease reservations | create, confirm, replace, expire, reserve, update | the reaper against requests that hold references |
| Sessions (`nfs41_session_id.c`, `nfs4_op_sequence.c`) | slots with sequence numbers and cached replies | SEQUENCE, destroy | retransmission against a request still running |
| Duplicate requests (`P/RPCAL/nfs_dupreq.c`) | tree and queue of entries per connection | start, finish, delete, retire | two copies of a request at once, eviction |
| Byte-range locks, shares, delegations (`state_lock.c`, `state_share.c`, `state_deleg.c`) | lock lists, blocked locks, share counters, delegation states | lock, unlock, grant, cancel, recall, revoke | grants racing cancellation, recalls racing returns |
| Owners and state ids (`nfs4_owner.c`, `nfs4_state*.c`) | sequence numbers, reference counts | open, confirm, close, release | replay, caching of closed owners |
| Thread pools (`fridgethr.c`, `delayed_exec.c`) | threads, queue, command | submit, pause, start, stop | state transitions while threads go idle |
| Metadata and descriptor caches (`FSAL_MDCACHE`, `commonlib.c`) | entries, queues, reference counts, open descriptors | get, put, reap, open, close | reclamation racing lookup |
| Exports, clients (`export_mgr.c`, `client_mgr.c`) | tables, reference counts | add, remove, get, put | removal during use |
| FSAL_SIM | registered module, exports | init, create export | a skeleton today |

The remaining parts (other FSALs, 9P, XDR, configuration, logging, statistics,
D-Bus plumbing, the vendored RPC library) translate or report and hold no
protocol state worth a model; `PROJECT.json` lists them with the reason.

## 2. Plan

1. **Grace** (done): the grace period of one server, with proofs.
2. **GraceDB, AtomicGraceDB, RadosGrace** (done): the shared object, as a
   refinement of atomic operations, with proofs.
3. **ClusterGrace** (done, with proofs): the servers of a cluster over the
   object.
4. **Backends** (done, model-checked): the four stand-alone recovery backends,
   with crashes between any two file or object operations. Open: its
   invariants as theorems, revoked delegation handles.
5. **Sessions** (done for NFSv4.1, with proofs): client ids, leases, sessions
   and slots. Open: SETCLIENTID of NFSv4.0, the back channel.
6. **DupReq, ReplyCache** (done, with proofs): the duplicate request cache as an
   implementation of what such a cache promises. Open: the shared UDP cache.
7. **StateLock, RangeLocks** (done, model-checked): the list of byte-range locks
   against a byte-by-byte specification, with blocked locks and grants.
8. Delegations and recall; share reservations.
9. Thread pools, descriptor cache, metadata cache, exports, FSAL_SIM.

The modules compose as follows. Grace shows that an operation on client state
runs to its end under the grace status that admitted it; RadosGrace shows that
an operation on the shared object is atomic. ClusterGrace and Backends build on
that: their steps are whole operations of either kind. Sessions, DupReq and
StateLock model what runs inside an admitted operation: who the client is and
whether its request is new, and what it locks. Sessions has no grace
period: the checks of the period come after SEQUENCE and touch none of its state.

## 3. Modules

### Grace

One server. Variables: the status word (`active`, `change_req`, `count`),
`grace_mutex`, the time left, the list of reclaiming clients, one record per
client (and the previous one, for requests in flight when it is replaced),
what each worker is doing and where each service thread is.

Threads: workers (requests); `main` (boot, then the wait for enforcement);
`dbus` (the admin method, which retries on `-EAGAIN`); `reaper` (runs every few
seconds). A step of a service thread ends where the code releases the mutex or
calls out; the compare-and-swap loops of the code are single steps because a
failed exchange changes nothing.

| Code | Action |
|---|---|
| `nfs_get_grace_status`, `nfs_put_grace_status` | `StartOp` (from `Lock`, `Open`), `EndOp` |
| `nfs_start_grace` | `StartGrace` = `ExtendGrace`, `EnterGrace` or `RequestGrace`; `StartGraceless`; `LoadClids` |
| `nfs_try_lift_grace`, `nfs_lift_grace_locked` | `TryLift`, `TryLiftLocked`, `RequestLift`, `LiftGrace` |
| `nfs_wait_for_grace_enforcement`, `..._norefs` | `WaitEnforcement`, `NorefsWaitReturns` |
| `nfs4_op_reclaim_complete` | `ReclaimCompleteCheck`, then `ReclaimCompleteSet` or, if the record was replaced meanwhile, `ReclaimCompleteOld` |
| `nfs_client_id_confirm` with `nfs4_chk_clid`, `nfs_client_id_expire`, DESTROY_CLIENTID, CREATE_SESSION | `Confirm`, `Expire`, `ExpireStale`, `DestroyClientid`, `Replace` |
| `nfs_release_v4_clients` | `ReleaseClient`, `ReleaseDone` |
| `admin_dbus_grace`, `reaper_run` | `DbusGrace`, `ReaperRun` |

`completed` and `miscounted` are history variables: who has really sent
RECLAIM_COMPLETE, and whether the counter was incremented for nobody on the
list. They are read by no action.

### GraceDB, AtomicGraceDB, RadosGrace

GraceDB has one operator per function of `rados_grace.c`: the condition under
which it writes and the content it writes. AtomicGraceDB is the abstract
specification: each step applies one of them. RadosGrace is the code: every
caller reads the object and its version (`Read`), then writes under the
assertion that the version is unchanged (`Write`), or goes round again;
`match[]` and `flags[]` survive the retry as they do in the code; a caller may
die between the two halves (`Die`). The version counter and the assertion
are RADOS's, modelled from their use.

### ClusterGrace

Servers over the object. A server has a main thread (`main`: the boot
sequence, then serving, then shutdown), the thread that starts and lifts
periods (`reaper`), its status as in Grace with the reference count
abstracted to "drained or not", the two database names, the confirmed clients
and those with state. `records[e][n]` is the object `rec-<e>:<n>`. The boot
sequence is `Boot`, `BootEnforcing`, `BootJoin`, `BootCreate`, `BootRead`,
`Serve`; a survivor does `Snapshot`, `WriteDB`, `StartGrace`, `SetEnforcing`;
the end of a period is `CloseGrace`, `LiftGrace`, `EnforcingOff`, `RemoveOld`.
`Crash` may come between any two. Clients are confirmed and recorded
(`Confirm`, `AddClid`), expired and deleted (`Expire`, `RmClid`); DESTROY_CLIENTID
goes the other way round, and deletes the record before it takes the client from
the table (`DestroyClientid`, `RemoveConfirmed`).

Four history variables say what the properties must know: `owed` (clients
whose state was lost with their server and who were not yet given up),
`exempt`, `half` and `astray`. The last three name exactly the
exceptions the code leaves, and no action reads them: without them the
properties are false, with them they state that nothing else goes wrong.

- `astray`: a server that has lifted the period and not yet cleared its
  ENFORCING flag is taken for a participant of the next one; a server still in
  grace when the epoch advances makes no database for the new epoch.
- `half`: a booting server sets ENFORCING and NEED in two writes, and the period
  may end in between.
- `exempt`: clients recorded, deleted or destroyed between the walk over the
  client table and the write of the new database, or whose record DESTROY_CLIENTID
  had deleted while the walk still found them in the table; clients recorded only in
  a database the server would not recover from; reclaims a survivor admits without
  its NEED flag. A client is exempt until it is recorded again.

### Backends

One server with one of the four stand-alone backends (`backend`, fixed in a
behaviour). `fs` and `rados_kv` keep two directories or objects: at boot the
names in `old` are read and deleted one by one (`ReadOld`), those in `recov` are
made in `old` and then deleted (`CopyToOld`, `DropRecov`); `old` is emptied when
the period ends. `fs_ng` and `rados_ng` record in a new directory or a spooled
transaction that replaces the old records when the period ends (`linked`).
`EndGrace`, `Clean`, `CleanDone` and `Lift` are the end of a period: `fs_ng`
swaps the link and deletes what it pointed to, `rados_ng` commits, and commits
a null pointer the second time (`CommitNothing`, a crash). `Failover` and
`TakeOver` are the events that load another server's clients or the server's
own (`UPDATE_CLIENTS`, which `fs` alone supports and which races with the
removal of records: `TakeOverRemoved`); `JustGrace` the events that load none.
Clients are confirmed, recorded and looked up in three steps (`Confirm`,
`AddClid`, `ChkClid`), as the code takes `grace_mutex` only for the last.

History: `owed` as in ClusterGrace; `fragile`, names that `fs` or `rados_kv`
deleted from `old` on reading them and that no client has confirmed since: they
exist in memory only, and one more restart in the same period loses them.
`wiped` says that the last end of a period went for the directory in use.

### Sessions

NFSv4.1 client ids, leases, sessions and slots (`nfs4_clientid.c`,
`nfs4_lease.c`, `nfs41_session_id.c`, `nfs4_op_exchange_id.c`,
`nfs4_op_create_session.c`, `nfs4_op_destroy_*.c`, `nfs4_op_sequence.c`,
`nfs_reaper_thread.c`). One client owner is modelled: its record `cr` with the
confirmed and the unconfirmed client id, the two hash tables `ht`, the client
ids and the sessions with their reference counts, `mutex` (`cr_mutex`) and one
record per thread with its place and the references it holds. A step is what a
thread does between two points where another can get in; `cr_mutex` is held over
several steps.

| Code | Action |
|---|---|
| `nfs4_op_exchange_id` | `ExchangeId`, `ExchangeIdClash`, `ExchangeIdNew` |
| `nfs4_op_create_session` | `CreateSession` (look-up before `cr_mutex`), then `CreateSessionRefuse`, `CreateSessionBuild`, `CreateSessionUpdate` or `CreateSessionConfirm`; `CreateSessionLate` when the client id went meanwhile |
| `nfs_client_id_expire` | `ExpireMark`, `ExpireUnhash`, `ExpireState`, `ExpireSession` (one session of the list), `ExpireSessions` (none is left), `ExpireEnd`, `ExpireBack`; `ExpireSkip` |
| `nfs4_op_destroy_clientid`, `nfs4_op_destroy_session` | `DestroyClientid`, `DestroyClientidRemove`; `DestroySession`, `DestroySessionDel` |
| `nfs4_op_sequence`, `reserve_lease_or_expire`, `complete_nfs4_compound` | `Sequence`, `SequenceLease`, `ExpireLock`, `SequenceNext`, `SequenceRefuse`, `SequenceExec`, `SequenceComplete` |
| `reap_hash_table`, passing of time | `Reap`, `Age` |

History: `leaked` counts the references EXCHANGE_ID forgets (CASE 5, a restarted
client, never drops the reference its look-up took); `csq` and `ran` say which
CREATE_SESSION made a session and how often a request of its slot ran; a slot
is `torn` once a request that no longer holds it has stored a reply.

### DupReq, ReplyCache

The duplicate request cache (`P/RPCAL/nfs_dupreq.c`) of the TCP connections of one
address, with the part of `nfs_worker_thread.c` that drives it. An entry is named
after the request that made it; a step is what happens under one mutex. A
request looks its call up (`LookupMiss`, `LookupBusy`, `LookupDrop`,
`LookupHit`), executes it (`Execute`, `Refuse`), records the outcome (`Finish`,
`FinishDied`), retires old entries (`RetireCheck`, `RetireFirst`,
`RetireChanged`), deletes its own when it was refused (`DeleteCheck`,
`DeleteFromQueue`, `DeleteFromTree`) and releases it, resuming a duplicate that
waits (`Rele`, `Resume`). Connections break and are freed (`Disconnect`,
`FreeXprt`, `RecycleXprtDrc`), unused caches expire (`FreeExpired`).

ReplyCache is what a cache promises: a call is executed once per ticket, and a
new ticket is given only when the old one was forgotten. The hash table maps to
its table, the entries to its tickets.

### StateLock, RangeLocks

The lock list of a file (`P/SAL/state_lock.c`) and the cookies of locks that are
being granted (`nlm_util.c`, `nlm_Granted_Res.c`). Every operation runs under
`st_lock` and is one step: `state_lock` (`LockNew`, `LockDenied`, `LockBlocked`,
`LockExisting`, `LockGranting`), `state_unlock`, `state_cancel`, each with the
splitting and merging of entries and the walk over the waiting locks; the end
of a grant is `state_find_grant`, then `state_complete_grant` or
`state_release_grant`. Whether the GRANTED message of a waiting lock can be
queued is decided for each lock of the walk. `MaxOff` is `UINT64_MAX`: sums wrap
there. `FileRanges` are the ranges `nlm_process_parameters` lets through: within
the largest file, or to the end of the file, which is length 0.

RangeLocks says which types of lock an owner holds on each byte. A lock is given
only where no other owner's conflicts, and replaces what its owner had on the
bytes it names; an unlock takes exactly the bytes it names; nothing else changes.
The code keeps less than that for locks to the end of the file (`locks_end`
below), and RangeLocks says how much less: such a lock may come to lie beside
another of its owner instead of replacing it, or being replaced, and one of the
two types on a byte that has both may go with a later lock.

## 4. Runs

Passing runs:

| Run | Instance | States | Shows |
|---|---|---|---|
| `grace_threads` | 2 workers, 1 client, all service threads, 1 event, fairness | 4,691 | admission under the right status, the lift assertion, the inductive invariant `DrainInv`; every period ends; the admin method returns |
| `grace_reclaim` | 2 clients, 1 worker, 1 event, clustered | 3,649,602 | the counters and `LiftJustified` |
| `rados_atomic` | 2 nodes, 2 callers, 5 calls | 584,133 | refinement of AtomicGraceDB, period iff needed |
| `cluster_safe` | 2 servers, 1 client each, 4 epochs, 3 crashes | 3,662,297 | exclusion of reclaims and new state, recoverability, exact records |
| `cluster_live` | 2 servers, 3 epochs, 2 crashes, fairness | 592,746 | every cluster-wide period ends |
| `backends` | 4 backends, 2 clients (1 of a failed server), 3 crashes, 2 events | 110,583 | recoverability, exact records |
| `dupreq` | 3 requests for one call on 2 connections, 1 duplicate queued, high-water mark 0, fairness | 242,692 | exact reference counts, one worker per entry, refinement of ReplyCache; every call ends |
| `locks` | 2 owners, 6 offsets, files of up to 3 bytes, 3 ranges, up to 3 locks when one is asked for, 1 grant ended at a time | 93,802 | no conflicting locks, no idle waiter, cookies and locks match, splitting and merging exact byte by byte, refinement of RangeLocks |
| `sessions` | 2 workers and the reaper, a client that restarts, 2 client ids, 2 sessions | 2,979,630 | exact reference counts, the record agrees with the tables, exactly-once, the table never has two sessions of one CREATE_SESSION |
| `sessions_live` | the same threads, two principals with one name, 1 session, open and delegation state, fairness | 250,900 | types; every request ends; every expired lease is reaped or renewed |

Bounds. Two workers are enough for a race on the count, and the proofs of Grace
hold for any number. One event, with the period of the boot, lets a second
period begin while the first ends (two events were checked once: 23,293 states).
Two callers and five calls let each operation lose a race to any other; the
proofs cover any number. In the cluster four epochs admit three successive
periods: a server in the first one can be overtaken twice, which is what a
stale database name needs; the safety run was also carried out once with five
epochs (8.9 million states). A second client adds no interaction, since no
step relates two clients of a server (checked once with two clients, three
epochs and two crashes). In Backends three crashes let a restart fail twice
within one period, and two events give an instance a second and a third one;
of the two clients one may come from the failed server. In DupReq
three requests are a call, its duplicate on the same connection and one on
another; a queue of one duplicate and a high-water mark of zero make the limits
bind at once. In StateLock the three ranges split locks, cut them at either end and reach the
end of the file; an offset space of six leaves room between the largest file and
the offset where sums wrap. The steps use these three; `ExactBytes` tries, in
every list that arises, every range of `FileRanges`. In Sessions two
client ids are one before and one after the restart; a second session of one
client id is what CreatedOnce is about; two workers and the reaper are enough for
each to act within an operation of another, and the proofs hold for any number.
A slot sees one request and its retransmissions: a second request of a slot is out
of TLC's reach with two sessions, and `ExactlyOnceCorrect` proves the property for
any number of them.

Deadlock is checked for Grace and Backends. It is not for the others: calls,
requests, epochs, client ids and sessions are bounded there, and a server with
nothing to do may rest. That no thread waits for ever is stated by
`RequestsEnd` in both Sessions and DupReq.

Violation runs, each a disagreement between the code and what a comment or a
manual page says of it (`findings` in `PROJECT.json` quotes them):

| Run | What happens |
|---|---|
| `dupreq_silent` | a duplicate that waited for a call whose reply could not be sent is resumed and sent away without a reply, though its own connection is up |
| `locks_end` | the end of a lock to the end of the file, plus one, is zero: the test for a gap takes a lock of the same owner that overlaps it for apart from it, both stay in the list, and the owner holds a byte for reading and for writing |

Further configurations, kept for whoever works on the module they belong to:

| Configuration | Module | What TLC finds |
|---|---|---|
| `MCRadosAll.cfg` | MCRadosGrace | with `remove`: types, adjacent epochs and versions hold (1,206,759 states) |
| `MCGraceCount.cfg` | MCGrace | violation: `reclaim_completes` reaches `clid_count` though a listed client has not completed |
| `MCRadosRemove.cfg` | MCRadosGrace | violation: removing a node that needs no grace ends another node's period |
| `MCClusterNewDB.cfg` | MCClusterGrace | violation: a client recorded between snapshot and write is dropped from the new database |
| `MCClusterKeepUp.cfg` | MCClusterGrace | violation: a server still in grace misses the next epoch |
| `MCBackendsAgain.cfg` | MCBackends | violation: at the end of the second period of one instance `fs_ng` deletes the directory in use |
| `MCStateLockTold.cfg` | MCStateLock | violation: a lock reported as granted is removed by the thread that took its cookie and got a refusal |
| `MCSessionsDestroy.cfg` | MCSessions | violation: DESTROY_CLIENTID looks for sessions only, and removes a client id with state |

More observations have no run of their own. A takeover event that arrives
while a period drains before its lift extends the period but leaves CHANGE_REQ
set, so that no reclaim is admitted in it. `match[]` in `rados_grace.c` is not
cleared on a retry, so that a join or a toggle that lost the race with a removal
writes the removed node's key back. And clients that `fs` and `rados_kv` have
read from the old directory do not survive a second restart in grace.

DupReq: an entry whose result was recorded as a drop is executed again by the
duplicate that is resumed; `nfs_dupreq_delete` takes the entry from the queue and
from the tree under two locks, and another request may retire it in between; a
request dropped because too many duplicates wait keeps its reference on the DRC
(`leaked`). Sessions: EXCHANGE_ID of a restarted client leaks a reference to the
old client id; a session may outlive the expiry of its client id when
CREATE_SESSION looked the client id up before; an expiry by CREATE_SESSION
ignores lease reservations, though a comment in `nfs4_lease.c` says that a
reservation "prevents any other thread from expiring the lease"; when the reply
does not fit, SEQUENCE leaves `data->slot` set with `slot_lock` released, so that
a later request may run before the reply is stored (`torn`);
`client_id_has_state` wants open owners and state of the client id's own owner
both. StateLock: `state_lock` answers success for a lock whose cookie another
thread has taken, and that thread may yet remove it.

### Fairness

Grace: each service thread keeps running (weak fairness of its steps); taking
`grace_mutex` is strongly fair, because the mutex is free again and again and
the reaper sleeps between two passes; workers finish their operations; time
passes. `grace_threads` runs without a clustered backend: with one, a peer can
begin new periods forever and the retry loop of the admin method need not end.

ClusterGrace: servers that are down are restarted and boot; the reaper runs
periodically, whether or not a watch notification arrives, so lost
notifications need no action of their own; and the drain of references at the
start of a period ends, because no new ones are given out meanwhile
(strong fairness of the branch of `StartGrace` that succeeds; Grace justifies
it). Crashes and shutdowns are not fair, and clients need not do anything.

DupReq: every thread that has work runs, the pool's thread for a resumed request
included; connections that are down are freed. Sessions: every thread in a
request goes on (weak fairness of `Continue`: an operation that keeps `cr_mutex`
over several steps uses up a client id or a session, so there are finitely many
of them and a waiting thread gets its turn), and the reaper runs again and
again. Clients need not do anything.

## 5. Proofs

`GraceProofs` (for all sets of workers, clients and events):

- `TypeCorrect`: the type invariant.
- `DrainCorrect`: `DrainInv` is inductive together with the types. It is needed
  because neither `AdmittedUnderStatus` nor the lift assertion is inductive:
  that the count is zero when the bits are cleared follows only from the count
  being exact (`RefsCounted`), from CHANGE_REQ being set since the count was
  seen to be zero, and from the mutex being held in between (`MutexHeld`,
  `LiftStands`). `Admission` and `LiftAssertion` are its corollaries.
- `CountCorrect`: `CountInv`. `reclaim_completes` is bounded by the number of
  listed clients that are done, and `clid_count` by the length of the list from
  below; so equality means all are done. A decision to lift stays justified
  while the mutex is held although the counters go on changing.
- `LiftsForAReason`: the action property `LiftJustified`, from `CountInv`.

`RadosGraceProofs` (for all sets of nodes and callers):

- `TypeCorrect`, `VersionsCorrect` (a caller whose version is current has read
  the present content) and `EpochsCorrect`.
- `RetriesCorrect`, `Refinement` and `NeedCorrect` assume `NoRemove`: that
  `remove` is not among the operations in use. The assumption is needed:
  `match[]` outlives a removal, and see `MCRadosRemove.cfg`. The refinement maps the
  object to itself; every successful write is the abstract step of its operation because
  the content was computed from the present content (`VersionsTell`) and the
  checks were passed on it (`RetriesSound`).

`ClusterGraceProofs` (for all finite sets of servers, all sets of clients, any
number of epochs and crashes):

- `TypeCorrect`: the type invariant.
- `ExclusiveCorrect`: `ReclaimsExclusiveButAstray`, `RecoverableCorrect`:
  `Recoverable`, `RecordsCorrect`: `RecordsExact`.

  One inductive invariant carries all of them. `ObjectInv`: a period is in force
  exactly while a member needs it, and recovers from the epoch before the current
  one. For each server, `Shape` (what its main thread and its reaper imply of its
  status, its databases and its clients), `Flags` (a server with NEED is in grace and
  recovers into the current epoch; in grace and ENFORCING go together but for the
  steps in between), `Epoch` (a period cannot end while a server is entering it;
  one that is overtaken is astray), `Recorded` (a new database is empty, the one in
  use exact, the old one still there while it is needed) and `Promise` (where the
  clients are recorded that a server has or owes recovery). `Exclusive`: while one
  server admits reclaims all others enforce. None of the properties is
  inductive alone: that a record is not deleted too early depends on the epochs,
  these on the flags, and the flags on where each server is in its sequence.

`DupReqProofs` (for all finite sets of requests and connections and all limits
of the cache):

- `TypeCorrect`, `EntryRefsCorrect` (the count of an entry is exact),
  `DrcRefsCorrect` (the count of the DRC is exact up to what `leaked` counts, no
  call drops the last reference, and only the table holds the entries of a DRC
  that waits to be recycled) and `OneOwnerCorrect` (one request at most works for
  an incomplete entry).
- `ReplyCacheImplemented`: DupReq implements ReplyCache under the mapping of its
  table and of the entries executed.

  The invariant is the types, `EntryRefs`, `DrcInv` (the equation for the DRC's
  count), `QueueInv` (table and queue hold the same entries, but for those their
  request is deleting; no call has two), `RequestInv` (what a request may
  assume of its entry at each place), `EntryInv` (queued duplicates are suspended,
  on this entry, once) and `PairInv` (an incomplete entry has one owner; nobody
  has the entry of a request that has not made it). `OneOwner` needs the last two:
  a request hands an entry on to a duplicate of its queue, and only a suspended
  request is there. The refinement needs `RequestInv`: whoever may come to execute a
  call finds it not executed.

The Sessions proofs (for all sets of workers and incarnations, any number of
client ids, sessions and sequence ids) are spread over four modules that end in
`SessionsProofs`:

- `TypeCorrect`: the type invariant.
- `RefsCorrect`: `Refs`, the reference counts of client ids and sessions are
  exact. The induction is over `IInv` (SessionsLemmas), the conjunction of
  `ThreadOK` (what a thread holds at each place), `Counts` (the types, the
  equations of `Refs`, and that nothing is used before it is handed out),
  `MutexInv` (the holder of `cr_mutex`, and no other, is in a critical section),
  `CrInv` (what the record points to is hashed in the table of that name, the
  tables are disjoint, and the record no longer points to a client id that is
  about to be unhashed) and `TabInv` (a type). `Refs` alone is not
  inductive: that a decrement finds a positive count needs the holder to be
  among those counted, and that a record is freed unhashed needs `CrInv` and the
  mutex. The only fact about cardinalities the steps use is `Counting` (two sets
  that differ in one element differ in size by at most one); it is derived
  once, from the library's theorems on finite sets.
- `OneConfirmedCorrect`: `OneConfirmed`, the record points to the confirmed
  client id and to no other, and expiry finds the client id in its table.
- `CreatedOnceCorrect`: `CreatedOnce`, the table never holds two sessions of one
  CREATE_SESSION. (One that failed after its session was hashed may be retried
  once that session is gone.)
- `ExactlyOnceCorrect`: `ExactlyOnce`, no request of a slot runs twice.

  These three come from `Deep == StatInv /\ SeqInv /\ SlotInv` (SessionsLemmas),
  inductive relative to `IInv`. `StatInv` adds to `OneConfirmed` what expiry and
  CREATE_SESSION rely on between their steps while they hold `cr_mutex`.
  `SeqInv` adds to `CreatedOnce` that a session's `csa_sequence` is below its client
  id's, unless its CREATE_SESSION is still under way: then it is equal, and the
  holder of the mutex is the one that will advance it. `SlotInv` adds to
  `ExactlyOnce` that a running request holds `slot_lock` and has the slot's sequence,
  and that nothing beyond the slot's sequence has run.

| Module | Holds |
|---|---|
| `SessionsLemmas` | counting, the helpers of the model, how each kind of step changes the references; `ThreadOK` and `MutexInv` over every step; `Deep` over the steps that leave the client ids in their places |
| `SessionsRequests` | `Counts` over CREATE_SESSION, DESTROY_SESSION, SEQUENCE and the reaper; `Deep` over CREATE_SESSION and SEQUENCE |
| `SessionsExpire` | `Counts`, `CrInv` and `Deep` over expiry, EXCHANGE_ID and DESTROY_CLIENTID |
| `SessionsProofs` | counting from the library, `Init`, the two inductions, the theorems |

Only model-checked:

- all liveness properties (`GraceEnds`, `DbusGraceReturns`, `GraceLifted`,
  `RequestsEnd`, `LeaseReaped`): the prover handles neither fairness nor ENABLED;
- the properties of Backends: not yet attempted;
- the properties of StateLock and its refinement: merging and splitting are
  folds over a list, and what they compute for every list is an induction over
  data that the provers cannot instantiate.

## 6. What is not modelled

Grace, ClusterGrace, Backends: failures of single RADOS operations other than
the version assertion; the release of NLM state on a release event; revoked
delegation handles in recovery records; failures of single file operations, the
migration from `fs` to `fs_ng` and the release event in Backends; the caps of 1024
clients and 1024 members; 64-bit overflow of epochs. DESTROY_CLIENTID in
ClusterGrace is that of a client without sessions; its state goes with it.

Sessions: SETCLIENTID of NFSv4.0, the back channel, BIND_CONN_TO_SESSION and the
connections of a session, stale client ids of an earlier server instance, the
limit on client ids, the reference count of the client record; `cid_mutex`, which
the code holds within a step and never while it waits for `cr_mutex`; the pointer
the walk over a client id's sessions keeps to the next one while another thread
may unlink it. `data->slot` and `data->preserved_clientid` are used after the
reference to the session was dropped: the code counts no reference for these
uses, and `Refs` counts none either. What confirmation
and expiry do to the recovery records is in Backends and ClusterGrace, the
reclaim counters are in Grace.

DupReq: the shared UDP cache, and calls that are not cached at all.

StateLock: FSALs with lock support (and so the polling of blocked locks and the
upcalls that grant them, and what a failing FSAL leaves behind), the reclaim
flag, the walks over all locks of a client or an export (SM_NOTIFY, unexport),
share reservations and delegations.

The parts under points 8 and 9 of the plan are still to come.
