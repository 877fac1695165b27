------------------------------- MODULE DupReq -------------------------------
(***************************************************************************)
(* The duplicate request cache (DRC) of RPCAL/nfs_dupreq.c and the part of *)
(* MainNFSD/nfs_worker_thread.c that drives it: the requests a client      *)
(* sends and sends again from one address, over TCP connections that       *)
(* break, each processed by a thread of its own.                           *)
(*                                                                         *)
(* A step is what a thread does under one mutex (dre_mtx, the partition's  *)
(* mtx, drc_mtx, drc_st_mtx).  An entry is named after the request that    *)
(* created it.  The service function is abstracted to what it makes of the *)
(* request: executed, dropped, or refused with an authentication error.    *)
(***************************************************************************)
EXTENDS Integers, Sequences, FiniteSets, Functions

CONSTANTS Reqs, Keys, Xprts,
          Key,          \* the call (xid and checksum) a request carries
          Xprt,         \* the connection it arrives on
          MaxDupes,     \* DUPREQ_MAX_DUPES
          MaxRetries,   \* DUPREQ_MAX_RETRIES
          Hiwat, MaxSize, RetwndBias

ASSUME DupReqAssumption ==
    /\ IsFiniteSet(Reqs) /\ IsFiniteSet(Xprts)
    /\ Key \in [Reqs -> Keys] /\ Xprt \in [Reqs -> Xprts]
    /\ {MaxDupes, MaxRetries, Hiwat, MaxSize, RetwndBias} \subseteq Nat

VARIABLES
    pc,         \* where the thread of each request is
    dv,         \* the entry a request holds (rq_u1)
    rc,         \* the result it is about to record
    cnt,        \* how many entries it has retired
    pick,       \* the hash of the entry it means to retire
    entry,      \* the entries
    tree,       \* the entries in the hash table
    dupreqQ,    \* the entries in the order they were made; drc->size is Len
    drc,        \* the DRC of the address
    xprt,       \* the connections: up, down (destroyed), being freed, gone
    xpU2,       \* the connections that have a reference on the DRC (xp_u2)
    executed,   \* history: how often a call was executed
    leaked      \* history: references on the DRC no one will release

thread == <<pc, dv, rc, cnt, pick>>
cache == <<entry, tree, dupreqQ>>
vars == <<thread, cache, drc, xprt, xpU2, executed, leaked>>

Results == {"OK", "DROP", "XPRT_DIED"}

Entry == [complete : BOOLEAN, rc : Results, refcnt : Int, dupes : Seq(Reqs),
          dupe_cnt : Nat, ran : BOOLEAN, lost : BOOLEAN]

\* alloc_dupreq: zeroed memory, so rc is NFS_REQ_OK.
NewEntry == [complete |-> FALSE, rc |-> "OK", refcnt |-> 0, dupes |-> <<>>,
             dupe_cnt |-> 0, ran |-> FALSE, lost |-> FALSE]

Drc == [live : BOOLEAN, refcnt : Int, recycle : BOOLEAN, retwnd : Nat]

NoDrc == [live |-> FALSE, refcnt |-> 0, recycle |-> FALSE, retwnd |-> 0]

Init ==
    /\ pc = [r \in Reqs |-> "idle"]
    /\ dv = [r \in Reqs |-> r]
    /\ rc = [r \in Reqs |-> "OK"]
    /\ cnt = [r \in Reqs |-> 0]
    /\ pick = [r \in Reqs |-> Key[r]]
    /\ entry = [r \in Reqs |-> NewEntry]
    /\ tree = {} /\ dupreqQ = <<>>
    /\ drc = NoDrc
    /\ xprt = [x \in Xprts |-> "up"] /\ xpU2 = {}
    /\ executed = [k \in Keys |-> 0]
    /\ leaked = 0

\* dupreq_entry_put: the last reference frees the entry.
Put(e) ==
    IF e.refcnt = 1 THEN [NewEntry EXCEPT !.ran = e.ran]
    ELSE [e EXCEPT !.refcnt = @ - 1]

Transition(r, from, to) ==
    /\ pc[r] = from
    /\ pc' = [pc EXCEPT ![r] = to]

----------------------------------------------------------------------------
(* nfs_dupreq_start *)

\* The request arrives; it holds the connection until it is freed.
Arrive(r) ==
    /\ xprt[Xprt[r]] = "up"
    /\ Transition(r, "idle", "getdrc")
    /\ UNCHANGED <<dv, rc, cnt, pick, cache, drc, xprt, xpU2, executed, leaked>>

\* nfs_dupreq_get_drc, when the connection has its DRC.
RefDrc(r) ==
    /\ Xprt[r] \in xpU2
    /\ Transition(r, "getdrc", "lookup")
    /\ drc' = [drc EXCEPT !.refcnt = @ + 1]
    /\ UNCHANGED <<dv, rc, cnt, pick, cache, xprt, xpU2, executed, leaked>>

\* nfs_dupreq_get_drc, for the first request of a connection: the DRC of the
\* address is found, taken off the recycle queue or allocated.  One that has
\* no reference and is not yet queued is waited for (goto retry).
MutFindDrc(r) ==
    /\ Xprt[r] \notin xpU2
    /\ drc.live /\ drc.refcnt = 0 => drc.recycle
    /\ Transition(r, "getdrc", "lookup")
    /\ xpU2' = xpU2 \cup {Xprt[r]}
    /\ drc' = [drc EXCEPT !.live = TRUE, !.recycle = FALSE,
                          !.refcnt = @ + 1]
    /\ UNCHANGED <<dv, rc, cnt, pick, cache, xprt, executed, leaked>>

FindDrc(r) ==
    /\ Xprt[r] \notin xpU2
    /\ drc.live /\ drc.refcnt = 0 => drc.recycle
    /\ Transition(r, "getdrc", "lookup")
    /\ xpU2' = xpU2 \cup {Xprt[r]}
    /\ drc' = [drc EXCEPT !.live = TRUE, !.recycle = FALSE,
                          !.refcnt = @ + 2]
    /\ UNCHANGED <<dv, rc, cnt, pick, cache, xprt, executed, leaked>>

Cached(k) == {e \in tree : Key[e] = k}

\* drc_inc_retwnd
IncRetwnd(d) ==
    [d EXCEPT !.retwnd = IF @ = 0 THEN RetwndBias
                         ELSE IF @ < MaxSize THEN @ + 2 ELSE @]

MutLookupMiss(r) ==
    /\ \A e \in Cached(Key[r]) : ~entry[e].complete
    /\ Transition(r, "lookup", "process")
    /\ dv' = [dv EXCEPT ![r] = r]
    /\ entry' = [entry EXCEPT ![r] = [NewEntry EXCEPT !.refcnt = 2]]
    /\ tree' = tree \cup {r}
    /\ dupreqQ' = Append(dupreqQ, r)
    /\ UNCHANGED <<rc, cnt, pick, drc, xprt, xpU2, executed, leaked>>

LookupMiss(r) ==
    /\ Cached(Key[r]) = {}
    /\ Transition(r, "lookup", "process")
    /\ dv' = [dv EXCEPT ![r] = r]
    /\ entry' = [entry EXCEPT ![r] = [NewEntry EXCEPT !.refcnt = 2]]
    /\ tree' = tree \cup {r}
    /\ dupreqQ' = Append(dupreqQ, r)
    /\ UNCHANGED <<rc, cnt, pick, drc, xprt, xpU2, executed, leaked>>

MutLookupBusy(r) ==
    \E e \in Cached(Key[r]) :
        /\ ~entry[e].complete /\ entry[e].dupe_cnt + 1 <= MaxDupes
        /\ Transition(r, "lookup", "suspended")
        /\ dv' = [dv EXCEPT ![r] = e]
        /\ entry' = [entry EXCEPT ![e].dupe_cnt = @ + 1,
                                  ![e].dupes = Append(@, r)]
        /\ drc' = IncRetwnd(drc)
        /\ UNCHANGED <<rc, cnt, pick, tree, dupreqQ, xprt, xpU2, executed,
                       leaked>>

\* The call is being processed: the duplicate is queued behind it.
LookupBusy(r) ==
    \E e \in Cached(Key[r]) :
        /\ ~entry[e].complete /\ entry[e].dupe_cnt + 1 <= MaxDupes
        /\ Transition(r, "lookup", "suspended")
        /\ dv' = [dv EXCEPT ![r] = e]
        /\ entry' = [entry EXCEPT ![e].dupe_cnt = @ + 1, ![e].refcnt = @ + 1,
                                  ![e].dupes = Append(@, r)]
        /\ drc' = IncRetwnd(drc)
        /\ UNCHANGED <<rc, cnt, pick, tree, dupreqQ, xprt, xpU2, executed,
                       leaked>>

\* Too many are queued: DUPREQ_DROP.  The request is DUPREQ_NOCACHE_NORES
\* from here on, for which nfs_dupreq_rele releases nothing, not even the
\* reference nfs_dupreq_get_drc took.
LookupDrop(r) ==
    \E e \in Cached(Key[r]) :
        /\ ~entry[e].complete /\ entry[e].dupe_cnt + 1 > MaxDupes
        /\ Transition(r, "lookup", "done")
        /\ entry' = [entry EXCEPT ![e].dupe_cnt = @ + 1]
        /\ leaked' = leaked + 1
        /\ UNCHANGED <<dv, rc, cnt, pick, tree, dupreqQ, drc, xprt, xpU2,
                       executed>>

LookupHit(r) ==
    \E e \in Cached(Key[r]) :
        /\ entry[e].complete
        /\ Transition(r, "lookup", "exists")
        /\ dv' = [dv EXCEPT ![r] = e]
        /\ entry' = [entry EXCEPT ![e].dupe_cnt = @ + 1, ![e].refcnt = @ + 1]
        /\ drc' = IncRetwnd(drc)
        /\ UNCHANGED <<rc, cnt, pick, tree, dupreqQ, xprt, xpU2, executed,
                       leaked>>

----------------------------------------------------------------------------
(* nfs_rpc_process_request, complete_request, drc_resume *)

\* process_dupreq, DUPREQ_EXISTS: the result of the send is not used.
ResendReply(r) ==
    /\ Transition(r, "exists", "rele")
    /\ UNCHANGED <<dv, rc, cnt, pick, cache, drc, xprt, xpU2, executed, leaked>>

\* The service function does what the call asks for.
Execute(r) ==
    /\ Transition(r, "process", "send")
    /\ executed' = [executed EXCEPT ![Key[r]] = @ + 1]
    /\ entry' = [entry EXCEPT ![dv[r]].ran = TRUE]
    /\ UNCHANGED <<dv, rc, cnt, pick, tree, dupreqQ, drc, xprt, xpU2, leaked>>

\* NFS_REQ_DROP (a retryable error, an export that does not allow the call)
\* or auth_failure, NFS_REQ_AUTH_ERR: the DRC treats them alike.
Refuse(r) ==
    /\ Transition(r, "process", "delete")
    /\ rc' = [rc EXCEPT ![r] = "DROP"]
    /\ UNCHANGED <<dv, cnt, pick, cache, drc, xprt, xpU2, executed, leaked>>

\* svc_sendreply fails on a connection that is down.
SendReply(r) ==
    /\ Transition(r, "send", "finish")
    /\ rc' = [rc EXCEPT ![r] = IF xprt[Xprt[r]] = "up" THEN "OK" ELSE "XPRT_DIED"]
    /\ UNCHANGED <<dv, cnt, pick, cache, drc, xprt, xpU2, executed, leaked>>

MutResumeTo(res) == IF res = "DROP" THEN "process" ELSE "send"

\* drc_resume goes by the result in the entry.
ResumeTo(res) ==
    CASE res = "OK" -> "rele"
      [] res = "DROP" -> "process"
      [] res = "XPRT_DIED" -> "send"

Resume(r) ==
    /\ Transition(r, "resume", ResumeTo(entry[dv[r]].rc))
    /\ UNCHANGED <<dv, rc, cnt, pick, cache, drc, xprt, xpU2, executed, leaked>>

----------------------------------------------------------------------------
(* nfs_dupreq_finish *)

\* The reply was not sent and there are duplicates: the entry is left as it
\* is for the first of them.
FinishDied(r) ==
    /\ rc[r] = "XPRT_DIED" /\ entry[dv[r]].dupes # <<>>
    /\ Transition(r, "finish", "rele")
    /\ entry' = [entry EXCEPT ![dv[r]].lost = TRUE, ![dv[r]].ran = FALSE]
    /\ UNCHANGED <<dv, rc, cnt, pick, tree, dupreqQ, drc, xprt, xpU2, executed,
                   leaked>>

Finish(r) ==
    /\ rc[r] = "XPRT_DIED" => entry[dv[r]].dupes = <<>>
    /\ Transition(r, "finish", "retire")
    /\ entry' = [entry EXCEPT ![dv[r]].complete = TRUE, ![dv[r]].rc = rc[r]]
    /\ cnt' = [cnt EXCEPT ![r] = 0]
    /\ UNCHANGED <<dv, rc, pick, tree, dupreqQ, drc, xprt, xpU2, executed,
                   leaked>>

MutDecRetwnd(d) == [d EXCEPT !.retwnd = @ - 1]

\* drc_dec_retwnd, once for a request that finishes.
DecRetwnd(d) == [d EXCEPT !.retwnd = IF @ > 0 THEN @ - 1 ELSE @]

\* drc_should_retire
ShouldRetire(d) ==
    \/ Len(dupreqQ) > MaxSize
    \/ d.retwnd = 0 /\ Len(dupreqQ) > Hiwat

RetireCheck(r) ==
    LET d == IF cnt[r] = 0 THEN DecRetwnd(drc) ELSE drc
    IN /\ Transition(r, "retire",
              IF ShouldRetire(d) /\ dupreqQ # <<>> THEN "retire2" ELSE "rele")
       /\ drc' = d
       /\ pick' = [pick EXCEPT ![r] =
              IF ShouldRetire(d) /\ dupreqQ # <<>> THEN Key[Head(dupreqQ)]
              ELSE @]
       /\ UNCHANGED <<dv, rc, cnt, cache, xprt, xpU2, executed, leaked>>

FirstIs(k) == dupreqQ # <<>> /\ Key[Head(dupreqQ)] = k

\* The first entry is taken again, with the partition locked, and compared.
RetireFirst(r) ==
    /\ FirstIs(pick[r])
    /\ Transition(r, "retire2", IF cnt[r] < MaxRetries THEN "retire" ELSE "rele")
    /\ cnt' = [cnt EXCEPT ![r] = @ + 1]
    /\ pick' = [pick EXCEPT ![r] = Key[r]]
    /\ dupreqQ' = Tail(dupreqQ)
    /\ tree' = tree \ {Head(dupreqQ)}
    /\ entry' = [entry EXCEPT ![Head(dupreqQ)] = Put(@)]
    /\ UNCHANGED <<dv, rc, drc, xprt, xpU2, executed, leaked>>

RetireChanged(r) ==
    /\ ~FirstIs(pick[r])
    /\ Transition(r, "retire2", "rele")
    /\ pick' = [pick EXCEPT ![r] = Key[r]]
    /\ UNCHANGED <<dv, rc, cnt, cache, drc, xprt, xpU2, executed, leaked>>

----------------------------------------------------------------------------
(* nfs_dupreq_delete *)

\* With duplicates queued the entry stays, for the first of them to process.
DeleteCheck(r) ==
    LET e == dv[r]
    IN /\ Transition(r, "delete",
              IF entry[e].dupes # <<>> THEN "rele" ELSE "delete2")
       /\ entry' = [entry EXCEPT ![e].rc =
                       IF entry[e].dupes # <<>> THEN rc[r] ELSE @]
       /\ UNCHANGED <<dv, rc, cnt, pick, tree, dupreqQ, drc, xprt, xpU2,
                      executed, leaked>>

\* TAILQ_REMOVE
TailqRemove(q, i) == SubSeq(q, 1, i - 1) \o SubSeq(q, i + 1, Len(q))

DeleteFromQueue(r) ==
    /\ \/ \E i \in 1..Len(dupreqQ) :
             /\ dupreqQ[i] = dv[r]
             /\ Transition(r, "delete2", "delete3")
             /\ dupreqQ' = TailqRemove(dupreqQ, i)
       \/ /\ dv[r] \notin Range(dupreqQ)
          /\ Transition(r, "delete2", "rele")
          /\ UNCHANGED dupreqQ
    /\ UNCHANGED <<dv, rc, cnt, pick, entry, tree, drc, xprt, xpU2, executed,
                   leaked>>

DeleteFromTree(r) ==
    /\ Transition(r, "delete3", "rele")
    /\ tree' = tree \ {dv[r]}
    /\ entry' = [entry EXCEPT ![dv[r]] = Put(@)]
    /\ UNCHANGED <<dv, rc, cnt, pick, dupreqQ, drc, xprt, xpU2, executed, leaked>>

----------------------------------------------------------------------------
(* nfs_dupreq_rele, nfs_dupreq_put_drc *)

MutRele(r) ==
    /\ Transition(r, "rele", "put")
    /\ entry' = [entry EXCEPT ![dv[r]].dupes = IF @ = <<>> THEN @ ELSE Tail(@)]
    /\ UNCHANGED <<dv, rc, cnt, pick, tree, dupreqQ, drc, xprt, xpU2,
                   executed, leaked>>

\* The first duplicate is resumed, on a thread of the work pool.
Rele(r) ==
    LET e == dv[r]
        next == IF entry[e].dupes = <<>> THEN {} ELSE {Head(entry[e].dupes)}
    IN /\ pc[r] = "rele"
       /\ pc' = [q \in Reqs |-> IF q = r THEN "put"
                                ELSE IF q \in next THEN "resume" ELSE pc[q]]
       /\ entry' = [entry EXCEPT ![e].dupes = IF @ = <<>> THEN @ ELSE Tail(@)]
       /\ UNCHANGED <<dv, rc, cnt, pick, tree, dupreqQ, drc, xprt, xpU2,
                      executed, leaked>>

PutEntry(r) ==
    /\ Transition(r, "put", "putdrc")
    /\ entry' = [entry EXCEPT ![dv[r]] = Put(@)]
    /\ dv' = [dv EXCEPT ![r] = r]
    /\ rc' = [rc EXCEPT ![r] = "OK"]
    /\ cnt' = [cnt EXCEPT ![r] = 0]
    /\ UNCHANGED <<pick, tree, dupreqQ, drc, xprt, xpU2, executed, leaked>>

\* The request still holds its connection, and that holds the DRC: this is
\* not the last reference (see DrcRefs).
PutDrc(r) ==
    /\ Transition(r, "putdrc", "done")
    /\ drc' = [drc EXCEPT !.refcnt = @ - 1]
    /\ UNCHANGED <<dv, rc, cnt, pick, cache, xprt, xpU2, executed, leaked>>

----------------------------------------------------------------------------
(* Connections, and the threads of other clients *)

Disconnect(x) ==
    /\ xprt[x] = "up"
    /\ xprt' = [xprt EXCEPT ![x] = "down"]
    /\ UNCHANGED <<thread, cache, drc, xpU2, executed, leaked>>

\* nfs_rpc_free_user_data, when the last reference on the connection is gone.
\* nfs_dupreq_put_drc drops the last reference on the DRC under drc_mtx, and
\* releases it to take drc_st_mtx first: RecycleXprtDrc looks again.
FreeXprt(x) ==
    /\ xprt[x] = "down"
    /\ \A r \in Reqs : Xprt[r] = x => pc[r] \in {"idle", "done"}
    /\ xprt' = [xprt EXCEPT ![x] =
           IF x \in xpU2 /\ drc.refcnt = 1 THEN "recycle" ELSE "gone"]
    /\ drc' = IF x \in xpU2 THEN [drc EXCEPT !.refcnt = @ - 1] ELSE drc
    /\ xpU2' = xpU2 \ {x}
    /\ UNCHANGED <<thread, cache, executed, leaked>>

RecycleXprtDrc(x) ==
    /\ xprt[x] = "recycle"
    /\ xprt' = [xprt EXCEPT ![x] = "gone"]
    /\ drc' = [drc EXCEPT !.recycle = @ \/ drc.refcnt = 0]
    /\ UNCHANGED <<thread, cache, xpU2, executed, leaked>>

\* drc_free_expired, run for a new connection of another client: the DRC has
\* been on the recycle queue for too long, or the queue is too long.
FreeExpired ==
    /\ drc.recycle
    /\ drc' = NoDrc
    /\ entry' = [e \in Reqs |-> IF e \in Range(dupreqQ)
                                THEN Put(entry[e]) ELSE entry[e]]
    /\ tree' = {} /\ dupreqQ' = <<>>
    /\ UNCHANGED <<thread, xprt, xpU2, executed, leaked>>

----------------------------------------------------------------------------
Start(r) == RefDrc(r) \/ FindDrc(r) \/ LookupMiss(r) \/ LookupBusy(r)
              \/ LookupDrop(r) \/ LookupHit(r)

Process(r) == ResendReply(r) \/ Execute(r) \/ Refuse(r) \/ SendReply(r)
                \/ Resume(r)

Complete(r) == FinishDied(r) \/ Finish(r) \/ RetireCheck(r) \/ RetireFirst(r)
                 \/ RetireChanged(r) \/ DeleteCheck(r) \/ DeleteFromQueue(r)
                 \/ DeleteFromTree(r)

Release(r) == Rele(r) \/ PutEntry(r) \/ PutDrc(r)

Step(r) == Start(r) \/ Process(r) \/ Complete(r) \/ Release(r)

Next ==
    \/ \E r \in Reqs : Arrive(r) \/ Step(r)
    \/ \E x \in Xprts : Disconnect(x) \/ FreeXprt(x) \/ RecycleXprtDrc(x)
    \/ FreeExpired

Spec == Init /\ [][Next]_vars

\* A thread that has work to do runs, and so does a thread of the work pool
\* that was given a resumed request; connections that are down are freed.
\* Nothing is assumed of clients, connections or the recycle queue.
FairSpec ==
    /\ Spec
    /\ \A r \in Reqs : WF_vars(Step(r))
    /\ \A x \in Xprts : WF_vars(FreeXprt(x) \/ RecycleXprtDrc(x))

----------------------------------------------------------------------------
(* Properties *)

Locations == {"idle", "getdrc", "lookup", "process", "send", "finish", "retire",
              "retire2", "delete", "delete2", "delete3", "exists", "suspended",
              "resume", "rele", "put", "putdrc", "done"}

\* The locations where a request has a reference on its entry, and where it
\* has one on the DRC.
Holding == Locations \ {"idle", "getdrc", "lookup", "putdrc", "done"}
InCall == Holding \cup {"lookup", "putdrc"}

Holders(e) == {r \in Reqs : dv[r] = e /\ pc[r] \in Holding}

\* Every variable has its type.
TypeOK ==
    /\ pc \in [Reqs -> Locations]
    /\ dv \in [Reqs -> Reqs]
    /\ rc \in [Reqs -> Results]
    /\ cnt \in [Reqs -> Nat]
    /\ pick \in [Reqs -> Keys]
    /\ entry \in [Reqs -> Entry]
    /\ tree \in SUBSET Reqs /\ dupreqQ \in Seq(Reqs)
    /\ drc \in Drc
    /\ xprt \in [Xprts -> {"up", "down", "recycle", "gone"}]
    /\ xpU2 \in SUBSET Xprts
    /\ executed \in [Keys -> Nat]
    /\ leaked \in Nat

\* The reference count of an entry is exactly one for the hash table and one
\* for each request that will still look at it, whatever order requests are
\* queued, resumed, retired by others and released in: no entry is freed in
\* use and none is kept for ever (dupreq_entry_get, dupreq_entry_put).
EntryRefs ==
    \A e \in Reqs : entry[e].refcnt =
        Cardinality(Holders(e)) + (IF e \in tree THEN 1 ELSE 0)

\* The reference count of the DRC is one for each connection and each call,
\* and one for each request that was dropped because too many duplicates
\* were queued.  A call never drops the last one: its connection has
\* another.  A DRC on the recycle queue has none, and the entries it caches
\* are referenced by the table alone, as drc_free_expired asserts.
DrcRefs ==
    /\ drc.refcnt = Cardinality(xpU2) + leaked
                      + Cardinality({r \in Reqs : pc[r] \in InCall})
    /\ drc.refcnt > 0 => drc.live
    /\ \A r \in Reqs : pc[r] = "putdrc" => drc.refcnt > 1
    /\ drc.recycle => /\ drc.refcnt = 0
                      /\ \A e \in Range(dupreqQ) : entry[e].refcnt = 1

\* The locations where a request decides the fate of its entry.
Working == {"process", "send", "finish", "delete", "delete2", "delete3"}

\* While an entry is incomplete one request at most works for it, is about to
\* or has just done so and will hand it to a duplicate; once it is complete
\* none works for it.  So a resumed duplicate never processes a call beside
\* another request (nfs_dupreq_rele, drc_resume).
OneOwner ==
    \A r, q \in Reqs :
        r # q /\ dv[r] = dv[q] /\ pc[r] \in Working =>
            /\ pc[q] \notin Working \cup {"resume", "rele", "exists"}
            /\ ~entry[dv[r]].complete

\* The hash table as the cache of ReplyCache, entries as its tickets.
RC == INSTANCE ReplyCache WITH
          Tickets <- Reqs, CallOf <- Key,
          table <- [k \in Keys |-> Cached(k)],
          ran <- {e \in Reqs : entry[e].ran}

\* The cache keeps the promise of ReplyCache: a call is not executed again
\* while its entry is in the table, unless the entry was left incomplete by
\* nfs_dupreq_finish because the reply could not be sent.
ImplementsReplyCache == RC!Spec

\* A call in progress comes to an end: a duplicate that was suspended is
\* resumed, unless the entry it waits for was left incomplete.
RequestsEnd ==
    \A r \in Reqs : pc[r] = "getdrc" ~> pc[r] = "done" \/ entry[dv[r]].lost

\* A duplicate that was suspended, and whose connection is up, is sent away
\* with nothing only when the call was completed for the client
\* (nfs_dupreq_finish, drc_resume).
SilentOnlyIfComplete ==
    [][\A r \in Reqs :
           pc[r] = "resume" /\ pc'[r] = "rele" /\ xprt[Xprt[r]] = "up"
               => entry[dv[r]].complete]_vars
=============================================================================
