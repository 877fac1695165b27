------------------------------ MODULE Sessions ------------------------------
(***************************************************************************)
(* NFSv4.1 client ids, their leases, sessions and slots.                   *)
(*                                                                         *)
(* One client owner (nfs_client_record_t) is modelled, with the client ids *)
(* that EXCHANGE_ID hands out to its incarnations (the verifiers it sends  *)
(* before and after a restart, and other principals that use its name).    *)
(* Worker threads run EXCHANGE_ID, CREATE_SESSION, DESTROY_SESSION,        *)
(* DESTROY_CLIENTID and compounds that start with SEQUENCE; one more       *)
(* thread is the reaper.  A step of a thread is what it does between two   *)
(* points where another thread can get in: cr_mutex is held over several   *)
(* steps, cid_mutex and the hash table partitions only within one.  Each   *)
(* session has one slot, since slots share nothing but the session.        *)
(***************************************************************************)
EXTENDS Integers, FiniteSets

CONSTANTS Workers,    \* threads that process requests
          Reaper,     \* the reaper thread
          Incs,       \* incarnations of the client
          Principal,  \* the principal of each incarnation
          MaxIds,     \* client ids handed out
          MaxSess,    \* sessions created
          MaxSeq,     \* highest sequence id a client sends
          Kinds       \* kinds of state a compound may establish

ASSUME ThreadsAssumption == /\ Reaper \notin Workers
                            /\ "none" \notin Workers \cup {Reaper}
                            /\ IsFiniteSet(Workers)
ASSUME PrincipalAssumption == DOMAIN Principal = Incs
ASSUME BoundsAssumption == MaxIds \in Nat /\ MaxSess \in Nat /\ MaxSeq \in Nat

VARIABLES cid,     \* the nfs_client_id_t records
          ht,      \* ht_confirmed_client_id and ht_unconfirmed_client_id
          cr,      \* cr_confirmed_rec and cr_unconfirmed_rec, 0 for NULL
          mutex,   \* the thread that holds cr_mutex
          sess,    \* the sessions
          th,      \* what each thread is doing
          last,    \* the client id and the session handed out last
          leaked   \* references to client ids nobody will drop

vars == <<cid, ht, cr, mutex, sess, th, last, leaked>>

Threads == Workers \cup {Reaper}
Ids == 1..MaxIds
Sess == 1..MaxSess
None == "none"

-----------------------------------------------------------------------------
(***************************************************************************)
(* The state                                                               *)
(***************************************************************************)
\* cid_confirmed and cid_refcount; the incarnation is cid_incoming_verifier
\* and cid_credential; `seq' is cid_create_session_sequence, `resv'
\* cid_lease_reservations, `fresh' whether cid_last_renew is less than a lease
\* period ago; `state' is what the client's owners hold.
Cid == [status : {"none", "unconfirmed", "confirmed", "expired", "freed"},
        ref : Nat, inc : Incs \cup {None}, seq : Nat, resv : Int,
        fresh : BOOLEAN, state : SUBSET Kinds]

NoCid == [status |-> "none", ref |-> 0, inc |-> None, seq |-> 0, resv |-> 0,
          fresh |-> FALSE, state |-> {}]

\* `csq' is the csa_sequence it was created for.  The slot: its sequence, the
\* sequence of the request whose reply it caches, the thread that holds
\* slot_lock, how often each request ran.  A slot is `torn' once a request
\* that no longer holds it has stored a reply for an earlier sequence.
Session == [ref : Nat, cid : Ids \cup {0}, hashed : BOOLEAN, csq : Nat,
            sequence : Nat, cached : Nat, lock : Threads \cup {None},
            ran : [1..MaxSeq -> Nat], torn : BOOLEAN]

NoSession == [ref |-> 0, cid |-> 0, hashed |-> FALSE, csq |-> 0, sequence |-> 0,
              cached |-> 0, lock |-> None, ran |-> [q \in 1..MaxSeq |-> 0],
              torn |-> FALSE]

\* A thread's program counter; the client ids it holds a reference to, found
\* and old, and whether it found the first unconfirmed; the client id it
\* expires, the table it takes it from, whether it owns the reference of that
\* table, and where it goes on afterwards; the session it holds a reference to;
\* data->slot, data->preserved_clientid and the sequence id it was sent.
Thread == [pc : {"idle", "ex_new", "cs_lock", "cs_confirm", "dc_lock",
                 "ds_del", "sq_lease", "sq_expire", "sq_slot", "sq_exec",
                 "sq_complete", "rp_lock", "exp_mark",
                 "exp_unhash", "exp_state", "exp_sessions", "exp_back"},
           found : Ids \cup {0}, old : Ids \cup {0}, unconf : BOOLEAN,
           inc : Incs \cup {None}, exp : Ids \cup {0}, own : BOOLEAN,
           tab : {None, "confirmed", "unconfirmed"},
           back : {None, "ex_new", "cs_confirm", "sq_done", "rp_done"},
           s : Sess \cup {0}, slot : Sess \cup {0}, keep : Ids \cup {0},
           seq : 0..(MaxSeq + MaxSess)]

Idle == [pc |-> "idle", found |-> 0, old |-> 0, unconf |-> FALSE, inc |-> None,
         exp |-> 0, own |-> FALSE, tab |-> None,
         back |-> None, s |-> 0, slot |-> 0, keep |-> 0, seq |-> 0]

Init ==
    /\ cid = [c \in Ids |-> NoCid]
    /\ ht = [confirmed |-> {}, unconfirmed |-> {}]
    /\ cr = [confirmed |-> 0, unconfirmed |-> 0]
    /\ mutex = None
    /\ sess = [s \in Sess |-> NoSession]
    /\ th = [t \in Threads |-> Idle]
    /\ last = [id |-> 0, session |-> 0]
    /\ leaked = [c \in Ids |-> 0]

Hashed == ht.confirmed \cup ht.unconfirmed

\* cb_session_list: a session is unlinked when its last reference goes.
SessionsOf(c) == {s \in Sess : sess[s].ref > 0 /\ sess[s].cid = c}

_valid_lease(c) ==
    /\ cid[c].status # "expired"
    /\ cid[c].resv # 0 \/ cid[c].fresh

\* Open owners and the state of cid_owner, which has delegations and layouts.
client_id_has_state(c) == {"open", "deleg"} \subseteq cid[c].state

-----------------------------------------------------------------------------
(***************************************************************************)
(* References                                                              *)
(***************************************************************************)
\* (The variant takes no reference.)
Mut_inc_client_id_ref(C, c) == C
inc_client_id_ref(C, c) == [C EXCEPT ![c].ref = @ + 1]

\* What is left of a freed record is the number it must not be confused with.
Freed(r) == [NoCid EXCEPT !.status = "freed", !.seq = r.seq]

Dropped(r) == IF r.ref = 1 THEN Freed(r) ELSE [r EXCEPT !.ref = @ - 1]

dec_client_id_ref(C, c) == [C EXCEPT ![c] = Dropped(@)]

DecIf(C, c) == IF c = 0 THEN C ELSE dec_client_id_ref(C, c)

\* The last reference to a session takes its reference to the client id along.
Unref(x) == IF x.ref = 1 THEN [NoSession EXCEPT !.cid = x.cid, !.csq = x.csq]
            ELSE [x EXCEPT !.ref = @ - 1]

dec_session_ref(S, C, s) ==
    /\ sess' = [S EXCEPT ![s] = Unref(@)]
    /\ cid' = IF S[s].ref = 1 THEN dec_client_id_ref(C, S[s].cid) ELSE C

\* A session that is found in the table is unhashed and loses that reference.
Deleted(x) == IF x.hashed THEN Unref([x EXCEPT !.hashed = FALSE]) ELSE x

\* The session's reference to its client id goes along with its last reference;
\* a thread that holds a reference itself sees to that when it drops its own.
nfs41_Session_Del(S, s) == [S EXCEPT ![s] = Deleted(@)]

Go(t, pc) == th' = [th EXCEPT ![t].pc = pc]
Done(t) == th' = [th EXCEPT ![t] = Idle]

Lock(t) ==
    /\ mutex = None
    /\ mutex' = t

Unlock(t) ==
    /\ mutex = t
    /\ mutex' = None

-----------------------------------------------------------------------------
(***************************************************************************)
(* nfs_client_id_expire, with cr_mutex held                                *)
(***************************************************************************)
ExpireSkip(t) ==
    /\ th[t].pc = "exp_mark"
    /\ cid[th[t].exp].status = "expired"
    /\ Go(t, "exp_back")
    /\ UNCHANGED <<cid, ht, cr, mutex, sess, last, leaked>>

\* The client id leaves the client record.  (The variant forgets that it may be
\* the unconfirmed one.)
MutDetach(c) == [cr EXCEPT !.confirmed = IF @ = c THEN 0 ELSE @]
Detach(c) == [r \in DOMAIN cr |-> IF cr[r] = c THEN 0 ELSE cr[r]]

ExpireMark(t) ==
    LET c == th[t].exp IN
    /\ th[t].pc = "exp_mark"
    /\ cid[c].status # "expired"
    /\ cid' = [cid EXCEPT ![c].status = "expired"]
    /\ cr' = Detach(c)
    /\ th' = [th EXCEPT ![t].pc = "exp_unhash", ![t].tab = cid[c].status]
    /\ UNCHANGED <<ht, mutex, sess, last, leaked>>

\* The table is the one that goes with the status it had; not to find it there
\* is fatal.  From here the thread owns the reference the table had.
ExpireUnhash(t) ==
    LET c == th[t].exp IN
    /\ th[t].pc = "exp_unhash"
    /\ c \in ht[th[t].tab]
    /\ ht' = [ht EXCEPT ![th[t].tab] = @ \ {c}]
    /\ th' = [th EXCEPT ![t].pc = "exp_state", ![t].own = TRUE]
    /\ UNCHANGED <<cid, cr, mutex, sess, last, leaked>>

\* Locks, layouts, opens and delegations are released or revoked.
ExpireState(t) ==
    /\ th[t].pc = "exp_state"
    /\ cid' = [cid EXCEPT ![th[t].exp].state = {}]
    /\ Go(t, "exp_sessions")
    /\ UNCHANGED <<ht, cr, mutex, sess, last, leaked>>

\* nfs41_Session_Del of a session of the list.  The walk takes no cid_mutex, so
\* that it is a step for each session, and other threads come in between.
ExpireSession(t) ==
    /\ th[t].pc = "exp_sessions"
    /\ \E s \in SessionsOf(th[t].exp) :
        /\ sess[s].hashed
        /\ sess' = nfs41_Session_Del(sess, s)
        /\ cid' = DecIf(cid, IF sess[s].ref = 1 THEN sess[s].cid ELSE 0)
    /\ UNCHANGED <<ht, cr, mutex, th, last, leaked>>

\* At the end of the list the reference of the hash table is dropped.
ExpireSessions(t) ==
    /\ th[t].pc = "exp_sessions"
    /\ \A s \in SessionsOf(th[t].exp) : ~sess[s].hashed
    /\ cid' = dec_client_id_ref(cid, th[t].exp)
    /\ th' = [th EXCEPT ![t].pc = "exp_back", ![t].own = FALSE]
    /\ UNCHANGED <<ht, cr, mutex, sess, last, leaked>>

\* (The variant returns with cr_mutex held.)
MutExpireEnd(t) ==
    LET C == DecIf(cid, th[t].found) IN
    /\ th[t].pc = "exp_back"
    /\ th[t].back \in {"sq_done", "rp_done"}
    /\ IF th[t].s = 0 THEN cid' = C /\ UNCHANGED sess
                      ELSE dec_session_ref(sess, C, th[t].s)
    /\ Done(t)
    /\ UNCHANGED <<ht, cr, mutex, last, leaked>>

\* Back in reserve_lease_or_expire or in the reaper, which unlock and drop
\* their reference; nfs4_op_sequence then drops the session and fails.
ExpireEnd(t) ==
    LET C == DecIf(cid, th[t].found) IN
    /\ th[t].pc = "exp_back"
    /\ th[t].back \in {"sq_done", "rp_done"}
    /\ Unlock(t)
    /\ IF th[t].s = 0 THEN cid' = C /\ UNCHANGED sess
                      ELSE dec_session_ref(sess, C, th[t].s)
    /\ Done(t)
    /\ UNCHANGED <<ht, cr, last, leaked>>

\* (The variant keeps the reference.)
MutExpireBack(t) ==
    /\ th[t].pc = "exp_back"
    /\ th[t].back \in {"ex_new", "cs_confirm"}
    /\ th' = [th EXCEPT ![t].pc = th[t].back, ![t].old = 0, ![t].exp = 0,
                        ![t].tab = None, ![t].back = None]
    /\ UNCHANGED <<cid, ht, cr, mutex, sess, last, leaked>>

\* Back in EXCHANGE_ID or CREATE_SESSION, which drop the old client id.
ExpireBack(t) ==
    /\ th[t].pc = "exp_back"
    /\ th[t].back \in {"ex_new", "cs_confirm"}
    /\ cid' = dec_client_id_ref(cid, th[t].old)
    /\ th' = [th EXCEPT ![t].pc = th[t].back, ![t].old = 0, ![t].exp = 0,
                        ![t].tab = None, ![t].back = None]
    /\ UNCHANGED <<ht, cr, mutex, sess, last, leaked>>

Expire(t) ==
    \/ ExpireSkip(t) \/ ExpireMark(t) \/ ExpireUnhash(t) \/ ExpireState(t)
    \/ ExpireSession(t) \/ ExpireSessions(t) \/ ExpireEnd(t) \/ ExpireBack(t)

-----------------------------------------------------------------------------
(***************************************************************************)
(* EXCHANGE_ID                                                             *)
(***************************************************************************)
Records == [cid |-> cid, ht |-> ht, cr |-> cr]

\* remove_confirmed_client_id and remove_unconfirmed_client_id.
remove_client_id(r, tab, c) ==
    IF c \notin r.ht[tab] THEN r
    ELSE [cid |-> dec_client_id_ref([r.cid EXCEPT ![c].status = "expired"], c),
          ht |-> [r.ht EXCEPT ![tab] = @ \ {c}],
          cr |-> [r.cr EXCEPT ![tab] = 0]]

\* The unconfirmed record, if any, makes way for a new one.
NewClientId(i) ==
    LET n == last.id + 1
        r == remove_client_id(Records, "unconfirmed", cr.unconfirmed)
    IN  [cid |-> [r.cid EXCEPT ![n] = [NoCid EXCEPT !.status = "unconfirmed",
                      !.ref = 1, !.inc = i, !.seq = 1, !.fresh = TRUE]],
         ht |-> [r.ht EXCEPT !.unconfirmed = @ \cup {n}],
         cr |-> [r.cr EXCEPT !.unconfirmed = n]]

CountId == last' = [last EXCEPT !.id = @ + 1]

StoreRecords(r) ==
    /\ cid' = r.cid
    /\ ht' = r.ht
    /\ cr' = r.cr

\* No confirmed client id, or one of the same principal before a restart (CASE
\* 5); the reference taken to that one is not dropped.  An EXCHANGE_ID of the
\* incarnation that is confirmed, and one that only updates, change nothing.
ExchangeId(t, i) ==
    LET conf == cr.confirmed
        r == NewClientId(i)
    IN
    /\ th[t].pc = "idle"
    /\ mutex = None
    /\ last.id < MaxIds
    /\ CountId
    /\ \/ /\ conf = 0
          /\ StoreRecords(r)
          /\ UNCHANGED leaked
       \/ /\ conf # 0
          /\ Principal[cid[conf].inc] = Principal[i]
          /\ cid[conf].inc # i
          /\ StoreRecords([r EXCEPT !.cid = inc_client_id_ref(@, conf)])
          /\ leaked' = [leaked EXCEPT ![conf] = @ + 1]
    /\ UNCHANGED <<mutex, sess, th>>

\* Another principal uses the name: the confirmed client id must go first.
ExchangeIdClash(t, i) ==
    LET conf == cr.confirmed IN
    /\ th[t].pc = "idle"
    /\ last.id < MaxIds
    /\ conf # 0
    /\ Principal[cid[conf].inc] # Principal[i]
    /\ ~_valid_lease(conf) \/ ~client_id_has_state(conf)
    /\ Lock(t)
    /\ cid' = inc_client_id_ref(cid, conf)
    /\ th' = [th EXCEPT ![t].pc = "exp_mark", ![t].old = conf, ![t].exp = conf,
                        ![t].back = "ex_new", ![t].inc = i]
    /\ UNCHANGED <<ht, cr, sess, last, leaked>>

ExchangeIdNew(t) ==
    /\ th[t].pc = "ex_new"
    /\ StoreRecords(NewClientId(th[t].inc))
    /\ CountId
    /\ Unlock(t)
    /\ Done(t)
    /\ UNCHANGED <<sess, leaked>>

-----------------------------------------------------------------------------
(***************************************************************************)
(* CREATE_SESSION                                                          *)
(***************************************************************************)
\* The client id is looked up before cr_mutex is taken.
CreateSession(t, c, q) ==
    /\ th[t].pc = "idle"
    /\ c \in Hashed
    /\ cid' = inc_client_id_ref(cid, c)
    /\ th' = [th EXCEPT ![t].pc = "cs_lock", ![t].found = c, ![t].seq = q,
                        ![t].unconf = c \in ht.unconfirmed]
    /\ UNCHANGED <<ht, cr, mutex, sess, last, leaked>>

\* A replay, a sequence out of order, another principal or bad arguments.
CreateSessionRefuse(t) ==
    /\ th[t].pc = "cs_lock"
    /\ mutex = None
    /\ cid' = dec_client_id_ref(cid, th[t].found)
    /\ Done(t)
    /\ UNCHANGED <<ht, cr, mutex, sess, last, leaked>>

\* The session is built and hashed, for the record that was found, before the
\* confirmed client id it replaces is expired.
CreateSessionBuild(t) ==
    LET c == th[t].found
        conf == cr.confirmed
        n == last.session + 1
        C == inc_client_id_ref(cid, c)
    IN
    /\ th[t].pc = "cs_lock"
    /\ th[t].seq = cid[c].seq
    /\ last.session < MaxSess
    /\ last' = [last EXCEPT !.session = @ + 1]
    /\ Lock(t)
    /\ sess' = [sess EXCEPT ![n] = [NoSession EXCEPT !.ref = 2, !.cid = c,
                                    !.hashed = TRUE, !.csq = th[t].seq]]
    /\ IF th[t].unconf /\ conf \notin {0, c}
       THEN /\ cid' = inc_client_id_ref(C, conf)
            /\ th' = [th EXCEPT ![t].pc = "exp_mark", ![t].old = conf,
                                ![t].exp = conf, ![t].back = "cs_confirm",
                                ![t].s = n]
       ELSE /\ cid' = C
            /\ th' = [th EXCEPT ![t].pc = "cs_confirm", ![t].s = n,
                                ![t].unconf = @ /\ conf = 0]
    /\ UNCHANGED <<ht, cr, leaked>>

\* The next CREATE_SESSION has the next sequence, and the lease is renewed.
\* (The variant forgets the sequence.)
MutAccepted(C, c) == [C EXCEPT ![c].fresh = TRUE]
Accepted(C, c) == [C EXCEPT ![c].seq = @ + 1, ![c].fresh = TRUE]

\* The record stays in place.
CreateSessionUpdate(t) ==
    LET c == th[t].found
        C == Accepted(cid, c)
    IN
    /\ th[t].pc = "cs_confirm"
    /\ ~th[t].unconf
    /\ dec_session_ref(sess, dec_client_id_ref(C, c), th[t].s)
    /\ Unlock(t)
    /\ Done(t)
    /\ UNCHANGED <<ht, cr, last, leaked>>

CreateSessionConfirm(t) ==
    LET c == th[t].found
        C == Accepted([cid EXCEPT ![c].status = "confirmed"], c)
    IN
    /\ th[t].pc = "cs_confirm"
    /\ th[t].unconf
    /\ c \in ht.unconfirmed
    /\ ht' = [confirmed |-> ht.confirmed \cup {c},
              unconfirmed |-> ht.unconfirmed \ {c}]
    /\ cr' = [confirmed |-> c, unconfirmed |-> 0]
    /\ dec_session_ref(sess, dec_client_id_ref(C, c), th[t].s)
    /\ Unlock(t)
    /\ Done(t)
    /\ UNCHANGED <<last, leaked>>

\* The record was removed between the lookup and cr_mutex: it is too late, but
\* cr_unconfirmed_rec has been cleared, whichever record it was.
CreateSessionLate(t) ==
    LET c == th[t].found
        s == th[t].s
    IN
    /\ th[t].pc = "cs_confirm"
    /\ th[t].unconf
    /\ c \notin ht.unconfirmed
    /\ cr' = [cr EXCEPT !.unconfirmed = 0]
    /\ dec_session_ref(nfs41_Session_Del(sess, s), dec_client_id_ref(cid, c), s)
    /\ Unlock(t)
    /\ Done(t)
    /\ UNCHANGED <<ht, last, leaked>>

-----------------------------------------------------------------------------
(***************************************************************************)
(* DESTROY_CLIENTID and DESTROY_SESSION                                    *)
(***************************************************************************)
DestroyClientid(t, c) ==
    /\ th[t].pc = "idle"
    /\ c \in Hashed
    /\ cid' = inc_client_id_ref(cid, c)
    /\ th' = [th EXCEPT ![t].pc = "dc_lock", ![t].found = c]
    /\ UNCHANGED <<ht, cr, mutex, sess, last, leaked>>

\* Once cr_mutex is held it is the confirmed and the unconfirmed client id of
\* the record that go, unless the confirmed one has sessions.
DestroyClientidRemove(t) ==
    LET conf == cr.confirmed
        r1 == IF conf = 0 THEN Records
              ELSE remove_client_id(Records, "confirmed", conf)
        r2 == IF cr.unconfirmed = 0 THEN r1
              ELSE remove_client_id(r1, "unconfirmed", cr.unconfirmed)
        r == IF conf # 0 /\ SessionsOf(conf) # {} THEN Records ELSE r2
    IN
    /\ th[t].pc = "dc_lock"
    /\ mutex = None
    /\ StoreRecords([r EXCEPT !.cid = dec_client_id_ref(@, th[t].found)])
    /\ Done(t)
    /\ UNCHANGED <<mutex, sess, last, leaked>>

\* A client names sessions it was told of, not one being created.
Known(s) ==
    /\ sess[s].hashed
    /\ \A t \in Threads : th[t].s = s => th[t].pc # "cs_confirm" /\ th[t].old = 0

DestroySession(t, s) ==
    /\ th[t].pc = "idle"
    /\ Known(s)
    /\ sess' = [sess EXCEPT ![s].ref = @ + 1]
    /\ th' = [th EXCEPT ![t].pc = "ds_del", ![t].s = s]
    /\ UNCHANGED <<cid, ht, cr, mutex, last, leaked>>

\* It is refused on a connection that is not one of the session's.
DestroySessionDel(t) ==
    LET s == th[t].s IN
    /\ th[t].pc = "ds_del"
    /\ \E S \in {sess, nfs41_Session_Del(sess, s)} : dec_session_ref(S, cid, s)
    /\ Done(t)
    /\ UNCHANGED <<ht, cr, mutex, last, leaked>>

-----------------------------------------------------------------------------
(***************************************************************************)
(* A compound that starts with SEQUENCE                                    *)
(***************************************************************************)
Sequence(t, s, q) ==
    /\ th[t].pc = "idle"
    /\ Known(s)
    /\ sess' = [sess EXCEPT ![s].ref = @ + 1]
    /\ th' = [th EXCEPT ![t].pc = "sq_lease", ![t].s = s, ![t].seq = q]
    /\ UNCHANGED <<cid, ht, cr, mutex, last, leaked>>

\* reserve_lease_or_expire: a valid lease is reserved; otherwise cid_mutex is
\* dropped before cr_mutex is taken to expire the client id.
SequenceLease(t) ==
    LET c == sess[th[t].s].cid IN
    /\ th[t].pc = "sq_lease"
    /\ IF _valid_lease(c)
       THEN /\ cid' = [cid EXCEPT ![c].resv = @ + 1]
            /\ th' = [th EXCEPT ![t].pc = "sq_slot", ![t].keep = c]
       ELSE /\ cid' = inc_client_id_ref(cid, c)
            /\ th' = [th EXCEPT ![t].pc = "sq_expire", ![t].found = c]
    /\ UNCHANGED <<ht, cr, mutex, sess, last, leaked>>

\* The reaper and SEQUENCE go for the client id whose lease they saw run out.
ExpireLock(t) ==
    /\ th[t].pc \in {"sq_expire", "rp_lock"}
    /\ Lock(t)
    /\ th' = [th EXCEPT ![t].pc = "exp_mark", ![t].exp = th[t].found,
                        ![t].back = IF t = Reaper THEN "rp_done" ELSE "sq_done"]
    /\ UNCHANGED <<cid, ht, cr, sess, last, leaked>>

\* (The variant takes a retransmission for a new request.)
MutInOrder(s, q) == q \in {sess[s].sequence, sess[s].sequence + 1} /\ q # 0
InOrder(s, q) == q = sess[s].sequence + 1

\* The next request of the slot.  It goes on with slot_lock held, or fails for
\* want of room in the reply, with neither the lock nor the session.
SequenceNext(t) ==
    LET s == th[t].s
        S == [sess EXCEPT ![s].sequence = @ + 1, ![s].cached = 0]
    IN
    /\ th[t].pc = "sq_slot"
    /\ sess[s].lock = None
    /\ InOrder(s, th[t].seq)
    /\ \/ /\ sess' = [S EXCEPT ![s].lock = t]
          /\ UNCHANGED cid
          /\ th' = [th EXCEPT ![t].pc = "sq_exec", ![t].slot = s]
       \/ /\ dec_session_ref(S, cid, s)
          /\ th' = [th EXCEPT ![t].pc = "sq_complete", ![t].slot = s, ![t].s = 0]
    /\ UNCHANGED <<ht, cr, mutex, last, leaked>>

\* A bad slot (0 here), a retransmission, answered from the slot if it can be,
\* or a sequence out of order.
SequenceRefuse(t) ==
    LET s == th[t].s IN
    /\ th[t].pc = "sq_slot"
    /\ \/ th[t].seq = 0
       \/ sess[s].lock = None /\ ~InOrder(s, th[t].seq)
    /\ dec_session_ref(sess, cid, s)
    /\ th' = [th EXCEPT ![t].pc = "sq_complete", ![t].s = 0]
    /\ UNCHANGED <<ht, cr, mutex, last, leaked>>

\* The other operations, which may leave the client with state or without.
SequenceExec(t) ==
    LET s == th[t].s IN
    /\ th[t].pc = "sq_exec"
    /\ sess' = [sess EXCEPT ![s].ran[th[t].seq] = @ + 1]
    /\ \E k \in SUBSET Kinds : cid' = [cid EXCEPT ![sess[s].cid].state = k]
    /\ Go(t, "sq_complete")
    /\ UNCHANGED <<ht, cr, mutex, last, leaked>>

\* complete_nfs4_compound: the reply goes into data->slot, and the lease of
\* preserved_clientid is released, through pointers and without references.
\* Then compound_data_Free releases the slot and the session, if they are
\* still held.
SequenceComplete(t) ==
    LET x == th[t].slot
        s == th[t].s
        q == th[t].seq
        k == th[t].keep
        C == [cid EXCEPT ![k].resv = @ - 1, ![k].fresh = @ \/ cid[k].resv = 1]
        S == [sess EXCEPT ![x].cached = q,
                          ![x].torn = @ \/ (s = 0 /\ sess[x].sequence # q)]
    IN
    /\ th[t].pc = "sq_complete"
    /\ IF s = 0 THEN /\ sess' = IF x = 0 THEN sess ELSE S
                     /\ cid' = C
                ELSE dec_session_ref([S EXCEPT ![s].lock = None], C, s)
    /\ Done(t)
    /\ UNCHANGED <<ht, cr, mutex, last, leaked>>

-----------------------------------------------------------------------------
\* (The variant looks through the table of confirmed client ids only.)
MutReap(c) ==
    /\ th[Reaper].pc = "idle"
    /\ c \in ht.confirmed
    /\ ~_valid_lease(c)
    /\ cid' = inc_client_id_ref(cid, c)
    /\ th' = [th EXCEPT ![Reaper].pc = "rp_lock", ![Reaper].found = c]
    /\ UNCHANGED <<ht, cr, mutex, sess, last, leaked>>

\* reap_hash_table finds a client id whose lease has run out.
Reap(c) ==
    /\ th[Reaper].pc = "idle"
    /\ c \in Hashed
    /\ ~_valid_lease(c)
    /\ cid' = inc_client_id_ref(cid, c)
    /\ th' = [th EXCEPT ![Reaper].pc = "rp_lock", ![Reaper].found = c]
    /\ UNCHANGED <<ht, cr, mutex, sess, last, leaked>>

\* A lease period passes.
Age(c) ==
    /\ c \in Hashed
    /\ cid[c].fresh
    /\ cid' = [cid EXCEPT ![c].fresh = FALSE]
    /\ UNCHANGED <<ht, cr, mutex, sess, th, last, leaked>>

Request(t) ==
    \/ \E i \in Incs : ExchangeId(t, i) \/ ExchangeIdClash(t, i)
    \/ \E c \in Ids : DestroyClientid(t, c)
    \/ \E c \in Ids, q \in 1..MaxSess : CreateSession(t, c, q)
    \/ \E s \in Sess : DestroySession(t, s)
    \/ \E s \in Sess, q \in 0..MaxSeq : Sequence(t, s, q)

Continue(t) ==
    \/ ExchangeIdNew(t)
    \/ CreateSessionRefuse(t) \/ CreateSessionBuild(t) \/ CreateSessionUpdate(t)
    \/ CreateSessionConfirm(t) \/ CreateSessionLate(t)
    \/ DestroyClientidRemove(t) \/ DestroySessionDel(t)
    \/ SequenceLease(t) \/ SequenceNext(t) \/ SequenceRefuse(t)
    \/ SequenceExec(t) \/ SequenceComplete(t)
    \/ ExpireLock(t) \/ Expire(t)

Next ==
    \/ \E t \in Workers : Request(t)
    \/ \E t \in Threads : Continue(t)
    \/ \E c \in Ids : Reap(c) \/ Age(c)

Spec == Init /\ [][Next]_vars

\* Threads are scheduled, and one that waits for a mutex gets it in the end; the
\* reaper runs again and again.
FairSpec ==
    /\ Spec
    /\ \A t \in Threads : WF_vars(Continue(t))
    /\ WF_vars(\E c \in Ids : Reap(c))

-----------------------------------------------------------------------------
(***************************************************************************)
(* Properties                                                              *)
(***************************************************************************)
\* Every variable has the type the code declares for it.
TypeOK ==
    /\ cid \in [Ids -> Cid]
    /\ ht \in [{"confirmed", "unconfirmed"} -> SUBSET Ids]
    /\ cr \in [{"confirmed", "unconfirmed"} -> Ids \cup {0}]
    /\ mutex \in Threads \cup {None}
    /\ sess \in [Sess -> Session]
    /\ th \in [Threads -> Thread]
    /\ last \in [id : 0..MaxIds, session : 0..MaxSess]
    /\ leaked \in [Ids -> Nat]

\* The threads that hold a reference to a client id or a session.
Finders(c) == {t \in Threads : th[t].found = c}
Olds(c) == {t \in Threads : th[t].old = c}
Owners(c) == {t \in Threads : th[t].own /\ th[t].exp = c}
Users(s) == {t \in Threads : th[t].s = s}
Bit(b) == IF b THEN 1 ELSE 0

\* The reference counts are exact: a client id is kept by its hash table, its
\* sessions and the threads that hold it (and by what EXCHANGE_ID of a
\* restarted client forgets to drop), a session by its table and the threads.
\* So dec_client_id_ref frees a record when, and only when, the last of these
\* holders lets go.  A compound's preserved_clientid and slot are no holders:
\* the code counts no reference for them.
Refs ==
    /\ \A c \in Ids :
        /\ cid[c].ref = Bit(c \in Hashed) + Cardinality(SessionsOf(c))
                         + Cardinality(Finders(c)) + Cardinality(Olds(c))
                         + Cardinality(Owners(c)) + leaked[c]
        /\ cid[c].ref = 0 <=> cid[c].status \in {"none", "freed"}
    /\ \A s \in Sess : sess[s].ref = Bit(sess[s].hashed) + Cardinality(Users(s))

\* A client owner has at most one live confirmed client id, the one its record
\* points to, and the record points to nothing else; a client id about to be
\* unhashed is in the table nfs_client_id_expire looks in, so it is never
\* fatal.
OneConfirmed ==
    /\ \A c \in Ids : cid[c].status = "confirmed" <=> cr.confirmed = c
    /\ \A c \in Ids : cr.unconfirmed = c => cid[c].status = "unconfirmed"
    /\ \A x \in {"confirmed", "unconfirmed"}, c \in Ids :
        cid[c].status = x => c \in ht[x]
    /\ \A t \in Threads : th[t].pc = "exp_unhash" => th[t].exp \in ht[th[t].tab]

\* Exactly once: no request of a slot runs twice, and a retransmission that
\* gets slot_lock finds the reply to the request it repeats, unless that one
\* was refused for want of room and has yet to store its reply, or has
\* stored it over that of a later one.
ExactlyOnce ==
    \A s \in Sess :
        /\ \A q \in 1..MaxSeq : sess[s].ran[q] <= 1
        /\ \/ sess[s].lock # None
           \/ sess[s].sequence = sess[s].cached
           \/ sess[s].torn
           \/ \E t \in Threads : th[t].slot = s /\ th[t].s = 0

\* Two sessions in the table were never created for one client id and one
\* csa_sequence, even when a retransmission was looked up before the first
\* request was done.  (A CREATE_SESSION that failed may be tried again.)
CreatedOnce ==
    \A s1, s2 \in Sess :
        (s1 # s2 /\ sess[s1].hashed /\ sess[s2].hashed /\ sess[s1].cid = sess[s2].cid)
            => sess[s1].csq # sess[s2].csq

\* Every request ends: cr_mutex, the slot locks and the expiry of a client id
\* by whoever finds its lease run out never leave threads waiting for each
\* other.
RequestsEnd == \A t \in Threads : th[t].pc # "idle" ~> th[t].pc = "idle"

\* A client id whose lease has run out goes, or its lease is renewed.
LeaseReaped ==
    \A c \in Ids : (c \in Hashed /\ ~_valid_lease(c)) ~> (c \notin Hashed \/ _valid_lease(c))

\* "We MUST NOT destroy a clientid that has nfsv41 sessions or state": the
\* comment at the session check of nfs4_op_destroy_clientid, which takes the
\* one to imply the other.
DestroyedIdle ==
    [][\A c \in Ids : (\E t \in Threads : DestroyClientidRemove(t))
           /\ cid[c].status = "confirmed" /\ cid'[c].status # "confirmed"
           => cid[c].state = {}]_vars
=============================================================================
