-------------------------- MODULE SessionsRequests --------------------------
(***************************************************************************)
(* CREATE_SESSION, DESTROY_SESSION and SEQUENCE preserve the counts;       *)
(* CREATE_SESSION and SEQUENCE preserve what is known of the statuses, the *)
(* sequences and the slots.                                                *)
(***************************************************************************)
EXTENDS SessionsLemmas

\* The prover of the leaves that name no other.
USE ZenonT(30)

-----------------------------------------------------------------------------
(***************************************************************************)
(* The steps that only take references, or none                            *)
(***************************************************************************)
\* A step that only takes a reference to a client id (inc_client_id_ref) keeps
\* the reference counts exact.
LEMMA TakeCounts ==
  ASSUME Counts, NEW t \in Threads, OneThread(t), NEW d \in Ids, cid[d].ref > 0,
         cid' = inc_client_id_ref(cid, d),
         \/ th[t].found = 0 /\ th'[t].found = d /\ th'[t].old = th[t].old
         \/ th[t].old = 0 /\ th'[t].old = d /\ th'[t].found = th[t].found,
         th'[t].s = th[t].s, ~th[t].own, ~th'[t].own, th'[t].slot = th[t].slot,
         ht' = ht, mutex' \in Threads \cup {None}, sess' = sess,
         leaked' = leaked, last' = last, cr' = cr
  PROVE  Counts'
<1>1. Local(t, 0)
  BY OnlyThread
<1>2. TakesId(d)
  BY TakeOne DEF Counts
<1>3. Types' /\ Hashed' = Hashed
  BY <1>2 DEF TakesId, Counts, Types, Hashed
<1>4. th'[t].slot <= last.session
  BY DEF Counts, LastInv
<1>5. TakeStep(t, d)
  BY <1>1, <1>2, <1>3 DEF TakeStep
<1>6. LastKept(t)
  BY <1>4, LastSame
<1> QED
  BY <1>3, <1>5, <1>6, CountsTakes

\* A hashed client id has a reference.
LEMMA HashedHasRef ==
  ASSUME Counts, NEW t \in Threads, OneThread(t), sess' = sess, leaked' = leaked,
         NEW d \in Ids, d \in Hashed
  PROVE  cid[d].ref > 0
<1>1. Local(t, 0) /\ leaked' \in [Ids -> Nat]
  BY OnlyThread DEF Counts, Types
<1> QED
  BY <1>1, HasRef DEF Counts

\* EXCHANGE_ID of another principal keeps the reference counts exact.
LEMMA ClashCounts ==
  ASSUME ThreadOK, Counts, CrInv, NEW t \in Threads, NEW i \in Incs, ExchangeIdClash(t, i)
  PROVE  Counts'
<1>1. OneThread(t)
  BY RequestThread DEF Request, Counts, Ground
<1>2. PICK d \in Ids : d = cr.confirmed
  BY DEF ExchangeIdClash, Counts, Types
<1>3. d \in Hashed
  <2>1. d \in ht.confirmed
    BY <1>2 DEF CrInv, Tables, ExchangeIdClash
  <2> QED
    BY <2>1 DEF Hashed
<1>4. /\ th[t].pc = "idle" /\ mutex' = t /\ ht' = ht /\ cr' = cr /\ sess' = sess
      /\ last' = last /\ leaked' = leaked /\ cid' = inc_client_id_ref(cid, d)
  BY <1>2 DEF ExchangeIdClash, Lock
<1>5. th'[t] = [th[t] EXCEPT !.pc = "exp_mark", !.old = d, !.exp = d, !.back = "ex_new", !.inc = i]
  BY <1>2 DEF ExchangeIdClash, ThreadOK
<1>6. /\ th[t].old = 0 /\ th'[t].old = d /\ th'[t].found = th[t].found
      /\ th'[t].s = th[t].s /\ ~th[t].own /\ ~th'[t].own /\ th'[t].slot = th[t].slot
  BY <1>4, <1>5, SMT DEF ThreadOK, Shape, ThT
<1>7. cid[d].ref > 0
  BY <1>1, <1>3, <1>4, HashedHasRef
<1> QED
  BY <1>1, <1>4, <1>6, <1>7, TakeCounts

\* The lookup of CREATE_SESSION keeps the reference counts exact.
LEMMA CreateCounts ==
  ASSUME ThreadOK, Counts, NEW t \in Threads, NEW c \in Ids, NEW q \in 1..MaxSess,
         CreateSession(t, c, q)
  PROVE  Counts'
<1>1. OneThread(t)
  BY RequestThread DEF Request, Counts, Ground
<1>2. /\ th[t].pc = "idle" /\ mutex' = mutex /\ ht' = ht /\ cr' = cr /\ sess' = sess
      /\ last' = last /\ leaked' = leaked /\ cid' = inc_client_id_ref(cid, c) /\ c \in Hashed
  BY DEF CreateSession
<1>3. th'[t] = [th[t] EXCEPT !.pc = "cs_lock", !.found = c, !.seq = q,
                             !.unconf = c \in ht.unconfirmed]
  BY DEF CreateSession, ThreadOK
<1>4. /\ th[t].found = 0 /\ th'[t].found = c /\ th'[t].old = th[t].old
      /\ th'[t].s = th[t].s /\ ~th[t].own /\ ~th'[t].own /\ th'[t].slot = th[t].slot
  BY <1>2, <1>3, SMT DEF ThreadOK, Shape, ThT
<1>5. cid[c].ref > 0 /\ mutex' \in Threads \cup {None}
  BY <1>1, <1>2, HashedHasRef DEF Counts, Types
<1> QED
  BY <1>1, <1>2, <1>4, <1>5, TakeCounts

\* The lookup of DESTROY_CLIENTID keeps the reference counts exact.
LEMMA DestroyIdCounts ==
  ASSUME ThreadOK, Counts, NEW t \in Threads, NEW c \in Ids, DestroyClientid(t, c)
  PROVE  Counts'
<1>1. OneThread(t)
  BY RequestThread DEF Request, Counts, Ground
<1>2. /\ th[t].pc = "idle" /\ mutex' = mutex /\ ht' = ht /\ cr' = cr /\ sess' = sess
      /\ last' = last /\ leaked' = leaked /\ cid' = inc_client_id_ref(cid, c) /\ c \in Hashed
  BY DEF DestroyClientid
<1>3. th'[t] = [th[t] EXCEPT !.pc = "dc_lock", !.found = c]
  BY DEF DestroyClientid, ThreadOK
<1>4. /\ th[t].found = 0 /\ th'[t].found = c /\ th'[t].old = th[t].old
      /\ th'[t].s = th[t].s /\ ~th[t].own /\ ~th'[t].own /\ th'[t].slot = th[t].slot
  BY <1>2, <1>3, SMT DEF ThreadOK, Shape, ThT
<1>5. cid[c].ref > 0 /\ mutex' \in Threads \cup {None}
  BY <1>1, <1>2, HashedHasRef DEF Counts, Types
<1> QED
  BY <1>1, <1>2, <1>4, <1>5, TakeCounts

\* The reaper that finds a client id keeps the reference counts exact.
LEMMA ReapCounts ==
  ASSUME ThreadOK, Counts, NEW c \in Ids, Reap(c)
  PROVE  Counts'
<1>0. PICK t \in Threads : t = Reaper
  BY DEF Threads
<1>1. OneThread(t)
  BY <1>0, ReapThread DEF Counts, Ground
<1>2. /\ th[t].pc = "idle" /\ mutex' = mutex /\ ht' = ht /\ cr' = cr /\ sess' = sess
      /\ last' = last /\ leaked' = leaked /\ cid' = inc_client_id_ref(cid, c) /\ c \in Hashed
  BY <1>0 DEF Reap
<1>3. th'[t] = [th[t] EXCEPT !.pc = "rp_lock", !.found = c]
  BY <1>0 DEF Reap, ThreadOK
<1>4. /\ th[t].found = 0 /\ th'[t].found = c /\ th'[t].old = th[t].old
      /\ th'[t].s = th[t].s /\ ~th[t].own /\ ~th'[t].own /\ th'[t].slot = th[t].slot
  BY <1>2, <1>3, SMT DEF ThreadOK, Shape, ThT
<1>5. cid[c].ref > 0 /\ mutex' \in Threads \cup {None}
  BY <1>1, <1>2, HashedHasRef DEF Counts, Types
<1> QED
  BY <1>1, <1>2, <1>4, <1>5, TakeCounts

\* Renewing or ageing a lease changes no count.
LEMMA SetFresh ==
  ASSUME NEW C \in [Ids -> CidT], NEW c, NEW b \in BOOLEAN
  PROVE  Same(C, [C EXCEPT ![c].fresh = b])
<1>1. \A r \in CidT : /\ [r EXCEPT !.fresh = b] \in CidT
                      /\ [r EXCEPT !.fresh = b].ref = r.ref
                      /\ [r EXCEPT !.fresh = b].status = r.status
  BY DEF CidT
<1>2. [C EXCEPT ![c].fresh = b] =
        [d \in Ids |-> IF d = c THEN [C[d] EXCEPT !.fresh = b] ELSE C[d]]
  OBVIOUS
<1> QED
  BY <1>1, <1>2 DEF Same

\* Reserving a lease changes no count.
LEMMA SetResv ==
  ASSUME NEW C \in [Ids -> CidT], NEW c
  PROVE  Same(C, [C EXCEPT ![c].resv = @ + 1])
<1>1. \A r \in CidT : /\ [r EXCEPT !.resv = @ + 1] \in CidT
                      /\ [r EXCEPT !.resv = @ + 1].ref = r.ref
                      /\ [r EXCEPT !.resv = @ + 1].status = r.status
  BY SMT DEF CidT
<1>2. [C EXCEPT ![c].resv = @ + 1] =
        [d \in Ids |-> IF d = c THEN [C[d] EXCEPT !.resv = @ + 1] ELSE C[d]]
  OBVIOUS
<1> QED
  BY <1>1, <1>2 DEF Same

\* A step that changes no holder, no count and no status.
LEMMA QuietCounts ==
  ASSUME Counts, NEW t \in Threads, OneThread(t), Same(cid, cid'),
         th'[t].found = th[t].found, th'[t].old = th[t].old, th'[t].s = th[t].s,
         th'[t].slot <= last.session,  ~th[t].own, ~th'[t].own,
         ht' = ht, mutex' \in Threads \cup {None}, cr' = cr,
         leaked' = leaked, last' = last, sess' \in [Sess -> SessT],
         NEW s \in Sess \cup {0}, \A x \in Sess \ {s} : sess'[x] = sess[x],
         s # 0 => /\ sess'[s].ref = sess[s].ref /\ sess'[s].cid = sess[s].cid
                  /\ sess'[s].hashed = sess[s].hashed /\ s <= last.session
  PROVE  Counts'
<1>1. Local(t, s)
  BY OnlyThread
<1>2. Types' /\ Hashed' = Hashed
  BY DEF Same, Counts, Types, Hashed
<1>3. cr'.confirmed <= last.id /\ cr'.unconfirmed <= last.id
  BY DEF Counts, LastInv
<1>4. s \in Sess => s # 0
  BY SMT DEF Sess
<1>5. \A c \in Ids : cid'[c].ref = cid[c].ref /\ cid'[c].status = cid[c].status
  BY DEF Same
<1>6. StillStep(t, s)
  BY <1>1, <1>2, <1>4, <1>5 DEF StillStep
<1>7. LastKept(t)
  BY LastSame
<1>8. s \in Sess => s <= last.session
  BY <1>4
<1> QED
  BY <1>2, <1>5, <1>6, <1>7, <1>8, CountsStill

\* The passing of a lease period keeps the reference counts exact.
LEMMA AgeCounts ==
  ASSUME ThreadOK, Counts, NEW c \in Ids, Age(c)
  PROVE  Counts'
<1>1. /\ ht' = ht /\ cr' = cr /\ mutex' = mutex /\ sess' = sess /\ th' = th
      /\ last' = last /\ leaked' = leaked /\ cid' = [cid EXCEPT ![c].fresh = FALSE]
  BY DEF Age
<1>2. Same(cid, cid')
  <2>1. PICK b \in BOOLEAN : b = FALSE
    OBVIOUS
  <2>2. cid' = [cid EXCEPT ![c].fresh = b] /\ cid \in [Ids -> CidT]
    BY <1>1, <2>1 DEF Counts, Types
  <2> QED
    BY <2>2, SetFresh
<1>3. Types' /\ Hashed' = Hashed
  BY <1>1, <1>2 DEF Counts, Types, Hashed, Same
<1>4. StatusEq'
  BY <1>2 DEF Counts, StatusEq, Same
<1>5. SessEq'
  BY <1>1 DEF Counts, SessEq, Users
<1>6. \A d \in Ids : Held(d)' = Held(d)
  BY <1>1, <1>3 DEF Held, SessionsOf, Finders, Olds, Owners
<1>7. RefEq'
  BY <1>2, <1>6 DEF Counts, RefEq, Same
<1>8. LastInv'
  BY <1>1, <1>2, <1>3 DEF Counts, LastInv, Same
<1> QED
  BY <1>3, <1>4, <1>5, <1>7, <1>8 DEF Counts

\* Taking cr_mutex to expire a client id keeps the reference counts exact.
LEMMA ExpireLockCounts ==
  ASSUME ThreadOK, Counts, NEW t \in Threads, ExpireLock(t)
  PROVE  Counts'
<1>1. OneThread(t)
  BY ContinueThread DEF Continue, Counts, Ground
<1>2. /\ th[t].pc \in {"sq_expire", "rp_lock"} /\ mutex' = t /\ ht' = ht /\ cr' = cr
      /\ sess' = sess /\ last' = last /\ leaked' = leaked /\ cid' = cid
  BY DEF ExpireLock, Lock
<1>3. th'[t] = [th[t] EXCEPT !.pc = "exp_mark", !.exp = th[t].found,
                             !.back = IF t = Reaper THEN "rp_done" ELSE "sq_done"]
  BY DEF ExpireLock, ThreadOK
<1>4. /\ th'[t].found = th[t].found /\ th'[t].old = th[t].old /\ th'[t].s = th[t].s
      /\ th'[t].slot = th[t].slot /\ ~th[t].own /\ ~th'[t].own
  BY <1>2, <1>3, SMT DEF ThreadOK, Shape, ThT
<1>5. Same(cid, cid') /\ sess' \in [Sess -> SessT] /\ th'[t].slot <= last.session
  BY <1>2, <1>4 DEF Same, Counts, Types, LastInv
<1>6. PICK s \in Sess \cup {0} : s = 0
  OBVIOUS
<1> QED
  BY <1>1, <1>2, <1>4, <1>5, <1>6, QuietCounts

-----------------------------------------------------------------------------
(***************************************************************************)
(* The steps that work on a session                                        *)
(***************************************************************************)
LEMMA SessionInUse ==
  ASSUME ThreadOK, Counts, NEW t \in Threads, OneThread(t), th[t].s # 0, leaked' = leaked,
         \A x \in Sess \ {th[t].s} : sess'[x] = sess[x]
  PROVE  /\ th[t].s \in Sess /\ th[t].s <= last.session
         /\ sess[th[t].s] \in SessT /\ sess[th[t].s].ref \in Int
         /\ sess[th[t].s].ref >= Bit(sess[th[t].s].hashed) + 1
         /\ sess[th[t].s].cid \in Ids /\ cid[sess[th[t].s].cid].ref > 0
<1>1. PICK s \in Sess : s = th[t].s
  BY DEF ThreadOK, ThT
<1>2. s <= last.session /\ sess[s] \in SessT /\ last.id \in 0..MaxIds
  BY <1>1 DEF Counts, LastInv, Types
<1>3. sess[s].cid \in Ids /\ sess[s].ref \in Int
  <2>1. sess[s].cid \in 1..last.id
    BY <1>2 DEF Counts, LastInv
  <2> QED
    BY <1>2, <2>1, BoundsAssumption, SMT DEF Ids, SessT
<1>4. sess[s].ref >= Bit(sess[s].hashed) + 1
  BY <1>1, UserHasRef DEF Counts, OneThread
<1>5. Local(t, s) /\ leaked' \in [Ids -> Nat]
  BY <1>1, OnlyThread DEF Counts, Types
<1>6. sess[s].ref > 0
  BY <1>3, <1>4, SMT DEF Bit
<1>7. PICK c \in Ids : c = sess[s].cid
  BY <1>3
<1>8. cid[c].ref > 0
  BY <1>5, <1>6, <1>7, HasRef DEF Counts
<1> QED
  BY <1>1, <1>2, <1>3, <1>4, <1>7, <1>8

\* reserve_lease_or_expire keeps the reference counts exact.
LEMMA LeaseCounts ==
  ASSUME ThreadOK, Counts, NEW t \in Threads, SequenceLease(t)
  PROVE  Counts'
<1>1. OneThread(t)
  BY ContinueThread DEF Continue, Counts, Ground
<1>2. /\ th[t].pc = "sq_lease" /\ mutex' = mutex /\ ht' = ht /\ cr' = cr
      /\ sess' = sess /\ last' = last /\ leaked' = leaked /\ mutex' \in Threads \cup {None}
  BY DEF SequenceLease, Counts, Types
<1>3. /\ th[t].s # 0 /\ th[t].found = 0 /\ ~th[t].own
  BY <1>2 DEF ThreadOK, Shape
<1>4. PICK c \in Ids : c = sess[th[t].s].cid /\ cid[c].ref > 0
  BY <1>1, <1>2, <1>3, SessionInUse
<1>5. CASE _valid_lease(c)
  <2>1. cid' = [cid EXCEPT ![c].resv = @ + 1]
    BY <1>4, <1>5 DEF SequenceLease
  <2>2. th'[t] = [th[t] EXCEPT !.pc = "sq_slot", !.keep = c]
    BY <1>4, <1>5 DEF SequenceLease, ThreadOK
  <2>3. /\ th'[t].found = th[t].found /\ th'[t].old = th[t].old /\ th'[t].s = th[t].s
        /\ th'[t].slot = th[t].slot /\ ~th[t].own /\ ~th'[t].own
    BY <1>3, <2>2, SMT DEF ThreadOK, ThT
  <2>4. Same(cid, cid')
    BY <2>1, SetResv DEF Counts, Types
  <2>5. sess' \in [Sess -> SessT] /\ th'[t].slot <= last.session
    BY <1>2, <2>3 DEF Counts, Types, LastInv
  <2>6. PICK s \in Sess \cup {0} : s = 0
    OBVIOUS
  <2> QED
    BY <1>1, <1>2, <2>3, <2>4, <2>5, <2>6, QuietCounts
<1>6. CASE ~_valid_lease(c)
  <2>1. cid' = inc_client_id_ref(cid, c)
    BY <1>4, <1>6 DEF SequenceLease
  <2>2. th'[t] = [th[t] EXCEPT !.pc = "sq_expire", !.found = c]
    BY <1>4, <1>6 DEF SequenceLease, ThreadOK
  <2>3. /\ th'[t].found = c /\ th'[t].old = th[t].old /\ th'[t].s = th[t].s
        /\ th'[t].slot = th[t].slot /\ ~th'[t].own
    BY <1>3, <2>2, SMT DEF ThreadOK, ThT
  <2> QED
    BY <1>1, <1>2, <1>3, <1>4, <2>1, <2>3, TakeCounts
<1> QED
  BY <1>5, <1>6

\* A CREATE_SESSION that is refused keeps the reference counts exact.
LEMMA RefuseCounts ==
  ASSUME ThreadOK, Counts, NEW t \in Threads, CreateSessionRefuse(t)
  PROVE  Counts'
<1>1. OneThread(t)
  BY ContinueThread DEF Continue, Counts, Ground
<1>2. /\ th[t].pc = "cs_lock" /\ mutex' = mutex /\ ht' = ht /\ cr' = cr
      /\ sess' = sess /\ last' = last /\ leaked' = leaked /\ Done(t)
      /\ cid' = dec_client_id_ref(cid, th[t].found)
  BY DEF CreateSessionRefuse
<1>3. /\ th[t].s = 0 /\ th[t].found \in Ids /\ ~th[t].own /\ th[t].old = 0
  BY <1>2 DEF ThreadOK, Shape, Exp, ThT
<1>4. /\ th'[t].found = 0 /\ th'[t].old = 0 /\ th'[t].s = 0 /\ th'[t].slot = 0 /\ ~th'[t].own
  BY <1>2, DoneThread
<1>5. cid' = DecIf(cid, th[t].found)
  BY <1>2, <1>3, SMT DEF DecIf, Ids
<1>6. DropsIds(cid, th[t].found, 0)
  BY <1>5, DropOne DEF Counts
<1>7. Types' /\ Hashed' = Hashed /\ 0 <= last.session
  BY <1>2, <1>6, SMT DEF Counts, Types, Hashed, DropsIds
<1>8. Local(t, 0)
  BY <1>1, <1>2, OnlyThread
<1>9. DropStep(t, th[t].found)
  BY <1>2, <1>3, <1>4, <1>6, <1>7, <1>8 DEF DropStep
<1>10. LastKept(t)
  BY <1>2, <1>4, <1>7, LastSame
<1> QED
  BY <1>3, <1>7, <1>9, <1>10, CountsDrops

\* A session that is looked up and gets one more reference.
LEMMA SessionTaken ==
  ASSUME ThreadOK, Counts, NEW t \in Threads, OneThread(t), NEW s \in Sess, sess[s].hashed,
         th[t].pc = "idle", sess' = [sess EXCEPT ![s].ref = @ + 1],
         th'[t].found = 0, th'[t].old = 0, th'[t].s = s, th'[t].slot = 0, ~th'[t].own,
         cid' = cid, ht' = ht, cr' = cr, mutex' = mutex, last' = last, leaked' = leaked
  PROVE  Counts'
<1>1. /\ th[t].found = 0 /\ th[t].old = 0 /\ th[t].s = 0 /\ ~th[t].own
  BY DEF ThreadOK, Shape
<1>2. sess[s] \in SessT /\ sess \in [Sess -> SessT]
  BY DEF Counts, Types
<1>3. /\ sess'[s] \in SessT /\ sess'[s].ref = sess[s].ref + 1 /\ sess'[s].cid = sess[s].cid
      /\ sess'[s].hashed = sess[s].hashed /\ sess[s].ref \in Int
      /\ \A x \in Sess \ {s} : sess'[x] = sess[x]
      /\ sess' \in [Sess -> SessT]
  <2>1. \A y \in SessT : /\ [y EXCEPT !.ref = @ + 1] \in SessT
                         /\ [y EXCEPT !.ref = @ + 1].ref = y.ref + 1
                         /\ [y EXCEPT !.ref = @ + 1].cid = y.cid
                         /\ [y EXCEPT !.ref = @ + 1].hashed = y.hashed
                         /\ y.ref \in Int
    BY SMT DEF SessT
  <2>2. sess' = [x \in Sess |-> IF x = s THEN [sess[s] EXCEPT !.ref = @ + 1] ELSE sess[x]]
    BY <1>2
  <2>3. sess'[s] = [sess[s] EXCEPT !.ref = @ + 1] /\ \A x \in Sess \ {s} : sess'[x] = sess[x]
    BY <2>2
  <2>4. /\ sess'[s] \in SessT /\ sess'[s].ref = sess[s].ref + 1 /\ sess'[s].cid = sess[s].cid
        /\ sess'[s].hashed = sess[s].hashed /\ sess[s].ref \in Int
    <3>1. PICK y \in SessT : y = sess[s]
      BY <1>2
    <3> QED
      BY <2>1, <2>3, <3>1
  <2>5. sess' \in [Sess -> SessT]
    <3>1. \A x \in Sess : sess'[x] \in SessT
      BY <1>2, <2>3, <2>4
    <3> QED
      BY <2>2, <3>1
  <2> QED
    BY <2>3, <2>4, <2>5
<1>4. Local(t, s) /\ s # 0
  BY <1>3, OnlyThread
<1>5. Types' /\ Hashed' = Hashed
  BY <1>3 DEF Counts, Types, Hashed
<1>6. sess[s].ref > 0 /\ s <= last.session
  <2>1. Cardinality(Users(s)) \in Nat
    BY UserCounts DEF OneThread, Counts, Types
  <2>2. sess[s].ref = Bit(sess[s].hashed) + Cardinality(Users(s))
    BY DEF Counts, SessEq
  <2>3. sess[s].ref > 0
    BY <2>1, <2>2, SMT DEF Bit
  <2>4. s > last.session => sess[s].ref = 0
    BY SMT DEF Counts, LastInv, NoSession
  <2>5. s \in Int /\ last.session \in Int
    BY SMT DEF Counts, Types, Sess
  <2> QED
    BY <2>3, <2>4, <2>5, SMT
<1>7. ASSUME NEW c \in Ids
      PROVE  cid'[c].ref = cid[c].ref + Share(t, s, c)' - Share(t, s, c)
  <2>1. Share(t, s, c)' = Share(t, s, c) /\ Share(t, s, c) \in Int /\ cid[c].ref \in Int
    <3>1. sess'[s].ref > 0 /\ leaked[c] \in Int /\ c # 0
      BY <1>3, <1>6, SMT DEF Counts, Types, Ids
    <3>2. cid[c].ref \in Int
      BY CidRefs DEF Counts, Types
    <3> QED
      BY <1>1, <1>3, <1>5, <1>6, <3>1, <3>2, SMTT(30) DEF Share, Bit
  <2> QED
    BY <2>1, SMT
<1>8. RefEq'
  BY <1>4, <1>5, <1>7, RefEqStep, SMTT(30) DEF Counts, Types
<1>9. SessEq'
  <2> SUFFICES ASSUME NEW x \in Sess
               PROVE  sess'[x].ref = Bit(sess'[x].hashed) + Cardinality(Users(x)')
    BY DEF SessEq
  <2>1. /\ Cardinality(Users(x)) \in Nat
        /\ Cardinality(Users(x)') = Cardinality(Users(x)) + Bit(th'[t].s = x) - Bit(th[t].s = x)
    BY UserCounts, SMT DEF OneThread, Counts, Types
  <2>2. sess[x].ref = Bit(sess[x].hashed) + Cardinality(Users(x))
    BY DEF Counts, SessEq
  <2>3. Bit(th[t].s = x) = 0
    BY <1>1, SMT DEF Bit, Sess
  <2>4. CASE x = s
    <3>1. Bit(th'[t].s = x) = 1
      BY <2>4 DEF Bit
    <3> QED
      BY <1>3, <2>1, <2>2, <2>3, <2>4, <3>1, SMTT(30) DEF Bit
  <2>5. CASE x # s
    <3>1. Bit(th'[t].s = x) = 0 /\ sess'[x] = sess[x]
      BY <1>3, <2>5 DEF Bit
    <3>2. Cardinality(Users(x)') = Cardinality(Users(x))
      BY <2>1, <2>3, <3>1, SMT
    <3>3. sess'[x].ref = Bit(sess'[x].hashed) + Cardinality(Users(x))
      BY <2>2, <3>1
    <3> QED
      BY <3>2, <3>3
  <2> QED
    BY <2>4, <2>5
<1>10. StatusEq'
  BY DEF Counts, StatusEq
<1>11. LastInv'
  <2>1. 0 <= last.session /\ 0 <= last.id /\ cr.confirmed <= last.id /\ cr.unconfirmed <= last.id
    BY SMT DEF Counts, Types, LastInv
  <2>2. LastKept(t)
    BY <2>1 DEF LastKept
  <2> QED
    BY <1>3, <1>4, <1>5, <1>6, <2>1, <2>2, LastStep, SMTT(30) DEF Counts
<1> QED
  BY <1>5, <1>8, <1>9, <1>10, <1>11 DEF Counts

\* The lookup of DESTROY_SESSION keeps the reference counts exact.
LEMMA DestroySessionCounts ==
  ASSUME ThreadOK, Counts, NEW t \in Threads, NEW s \in Sess, DestroySession(t, s)
  PROVE  Counts'
<1>1. OneThread(t)
  BY RequestThread DEF Request, Counts, Ground
<1>2. /\ th[t].pc = "idle" /\ sess[s].hashed /\ sess' = [sess EXCEPT ![s].ref = @ + 1]
      /\ cid' = cid /\ ht' = ht /\ cr' = cr /\ mutex' = mutex /\ last' = last /\ leaked' = leaked
  BY DEF DestroySession, Known
<1>3. th'[t] = [th[t] EXCEPT !.pc = "ds_del", !.s = s]
  BY DEF DestroySession, ThreadOK
<1>4. th'[t].found = 0 /\ th'[t].old = 0 /\ th'[t].s = s /\ th'[t].slot = 0 /\ ~th'[t].own
  BY <1>2, <1>3, SMT DEF ThreadOK, Shape, ThT
<1> QED
  BY <1>1, <1>2, <1>4, SessionTaken

\* The lookup of SEQUENCE keeps the reference counts exact.
LEMMA SequenceCounts ==
  ASSUME ThreadOK, Counts, NEW t \in Threads, NEW s \in Sess, NEW q \in 0..MaxSeq, Sequence(t, s, q)
  PROVE  Counts'
<1>1. OneThread(t)
  BY RequestThread DEF Request, Counts, Ground
<1>2. /\ th[t].pc = "idle" /\ sess[s].hashed /\ sess' = [sess EXCEPT ![s].ref = @ + 1]
      /\ cid' = cid /\ ht' = ht /\ cr' = cr /\ mutex' = mutex /\ last' = last /\ leaked' = leaked
  BY DEF Sequence, Known
<1>3. th'[t] = [th[t] EXCEPT !.pc = "sq_lease", !.s = s, !.seq = q]
  BY DEF Sequence, ThreadOK
<1>4. th'[t].found = 0 /\ th'[t].old = 0 /\ th'[t].s = s /\ th'[t].slot = 0 /\ ~th'[t].own
  BY <1>2, <1>3, SMTT(30) DEF ThreadOK, Shape, ThT
<1> QED
  BY <1>1, <1>2, <1>4, SessionTaken

\* dec_session_ref where no client id is dropped.
LEMMA SlotRelease ==
  ASSUME ThreadOK, Counts, NEW t \in Threads, OneThread(t), NEW s \in Sess, th[t].s = s,
         th[t].found = 0, ~th[t].own, th'[t].s = 0, th'[t].found = 0, th'[t].old = th[t].old,
         ~th'[t].own, th'[t].slot <= last.session,
         NEW B, Same(cid, B), NEW S, SlotOnly(S, s), dec_session_ref(S, B, s),
         ht' = ht, cr' = cr, mutex' = mutex, leaked' = leaked, last' = last
  PROVE  Counts'
<1>1. B \in [Ids -> CidT] /\ S \in [Sess -> SessT]
  BY DEF Same, SlotOnly
<1>2. LessOne(B, B, th[t].found)
  <2>1. DecIf(B, 0) = B
    BY DEF DecIf
  <2> QED
    BY <1>1, <2>1, DropFound
<1>3. /\ ht' \in [{"confirmed", "unconfirmed"} -> SUBSET Ids] /\ Hashed' = Hashed
      /\ cr' \in [{"confirmed", "unconfirmed"} -> Ids \cup {0}]
      /\ mutex' \in Threads \cup {None}
      /\ cr'.confirmed <= last.id /\ cr'.unconfirmed <= last.id
  BY DEF Counts, Types, LastInv, Hashed
<1>4. /\ S[s].cid = sess[s].cid /\ (S[s].hashed => sess[s].hashed)
      /\ S[s].ref = sess[s].ref + Bit(S[s].hashed) - Bit(sess[s].hashed)
      /\ \A y \in Sess \ {s} : S[y] = sess[y]
  BY SMT DEF SlotOnly, SameSlot, SessT, Bit
<1>5. \A c \in Ids : B[c].ref = cid[c].ref /\ B[c].status = cid[c].status
  BY DEF Same
<1> QED
  BY <1>1, <1>2, <1>3, <1>4, <1>5, ReleaseStep, SMTT(30)

\* Changing nothing is a change of the kinds above.
LEMMA SameSelf ==
  ASSUME Counts
  PROVE  Same(cid, cid) /\ \A s \in Sess : SlotOnly(sess, s)
BY SlotFields DEF Same, SlotOnly, Counts, Types

\* SEQUENCE of the next request keeps the reference counts exact.
LEMMA NextCounts ==
  ASSUME ThreadOK, Counts, NEW t \in Threads, SequenceNext(t)
  PROVE  Counts'
<1>1. OneThread(t)
  BY ContinueThread DEF Continue, Counts, Ground
<1>2. /\ th[t].pc = "sq_slot" /\ mutex' = mutex /\ ht' = ht /\ cr' = cr
      /\ last' = last /\ leaked' = leaked
  BY DEF SequenceNext
<1>3. /\ th[t].found = 0 /\ ~th[t].own /\ th[t].s # 0
  BY <1>2 DEF ThreadOK, Shape
<1>4. PICK s \in Sess : s = th[t].s /\ s <= last.session
  BY <1>3 DEF ThreadOK, ThT, Counts, LastInv
<1>5. PICK S : S = [sess EXCEPT ![s].sequence = @ + 1, ![s].cached = 0]
  OBVIOUS
<1>6. SlotOnly(S, s) /\ SlotOnly([S EXCEPT ![s].lock = t], s)
  BY <1>5, NextSlot DEF Counts, Types
<1>7. CASE /\ sess' = [S EXCEPT ![s].lock = t]
           /\ cid' = cid
           /\ th' = [th EXCEPT ![t].pc = "sq_exec", ![t].slot = s]
  <2>1. th'[t] = [th[t] EXCEPT !.pc = "sq_exec", !.slot = s]
    BY <1>7 DEF ThreadOK
  <2>2. /\ th'[t].found = th[t].found /\ th'[t].old = th[t].old /\ th'[t].s = th[t].s
        /\ th'[t].slot = s /\ ~th'[t].own
    BY <1>3, <2>1, SMT DEF ThreadOK, ThT
  <2>3. /\ sess' \in [Sess -> SessT] /\ \A x \in Sess \ {s} : sess'[x] = sess[x]
        /\ sess'[s].ref = sess[s].ref /\ sess'[s].cid = sess[s].cid
    BY <1>6, <1>7 DEF SlotOnly, SameSlot
  <2>4. sess'[s].hashed = sess[s].hashed
    BY <1>6, <1>7 DEF SlotOnly, SameSlot, SessT, Counts, Types
  <2>5. Same(cid, cid') /\ mutex' \in Threads \cup {None}
    BY <1>2, <1>7, SameSelf DEF Counts, Types
  <2> QED
    BY <1>1, <1>2, <1>3, <1>4, <2>2, <2>3, <2>4, <2>5, QuietCounts
<1>8. CASE /\ dec_session_ref(S, cid, s)
           /\ th' = [th EXCEPT ![t].pc = "sq_complete", ![t].slot = s, ![t].s = 0]
  <2>1. th'[t] = [th[t] EXCEPT !.pc = "sq_complete", !.slot = s, !.s = 0]
    BY <1>8 DEF ThreadOK
  <2>2. /\ th'[t].found = 0 /\ th'[t].old = th[t].old /\ th'[t].s = 0
        /\ th'[t].slot <= last.session /\ ~th'[t].own
    BY <1>3, <1>4, <2>1, SMT DEF ThreadOK, ThT
  <2> QED
    BY <1>1, <1>2, <1>3, <1>4, <1>6, <1>8, <2>2, SameSelf, SlotRelease
<1> QED
  BY <1>4, <1>5, <1>7, <1>8 DEF SequenceNext

\* SEQUENCE of any other request keeps the reference counts exact.
LEMMA SequenceRefuseCounts ==
  ASSUME ThreadOK, Counts, NEW t \in Threads, SequenceRefuse(t)
  PROVE  Counts'
<1>1. OneThread(t)
  BY ContinueThread DEF Continue, Counts, Ground
<1>2. /\ th[t].pc = "sq_slot" /\ mutex' = mutex /\ ht' = ht /\ cr' = cr
      /\ last' = last /\ leaked' = leaked
  BY DEF SequenceRefuse
<1>3. /\ th[t].found = 0 /\ ~th[t].own /\ th[t].s # 0
  BY <1>2 DEF ThreadOK, Shape
<1>4. PICK s \in Sess : s = th[t].s
  BY <1>3 DEF ThreadOK, ThT
<1>5. th'[t] = [th[t] EXCEPT !.pc = "sq_complete", !.s = 0]
  BY DEF ThreadOK, SequenceRefuse
<1>6. /\ th'[t].found = 0 /\ th'[t].old = th[t].old /\ th'[t].s = 0
      /\ th'[t].slot <= last.session /\ ~th'[t].own
  BY <1>3, <1>5, SMTT(30) DEF ThreadOK, ThT, Counts, LastInv
<1>7. dec_session_ref(sess, cid, s)
  BY <1>4 DEF SequenceRefuse
<1> QED
  BY <1>1, <1>2, <1>3, <1>4, <1>6, <1>7, SameSelf, SlotRelease

\* What the owners of a client hold is no reference.
LEMMA KeepState ==
  ASSUME NEW C \in [Ids -> CidT], NEW c, NEW k \in SUBSET Kinds
  PROVE  Same(C, [C EXCEPT ![c].state = k])
<1>1. \A r \in CidT : /\ [r EXCEPT !.state = k] \in CidT
                      /\ [r EXCEPT !.state = k].ref = r.ref
                      /\ [r EXCEPT !.state = k].status = r.status
  BY DEF CidT
<1>2. [C EXCEPT ![c].state = k] =
        [d \in Ids |-> IF d = c THEN [C[d] EXCEPT !.state = k] ELSE C[d]]
  OBVIOUS
<1> QED
  BY <1>1, <1>2 DEF Same

\* The execution of a compound keeps the reference counts exact.
LEMMA ExecCounts ==
  ASSUME ThreadOK, Counts, NEW t \in Threads, SequenceExec(t)
  PROVE  Counts'
<1>1. OneThread(t)
  BY ContinueThread DEF Continue, Counts, Ground
<1>2. /\ th[t].pc = "sq_exec" /\ mutex' = mutex /\ ht' = ht /\ cr' = cr
      /\ last' = last /\ leaked' = leaked
  BY DEF SequenceExec
<1>3. /\ th[t].found = 0 /\ ~th[t].own /\ th[t].s # 0
  BY <1>2 DEF ThreadOK, Shape
<1>4. PICK s \in Sess : s = th[t].s /\ s <= last.session
  BY <1>3 DEF ThreadOK, ThT, Counts, LastInv
<1>5. th'[t] = [th[t] EXCEPT !.pc = "sq_complete"]
  BY DEF ThreadOK, SequenceExec, Go
<1>6. /\ th'[t].found = th[t].found /\ th'[t].old = th[t].old /\ th'[t].s = th[t].s
      /\ th'[t].slot <= last.session /\ ~th'[t].own
  BY <1>3, <1>5, SMTT(30) DEF ThreadOK, ThT, Counts, LastInv
<1>7. SlotOnly(sess', s)
  <2>1. SlotOnly([sess EXCEPT ![s].ran[th[t].seq] = @ + 1], s)
    BY RanSlot DEF Counts, Types
  <2>2. sess' = [sess EXCEPT ![s].ran[th[t].seq] = @ + 1]
    BY <1>4 DEF SequenceExec
  <2> QED
    BY <2>1, <2>2
<1>8. /\ sess' \in [Sess -> SessT] /\ \A x \in Sess \ {s} : sess'[x] = sess[x]
      /\ sess'[s].ref = sess[s].ref /\ sess'[s].cid = sess[s].cid
      /\ sess'[s].hashed = sess[s].hashed
  BY <1>7 DEF SlotOnly, SameSlot, SessT, Counts, Types
<1>9. Same(cid, cid') /\ mutex' \in Threads \cup {None}
  <2>1. PICK k \in SUBSET Kinds : cid' = [cid EXCEPT ![sess[s].cid].state = k]
    BY <1>4 DEF SequenceExec
  <2>2. Same(cid, [cid EXCEPT ![sess[s].cid].state = k])
    <3>1. cid \in [Ids -> CidT]
      BY DEF Counts, Types
    <3> QED
      BY <3>1, KeepState
  <2> QED
    BY <1>2, <2>1, <2>2 DEF Counts, Types
<1> QED
  BY <1>1, <1>2, <1>3, <1>4, <1>6, <1>8, <1>9, QuietCounts

\* The completion of a compound keeps the reference counts exact.
LEMMA CompleteCounts ==
  ASSUME ThreadOK, Counts, NEW t \in Threads, SequenceComplete(t)
  PROVE  Counts'
<1>1. OneThread(t)
  BY ContinueThread DEF Continue, Counts, Ground
<1>2. /\ th[t].pc = "sq_complete" /\ mutex' = mutex /\ ht' = ht /\ cr' = cr
      /\ last' = last /\ leaked' = leaked /\ Done(t)
  BY DEF SequenceComplete
<1>3. /\ th[t].found = 0 /\ ~th[t].own /\ th[t].old = 0
      /\ th[t].s \in {0, th[t].slot} /\ th[t].slot \in Sess \cup {0} /\ th[t].seq \in Nat
  BY <1>2, BoundsAssumption, SMTT(30) DEF ThreadOK, Shape, Exp, ThT
<1>4. /\ th'[t].found = 0 /\ th'[t].old = 0 /\ th'[t].s = 0 /\ th'[t].slot = 0 /\ ~th'[t].own
  BY <1>2, DoneThread
<1>5. PICK k : k = th[t].keep
  OBVIOUS
<1>6. PICK C : C = [cid EXCEPT ![k].resv = @ - 1, ![k].fresh = @ \/ cid[k].resv = 1]
  OBVIOUS
<1>7. Same(cid, C)
  BY <1>6, LeaseReleased DEF Counts, Types
<1>8. 0 <= last.session /\ mutex' \in Threads \cup {None} /\ sess \in [Sess -> SessT]
      /\ th[t].slot <= last.session
  BY <1>2, SMT DEF Counts, Types, LastInv
<1>9. CASE th[t].s = 0 /\ th[t].slot = 0
  <2>1. cid' = C /\ sess' = sess
    BY <1>5, <1>6, <1>9 DEF SequenceComplete
  <2>2. PICK s \in Sess \cup {0} : s = 0
    OBVIOUS
  <2> QED
    BY <1>1, <1>2, <1>3, <1>4, <1>7, <1>8, <1>9, <2>1, <2>2, QuietCounts
<1>10. CASE th[t].slot # 0
  <2>1. PICK x \in Sess : x = th[t].slot /\ x <= last.session
    BY <1>3, <1>8, <1>10
  <2>2. PICK b \in BOOLEAN : b = (th[t].s = 0 /\ sess[x].sequence # th[t].seq)
    OBVIOUS
  <2>3. PICK S : S = [sess EXCEPT ![x].cached = th[t].seq, ![x].torn = @ \/ b]
    OBVIOUS
  <2>4. SlotOnly(S, x) /\ SlotOnly([S EXCEPT ![x].lock = None], x)
    BY <1>3, <1>8, <2>3, ReplySlot
  <2>5. IF th[t].s = 0 THEN sess' = S /\ cid' = C
        ELSE dec_session_ref([S EXCEPT ![th[t].s].lock = None], C, th[t].s)
    <3>1. S = [sess EXCEPT ![x].cached = th[t].seq,
                           ![x].torn = @ \/ (th[t].s = 0 /\ sess[x].sequence # th[t].seq)]
      BY <2>2, <2>3
    <3>2. x # 0
      BY SMT DEF Sess
    <3> QED
      BY <1>5, <1>6, <2>1, <3>1, <3>2 DEF SequenceComplete
  <2>6. CASE th[t].s = 0
    <3>1. sess' = S /\ cid' = C
      BY <2>5, <2>6
    <3>2. /\ sess' \in [Sess -> SessT] /\ \A y \in Sess \ {x} : sess'[y] = sess[y]
          /\ sess'[x].ref = sess[x].ref /\ sess'[x].cid = sess[x].cid
          /\ sess'[x].hashed = sess[x].hashed
      BY <1>8, <2>4, <3>1 DEF SlotOnly, SameSlot, SessT
    <3> QED
      BY <1>1, <1>2, <1>3, <1>4, <1>7, <1>8, <2>1, <2>6, <3>1, <3>2, QuietCounts
  <2>7. CASE th[t].s # 0
    <3>1. th[t].s = x
      BY <1>3, <2>1, <2>7
    <3>2. PICK S2 : S2 = [S EXCEPT ![x].lock = None]
      OBVIOUS
    <3>3. dec_session_ref(S2, C, x) /\ SlotOnly(S2, x)
      BY <2>4, <2>5, <2>7, <3>1, <3>2
    <3> QED
      BY <1>1, <1>2, <1>3, <1>4, <1>7, <1>8, <3>1, <3>3, SlotRelease
  <2> QED
    BY <2>6, <2>7
<1> QED
  BY <1>3, <1>9, <1>10

\* The session is taken out of its table, if it is still there.
LEMMA DeletedSession ==
  ASSUME sess \in [Sess -> SessT], NEW s \in Sess, NEW S, S = nfs41_Session_Del(sess, s)
  PROVE  /\ S \in [Sess -> SessT] /\ \A y \in Sess \ {s} : S[y] = sess[y]
         /\ S[s].cid = sess[s].cid /\ (S[s].hashed => sess[s].hashed)
         /\ S[s].ref = sess[s].ref + Bit(S[s].hashed) - Bit(sess[s].hashed)
<1>1. PICK x \in SessT : x = sess[s]
  OBVIOUS
<1>2. PICK y : y = Deleted(x)
  OBVIOUS
<1>3. /\ y \in SessT /\ y.ref = x.ref - Bit(x.hashed) /\ y.cid = x.cid /\ ~y.hashed
  BY <1>2, DeletedType
<1>4. S = [sess EXCEPT ![s] = y]
  BY <1>1, <1>2 DEF nfs41_Session_Del
<1>5. S[s] = y /\ S \in [Sess -> SessT] /\ \A z \in Sess \ {s} : S[z] = sess[z]
  BY <1>3, <1>4
<1>6. y.ref = x.ref + Bit(y.hashed) - Bit(x.hashed)
  BY <1>3, SMT DEF SessT, Bit
<1> QED
  BY <1>1, <1>3, <1>5, <1>6

\* DESTROY_SESSION keeps the reference counts exact.
LEMMA DelCounts ==
  ASSUME ThreadOK, Counts, NEW t \in Threads, DestroySessionDel(t)
  PROVE  Counts'
<1>1. OneThread(t)
  BY ContinueThread DEF Continue, Counts, Ground
<1>2. /\ th[t].pc = "ds_del" /\ mutex' = mutex /\ ht' = ht /\ cr' = cr
      /\ last' = last /\ leaked' = leaked /\ Done(t)
  BY DEF DestroySessionDel
<1>3. /\ th[t].found = 0 /\ ~th[t].own /\ th[t].old = 0 /\ th[t].s \in Sess
  BY <1>2 DEF ThreadOK, Shape, Exp, ThT
<1>4. /\ th'[t].found = 0 /\ th'[t].old = 0 /\ th'[t].s = 0 /\ th'[t].slot = 0 /\ ~th'[t].own
  BY <1>2, DoneThread
<1>5. /\ 0 <= last.session /\ sess \in [Sess -> SessT] /\ cid \in [Ids -> CidT]
      /\ ht' \in [{"confirmed", "unconfirmed"} -> SUBSET Ids] /\ Hashed' = Hashed
      /\ cr' \in [{"confirmed", "unconfirmed"} -> Ids \cup {0}]
      /\ mutex' \in Threads \cup {None}
      /\ cr'.confirmed <= last.id /\ cr'.unconfirmed <= last.id
  BY <1>2, SMT DEF Counts, Types, LastInv, Hashed
<1>6. PICK s \in Sess : s = th[t].s
  BY <1>3
<1>7. CASE dec_session_ref(sess, cid, s)
  BY <1>1, <1>2, <1>3, <1>4, <1>5, <1>6, <1>7, SameSelf, SlotRelease
<1>8. CASE dec_session_ref(nfs41_Session_Del(sess, s), cid, s)
  <2>1. PICK S : S = nfs41_Session_Del(sess, s)
    OBVIOUS
  <2>2. dec_session_ref(S, cid, s)
    BY <1>8, <2>1
  <2>3. /\ S \in [Sess -> SessT] /\ \A y \in Sess \ {s} : S[y] = sess[y]
        /\ S[s].cid = sess[s].cid /\ (S[s].hashed => sess[s].hashed)
        /\ S[s].ref = sess[s].ref + Bit(S[s].hashed) - Bit(sess[s].hashed)
    BY <1>5, <2>1, DeletedSession, SMT
  <2>4. LessOne(cid, cid, th[t].found)
    <3>1. DecIf(cid, 0) = cid
      BY DEF DecIf
    <3> QED
      BY <1>3, <1>5, <3>1, DropFound
  <2> QED
    BY <1>1, <1>2, <1>3, <1>4, <1>5, <1>6, <2>2, <2>3, <2>4, ReleaseStep
<1> QED
  BY <1>6, <1>7, <1>8 DEF DestroySessionDel

\* The end of CREATE_SESSION, whatever became of the session.
LEMMA CreatedEnd ==
  ASSUME ThreadOK, Counts, NEW t \in Threads, OneThread(t), th[t].pc = "cs_confirm",
         Done(t), Unlock(t), last' = last, leaked' = leaked,
         NEW B \in [Ids -> CidT],
         \A c \in Ids : /\ B[c].ref = cid[c].ref
                        /\ \/ B[c].status = cid[c].status
                           \/ /\ cid[c].ref > 0
                              /\ B[c].status \notin {"none", "freed"},
         NEW S \in [Sess -> SessT], \A y \in Sess \ {th[t].s} : S[y] = sess[y],
         S[th[t].s].cid = sess[th[t].s].cid, S[th[t].s].hashed => sess[th[t].s].hashed,
         S[th[t].s].ref = sess[th[t].s].ref + Bit(S[th[t].s].hashed) - Bit(sess[th[t].s].hashed),
         dec_session_ref(S, dec_client_id_ref(B, th[t].found), th[t].s),
         ht' \in [{"confirmed", "unconfirmed"} -> SUBSET Ids], Hashed' = Hashed,
         cr' \in [{"confirmed", "unconfirmed"} -> Ids \cup {0}],
         cr'.confirmed <= last.id, cr'.unconfirmed <= last.id
  PROVE  Counts'
<1>1. /\ th[t].found \in Ids /\ ~th[t].own /\ th[t].old = 0 /\ th[t].s \in Sess
  BY DEF ThreadOK, Shape, Exp, ThT
<1>2. /\ th'[t].found = 0 /\ th'[t].old = 0 /\ th'[t].s = 0 /\ th'[t].slot = 0 /\ ~th'[t].own
  BY DoneThread
<1>3. PICK C : C = DecIf(B, th[t].found)
  OBVIOUS
<1>4. C \in [Ids -> CidT] /\ LessOne(B, C, th[t].found) /\ C = dec_client_id_ref(B, th[t].found)
  BY <1>1, <1>3, DropFound
<1>5. dec_session_ref(S, C, th[t].s)
  BY <1>4
<1>6. mutex' \in Threads \cup {None} /\ 0 <= last.session
  BY SMT DEF Unlock, Counts, Types
<1> QED
  BY <1>1, <1>2, <1>4, <1>5, <1>6, ReleaseStep

\* A further CREATE_SESSION of a confirmed client id keeps the reference
\* counts exact.
LEMMA UpdateCounts ==
  ASSUME ThreadOK, Counts, NEW t \in Threads, CreateSessionUpdate(t)
  PROVE  Counts'
<1>1. OneThread(t)
  BY ContinueThread DEF Continue, Counts, Ground
<1>2. /\ th[t].pc = "cs_confirm" /\ ht' = ht /\ cr' = cr
      /\ last' = last /\ leaked' = leaked /\ Done(t) /\ Unlock(t)
  BY DEF CreateSessionUpdate
<1>3. /\ th[t].found \in Ids /\ th[t].s \in Sess
  BY <1>2 DEF ThreadOK, Shape, Exp, ThT
<1>4. /\ sess \in [Sess -> SessT] /\ cid \in [Ids -> CidT]
      /\ ht' \in [{"confirmed", "unconfirmed"} -> SUBSET Ids] /\ Hashed' = Hashed
      /\ cr' \in [{"confirmed", "unconfirmed"} -> Ids \cup {0}]
      /\ cr'.confirmed <= last.id /\ cr'.unconfirmed <= last.id
  BY <1>2 DEF Counts, Types, LastInv, Hashed
<1>5. PICK B : B = Accepted(cid, th[t].found)
  OBVIOUS
<1>6. B \in [Ids -> CidT] /\ \A c \in Ids : B[c].ref = cid[c].ref /\ B[c].status = cid[c].status
  BY <1>4, <1>5, AcceptedSame, SMT DEF Same
<1>7. dec_session_ref(sess, dec_client_id_ref(B, th[t].found), th[t].s)
  BY <1>5 DEF CreateSessionUpdate
<1>8. sess[th[t].s].ref = sess[th[t].s].ref + Bit(sess[th[t].s].hashed) - Bit(sess[th[t].s].hashed)
  BY <1>3, <1>4, SMT DEF SessT, Bit
<1> QED
  BY <1>1, <1>2, <1>4, <1>6, <1>7, <1>8, CreatedEnd

\* A CREATE_SESSION that comes too late keeps the reference counts exact.
LEMMA LateCounts ==
  ASSUME ThreadOK, Counts, NEW t \in Threads, CreateSessionLate(t)
  PROVE  Counts'
<1>1. OneThread(t)
  BY ContinueThread DEF Continue, Counts, Ground
<1>2. /\ th[t].pc = "cs_confirm" /\ ht' = ht /\ cr' = [cr EXCEPT !.unconfirmed = 0]
      /\ last' = last /\ leaked' = leaked /\ Done(t) /\ Unlock(t)
  BY DEF CreateSessionLate
<1>3. /\ th[t].found \in Ids /\ th[t].s \in Sess
  BY <1>2 DEF ThreadOK, Shape, Exp, ThT
<1>4. /\ sess \in [Sess -> SessT] /\ cid \in [Ids -> CidT]
      /\ ht' \in [{"confirmed", "unconfirmed"} -> SUBSET Ids] /\ Hashed' = Hashed
      /\ cr' \in [{"confirmed", "unconfirmed"} -> Ids \cup {0}]
      /\ cr'.confirmed <= last.id /\ cr'.unconfirmed <= last.id
  BY <1>2, SMT DEF Counts, Types, LastInv, Hashed
<1>5. PICK S : S = nfs41_Session_Del(sess, th[t].s)
  OBVIOUS
<1>6. PICK s \in Sess : s = th[t].s
  BY <1>3
<1>7. /\ S \in [Sess -> SessT] /\ \A y \in Sess \ {s} : S[y] = sess[y]
      /\ S[s].cid = sess[s].cid /\ (S[s].hashed => sess[s].hashed)
      /\ S[s].ref = sess[s].ref + Bit(S[s].hashed) - Bit(sess[s].hashed)
  BY <1>4, <1>5, <1>6, DeletedSession, SMTT(30)
<1>8. dec_session_ref(S, dec_client_id_ref(cid, th[t].found), th[t].s)
  BY <1>5 DEF CreateSessionLate
<1> QED
  BY <1>1, <1>2, <1>4, <1>6, <1>7, <1>8, CreatedEnd

\* The CREATE_SESSION that confirms a client id keeps the reference counts
\* exact.
LEMMA ConfirmCounts ==
  ASSUME ThreadOK, Counts, NEW t \in Threads, CreateSessionConfirm(t)
  PROVE  Counts'
<1>1. OneThread(t)
  BY ContinueThread DEF Continue, Counts, Ground
<1>2. PICK c \in Ids : c = th[t].found
  BY DEF CreateSessionConfirm, ThreadOK, Shape, Exp, ThT
<1>3. /\ th[t].pc = "cs_confirm" /\ c \in ht.unconfirmed
      /\ ht' = [confirmed |-> ht.confirmed \cup {c}, unconfirmed |-> ht.unconfirmed \ {c}]
      /\ cr' = [confirmed |-> c, unconfirmed |-> 0]
      /\ last' = last /\ leaked' = leaked /\ Done(t) /\ Unlock(t)
  BY <1>2 DEF CreateSessionConfirm
<1>4. th[t].s \in Sess /\ c <= last.id /\ 0 <= last.id
  BY <1>2, <1>3, SMTT(30) DEF ThreadOK, Shape, Exp, ThT, Counts, LastInv, Types
<1>5. /\ sess \in [Sess -> SessT] /\ cid \in [Ids -> CidT]
      /\ cr' \in [{"confirmed", "unconfirmed"} -> Ids \cup {0}]
      /\ cr'.confirmed <= last.id /\ cr'.unconfirmed <= last.id
  BY <1>3, <1>4, SMTT(30) DEF Counts, Types
<1>6. /\ ht' \in [{"confirmed", "unconfirmed"} -> SUBSET Ids]
      /\ Hashed' = Hashed
  <2>1. ht.confirmed \in SUBSET Ids /\ ht.unconfirmed \in SUBSET Ids
    BY DEF Counts, Types
  <2>2. ht'.confirmed = ht.confirmed \cup {c} /\ ht'.unconfirmed = ht.unconfirmed \ {c}
    BY <1>3
  <2>3. Hashed' = Hashed
    BY <1>3, <2>2 DEF Hashed
  <2> QED
    BY <1>3, <2>1, <2>3, SMT
<1>7. PICK A : A = [cid EXCEPT ![c].status = "confirmed"]
  OBVIOUS
<1>8. /\ A \in [Ids -> CidT]
      /\ \A d \in Ids : /\ A[d].ref = cid[d].ref
                        /\ A[d].status = IF d = c THEN "confirmed" ELSE cid[d].status
  <2>1. PICK st \in Statuses : st = "confirmed"
    BY DEF Statuses
  <2> QED
    BY <1>5, <1>7, <2>1, SetStatus, SMTT(30)
<1>9. PICK B : B = Accepted(A, c)
  OBVIOUS
<1>10. B \in [Ids -> CidT] /\ \A d \in Ids : B[d].ref = A[d].ref /\ B[d].status = A[d].status
  BY <1>8, <1>9, AcceptedSame DEF Same
<1>11. cid[c].ref > 0
  <2>1. PICK s \in Sess : s = th[t].s
    BY <1>4
  <2>2. \A x \in Sess \ {s} : sess'[x] = sess[x]
    BY <1>5, <2>1 DEF CreateSessionConfirm, dec_session_ref
  <2>3. Local(t, s) /\ leaked' \in [Ids -> Nat]
    BY <1>1, <1>3, <2>2, OnlyThread DEF Counts, Types
  <2>4. c \in Hashed
    BY <1>3 DEF Hashed
  <2> QED
    BY <2>3, <2>4, HasRef DEF Counts
<1>12. ASSUME NEW d \in Ids
       PROVE  /\ B[d].ref = cid[d].ref
              /\ \/ B[d].status = cid[d].status
                 \/ cid[d].ref > 0 /\ B[d].status \notin {"none", "freed"}
  BY <1>8, <1>10, <1>11
<1>13. dec_session_ref(sess, dec_client_id_ref(B, th[t].found), th[t].s)
  BY <1>2, <1>7, <1>9 DEF CreateSessionConfirm
<1>14. sess[th[t].s].ref = sess[th[t].s].ref + Bit(sess[th[t].s].hashed) - Bit(sess[th[t].s].hashed)
  BY <1>4, <1>5, SMT DEF SessT, Bit
<1> QED
  BY <1>1, <1>3, <1>5, <1>6, <1>10, <1>12, <1>13, <1>14, CreatedEnd

\* References are taken to client ids c and o (0 for none); session n is new.
Gains(c, o) ==
    /\ cid' \in [Ids -> CidT]
    /\ \A d \in Ids : /\ cid'[d].ref = cid[d].ref + Bit(d = c) + Bit(d = o)
                      /\ cid'[d].status = cid[d].status

Enters(n, c) ==
    \E y \in SessT : /\ y.ref = 2 /\ y.cid = c /\ y.hashed
                     /\ sess' = [sess EXCEPT ![n] = y]

\* A new session of client id c is hashed and used by thread t, which may also
\* take a reference to the client id o that is to be replaced.
LEMMA BuildStep ==
  ASSUME Counts, NEW t \in Threads, OneThread(t), NEW n \in Sess, n = last.session + 1,
         NEW c \in Ids, th[t].found = c, th'[t].found = c,
         th[t].old = 0, NEW o \in Ids \cup {0}, th'[t].old = o, o # 0 => o \in Hashed,
         th[t].s = 0, th'[t].s = n, ~th[t].own, ~th'[t].own, th'[t].slot = th[t].slot,
         Gains(c, o), Enters(n, c),
         last' = [last EXCEPT !.session = n],
         ht' = ht, cr' = cr, leaked' = leaked, mutex' \in Threads \cup {None}
  PROVE  Counts'
<1> USE DEF Gains
<1>0. PICK y \in SessT : /\ y.ref = 2 /\ y.cid = c /\ y.hashed
                         /\ sess' = [sess EXCEPT ![n] = y]
  BY DEF Enters
<1>1. /\ sess'[n] = y /\ sess' \in [Sess -> SessT] /\ \A x \in Sess \ {n} : sess'[x] = sess[x]
  BY <1>0 DEF Counts, Types
<1>2. Local(t, n) /\ n # 0
  BY <1>1, OnlyThread
<1>3. /\ last.session \in Int /\ last.id \in Int /\ last'.session = n /\ last'.id = last.id
      /\ last' \in [id : 0..MaxIds, session : 0..MaxSess] /\ last \in [id : 0..MaxIds, session : 0..MaxSess]
  BY SMT DEF Counts, Types, Sess
<1>4. Types' /\ Hashed' = Hashed
  BY <1>1, <1>3 DEF Counts, Types, Hashed
<1>5. sess[n].ref = 0 /\ ~sess[n].hashed /\ sess[n] \in SessT
  BY <1>3, SMTT(30) DEF Counts, LastInv, NoSession, Types
<1>6. ASSUME NEW d \in Ids
      PROVE  cid'[d].ref = cid[d].ref + Share(t, n, d)' - Share(t, n, d)
  <2>1. cid[d].ref \in Int /\ leaked[d] \in Int /\ d # 0
    <3>1. cid[d].ref \in Int
      BY CidRefs DEF Counts, Types
    <3>2. leaked[d] \in Int
      BY SMT DEF Counts, Types
    <3> QED
      BY <3>1, <3>2, SMTT(30) DEF Ids
  <2>2. Bit(n \in Sess /\ sess[n].ref > 0 /\ sess[n].cid = d) = 0
    BY <1>5, SMT DEF Bit
  <2>3. Bit(n \in Sess /\ sess'[n].ref > 0 /\ sess'[n].cid = d) = Bit(d = c)
    BY <1>0, <1>1, SMTT(30) DEF Bit
  <2>4. Bit(th[t].old = d) = 0 /\ Bit(th'[t].old = d) = Bit(d = o)
    BY <2>1 DEF Bit
  <2>5. Bit(th[t].own /\ th[t].exp = d) = 0 /\ Bit(th'[t].own /\ th'[t].exp = d) = 0
    BY DEF Bit
  <2>6. Bit(th'[t].found = d) = Bit(th[t].found = d) /\ Bit(th[t].found = d) \in Int
    BY SMT DEF Bit
  <2>7. Bit(d \in Hashed') = Bit(d \in Hashed) /\ Bit(d \in Hashed) \in Int
    BY <1>4, SMT DEF Bit
  <2>8. Bit(d = c) \in Int /\ Bit(d = o) \in Int
    BY SMT DEF Bit
  <2>9. Share(t, n, d) = Bit(d \in Hashed) + 0 + Bit(th[t].found = d) + 0 + 0 + leaked[d]
    BY <2>2, <2>4, <2>5 DEF Share
  <2>10. Share(t, n, d)' = Bit(d \in Hashed) + Bit(d = c) + Bit(th[t].found = d) + Bit(d = o) + 0 + leaked[d]
    BY <2>3, <2>4, <2>5, <2>6, <2>7 DEF Share
  <2>11. cid'[d].ref = cid[d].ref + Bit(d = c) + Bit(d = o)
    OBVIOUS
  <2> QED
    BY <2>1, <2>6, <2>7, <2>8, <2>9, <2>10, <2>11, SMTT(30)
<1>7. RefEq'
  BY <1>2, <1>4, <1>6, RefEqStep, SMTT(30) DEF Counts, Types
<1>8. SessEq'
  <2> SUFFICES ASSUME NEW x \in Sess
               PROVE  sess'[x].ref = Bit(sess'[x].hashed) + Cardinality(Users(x)')
    BY DEF SessEq
  <2>1. /\ Cardinality(Users(x)) \in Nat
        /\ Cardinality(Users(x)') = Cardinality(Users(x)) + Bit(th'[t].s = x) - Bit(th[t].s = x)
    BY UserCounts, SMT DEF OneThread, Counts, Types
  <2>2. sess[x].ref = Bit(sess[x].hashed) + Cardinality(Users(x))
    BY DEF Counts, SessEq
  <2>3. Bit(th[t].s = x) = 0
    BY SMT DEF Bit, Sess
  <2>4. CASE x = n
    <3>1. Bit(th'[t].s = x) = 1 /\ Bit(sess[x].hashed) = 0 /\ Bit(sess'[x].hashed) = 1
      BY <1>0, <1>1, <1>5, <2>4 DEF Bit
    <3>2. sess'[x].ref = 2 /\ sess[x].ref = 0
      BY <1>0, <1>1, <1>5, <2>4
    <3> QED
      BY <2>1, <2>2, <2>3, <3>1, <3>2, SMTT(30)
  <2>5. CASE x # n
    <3>1. Bit(th'[t].s = x) = 0 /\ sess'[x] = sess[x]
      BY <1>1, <2>5 DEF Bit
    <3>2. Cardinality(Users(x)') = Cardinality(Users(x))
      BY <2>1, <2>3, <3>1, SMTT(30)
    <3>3. sess'[x].ref = Bit(sess'[x].hashed) + Cardinality(Users(x))
      BY <2>2, <3>1
    <3> QED
      BY <3>2, <3>3
  <2> QED
    BY <2>4, <2>5
<1>9. cid[c].ref > 0 /\ (o # 0 => cid[o].ref > 0)
  BY <1>2, <1>4, HasRef DEF Counts, Types
<1>10. StatusEq'
  <2> SUFFICES ASSUME NEW d \in Ids
               PROVE  cid'[d].ref = 0 <=> cid'[d].status \in {"none", "freed"}
    BY DEF StatusEq
  <2>1. cid[d].ref = 0 <=> cid[d].status \in {"none", "freed"}
    BY DEF Counts, StatusEq
  <2>2. cid[d].ref \in Int
    BY CidRefs DEF Counts, Types
  <2>3. cid'[d].ref = cid[d].ref + Bit(d = c) + Bit(d = o) /\ cid'[d].status = cid[d].status
    OBVIOUS
  <2>4. cid'[d].ref = 0 <=> cid[d].ref = 0
    BY <1>9, <2>2, <2>3, SMTT(30) DEF Bit, Ids
  <2> QED
    BY <2>1, <2>3, <2>4
<1>11. LastInv'
  <2>1. c <= last.id
    BY SMT DEF Counts, LastInv
  <2>2. o <= last.id
    <3>1. CASE o = 0
      BY <1>3, <3>1, SMT
    <3>2. CASE o # 0
      BY <1>3, <3>2, SMT DEF Counts, LastInv, Ids
    <3> QED
      BY <3>1, <3>2
  <2>3. ASSUME NEW s \in Sess
        PROVE  /\ s <= last'.session => sess'[s].cid \in 1..last'.id
               /\ s > last'.session => sess'[s] = NoSession
    <3>1. CASE s = n
      BY <1>0, <1>1, <1>3, <2>1, <3>1, SMTT(30) DEF Ids, Sess
    <3>2. CASE s # n
      <4>1. s \in Int /\ sess'[s] = sess[s]
        BY <1>1, <3>2, SMT DEF Sess
      <4>2. /\ s <= last.session => sess[s].cid \in 1..last.id
            /\ s > last.session => sess[s] = NoSession
        BY DEF Counts, LastInv
      <4>3. s <= last'.session => s <= last.session
        BY <1>3, <3>2, <4>1, SMTT(30)
      <4>4. s > last'.session => s > last.session
        BY <1>3, <4>1, SMT
      <4> QED
        BY <1>3, <4>1, <4>2, <4>3, <4>4
    <3> QED
      BY <3>1, <3>2
  <2>4. ASSUME NEW u \in Threads
        PROVE  /\ th'[u].s <= last'.session /\ th'[u].slot <= last'.session
               /\ th'[u].found <= last'.id /\ th'[u].old <= last'.id
    <3>1. /\ th[u].s <= last.session /\ th[u].slot <= last.session
          /\ th[u].found <= last.id /\ th[u].old <= last.id
      BY DEF Counts, LastInv
    <3>2. CASE u # t
      <4>1. th'[u] = th[u] /\ th'[u].s \in Int /\ th'[u].slot \in Int
        BY <3>2, SMT DEF OneThread, ThT, Sess
      <4> QED
        BY <1>3, <3>1, <4>1, SMTT(30)
    <3>3. CASE u = t
      <4>1. th'[t].slot \in Int
        BY SMT DEF OneThread, ThT, Sess
      <4> QED
        BY <1>3, <2>1, <2>2, <3>1, <3>3, <4>1, SMTT(30) DEF Sess
    <3> QED
      BY <3>2, <3>3
  <2>5. ASSUME NEW d \in Ids, d > last'.id
        PROVE  /\ cid'[d].ref = 0 /\ cid'[d].status = "none"
               /\ d \notin Hashed' /\ leaked'[d] = 0
    <3>1. d # c /\ d # o
      BY <1>3, <2>1, <2>2, <2>5, SMTT(30) DEF Ids
    <3>2. /\ cid[d].ref = 0 /\ cid[d].status = "none" /\ d \notin Hashed /\ leaked[d] = 0
      BY <1>3, <2>5 DEF Counts, LastInv
    <3> QED
      BY <1>4, <3>1, <3>2, SMTT(30) DEF Bit
  <2>6. cr'.confirmed <= last'.id /\ cr'.unconfirmed <= last'.id
    BY <1>3 DEF Counts, LastInv
  <2> QED
    BY <2>3, <2>4, <2>5, <2>6 DEF LastInv
<1> QED
  BY <1>4, <1>7, <1>8, <1>10, <1>11 DEF Counts

\* The session CREATE_SESSION builds is typed.
LEMMA NewSessionType ==
  ASSUME NEW c \in Ids, NEW q \in Nat
  PROVE  \E y \in SessT :
           /\ y = [NoSession EXCEPT !.ref = 2, !.cid = c, !.hashed = TRUE, !.csq = q]
           /\ y.ref = 2 /\ y.cid = c /\ y.hashed
<1>1. ASSUME NEW y \in SessT
      PROVE  [y EXCEPT !.ref = 2] \in SessT /\ [y EXCEPT !.ref = 2].ref = 2
  BY SMT DEF SessT
<1>2. ASSUME NEW y \in SessT
      PROVE  /\ [y EXCEPT !.cid = c] \in SessT /\ [y EXCEPT !.cid = c].cid = c
             /\ [y EXCEPT !.cid = c].ref = y.ref
  BY DEF SessT
<1>3. ASSUME NEW y \in SessT
      PROVE  /\ [y EXCEPT !.hashed = TRUE] \in SessT /\ [y EXCEPT !.hashed = TRUE].hashed
             /\ [y EXCEPT !.hashed = TRUE].ref = y.ref /\ [y EXCEPT !.hashed = TRUE].cid = y.cid
  BY DEF SessT
<1>4. ASSUME NEW y \in SessT
      PROVE  /\ [y EXCEPT !.csq = q] \in SessT /\ [y EXCEPT !.csq = q].hashed = y.hashed
             /\ [y EXCEPT !.csq = q].ref = y.ref /\ [y EXCEPT !.csq = q].cid = y.cid
  BY DEF SessT
<1>5. PICK y1 : y1 = [NoSession EXCEPT !.ref = 2]
  OBVIOUS
<1>6. y1 \in SessT /\ y1.ref = 2
  BY <1>1, <1>5, NoSessionType
<1>7. PICK y2 : y2 = [y1 EXCEPT !.cid = c]
  OBVIOUS
<1>8. y2 \in SessT /\ y2.ref = 2 /\ y2.cid = c
  BY <1>2, <1>6, <1>7
<1>9. PICK y3 : y3 = [y2 EXCEPT !.hashed = TRUE]
  OBVIOUS
<1>10. y3 \in SessT /\ y3.ref = 2 /\ y3.cid = c /\ y3.hashed
  BY <1>3, <1>8, <1>9
<1>11. PICK y4 : y4 = [y3 EXCEPT !.csq = q]
  OBVIOUS
<1>12. y4 \in SessT /\ y4.ref = 2 /\ y4.cid = c /\ y4.hashed
  BY <1>4, <1>10, <1>11
<1>13. y4 = [NoSession EXCEPT !.ref = 2, !.cid = c, !.hashed = TRUE, !.csq = q]
  BY <1>5, <1>7, <1>9, <1>11
<1> QED
  BY <1>12, <1>13

\* The building of a session keeps the reference counts exact.
LEMMA BuildCounts ==
  ASSUME ThreadOK, Counts, CrInv, NEW t \in Threads, CreateSessionBuild(t)
  PROVE  Counts'
<1>1. OneThread(t)
  BY ContinueThread DEF Continue, Counts, Ground
<1>2. PICK c \in Ids : c = th[t].found
  BY DEF CreateSessionBuild, ThreadOK, Shape, Exp, ThT
<1>3. PICK n \in Sess : n = last.session + 1
  BY BoundsAssumption, SMT DEF CreateSessionBuild, Counts, Types, Sess
<1>4. PICK o \in Ids \cup {0} : o = cr.confirmed
  BY DEF Counts, Types
<1>5. /\ th[t].pc = "cs_lock" /\ mutex' = t /\ ht' = ht /\ cr' = cr /\ leaked' = leaked
      /\ last' = [last EXCEPT !.session = n]
      /\ sess' = [sess EXCEPT ![n] = [NoSession EXCEPT !.ref = 2, !.cid = c,
                                      !.hashed = TRUE, !.csq = th[t].seq]]
  BY <1>2, <1>3 DEF CreateSessionBuild, Lock
<1>6. /\ th[t].old = 0 /\ th[t].s = 0 /\ ~th[t].own /\ th[t].seq \in Nat /\ th[t] \in ThT
  BY <1>5, BoundsAssumption, SMTT(30) DEF ThreadOK, Shape, Exp, ThT
<1>7. Enters(n, c)
  <2>1. PICK q \in Nat : q = th[t].seq
    BY <1>6
  <2>2. PICK y \in SessT :
          /\ y = [NoSession EXCEPT !.ref = 2, !.cid = c, !.hashed = TRUE, !.csq = q]
          /\ y.ref = 2 /\ y.cid = c /\ y.hashed
    BY NewSessionType
  <2>3. sess' = [sess EXCEPT ![n] = y]
    BY <1>5, <2>1, <2>2
  <2> QED
    BY <2>2, <2>3 DEF Enters
<1>8. PICK C : C = inc_client_id_ref(cid, c)
  OBVIOUS
<1>9. /\ C \in [Ids -> CidT]
      /\ \A d \in Ids : C[d].ref = cid[d].ref + Bit(d = c) /\ C[d].status = cid[d].status
  BY <1>8, IncRef, SMTT(30) DEF Counts, Types
<1>10. \A d \in Ids : cid[d].ref \in Int
  BY CidRefs DEF Counts, Types
<1>11. CASE th[t].unconf /\ o \notin {0, c}
  <2>1. /\ cid' = inc_client_id_ref(C, o)
        /\ th' = [th EXCEPT ![t].pc = "exp_mark", ![t].old = o,
                            ![t].exp = o, ![t].back = "cs_confirm", ![t].s = n]
    BY <1>2, <1>3, <1>4, <1>8, <1>11 DEF CreateSessionBuild
  <2>2. th'[t] = [th[t] EXCEPT !.pc = "exp_mark", !.old = o,
                               !.exp = o, !.back = "cs_confirm", !.s = n]
    BY <2>1 DEF ThreadOK
  <2>3. /\ th'[t].found = c /\ th'[t].old = o /\ th'[t].s = n /\ ~th'[t].own
        /\ th'[t].slot = th[t].slot
    BY <1>2, <1>6, <2>2 DEF ThT
  <2>4. /\ cid' \in [Ids -> CidT]
        /\ \A d \in Ids : /\ cid'[d].ref = C[d].ref + Bit(d = o)
                          /\ cid'[d].status = C[d].status
    BY <1>9, <2>1, IncRef, SMTT(30)
  <2>5. o \in Hashed
    BY <1>4, <1>11 DEF CrInv, Tables, Hashed
  <2>6. Gains(c, o)
    BY <1>9, <2>4, SMT DEF Gains
  <2> QED
    BY <1>1, <1>2, <1>3, <1>5, <1>6, <1>7, <2>3, <2>5, <2>6, BuildStep
<1>12. CASE ~(th[t].unconf /\ o \notin {0, c})
  <2>1. /\ cid' = C
        /\ th' = [th EXCEPT ![t].pc = "cs_confirm", ![t].s = n,
                            ![t].unconf = @ /\ cr.confirmed = 0]
    BY <1>2, <1>3, <1>4, <1>8, <1>12 DEF CreateSessionBuild
  <2>2. th'[t] = [th[t] EXCEPT !.pc = "cs_confirm", !.s = n, !.unconf = @ /\ cr.confirmed = 0]
    BY <2>1 DEF ThreadOK
  <2>3. /\ th'[t].found = c /\ th'[t].old = 0 /\ th'[t].s = n /\ ~th'[t].own
        /\ th'[t].slot = th[t].slot
    BY <1>2, <1>6, <2>2 DEF ThT
  <2>4. PICK z \in Ids \cup {0} : z = 0
    OBVIOUS
  <2>5. \A d \in Ids : /\ cid'[d].ref = cid[d].ref + Bit(d = c) + Bit(d = z)
                       /\ cid'[d].status = cid[d].status
    BY <1>9, <1>10, <2>1, <2>4, SMTT(30) DEF Bit, Ids
  <2>6. Gains(c, z)
    BY <1>9, <2>1, <2>5 DEF Gains
  <2> QED
    BY <1>1, <1>2, <1>3, <1>5, <1>6, <1>7, <2>3, <2>4, <2>6, BuildStep
<1> QED
  BY <1>11, <1>12

-----------------------------------------------------------------------------
(***************************************************************************)
(* The slots in SEQUENCE                                                   *)
(***************************************************************************)
\* One slot changes, in a step of thread t: what is left to show.
LEMMA OneSlotInv ==
  ASSUME SlotInv, ThreadOK, NEW t \in Threads, OneThread(t), NEW s \in Sess,
         \A x \in Sess \ {s} : sess'[x] = sess[x], th[t].slot \in {0, s},
         \A u \in Threads \ {t} : Running(th[u]) /\ th[u].s = s =>
             /\ sess'[s].lock = sess[s].lock /\ sess'[s].sequence = sess[s].sequence
             /\ sess'[s].ran = sess[s].ran,
         \A q \in 1..MaxSeq : q > sess'[s].sequence => sess'[s].ran[q] = 0,
         \A q \in 1..MaxSeq : sess'[s].ran[q] <= 1,
         \/ sess'[s].lock # None
         \/ sess'[s].sequence = sess'[s].cached
         \/ sess'[s].torn
         \/ th'[t].slot = s /\ th'[t].s = 0,
         SlotT(t)'
  PROVE  SlotInv'
<1>1. ASSUME NEW x \in Sess, x # s
      PROVE  /\ \A q \in 1..MaxSeq : q > sess'[x].sequence => sess'[x].ran[q] = 0
             /\ \A q \in 1..MaxSeq : sess'[x].ran[q] <= 1
             /\ \/ sess'[x].lock # None
                \/ sess'[x].sequence = sess'[x].cached
                \/ sess'[x].torn
                \/ \E u \in Threads : th'[u].slot = x /\ th'[u].s = 0
  <2>1. \A u \in Threads : th[u].slot = x => th'[u] = th[u]
    BY <1>1, SMTT(30) DEF OneThread, Sess
  <2> QED
    BY <1>1, <2>1, SMTT(30) DEF SlotInv, ExactlyOnce
<1>2. ASSUME NEW u \in Threads \ {t}, Running(th'[u])
      PROVE  SlotT(u)'
  <2>1. th'[u] = th[u] /\ SlotT(u) /\ Running(th[u])
    BY <1>2 DEF OneThread, SlotInv
  <2>2. PICK x \in Sess : x = th[u].s
    BY <2>1, SMT DEF Running, ThreadOK, ThT, Shape
  <2>3. /\ sess'[x].lock = sess[x].lock /\ sess'[x].sequence = sess[x].sequence
        /\ sess'[x].ran = sess[x].ran
    BY <2>1, <2>2
  <2> QED
    BY <2>1, <2>2, <2>3, SMTT(30) DEF SlotT
<1>3. \A u \in Threads : SlotT(u)'
  BY <1>2, SMTT(30) DEF SlotT
<1>4. /\ \A x \in Sess, q \in 1..MaxSeq : q > sess'[x].sequence => sess'[x].ran[q] = 0
      /\ ExactlyOnce'
  BY <1>1, SMT DEF SlotInv, ExactlyOnce
<1> QED
  BY <1>3, <1>4 DEF SlotInv

\* SEQUENCE of a bad slot, a retransmission or a sequence out of order.
LEMMA RefuseDeep ==
  ASSUME Base, Counts', NEW t \in Threads, OneThread(t), SequenceRefuse(t)
  PROVE  Deep'
<1>0. th \in [Threads -> ThT] /\ Types /\ Counts /\ Shape(th[t]) /\ SlotInv /\ ThreadOK
  BY DEF Base, ThreadOK, Counts, Deep
<1>1. ht' = ht /\ cr' = cr /\ th[t].pc = "sq_slot" /\ dec_session_ref(sess, cid, th[t].s)
  BY DEF SequenceRefuse
<1>2. cid \in [Ids -> CidT] /\ KeptBy(cid)
  BY <1>0 DEF Types, KeptBy
<1>3. th[t].s \in Sess /\ th[t].slot = 0
  BY <1>0, <1>1 DEF Shape, ThT
<1>4. Kept /\ Passed /\ \A x \in Sess : SlotKept(t, x)
  BY <1>0, <1>1, <1>2, <1>3, ReleaseKeeps
<1>5. th'[t] = [th[t] EXCEPT !.pc = "sq_complete", !.s = 0]
  BY <1>0 DEF SequenceRefuse
<1>6. th'[t].pc = "sq_complete" /\ th'[t].s = 0
  BY <1>0, <1>5, SMT DEF ThT
<1>7. StatInv' /\ SeqInv'
  BY <1>1, <1>4, <1>6, CalmStep DEF Placed, Creating, Exp
<1>8. SlotInv'
  BY <1>0, <1>3, <1>4, <1>6, QuietSlot DEF Running
<1> QED
  BY <1>7, <1>8 DEF Deep

\* SEQUENCE of the next request of the slot.
LEMMA NextDeep ==
  ASSUME Base, Counts', NEW t \in Threads, OneThread(t), SequenceNext(t)
  PROVE  Deep'
<1>0. /\ th \in [Threads -> ThT] /\ Types /\ Counts /\ Shape(th[t]) /\ SlotInv /\ ThreadOK
      /\ sess \in [Sess -> SessT] /\ cid \in [Ids -> CidT] /\ KeptBy(cid)
  BY DEF Base, ThreadOK, Counts, Deep, Types, KeptBy
<1>1. ht' = ht /\ cr' = cr /\ th[t].pc = "sq_slot"
  BY DEF SequenceNext
<1>2. PICK s \in Sess : s = th[t].s /\ th[t].slot = 0
  BY <1>0, <1>1 DEF Shape, ThT
<1>3. sess[s].lock = None /\ th[t].seq = sess[s].sequence + 1
  BY <1>2 DEF SequenceNext, InOrder
<1>4. PICK S : S = [sess EXCEPT ![s].sequence = @ + 1, ![s].cached = 0]
  OBVIOUS
<1>5. /\ SlotOnly(S, s) /\ \A u \in Threads \cup {None} : SlotOnly([S EXCEPT ![s].lock = u], s)
      /\ S[s].sequence = sess[s].sequence + 1 /\ S[s].cached = 0
      /\ S[s].lock = sess[s].lock /\ S[s].ran = sess[s].ran /\ S[s].torn = sess[s].torn
  <2>1. SlotOnly(S, s) /\ \A u \in Threads \cup {None} : SlotOnly([S EXCEPT ![s].lock = u], s)
    BY <1>0, <1>4, NextSlot
  <2>2. /\ S[s].sequence = sess[s].sequence + 1 /\ S[s].cached = 0
        /\ S[s].lock = sess[s].lock /\ S[s].ran = sess[s].ran /\ S[s].torn = sess[s].torn
    BY <1>0, <1>4, NextValues
  <2> QED
    BY <2>1, <2>2
<1>6. \A q \in 1..MaxSeq : /\ q > sess[s].sequence => sess[s].ran[q] = 0
                           /\ sess[s].ran[q] <= 1
  BY <1>0 DEF SlotInv, ExactlyOnce
<1>7. sess[s].sequence \in Nat
  BY <1>0 DEF SessT
<1>8. \A u \in Threads \ {t} : ~(Running(th[u]) /\ th[u].s = s)
  BY <1>0, <1>3, OthersLock
<1>9. CASE /\ sess' = [S EXCEPT ![s].lock = t] /\ cid' = cid
           /\ th' = [th EXCEPT ![t].pc = "sq_exec", ![t].slot = s]
  <2>1. /\ th'[t].pc = "sq_exec" /\ th'[t].s = s /\ th'[t].seq = th[t].seq
    BY <1>0, <1>2, <1>9, SMTT(30) DEF ThT
  <2>2. SlotOnly(sess', s)
    BY <1>5, <1>9
  <2>3. Passed /\ Kept
    BY <1>9, <2>2 DEF SlotOnly, SameSlot, Passed, Kept
  <2>4. StatInv' /\ SeqInv'
    BY <1>1, <2>1, <2>3, CalmStep DEF Placed, Creating, Exp
  <2>5. S \in [Sess -> SessT] /\ \A x \in Sess \ {s} : sess'[x] = sess[x]
    BY <1>5, <2>2 DEF SlotOnly
  <2>6. /\ sess'[s].lock = t /\ sess'[s].sequence = sess[s].sequence + 1
        /\ sess'[s].ran = sess[s].ran
    BY <1>5, <1>9, <2>5, LockValues, SMTT(30)
  <2>7. SlotT(t)'
    BY <1>3, <1>6, <1>7, <2>1, <2>6, SMTT(30) DEF SlotT
  <2>8. t # None
    BY NoneNoThread
  <2>9. SlotInv'
    <3>1. \A q \in 1..MaxSeq : q > sess[s].sequence + 1 => sess[s].ran[q] = 0
      BY <1>6, <1>7, SMT
    <3>2. \A q \in 1..MaxSeq : /\ q > sess'[s].sequence => sess'[s].ran[q] = 0
                               /\ sess'[s].ran[q] <= 1
      BY <1>6, <2>6, <3>1
    <3>3. sess'[s].lock # None
      BY <2>6, <2>8
    <3>4. s \in Sess /\ th[t].slot \in {0, s}
      BY <1>0, <1>2
    <3> QED
      BY <1>0, <1>8, <2>5, <2>7, <3>2, <3>3, <3>4, OneSlotInv
  <2> QED
    BY <2>4, <2>9 DEF Deep
<1>10. CASE /\ dec_session_ref(S, cid, s)
            /\ th' = [th EXCEPT ![t].pc = "sq_complete", ![t].slot = s, ![t].s = 0]
  <2>1. /\ th'[t].pc = "sq_complete" /\ th'[t].s = 0 /\ th'[t].slot = s
    BY <1>0, <1>2, <1>10, SMT DEF ThT
  <2>2. S \in [Sess -> SessT] /\ \A x \in Sess \ {s} : S[x] = sess[x]
    BY <1>5 DEF SlotOnly
  <2>3. Kept /\ sess' = [S EXCEPT ![s] = Unref(S[s])]
    BY <1>0, <1>10, <2>2, KeptSession, DecSession, SMTT(30)
  <2>4. sess'[s] = Unref(S[s]) /\ S[s] \in SessT /\ \A x \in Sess \ {s} : sess'[x] = sess[x]
    BY <2>2, <2>3
  <2>5. Passed
    <3>1. sess'[s].cid = S[s].cid /\ sess'[s].csq = S[s].csq /\ (sess'[s].hashed => S[s].hashed)
      BY <2>4, UnrefType, SMT
    <3> QED
      BY <1>5, <2>4, <3>1 DEF SlotOnly, SameSlot, Passed
  <2>6. StatInv' /\ SeqInv'
    BY <1>1, <2>1, <2>3, <2>5, CalmStep DEF Placed, Creating, Exp
  <2>7. SlotNew(sess'[s]) \/ SlotEq(S[s], sess'[s])
    BY <2>4, UnrefSlot
  <2>8. \A q \in 1..MaxSeq : /\ q > sess'[s].sequence => sess'[s].ran[q] = 0
                             /\ sess'[s].ran[q] <= 1
    <3>1. CASE SlotNew(sess'[s])
      BY <3>1, SMTT(30) DEF SlotNew
    <3>2. CASE SlotEq(S[s], sess'[s])
      <4>1. sess'[s].sequence = sess[s].sequence + 1 /\ sess'[s].ran = sess[s].ran
        BY <1>5, <3>2 DEF SlotEq
      <4> QED
        BY <1>6, <1>7, <4>1, SMTT(30)
    <3> QED
      BY <2>7, <3>1, <3>2
  <2>9. SlotT(t)'
    BY <2>1 DEF SlotT, Running
  <2>10. SlotInv'
    BY <1>0, <1>2, <1>8, <2>1, <2>4, <2>8, <2>9, OneSlotInv
  <2> QED
    BY <2>6, <2>10 DEF Deep
<1> QED
  BY <1>2, <1>4, <1>9, <1>10 DEF SequenceNext

\* The other operations of a compound.
LEMMA ExecDeep ==
  ASSUME Base, Counts', NEW t \in Threads, OneThread(t), SequenceExec(t)
  PROVE  Deep'
<1>0. /\ th \in [Threads -> ThT] /\ Types /\ Shape(th[t]) /\ SlotInv /\ ThreadOK /\ SlotT(t)
      /\ sess \in [Sess -> SessT] /\ cid \in [Ids -> CidT] /\ KeptBy(cid)
  BY DEF Base, ThreadOK, Counts, Deep, Types, KeptBy, SlotInv
<1>1. ht' = ht /\ cr' = cr /\ th[t].pc = "sq_exec"
  BY DEF SequenceExec
<1>2. PICK s \in Sess : s = th[t].s /\ th[t].slot = s
  BY <1>0, <1>1 DEF Shape, ThT
<1>3. PICK q : q = th[t].seq
  OBVIOUS
<1>4. /\ sess' = [sess EXCEPT ![s].ran[q] = @ + 1]
      /\ th'[t] = [th[t] EXCEPT !.pc = "sq_complete"]
  BY <1>0, <1>2, <1>3 DEF SequenceExec, Go
<1>5. PICK c, k : cid' = [cid EXCEPT ![c].state = k]
  BY DEF SequenceExec
<1>6. Kept
  <2>1. KeptBy(cid')
    BY <1>0, <1>5, KeptLease
  <2> QED
    BY <2>1 DEF Kept, KeptBy
<1>7. th'[t].pc = "sq_complete" /\ th'[t].s = s /\ th'[t].seq = q
  BY <1>0, <1>2, <1>3, <1>4, SMTT(30) DEF ThT
<1>8. SlotOnly(sess', s)
  BY <1>0, <1>4, RanSlot
<1>9. Passed /\ \A x \in Sess \ {s} : sess'[x] = sess[x]
  BY <1>8 DEF SlotOnly, SameSlot, Passed
<1>10. StatInv' /\ SeqInv'
  BY <1>1, <1>6, <1>7, <1>9, CalmStep DEF Placed, Creating, Exp
<1>11. /\ sess[s].lock = t /\ sess[s].sequence = q
       /\ \A p \in 1..MaxSeq : p >= q => sess[s].ran[p] = 0
  BY <1>0, <1>1, <1>2, <1>3 DEF SlotT, Running
<1>12. \A p \in 1..MaxSeq : sess[s].ran[p] <= 1 /\ sess[s].ran[p] \in Nat
  BY <1>0 DEF SlotInv, ExactlyOnce, SessT
<1>13. /\ sess'[s].lock = sess[s].lock /\ sess'[s].sequence = sess[s].sequence
       /\ sess'[s].ran = [sess[s].ran EXCEPT ![q] = @ + 1]
  BY <1>0, <1>4, SMT DEF SessT
<1>14. sess[s].ran \in [1..MaxSeq -> Nat] /\ sess[s].sequence \in Nat
  BY <1>0 DEF SessT
<1>15. \A p \in 1..MaxSeq : sess'[s].ran[p] = IF p = q THEN sess[s].ran[p] + 1 ELSE sess[s].ran[p]
  BY <1>13, <1>14
<1>16. \A p \in 1..MaxSeq : /\ p > sess'[s].sequence => sess'[s].ran[p] = 0
                            /\ sess'[s].ran[p] <= 1
  BY <1>11, <1>12, <1>13, <1>14, <1>15, SMTT(30)
<1>17. SlotT(t)'
  BY <1>7, <1>11, <1>13 DEF SlotT
<1>18. \A u \in Threads \ {t} : ~(Running(th[u]) /\ th[u].s = s)
  BY <1>0, <1>11, OthersLock
<1>19. sess'[s].lock # None
  BY <1>11, <1>13, NoneNoThread
<1>20. SlotInv'
  BY <1>0, <1>2, <1>9, <1>16, <1>17, <1>18, <1>19, OneSlotInv
<1> QED
  BY <1>10, <1>20 DEF Deep

\* The end of a compound.
LEMMA CompleteDeep ==
  ASSUME Base, Counts', NEW t \in Threads, OneThread(t), SequenceComplete(t)
  PROVE  Deep'
<1>0. /\ th \in [Threads -> ThT] /\ Types /\ Shape(th[t]) /\ SlotInv /\ ThreadOK /\ SlotT(t)
      /\ sess \in [Sess -> SessT] /\ cid \in [Ids -> CidT] /\ KeptBy(cid)
  BY DEF Base, ThreadOK, Counts, Deep, Types, KeptBy, SlotInv
<1>1. ht' = ht /\ cr' = cr /\ th[t].pc = "sq_complete" /\ Done(t)
  BY DEF SequenceComplete
<1>2. /\ th[t].s \in {0, th[t].slot} /\ th[t].slot \in Sess \cup {0} /\ th[t].seq \in Nat
  BY <1>0, <1>1, BoundsAssumption, SMTT(30) DEF Shape, ThT
<1>3. th'[t].pc = "idle" /\ th'[t].s = 0 /\ th'[t].slot = 0
  BY <1>0, <1>1, DoneThread
<1>4. PICK k : k = th[t].keep
  OBVIOUS
<1>5. PICK C : C = [cid EXCEPT ![k].resv = @ - 1, ![k].fresh = @ \/ cid[k].resv = 1]
  OBVIOUS
<1>6. C \in [Ids -> CidT] /\ KeptBy(C)
  <2>1. Same(cid, C) /\ \A d \in Ids : C[d].seq = cid[d].seq
    BY <1>0, <1>5, LeaseReleased
  <2> QED
    BY <2>1 DEF Same, KeptBy
<1>7. SlotT(t)'
  BY <1>3 DEF SlotT, Running
<1>8. Kept /\ Passed => StatInv' /\ SeqInv'
  BY <1>1, <1>3, CalmStep DEF Placed, Creating, Exp
<1>9. CASE th[t].s = 0 /\ th[t].slot = 0
  <2>1. cid' = C /\ sess' = sess
    BY <1>4, <1>5, <1>9 DEF SequenceComplete
  <2>2. Kept /\ Passed /\ \A x \in Sess : SlotKept(t, x)
    BY <1>6, <2>1 DEF Kept, KeptBy, Passed, SlotKept, SlotEq
  <2>3. SlotInv'
    BY <1>0, <1>3, <1>9, <2>2, QuietSlot DEF Running
  <2> QED
    BY <1>8, <2>2, <2>3 DEF Deep
<1>10. CASE th[t].slot # 0
  <2>1. PICK x \in Sess : x = th[t].slot
    BY <1>2, <1>10
  <2>2. PICK b \in BOOLEAN : b = (th[t].s = 0 /\ sess[x].sequence # th[t].seq)
    OBVIOUS
  <2>3. PICK S : S = [sess EXCEPT ![x].cached = th[t].seq, ![x].torn = @ \/ b]
    OBVIOUS
  <2>4. SlotOnly(S, x) /\ SlotOnly([S EXCEPT ![x].lock = None], x)
    BY <1>0, <1>2, <2>3, ReplySlot
  <2>5. IF th[t].s = 0 THEN sess' = S /\ cid' = C
        ELSE dec_session_ref([S EXCEPT ![th[t].s].lock = None], C, th[t].s)
    <3>1. S = [sess EXCEPT ![x].cached = th[t].seq,
                           ![x].torn = @ \/ (th[t].s = 0 /\ sess[x].sequence # th[t].seq)]
      BY <2>2, <2>3
    <3>2. x # 0
      BY SMT DEF Sess
    <3> QED
      BY <1>4, <1>5, <2>1, <3>1, <3>2 DEF SequenceComplete
  <2>6. /\ S[x].sequence = sess[x].sequence /\ S[x].cached = th[t].seq
        /\ S[x].lock = sess[x].lock /\ S[x].ran = sess[x].ran
        /\ (S[x].torn <=> (sess[x].torn \/ b))
    <3>1. PICK q : q = th[t].seq
      OBVIOUS
    <3>2. S = [sess EXCEPT ![x].cached = q, ![x].torn = @ \/ b]
      BY <2>3, <3>1
    <3>3. sess \in [Sess -> SessT]
      BY <1>0
    <3>4. /\ S[x].sequence = sess[x].sequence /\ S[x].cached = q
          /\ S[x].lock = sess[x].lock /\ S[x].ran = sess[x].ran
          /\ (S[x].torn <=> (sess[x].torn \/ b))
      BY <3>2, <3>3, SMT DEF SessT
    <3> QED
      BY <3>1, <3>4
  <2>7. \A q \in 1..MaxSeq : /\ q > sess[x].sequence => sess[x].ran[q] = 0
                             /\ sess[x].ran[q] <= 1
    BY <1>0 DEF SlotInv, ExactlyOnce
  <2>8. CASE th[t].s = 0
    <3>1. sess' = S /\ cid' = C
      BY <2>5, <2>8
    <3>2. Kept /\ Passed /\ \A y \in Sess \ {x} : sess'[y] = sess[y]
      BY <1>6, <2>4, <3>1 DEF Kept, KeptBy, Passed, SlotOnly, SameSlot
    <3>3. sess'[x].sequence = sess'[x].cached \/ sess'[x].torn
      BY <2>2, <2>6, <2>8, <3>1
    <3>4. /\ sess'[x].sequence = sess[x].sequence /\ sess'[x].lock = sess[x].lock
          /\ sess'[x].ran = sess[x].ran
      BY <2>6, <3>1
    <3>5. \A q \in 1..MaxSeq : /\ q > sess'[x].sequence => sess'[x].ran[q] = 0
                               /\ sess'[x].ran[q] <= 1
      BY <2>7, <3>4
    <3>6. SlotInv'
      BY <1>0, <1>7, <2>1, <3>2, <3>3, <3>4, <3>5, OneSlotInv
    <3> QED
      BY <1>8, <3>2, <3>6 DEF Deep
  <2>9. CASE th[t].s # 0
    <3>1. th[t].s = x
      BY <1>2, <2>1, <2>9
    <3>2. PICK R : R = [S EXCEPT ![x].lock = None]
      OBVIOUS
    <3>3. dec_session_ref(R, C, x) /\ SlotOnly(R, x)
      BY <2>4, <2>5, <2>9, <3>1, <3>2
    <3>4. /\ R \in [Sess -> SessT] /\ R[x] \in SessT /\ S \in [Sess -> SessT]
          /\ \A y \in Sess \ {x} : R[y] = sess[y]
      BY <2>4, <3>3 DEF SlotOnly
    <3>5. /\ R[x].lock = None /\ R[x].sequence = sess[x].sequence /\ R[x].cached = th[t].seq
          /\ R[x].ran = sess[x].ran
      BY <2>6, <3>2, <3>4, LockValues, SMTT(30)
    <3>6. sess[x].lock = t /\ sess[x].sequence = th[t].seq
      BY <1>0, <1>1, <2>9, <3>1 DEF SlotT, Running
    <3>7. Kept /\ sess' = [R EXCEPT ![x] = Unref(R[x])]
      BY <1>6, <3>3, <3>4, KeptSession, DecSession, SMTT(30)
    <3>8. sess'[x] = Unref(R[x]) /\ \A y \in Sess \ {x} : sess'[y] = sess[y]
      BY <3>4, <3>7
    <3>9. Passed
      <4>1. sess'[x].cid = R[x].cid /\ sess'[x].csq = R[x].csq /\ (sess'[x].hashed => R[x].hashed)
        BY <3>4, <3>8, UnrefType, SMTT(30)
      <4> QED
        BY <3>3, <3>8, <4>1 DEF SlotOnly, SameSlot, Passed
    <3>10. SlotNew(sess'[x]) \/ SlotEq(R[x], sess'[x])
      BY <3>4, <3>8, UnrefSlot
    <3>11. /\ \A q \in 1..MaxSeq : /\ q > sess'[x].sequence => sess'[x].ran[q] = 0
                                   /\ sess'[x].ran[q] <= 1
           /\ sess'[x].sequence = sess'[x].cached
      <4>1. CASE SlotNew(sess'[x])
        BY <4>1, SMT DEF SlotNew
      <4>2. CASE SlotEq(R[x], sess'[x])
        <5>1. /\ sess'[x].sequence = sess[x].sequence /\ sess'[x].ran = sess[x].ran
              /\ sess'[x].cached = th[t].seq
          BY <3>5, <4>2 DEF SlotEq
        <5> QED
          BY <2>7, <3>6, <5>1
      <4> QED
        BY <3>10, <4>1, <4>2
    <3>12. \A u \in Threads \ {t} : ~(Running(th[u]) /\ th[u].s = x)
      BY <1>0, <3>6, OthersLock
    <3>13. SlotInv'
      BY <1>0, <1>7, <2>1, <3>8, <3>11, <3>12, OneSlotInv
    <3> QED
      BY <1>8, <3>7, <3>9, <3>13 DEF Deep
  <2> QED
    BY <2>8, <2>9
<1> QED
  BY <1>2, <1>9, <1>10

-----------------------------------------------------------------------------
(***************************************************************************)
(* CREATE_SESSION: the status, the sequences and the slots                 *)
(***************************************************************************)
\* The records after a CREATE_SESSION for client id c has ended.
LEMMA AcceptedEnd ==
  ASSUME NEW B \in [Ids -> CidT], NEW c \in Ids, NEW C, C = dec_client_id_ref(Accepted(B, c), c),
         NEW S \in [Sess -> SessT], NEW s \in Sess, dec_session_ref(S, C, s)
  PROVE  /\ C \in [Ids -> CidT]
         /\ \A d \in Ids : cid'[d].status \in {B[d].status, "freed"}
         /\ cid'[c].seq = B[c].seq + 1
         /\ \A d \in Ids \ {c} : cid'[d].seq = B[d].seq
<1>1. PICK A : A = Accepted(B, c)
  OBVIOUS
<1>2. /\ A \in [Ids -> CidT] /\ \A d \in Ids : A[d].status = B[d].status
      /\ \A d \in Ids : A[d].seq = IF d = c THEN B[d].seq + 1 ELSE B[d].seq
  BY <1>1, AcceptedSame, SMT DEF Same
<1>3. /\ C \in [Ids -> CidT]
      /\ \A d \in Ids : C[d].status \in {A[d].status, "freed"} /\ C[d].seq = A[d].seq
  <2>1. C = dec_client_id_ref(A, c)
    BY <1>1
  <2> QED
    BY <1>2, <2>1, DecRef, SMT
<1>4. \A d \in Ids : cid'[d].status \in {C[d].status, "freed"} /\ cid'[d].seq = C[d].seq
  BY <1>3, DecSession, SMT
<1> QED
  BY <1>2, <1>3, <1>4, SMT

\* A further CREATE_SESSION of a client id.
LEMMA UpdateDeep ==
  ASSUME Base, Counts', NEW t \in Threads, OneThread(t), CreateSessionUpdate(t)
  PROVE  Deep'
<1>0. /\ StatInv /\ SeqInv /\ SlotInv /\ ThreadOK /\ Counts /\ CrInv /\ MutexInv
      /\ sess \in [Sess -> SessT] /\ cid \in [Ids -> CidT]
  BY DEF Base, Deep, Counts, Types
<1>1. th[t].pc = "cs_confirm" /\ ht' = ht /\ cr' = cr /\ Done(t) /\ mutex = t
  BY DEF CreateSessionUpdate, Unlock
<1>2. th[t].found \in Ids /\ th[t].s \in Sess /\ th[t].slot = 0
  BY <1>0, <1>1, SMTT(30) DEF ThreadOK, Shape, Exp, ThT
<1>3. PICK c \in Ids, s \in Sess : c = th[t].found /\ s = th[t].s
  BY <1>2
<1>4. PICK C : C = dec_client_id_ref(Accepted(cid, c), c)
  OBVIOUS
<1>5. dec_session_ref(sess, C, s)
  BY <1>3, <1>4 DEF CreateSessionUpdate
<1>6. /\ C \in [Ids -> CidT] /\ \A d \in Ids : cid'[d].status \in {cid[d].status, "freed"}
      /\ cid'[c].seq = cid[c].seq + 1 /\ \A d \in Ids \ {c} : cid'[d].seq = cid[d].seq
  BY <1>0, <1>4, <1>5, AcceptedEnd, SMTT(30)
<1>7. Passed /\ \A x \in Sess : SlotKept(t, x)
  BY <1>0, <1>3, <1>5, <1>6, SlotsReleased, SMTT(30)
<1>8. th'[t].pc = "idle"
  BY <1>0, <1>1, DoneThread
<1>9. StatInv'
  <2>1. StatT(th[t])' /\ InPlace
    BY <1>1, <1>6, <1>8 DEF StatT, Creating, Exp, InPlace
  <2> QED
    BY <1>0, <2>1, QuietStat
<1>10. SeqInv'
  BY <1>0, <1>1, <1>3, <1>6, <1>7, AcceptedSeq
<1>11. SlotInv'
  BY <1>0, <1>2, <1>7, <1>8, QuietSlot DEF Running
<1> QED
  BY <1>9, <1>10, <1>11 DEF Deep

\* The CREATE_SESSION that confirms a client id.
LEMMA ConfirmDeep ==
  ASSUME Base, Counts', NEW t \in Threads, OneThread(t), CreateSessionConfirm(t)
  PROVE  Deep'
<1>0. /\ StatInv /\ SeqInv /\ SlotInv /\ ThreadOK /\ Counts /\ CrInv /\ MutexInv
      /\ sess \in [Sess -> SessT] /\ cid \in [Ids -> CidT]
  BY DEF Base, Deep, Counts, Types
<1>1. th[t].pc = "cs_confirm" /\ th[t].unconf /\ Done(t) /\ mutex = t
  BY DEF CreateSessionConfirm, Unlock
<1>2. th[t].found \in Ids /\ th[t].s \in Sess /\ th[t].slot = 0
  BY <1>0, <1>1 DEF ThreadOK, Shape, Exp, ThT
<1>3. PICK c \in Ids, s \in Sess : c = th[t].found /\ s = th[t].s
  BY <1>2
<1>4. PICK B : B = [cid EXCEPT ![c].status = "confirmed"]
  OBVIOUS
<1>5. PICK C : C = dec_client_id_ref(Accepted(B, c), c)
  OBVIOUS
<1>6. dec_session_ref(sess, C, s)
  BY <1>3, <1>4, <1>5 DEF CreateSessionConfirm
<1>7. /\ B \in [Ids -> CidT]
      /\ \A d \in Ids : /\ B[d].status = IF d = c THEN "confirmed" ELSE cid[d].status
                        /\ B[d].seq = cid[d].seq
  <2>1. "confirmed" \in Statuses
    BY DEF Statuses
  <2> QED
    BY <1>0, <1>4, <2>1, SetStatus, SMTT(30)
<1>8. /\ C \in [Ids -> CidT] /\ \A d \in Ids : cid'[d].status \in {B[d].status, "freed"}
      /\ cid'[c].seq = B[c].seq + 1 /\ \A d \in Ids \ {c} : cid'[d].seq = B[d].seq
  BY <1>0, <1>5, <1>6, <1>7, AcceptedEnd
<1>9. Passed /\ \A x \in Sess : SlotKept(t, x)
  BY <1>0, <1>3, <1>6, <1>8, SlotsReleased
<1>10. th'[t].pc = "idle"
  BY <1>0, <1>1, DoneThread
<1>11. StatInv'
  <2>1. StatT(th[t])'
    BY <1>10 DEF StatT, Creating, Exp
  <2>2. \A u \in Threads : StatT(th[u])'
    BY <1>0, <1>1, <2>1, LockedStat
  <2>3. /\ ht'.confirmed = ht.confirmed \cup {c} /\ ht'.unconfirmed = ht.unconfirmed \ {c}
        /\ cr'.confirmed = c /\ cr'.unconfirmed = 0
    BY <1>3 DEF CreateSessionConfirm
  <2>4. cid'[c].status = "confirmed"
    <3>1. c \in Hashed'
      BY <2>3, SMT DEF Hashed
    <3> QED
      BY <1>7, <1>8, <3>1, HashedLive
  <2>5. cr.confirmed = 0
    BY <1>0, <1>1 DEF StatInv, StatT, Creating
  <2>6. \A d \in Ids \ {c} : /\ cid'[d].status \in {cid[d].status, "freed"}
                             /\ cid'[d].status # "confirmed"
    BY <1>0, <1>7, <1>8, <2>5, SMTT(30) DEF StatInv, Ids
  <2>7. \A d \in Ids : cid'[d].status = "confirmed" <=> cr'.confirmed = d
    BY <2>3, <2>4, <2>6
  <2>8. \A d \in Ids : cr'.unconfirmed = d => cid'[d].status = "unconfirmed"
    BY <2>3, SMTT(30) DEF Ids
  <2>9. \A x \in Tables, d \in Ids : cid'[d].status = x => d \in ht'[x]
    BY <1>0, <2>3, <2>4, <2>6, SMTT(30) DEF StatInv, Tables
  <2> QED
    BY <2>2, <2>7, <2>8, <2>9 DEF StatInv
<1>12. SeqInv'
  BY <1>0, <1>1, <1>3, <1>7, <1>8, <1>9, AcceptedSeq, SMTT(30)
<1>13. SlotInv'
  BY <1>0, <1>2, <1>9, <1>10, QuietSlot DEF Running
<1> QED
  BY <1>11, <1>12, <1>13 DEF Deep

\* One that comes too late takes its session away.
LEMMA LateDeep ==
  ASSUME Base, Counts', NEW t \in Threads, OneThread(t), CreateSessionLate(t)
  PROVE  Deep'
<1>0. /\ StatInv /\ SeqInv /\ SlotInv /\ ThreadOK /\ Counts /\ CrInv /\ MutexInv /\ Types
      /\ sess \in [Sess -> SessT] /\ cid \in [Ids -> CidT] /\ last.id \in 0..MaxIds
      /\ cr \in [{"confirmed", "unconfirmed"} -> Ids \cup {0}]
  BY DEF Base, Deep, Counts, Types
<1>1. /\ th[t].pc = "cs_confirm" /\ ht' = ht /\ Done(t) /\ mutex = t
      /\ cr' = [cr EXCEPT !.unconfirmed = 0]
  BY SMT DEF CreateSessionLate, Unlock
<1>2. th[t].found \in Ids /\ th[t].s \in Sess /\ th[t].slot = 0
  BY <1>0, <1>1 DEF ThreadOK, Shape, Exp, ThT
<1>3. PICK c \in Ids, s \in Sess : c = th[t].found /\ s = th[t].s
  BY <1>2
<1>4. PICK S : S = nfs41_Session_Del(sess, s)
  OBVIOUS
<1>5. PICK C : C = dec_client_id_ref(cid, c)
  OBVIOUS
<1>6. dec_session_ref(S, C, s)
  BY <1>3, <1>4, <1>5 DEF CreateSessionLate
<1>7. C \in [Ids -> CidT] /\ KeptBy(C)
  BY <1>0, <1>5, KeptRefs
<1>8. Kept /\ Passed /\ (\A x \in Sess : SlotKept(t, x)) /\ ~sess'[s].hashed
  BY <1>0, <1>3, <1>4, <1>6, <1>7, DeleteKeeps
<1>9. th'[t].pc = "idle"
  BY <1>0, <1>1, DoneThread
<1>10. StatInv'
  <2>1. StatT(th[t])'
    BY <1>9 DEF StatT, Creating, Exp
  <2>2. InPlace
    BY <1>0, <1>1, <1>8, SMTT(30) DEF InPlace, Kept
  <2> QED
    BY <1>0, <2>1, <2>2, QuietStat, SMTT(30)
<1>11. SeqInv'
  <2>1. \A d \in 1..last.id : cid'[d].seq = cid[d].seq
    BY <1>0, <1>8, BoundsAssumption, SMTT(30) DEF Kept, Ids
  <2> QED
    BY <1>0, <1>3, <1>8, <2>1, QuietSeq
<1>12. SlotInv'
  BY <1>0, <1>2, <1>8, <1>9, QuietSlot DEF Running
<1> QED
  BY <1>10, <1>11, <1>12 DEF Deep

\* CREATE_SESSION builds the session.
LEMMA BuildDeep ==
  ASSUME Base, Counts', NEW t \in Threads, OneThread(t), CreateSessionBuild(t)
  PROVE  Deep'
<1>0. /\ StatInv /\ SeqInv /\ SlotInv /\ ThreadOK /\ Counts /\ CrInv /\ MutexInv /\ Types
      /\ sess \in [Sess -> SessT] /\ cid \in [Ids -> CidT] /\ th[t] \in ThT
      /\ last.session \in Nat /\ LastInv
  BY SMT DEF Base, Deep, Counts, Types, ThreadOK, StatInv
<1>1. th[t].pc = "cs_lock" /\ mutex = None /\ ht' = ht /\ cr' = cr /\ last.session < MaxSess
  BY DEF CreateSessionBuild, Lock
<1>2. th[t].found \in Ids /\ th[t].slot = 0
  BY <1>0, <1>1 DEF ThreadOK, Shape, Exp, ThT
<1>3. PICK c \in Ids : c = th[t].found
  BY <1>2
<1>4. PICK n \in Sess : n = last.session + 1
  BY <1>0, <1>1, BoundsAssumption, SMTT(30) DEF Sess
<1>5. /\ th[t].seq = cid[c].seq
      /\ sess' = [sess EXCEPT ![n] = [NoSession EXCEPT !.ref = 2, !.cid = c,
                                      !.hashed = TRUE, !.csq = th[t].seq]]
  BY <1>3, <1>4 DEF CreateSessionBuild
<1>6. /\ \A x \in Sess \ {n} : sess'[x] = sess[x]
      /\ sess'[n].cid = c /\ sess'[n].csq = cid[c].seq /\ SlotNew(sess'[n])
  BY <1>0, <1>5, SMT DEF NoSession, SlotNew
<1>7. \/ /\ th'[t] = [th[t] EXCEPT !.pc = "exp_mark", !.old = cr.confirmed,
                        !.exp = cr.confirmed, !.back = "cs_confirm", !.s = n]
         /\ cid' = inc_client_id_ref(inc_client_id_ref(cid, c), cr.confirmed)
      \/ /\ th'[t] = [th[t] EXCEPT !.pc = "cs_confirm", !.s = n,
                        !.unconf = @ /\ cr.confirmed = 0]
         /\ cid' = inc_client_id_ref(cid, c)
  BY <1>0, <1>3, <1>4 DEF CreateSessionBuild, ThreadOK
<1>8. \A d \in Ids : cid'[d].status = cid[d].status /\ cid'[d].seq = cid[d].seq
  <2>1. PICK A : A = inc_client_id_ref(cid, c)
    OBVIOUS
  <2>2. A \in [Ids -> CidT] /\ \A d \in Ids : A[d].status = cid[d].status /\ A[d].seq = cid[d].seq
    BY <1>0, <2>1, IncRef, SMTT(30)
  <2>3. cid' = A \/ cid' = inc_client_id_ref(A, cr.confirmed)
    BY <1>7, <2>1, SMT
  <2> QED
    BY <2>2, <2>3, IncRef, SMTT(30)
<1>9. /\ Creating(th'[t]) /\ th'[t].s = n /\ th'[t].found = c /\ ~Running(th'[t])
      /\ StatT(th[t])'
  <2>1. CASE th'[t] = [th[t] EXCEPT !.pc = "exp_mark", !.old = cr.confirmed,
                        !.exp = cr.confirmed, !.back = "cs_confirm", !.s = n]
    <3>1. /\ th'[t].pc = "exp_mark" /\ th'[t].exp = cr.confirmed /\ th'[t].back = "cs_confirm"
          /\ th'[t].s = n /\ th'[t].found = c
      BY <1>0, <1>3, <2>1 DEF ThT
    <3> QED
      BY <1>1, <3>1 DEF Creating, Exp, Running, StatT
  <2>2. CASE th'[t] = [th[t] EXCEPT !.pc = "cs_confirm", !.s = n,
                        !.unconf = @ /\ cr.confirmed = 0]
    <3>1. /\ th'[t].pc = "cs_confirm" /\ (th'[t].unconf => cr.confirmed = 0)
          /\ th'[t].s = n /\ th'[t].found = c
      BY <1>0, <1>3, <2>2 DEF ThT
    <3> QED
      BY <1>1, <3>1 DEF Creating, Exp, Running, StatT
  <2> QED
    BY <1>7, <2>1, <2>2
<1>10. StatInv'
  BY <1>0, <1>1, <1>8, <1>9, QuietStat DEF InPlace
<1>11. SeqInv'
  <2>1. \A u \in Threads : ~Creating(th[u])
    <3>1. \A u \in Threads \ {t} : ~Creating(th[u])
      BY <1>0, <1>1, <1>9, LockedStat
    <3> QED
      BY <1>1, <3>1, SMTT(30) DEF Creating, Exp
  <2>2. \A x \in Sess : sess[x].hashed => sess[x].csq < cid[sess[x].cid].seq /\ sess[x].cid \in Ids
    <3>1. \A x \in Sess : sess[x].hashed => sess[x].csq < cid[sess[x].cid].seq
      BY <1>0, <2>1 DEF SeqInv, Creates
    <3>2. \A x \in Sess : sess[x].hashed => sess[x].cid \in Ids
      BY <1>0, BoundsAssumption, SMT DEF LastInv, Types, NoSession, Sess, Ids
    <3> QED
      BY <3>1, <3>2, SMTT(30)
  <2>3. Creates(t, n)'
    BY <1>6, <1>8, <1>9 DEF Creates
  <2>4. \A x \in Sess \ {n} : sess'[x].hashed => sess'[x].csq < cid'[sess'[x].cid].seq
    BY <1>6, <1>8, <2>2, SMTT(30)
  <2>5. \A x \in Sess \ {n} : sess'[x].hashed /\ sess'[x].cid = c => sess'[x].csq # sess'[n].csq
    <3>1. cid[c].seq \in Nat /\ \A x \in Sess : sess[x].csq \in Nat
      BY <1>0 DEF CidT, SessT
    <3> QED
      BY <1>6, <2>2, <3>1, SMTT(30)
  <2>6. CreatedOnce'
    BY <1>0, <1>6, <2>5, SMTT(30) DEF CreatedOnce, SeqInv
  <2> QED
    BY <2>3, <2>4, <2>6 DEF SeqInv
<1>12. SlotInv'
  <2>1. \A u \in Threads : th[u].s # n
    BY <1>0, <1>4, SMTT(30) DEF LastInv, ThreadOK, ThT
  <2>2. \A s \in Sess : SlotKept(t, s)
    BY <1>6, <2>1 DEF SlotKept, SlotEq
  <2> QED
    BY <1>0, <1>2, <1>9, <2>2, QuietSlot
<1> QED
  BY <1>10, <1>11, <1>12 DEF Deep

=============================================================================
