--------------------------- MODULE SessionsProofs ---------------------------
(***************************************************************************)
(* Proofs about Sessions, for any number of worker threads, incarnations,  *)
(* client ids, sessions and requests.                                      *)
(***************************************************************************)
EXTENDS SessionsRequests, SessionsExpire, FiniteSetTheorems

\* The prover of the leaves that name no other.
USE ZenonT(30)

-----------------------------------------------------------------------------
(***************************************************************************)
(* The invariant, and what follows from it                                 *)
(***************************************************************************)
\* Every step keeps the counts.
LEMMA CountsStep ==
  ASSUME ThreadOK, Counts, CrInv, [Next]_vars
  PROVE  Counts'
<1>1. ASSUME NEW t \in Threads, Request(t)
      PROVE  Counts'
  <2>1. ASSUME NEW i \in Incs, ExchangeId(t, i) PROVE Counts'
    BY <2>1, ExchangeIdCounts
  <2>2. ASSUME NEW i \in Incs, ExchangeIdClash(t, i) PROVE Counts'
    BY <2>2, ClashCounts
  <2>3. ASSUME NEW c \in Ids, DestroyClientid(t, c) PROVE Counts'
    BY <2>3, DestroyIdCounts
  <2>4. ASSUME NEW c \in Ids, NEW q \in 1..MaxSess, CreateSession(t, c, q) PROVE Counts'
    BY <2>4, CreateCounts
  <2>5. ASSUME NEW s \in Sess, DestroySession(t, s) PROVE Counts'
    BY <2>5, DestroySessionCounts
  <2>6. ASSUME NEW s \in Sess, NEW q \in 0..MaxSeq, Sequence(t, s, q) PROVE Counts'
    BY <2>6, SequenceCounts
  <2> QED
    BY <1>1, <2>1, <2>2, <2>3, <2>4, <2>5, <2>6, SMTT(30) DEF Request
<1>2. ASSUME NEW t \in Threads, Continue(t)
      PROVE  Counts'
  BY <1>2, ExchangeIdNewCounts, RefuseCounts, BuildCounts, UpdateCounts, ConfirmCounts,
     LateCounts, DestroyCounts, DelCounts, LeaseCounts, NextCounts, SequenceRefuseCounts,
     ExecCounts, CompleteCounts, ExpireLockCounts, ExpireCounts, SMTT(30) DEF Continue
<1>3. ASSUME NEW c \in Ids, Reap(c) PROVE Counts'
  BY <1>3, ReapCounts
<1>4. ASSUME NEW c \in Ids, Age(c) PROVE Counts'
  BY <1>4, AgeCounts, SMTT(30)
<1>5. CASE UNCHANGED vars
  BY <1>5, SMTT(30) DEF vars, Counts, Types, LastInv, RefEq, StatusEq, SessEq, Held, Hashed,
              SessionsOf, Finders, Olds, Owners, Users
<1> QED
  BY <1>1, <1>2, <1>3, <1>4, <1>5 DEF Next, Threads

\* One element less.
LEMMA CountRemove ==
  ASSUME NEW S, IsFiniteSet(S), NEW t
  PROVE  /\ Cardinality(S) \in Nat
         /\ Cardinality(S \ {t}) \in Nat
         /\ Cardinality(S \ {t}) = Cardinality(S) - Bit(t \in S)
  BY FS_RemoveElement, FS_CardinalityType, SMTT(30) DEF Bit

\* Two finite sets that differ at most in one element.
LEMMA CountOne ==
  ASSUME NEW S, NEW R, IsFiniteSet(S), IsFiniteSet(R), NEW t, S \ {t} = R \ {t}
  PROVE  /\ Cardinality(S) >= Bit(t \in S)
         /\ Cardinality(R) = Cardinality(S) + Bit(t \in R) - Bit(t \in S)
<1>1. /\ Cardinality(S) \in Nat /\ Cardinality(S \ {t}) \in Nat
      /\ Cardinality(S \ {t}) = Cardinality(S) - Bit(t \in S)
  BY CountRemove
<1>2. /\ Cardinality(R) \in Nat
      /\ Cardinality(R \ {t}) = Cardinality(R) - Bit(t \in R)
  BY CountRemove
<1>3. Cardinality(S) - Bit(t \in S) = Cardinality(R) - Bit(t \in R)
  BY <1>1, <1>2
<1>4. Bit(t \in S) \in Int /\ Bit(t \in R) \in Int
  BY SMT DEF Bit
<1>5. Cardinality(S) - Bit(t \in S) \in Nat
  BY <1>1
<1> QED
  BY <1>1, <1>2, <1>3, <1>4, <1>5, SMTT(30)

\* The threads and the sessions are finite, so that counting them obeys the laws
\* the other modules rely on.
LEMMA CountingHolds == Counting
<1>1. ASSUME NEW T \in {Threads, Sess} PROVE IsFiniteSet(T)
  <2>1. IsFiniteSet(Threads)
    BY ThreadsAssumption, FS_AddElement DEF Threads
  <2>2. IsFiniteSet(Sess)
    BY FS_Interval, BoundsAssumption, SMTT(30) DEF Sess
  <2> QED
    BY <2>1, <2>2
<1>2. ASSUME NEW T \in {Threads, Sess}, NEW S \in SUBSET T, NEW R \in SUBSET T
      PROVE  /\ Cardinality(S) \in Nat
             /\ R \subseteq S => Cardinality(S \ R) = Cardinality(S) - Cardinality(R)
             /\ \A t : S \ {t} = R \ {t} =>
                         /\ Cardinality(S) >= Bit(t \in S)
                         /\ Cardinality(R) = Cardinality(S) + Bit(t \in R) - Bit(t \in S)
  <2>1. IsFiniteSet(S) /\ IsFiniteSet(R)
    BY <1>1, FS_Subset
  <2>2. Cardinality(S) \in Nat
    BY <2>1, FS_CardinalityType
  <2>3. ASSUME R \subseteq S PROVE Cardinality(S \ R) = Cardinality(S) - Cardinality(R)
    <3>1. S \cap R = R
      BY <2>3
    <3> QED
      BY <2>1, <3>1, FS_Difference, SMTT(30)
  <2>4. ASSUME NEW t, S \ {t} = R \ {t}
        PROVE  /\ Cardinality(S) >= Bit(t \in S)
               /\ Cardinality(R) = Cardinality(S) + Bit(t \in R) - Bit(t \in S)
    BY <2>1, <2>4, CountOne
  <2> QED
    BY <2>2, <2>3, <2>4
<1> QED
  BY <1>2 DEF Counting

\* The counts are natural numbers.
LEMMA CountsNat ==
  ASSUME Counts
  PROVE  /\ \A c \in Ids : cid[c].ref \in Nat
         /\ \A s \in Sess : sess[s].ref \in Nat
<1>1. ASSUME NEW T \in {Threads, Sess}, NEW X \in SUBSET T PROVE Cardinality(X) \in Nat
  BY CountingHolds DEF Counting
<1>3. ASSUME NEW c \in Ids PROVE cid[c].ref \in Nat
  <2>1. /\ Cardinality(Finders(c)) \in Nat /\ Cardinality(Olds(c)) \in Nat
        /\ Cardinality(Owners(c)) \in Nat
    BY <1>1 DEF Finders, Olds, Owners
  <2>2. Cardinality(SessionsOf(c)) \in Nat
    BY <1>1 DEF SessionsOf
  <2>3. leaked[c] \in Nat /\ Bit(c \in Hashed) \in Nat
    BY DEF Counts, Types, Bit
  <2>4. cid[c].ref = Held(c)
    BY DEF Counts, RefEq
  <2> QED
    BY <2>1, <2>2, <2>3, <2>4, SMTT(30) DEF Held
<1>4. ASSUME NEW s \in Sess PROVE sess[s].ref \in Nat
  <2>1. Cardinality(Users(s)) \in Nat
    BY <1>1 DEF Users
  <2>2. sess[s].ref = Bit(sess[s].hashed) + Cardinality(Users(s)) /\ Bit(sess[s].hashed) \in Nat
    BY DEF Counts, SessEq, Bit
  <2> QED
    BY <2>1, <2>2, SMTT(30)
<1> QED
  BY <1>3, <1>4

\* The inductive invariant holds initially.
LEMMA IInvInit == Init => IInv
<1> SUFFICES ASSUME Init PROVE IInv
  OBVIOUS
<1>0. /\ 0 \notin Ids /\ 0 \notin Sess /\ 0 \in 0..MaxIds /\ 0 \in 0..MaxSess
  BY BoundsAssumption, SMTT(30) DEF Ids, Sess
<1>1. \A t \in Threads : th[t] = Idle
  BY DEF Init
<1>2. ThreadOK
  BY <1>1, IdleType DEF Init, ThreadOK, Shape, Idle, Exp
<1>3. Hashed = {}
  BY DEF Init, Hashed
<1>4. Types
  <2>1. cid \in [Ids -> CidT] /\ sess \in [Sess -> SessT]
    BY NoCidType, NoSessionType DEF Init
  <2>2. last \in [id : 0..MaxIds, session : 0..MaxSess] /\ leaked \in [Ids -> Nat]
    BY <1>0 DEF Init
  <2>3. /\ ht \in [{"confirmed", "unconfirmed"} -> SUBSET Ids]
        /\ cr \in [{"confirmed", "unconfirmed"} -> Ids \cup {0}]
    BY SMT DEF Init
  <2> QED
    BY <2>1, <2>2, <2>3, CountingHolds DEF Types, Init
<1>5. LastInv
  <2>1. last.id = 0 /\ last.session = 0 /\ cr.confirmed = 0 /\ cr.unconfirmed = 0
    BY DEF Init
  <2>2. \A s \in Sess : s > 0 /\ sess[s] = NoSession
    BY SMT DEF Init, Sess
  <2>3. \A c \in Ids : cid[c].ref = 0 /\ cid[c].status = "none" /\ leaked[c] = 0
    BY DEF Init, NoCid
  <2>4. \A t \in Threads : th[t].s = 0 /\ th[t].slot = 0 /\ th[t].found = 0 /\ th[t].old = 0
    BY <1>1, SMTT(30) DEF Idle
  <2>5. \A s \in Sess : ~(s <= 0)
    BY SMT DEF Sess
  <2> QED
    BY <1>3, <2>1, <2>2, <2>3, <2>4, <2>5, SMTT(30) DEF LastInv
<1>6. ASSUME NEW c \in Ids PROVE Held(c) = 0
  <2>1. SessionsOf(c) = {}
    BY SMT DEF SessionsOf, Init, NoSession
  <2>2. Finders(c) = {} /\ Olds(c) = {} /\ Owners(c) = {}
    BY <1>0, <1>1, SMTT(30) DEF Finders, Olds, Owners, Idle
  <2>3. Bit(c \in Hashed) = 0 /\ leaked[c] = 0
    BY <1>3 DEF Bit, Init
  <2>4. Held(c) = 0 + 0 + 0 + 0 + 0 + 0
    BY <2>1, <2>2, <2>3, FS_EmptySet DEF Held
  <2> QED
    BY <2>4, SMTT(30)
<1>7. RefEq /\ StatusEq
  BY <1>6 DEF Init, RefEq, StatusEq, NoCid
<1>8. SessEq
  <2> SUFFICES ASSUME NEW s \in Sess
               PROVE  sess[s].ref = Bit(sess[s].hashed) + Cardinality(Users(s))
    BY DEF SessEq
  <2>1. Users(s) = {}
    BY <1>0, <1>1, SMTT(30) DEF Users, Idle
  <2>2. Cardinality(Users(s)) = 0
    BY <2>1, FS_EmptySet
  <2>3. sess[s].ref = 0 /\ Bit(sess[s].hashed) = 0
    BY DEF Init, NoSession, Bit
  <2> QED
    BY <2>2, <2>3, SMTT(30)
<1>9. MutexInv
  BY <1>1, NoneNoThread DEF MutexInv, Init, Critical, Exp, Idle
<1>10. CrInv /\ TabInv
  BY <1>1, SMTT(30) DEF CrInv, TabInv, Init, Tables, Exp, Idle
<1> QED
  BY <1>2, <1>4, <1>5, <1>7, <1>8, <1>9, <1>10 DEF IInv, Counts

\* Every step preserves the inductive invariant.
LEMMA IInvNext == IInv /\ [Next]_vars => IInv'
BY ThreadOKStep, CountsStep, MutexStep, CrStep DEF IInv, Counts, Ground

\* The inductive invariant implies the types.
LEMMA IInvTypes == IInv => TypeOK
<1> SUFFICES ASSUME IInv PROVE TypeOK
  OBVIOUS
<1>1. cid \in [Ids -> Cid]
  <2>1. ASSUME NEW r \in CidT, r.ref \in Nat PROVE r \in Cid
    BY <2>1 DEF CidT, Cid, Statuses
  <2> QED
    BY <2>1, CountsNat DEF IInv, Counts, Types
<1>2. sess \in [Sess -> Session]
  <2>1. ASSUME NEW x \in SessT, x.ref \in Nat PROVE x \in Session
    BY <2>1 DEF SessT, Session
  <2> QED
    BY <2>1, CountsNat DEF IInv, Counts, Types
<1>3. th \in [Threads -> Thread]
  <2>1. ASSUME NEW x \in ThT, x.tab \in {None} \cup Tables PROVE x \in Thread
    BY <2>1 DEF ThT, Thread, PCs, Tables
  <2> QED
    BY <2>1 DEF IInv, ThreadOK, TabInv
<1> QED
  BY <1>1, <1>2, <1>3 DEF TypeOK, IInv, Counts, Types

-----------------------------------------------------------------------------
(***************************************************************************)
(* Every step: the status, the sequences and the slots                     *)
(***************************************************************************)
\* A step that changes neither a status, nor a sequence, nor a slot.
LEMMA StillDeep ==
  ASSUME Base, th' = th, sess' = sess, ht' = ht, cr' = cr,
         \A c \in Ids : cid'[c].status = cid[c].status /\ cid'[c].seq = cid[c].seq
  PROVE  Deep'
<1>0. StatInv /\ SeqInv /\ SlotInv /\ ThreadOK /\ Counts /\ CrInv
  BY DEF Base, Deep
<1>1. \A t \in Threads : /\ th[t].pc = "exp_unhash" => th[t].exp \in Ids
                         /\ Creating(th[t]) => th[t].found \in Ids
  <2> TAKE t \in Threads
  <2>1. th[t] \in ThT /\ Shape(th[t])
    BY <1>0 DEF ThreadOK
  <2> QED
    BY <2>1 DEF ThT, Shape, Exp, Creating
<1>2. \A s \in Sess : sess[s].hashed => sess[s].cid \in Ids
  BY <1>0, BoundsAssumption, SMTT(30) DEF Counts, LastInv, Types, NoSession, Sess, Ids
<1>3. StatInv'
  <2>1. \A t \in Threads : StatT(th[t])'
    BY <1>0, <1>1, SMTT(30) DEF StatInv, StatT, Creating
  <2> QED
    BY <1>0, <2>1 DEF StatInv
<1>4. SeqInv'
  <2>1. \A s \in Sess, t \in Threads : Creates(t, s) => Creates(t, s)'
    BY <1>1 DEF Creates
  <2>2. CreatedOnce'
    BY <1>0 DEF SeqInv, CreatedOnce
  <2> QED
    BY <1>0, <1>2, <2>1, <2>2, SMTT(30) DEF SeqInv
<1>5. SlotInv'
  BY <1>0 DEF SlotInv, SlotT, ExactlyOnce
<1> QED
  BY <1>3, <1>4, <1>5 DEF Deep

\* Every step preserves what the status, the sequences and the slots obey.
LEMMA DeepStep ==
  ASSUME Base, Counts', CrInv', [Next]_vars
  PROVE  Deep'
<1>0. ThreadOK /\ Ground /\ cid \in [Ids -> CidT]
  BY DEF Base, Counts, Ground, Types
<1>1. ASSUME NEW t \in Threads, Request(t) PROVE Deep'
  <2>1. OneThread(t)
    BY <1>0, <1>1, RequestThread
  <2> QED
    BY <1>1, <2>1, ExchangeDeep, LookupDeep, SessionLookupDeep DEF Request
<1>2. ASSUME NEW t \in Threads, Continue(t) PROVE Deep'
  <2>1. OneThread(t)
    BY <1>0, <1>2, ContinueThread
  <2>2. CASE Expire(t)
    BY <2>1, <2>2, ExpiryDeep, MarkDeep, UnhashDeep, ReleaseDeep DEF Expire
  <2>3. CASE ~Expire(t)
    BY <1>2, <2>1, <2>3, ExchangeDeep, LeaseDeep, BuildDeep, UpdateDeep, ConfirmDeep, LateDeep,
       DestroyDeep, ReleaseDeep, NextDeep, RefuseDeep, ExecDeep, CompleteDeep DEF Continue
  <2> QED
    BY <2>2, <2>3
<1>3. ASSUME NEW c \in Ids, Reap(c) PROVE Deep'
  <2>1. Reaper \in Threads /\ OneThread(Reaper)
    BY <1>0, <1>3, ReapThread
  <2> QED
    BY <1>3, <2>1, LookupDeep
<1>4. ASSUME NEW c \in Ids, Age(c) PROVE Deep'
  <2>1. /\ th' = th /\ sess' = sess /\ ht' = ht /\ cr' = cr
        /\ cid' = [cid EXCEPT ![c].fresh = FALSE]
    BY <1>4 DEF Age
  <2>2. \A d \in Ids : cid'[d].status = cid[d].status /\ cid'[d].seq = cid[d].seq
    BY <1>0, <2>1 DEF CidT
  <2> QED
    BY <2>1, <2>2, StillDeep
<1>5. CASE UNCHANGED vars
  BY <1>5, StillDeep DEF vars
<1> QED
  BY <1>1, <1>2, <1>3, <1>4, <1>5 DEF Next, Threads

\* Initially there is nothing.
LEMMA DeepInit == Init => Deep
<1> SUFFICES ASSUME Init PROVE Deep
  OBVIOUS
<1>1. /\ \A t \in Threads : th[t].pc = "idle" /\ th[t].s = 0
      /\ \A c \in Ids : cid[c].status = "none"
      /\ cr.confirmed = 0 /\ cr.unconfirmed = 0 /\ 0 \notin Ids
      /\ \A s \in Sess : ~sess[s].hashed /\ SlotNew(sess[s])
  <2>1. ~NoSession.hashed /\ SlotNew(NoSession) /\ \A s \in Sess : sess[s] = NoSession
    BY DEF Init, NoSession, SlotNew
  <2> QED
    BY <2>1, SMTT(30) DEF Init, Idle, NoCid, Ids
<1>2. StatInv
  BY <1>1 DEF StatInv, StatT, Creating, Exp, Tables
<1>3. SeqInv
  BY <1>1 DEF SeqInv, CreatedOnce
<1>4. SlotInv
  <2>1. \A t \in Threads : SlotT(t)
    BY <1>1 DEF SlotT, Running
  <2>2. \A s \in Sess : /\ \A q \in 1..MaxSeq : sess[s].ran[q] = 0
                        /\ sess[s].sequence = sess[s].cached
    BY <1>1 DEF SlotNew
  <2> QED
    BY <2>1, <2>2, SMTT(30) DEF SlotInv, ExactlyOnce
<1> QED
  BY <1>2, <1>3, <1>4 DEF Deep

-----------------------------------------------------------------------------
(***************************************************************************)
(* The theorems                                                            *)
(***************************************************************************)
\* The inductive invariant holds in every reachable state.
LEMMA Invariant == Spec => []IInv
<1>1. Init => IInv
  BY IInvInit
<1>2. IInv /\ [Next]_vars => IInv'
  BY IInvNext
<1> QED
  BY <1>1, <1>2, PTL DEF Spec

\* Every variable has the type the code declares for it, in any number of
\* threads, client ids, sessions and sequence ids; in particular the unsigned
\* reference counts of client ids and sessions never pass below zero.
THEOREM TypeCorrect == Spec => []TypeOK
  BY Invariant, IInvTypes, PTL

\* The reference counts of client ids and sessions are exact: what inc_client_id_ref
\* and dec_client_id_ref, inc_session_ref and dec_session_ref count is what the
\* tables, the sessions and the threads hold.
THEOREM RefsCorrect == Spec => []Refs
<1>1. IInv => Refs
  BY RefsParts DEF IInv, Counts
<1> QED
  BY <1>1, Invariant, PTL

\* With it goes what the status, the sequences and the slots obey.
LEMMA DeepInvariant == Spec => [](IInv /\ Deep)
<1>1. Init => IInv /\ Deep
  BY IInvInit, DeepInit
<1>2. IInv /\ Deep /\ [Next]_vars => (IInv /\ Deep)'
  BY IInvNext, DeepStep DEF IInv, Base
<1> QED
  BY <1>1, <1>2, PTL DEF Spec

\* A client owner never has two confirmed client ids, its client record points to
\* the confirmed one and to an unconfirmed one or to none, and the table that
\* nfs_client_id_expire looks in holds the client id it is about to unhash, so
\* that its fatal error is never met.
THEOREM OneConfirmedCorrect == Spec => []OneConfirmed
<1>1. Deep => OneConfirmed
  BY DEF Deep, StatInv, StatT, OneConfirmed, Tables
<1> QED
  BY <1>1, DeepInvariant, PTL

\* The slot of nfs4_op_sequence gives exactly-once semantics: no request runs
\* twice, and the cached reply is that of the slot's last request once no
\* compound holds the slot.
THEOREM ExactlyOnceCorrect == Spec => []ExactlyOnce
<1>1. Deep => ExactlyOnce
  BY DEF Deep, SlotInv
<1> QED
  BY <1>1, DeepInvariant, PTL

\* nfs4_op_create_session never leaves two sessions in the table for one client
\* id and one csa_sequence, however lookups, retransmissions and the expiry of
\* the former client id interleave.
THEOREM CreatedOnceCorrect == Spec => []CreatedOnce
<1>1. Deep => CreatedOnce
  BY DEF Deep, SeqInv
<1> QED
  BY <1>1, DeepInvariant, PTL

=============================================================================
