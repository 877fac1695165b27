--------------------------- MODULE SessionsLemmas ---------------------------
(***************************************************************************)
(* Lemmas about Sessions: counting holders, the helpers of the model, what *)
(* a thread holds at each point, how the kinds of steps change the         *)
(* references, what lies behind OneConfirmed, CreatedOnce and ExactlyOnce  *)
(* (the status of the client ids, the sequence of CREATE_SESSION and the   *)
(* slots), and the control of the threads under cr_mutex.                  *)
(***************************************************************************)
EXTENDS Sessions, TLAPS

\* The prover of the leaves that name no other.
USE ZenonT(30)

-----------------------------------------------------------------------------
(***************************************************************************)
(* Counting                                                                *)
(***************************************************************************)
\* Sets of threads, or of sessions: one within another, and two that differ at
\* most in one element. SessionsProofs derives it from the library.
Counting ==
    \A T \in {Threads, Sess} : \A S, R \in SUBSET T :
        /\ Cardinality(S) \in Nat
        /\ R \subseteq S => Cardinality(S \ R) = Cardinality(S) - Cardinality(R)
        /\ \A t : S \ {t} = R \ {t} =>
                    /\ Cardinality(S) >= Bit(t \in S)
                    /\ Cardinality(R) = Cardinality(S) + Bit(t \in R) - Bit(t \in S)

\* Sets of threads, or of sessions, that differ in t at most differ in size
\* by at most one.
LEMMA CountStep ==
  ASSUME Counting, NEW T \in {Threads, Sess}, NEW S \in SUBSET T, NEW R \in SUBSET T, NEW t,
         S \ {t} = R \ {t}
  PROVE  /\ Cardinality(S) \in Nat /\ Cardinality(R) \in Nat
         /\ Cardinality(S) >= Bit(t \in S)
         /\ Cardinality(R) = Cardinality(S) + Bit(t \in R) - Bit(t \in S)
<1>1. Cardinality(S) \in Nat /\ Cardinality(R) \in Nat
  BY DEF Counting
<1>2. /\ Cardinality(S) >= Bit(t \in S)
      /\ Cardinality(R) = Cardinality(S) + Bit(t \in R) - Bit(t \in S)
  <2>1. \A u : S \ {u} = R \ {u} =>
                    /\ Cardinality(S) >= Bit(u \in S)
                    /\ Cardinality(R) = Cardinality(S) + Bit(u \in R) - Bit(u \in S)
    BY DEF Counting
  <2> QED
    BY <2>1
<1> QED
  BY <1>1, <1>2

\* The size of a difference of finite sets.
LEMMA CountLess ==
  ASSUME Counting, NEW T \in {Threads, Sess}, NEW S \in SUBSET T, NEW R \in SUBSET S
  PROVE  /\ Cardinality(S) \in Nat /\ Cardinality(R) \in Nat /\ Cardinality(S \ R) \in Nat
         /\ Cardinality(S \ R) = Cardinality(S) - Cardinality(R)
  BY DEF Counting

\* Who holds what, after a step that changes one thread only.
LEMMA FinderCounts ==
  ASSUME Counting, NEW t \in Threads, \A u \in Threads \ {t} : th'[u] = th[u], NEW c
  PROVE  /\ Cardinality(Finders(c)) \in Nat
         /\ Cardinality(Finders(c)) >= Bit(th[t].found = c)
         /\ Cardinality(Finders(c)') = Cardinality(Finders(c))
                + Bit(th'[t].found = c) - Bit(th[t].found = c)
<1>1. Finders(c) \ {t} = Finders(c)' \ {t}
  BY DEF Finders
<1>2. (t \in Finders(c) <=> th[t].found = c) /\ (t \in Finders(c)' <=> th'[t].found = c)
  BY DEF Finders
<1>3. Finders(c) \in SUBSET Threads /\ Finders(c)' \in SUBSET Threads
  BY DEF Finders
<1> QED
  BY <1>1, <1>2, <1>3, CountStep, SMT DEF Bit

\* What a step of one thread does to the number of threads that hold a client
\* id as the old one.
LEMMA OldCounts ==
  ASSUME Counting, NEW t \in Threads, \A u \in Threads \ {t} : th'[u] = th[u], NEW c
  PROVE  /\ Cardinality(Olds(c)) \in Nat
         /\ Cardinality(Olds(c)) >= Bit(th[t].old = c)
         /\ Cardinality(Olds(c)') = Cardinality(Olds(c))
                + Bit(th'[t].old = c) - Bit(th[t].old = c)
<1>1. Olds(c) \ {t} = Olds(c)' \ {t}
  BY DEF Olds
<1>2. (t \in Olds(c) <=> th[t].old = c) /\ (t \in Olds(c)' <=> th'[t].old = c)
  BY DEF Olds
<1>3. Olds(c) \in SUBSET Threads /\ Olds(c)' \in SUBSET Threads
  BY DEF Olds
<1> QED
  BY <1>1, <1>2, <1>3, CountStep, SMT DEF Bit

\* What a step of one thread does to the number of threads that own the
\* reference a hash table had.
LEMMA OwnerCounts ==
  ASSUME Counting, NEW t \in Threads, \A u \in Threads \ {t} : th'[u] = th[u], NEW c
  PROVE  /\ Cardinality(Owners(c)) \in Nat
         /\ Cardinality(Owners(c)) >= Bit(th[t].own /\ th[t].exp = c)
         /\ Cardinality(Owners(c)') = Cardinality(Owners(c))
                + Bit(th'[t].own /\ th'[t].exp = c) - Bit(th[t].own /\ th[t].exp = c)
<1>1. Owners(c) \ {t} = Owners(c)' \ {t}
  BY DEF Owners
<1>2. /\ t \in Owners(c) <=> (th[t].own /\ th[t].exp = c)
      /\ t \in Owners(c)' <=> (th'[t].own /\ th'[t].exp = c)
  BY DEF Owners
<1>3. Owners(c) \in SUBSET Threads /\ Owners(c)' \in SUBSET Threads
  BY DEF Owners
<1> QED
  BY <1>1, <1>2, <1>3, CountStep, SMT DEF Bit

\* What a step of one thread does to the number of threads that hold a
\* session.
LEMMA UserCounts ==
  ASSUME Counting, NEW t \in Threads, \A u \in Threads \ {t} : th'[u] = th[u], NEW s
  PROVE  /\ Cardinality(Users(s)) \in Nat
         /\ Cardinality(Users(s)) >= Bit(th[t].s = s)
         /\ Cardinality(Users(s)') = Cardinality(Users(s))
                + Bit(th'[t].s = s) - Bit(th[t].s = s)
<1>1. Users(s) \ {t} = Users(s)' \ {t}
  BY DEF Users
<1>2. (t \in Users(s) <=> th[t].s = s) /\ (t \in Users(s)' <=> th'[t].s = s)
  BY DEF Users
<1>3. Users(s) \in SUBSET Threads /\ Users(s)' \in SUBSET Threads
  BY DEF Users
<1> QED
  BY <1>1, <1>2, <1>3, CountStep, SMT DEF Bit

\* The sessions of a client id, after a step that changes one session only.
LEMMA SessionCounts ==
  ASSUME Counting, NEW s, \A x \in Sess \ {s} : sess'[x] = sess[x], NEW c
  PROVE  /\ Cardinality(SessionsOf(c)) \in Nat
         /\ Cardinality(SessionsOf(c)) >=
                Bit(s \in Sess /\ sess[s].ref > 0 /\ sess[s].cid = c)
         /\ Cardinality(SessionsOf(c)') = Cardinality(SessionsOf(c))
                + Bit(s \in Sess /\ sess'[s].ref > 0 /\ sess'[s].cid = c)
                - Bit(s \in Sess /\ sess[s].ref > 0 /\ sess[s].cid = c)
<1>1. SessionsOf(c) \ {s} = SessionsOf(c)' \ {s}
  BY DEF SessionsOf
<1>2. /\ s \in SessionsOf(c) <=> s \in Sess /\ sess[s].ref > 0 /\ sess[s].cid = c
      /\ s \in SessionsOf(c)' <=> s \in Sess /\ sess'[s].ref > 0 /\ sess'[s].cid = c
  BY DEF SessionsOf
<1>3. SessionsOf(c) \in SUBSET Sess /\ SessionsOf(c)' \in SUBSET Sess
  BY DEF SessionsOf
<1> QED
  BY <1>1, <1>2, <1>3, CountStep, SMT DEF Bit

-----------------------------------------------------------------------------
(***************************************************************************)
(* Types, with reference counts that may be any integer and any status for *)
(* the table: that these are what TypeOK says follows from the counts.     *)
(***************************************************************************)
Statuses == {"none", "unconfirmed", "confirmed", "expired", "freed"}

CidT == [status : Statuses, ref : Int, inc : Incs \cup {None}, seq : Nat, resv : Int,
         fresh : BOOLEAN, state : SUBSET Kinds]

SessT == [ref : Int, cid : Ids \cup {0}, hashed : BOOLEAN, csq : Nat,
          sequence : Nat, cached : Nat, lock : Threads \cup {None},
          ran : [1..MaxSeq -> Nat], torn : BOOLEAN]

PCs == {"idle", "ex_new", "cs_lock", "cs_confirm", "dc_lock",
        "ds_del", "sq_lease", "sq_expire", "sq_slot", "sq_exec",
        "sq_complete", "rp_lock", "exp_mark",
        "exp_unhash", "exp_state", "exp_sessions", "exp_back"}

ThT == [pc : PCs, found : Ids \cup {0}, old : Ids \cup {0}, unconf : BOOLEAN,
        inc : Incs \cup {None}, exp : Ids \cup {0}, own : BOOLEAN,
        tab : Statuses,
        back : {None, "ex_new", "cs_confirm", "sq_done", "rp_done"},
        s : Sess \cup {0}, slot : Sess \cup {0}, keep : Ids \cup {0},
        seq : 0..(MaxSeq + MaxSess)]

\* An unused client id is typed.
LEMMA NoCidType == NoCid \in CidT
  BY SMT DEF NoCid, CidT, Statuses

\* An unused session is typed.
LEMMA NoSessionType == NoSession \in SessT
  BY BoundsAssumption, SMT DEF NoSession, SessT

\* An idle thread is typed.
LEMMA IdleType == Idle \in ThT
  BY BoundsAssumption, SMT DEF Idle, ThT, PCs, None, Statuses

\* inc_client_id_ref and dec_client_id_ref: what they do to the count, and that
\* only a record whose count becomes zero changes its status.
LEMMA IncRef ==
  ASSUME NEW C \in [Ids -> CidT], NEW c
  PROVE  /\ inc_client_id_ref(C, c) \in [Ids -> CidT]
         /\ \A d \in Ids :
              /\ inc_client_id_ref(C, c)[d].ref = C[d].ref + Bit(d = c)
              /\ inc_client_id_ref(C, c)[d].status = C[d].status
              /\ inc_client_id_ref(C, c)[d].seq = C[d].seq
<1> DEFINE D == inc_client_id_ref(C, c)
<1>1. D = [d \in Ids |-> IF d = c THEN [C[d] EXCEPT !.ref = @ + 1] ELSE C[d]]
  BY DEF inc_client_id_ref
<1> HIDE DEF D
<1>2. \A r \in CidT : /\ [r EXCEPT !.ref = @ + 1] \in CidT
                      /\ [r EXCEPT !.ref = @ + 1].ref = r.ref + 1
                      /\ [r EXCEPT !.ref = @ + 1].status = r.status
                      /\ [r EXCEPT !.ref = @ + 1].seq = r.seq
  BY SMT DEF CidT
<1>3. \A d \in Ids : C[d] \in CidT /\ C[d].ref \in Int
  BY DEF CidT
<1>4. D \in [Ids -> CidT]
  BY <1>1, <1>2, <1>3
<1>5. ASSUME NEW d \in Ids
      PROVE  /\ D[d].ref = C[d].ref + Bit(d = c)
             /\ D[d].status = C[d].status
             /\ D[d].seq = C[d].seq
  <2>1. CASE d # c
    BY <2>1, <1>1, <1>3, SMT DEF Bit
  <2>2. CASE d = c
    BY <2>2, <1>1, <1>2, <1>3 DEF Bit
  <2> QED
    BY <2>1, <2>2
<1> QED
  BY <1>4, <1>5 DEF D

\* free_client_id leaves a typed record with no reference.
LEMMA FreedType ==
  ASSUME NEW r \in CidT
  PROVE  Freed(r) \in CidT /\ Freed(r).ref = 0 /\ Freed(r).status = "freed"
         /\ Freed(r).seq = r.seq
<1>1. r.seq \in Nat
  BY DEF CidT
<1>2. Freed(r) \in CidT
  BY <1>1, NoCidType DEF Freed, CidT, Statuses
<1>3. Freed(r).ref = 0 /\ Freed(r).status = "freed" /\ Freed(r).seq = r.seq
  BY DEF Freed, NoCid
<1> QED
  BY <1>2, <1>3

\* dec_client_id_ref drops one reference, frees the record with the last one
\* and changes no other record.
LEMMA DecRef ==
  ASSUME NEW C \in [Ids -> CidT], NEW c
  PROVE  /\ dec_client_id_ref(C, c) \in [Ids -> CidT]
         /\ \A d \in Ids :
              /\ dec_client_id_ref(C, c)[d].ref = C[d].ref - Bit(d = c)
              /\ dec_client_id_ref(C, c)[d].status =
                   IF d = c /\ C[d].ref = 1 THEN "freed" ELSE C[d].status
              /\ dec_client_id_ref(C, c)[d].seq = C[d].seq
<1> DEFINE D == dec_client_id_ref(C, c)
<1>1. D = [d \in Ids |-> IF d # c THEN C[d] ELSE Dropped(C[d])]
  BY DEF dec_client_id_ref
<1> USE DEF Dropped
<1> HIDE DEF D
<1>2. \A r \in CidT : /\ [r EXCEPT !.ref = @ - 1] \in CidT
                      /\ [r EXCEPT !.ref = @ - 1].ref = r.ref - 1
                      /\ [r EXCEPT !.ref = @ - 1].status = r.status
                      /\ [r EXCEPT !.ref = @ - 1].seq = r.seq
  BY SMT DEF CidT
<1>3. \A d \in Ids : C[d] \in CidT /\ C[d].ref \in Int
  BY DEF CidT
<1>4. D \in [Ids -> CidT]
  BY <1>1, <1>2, <1>3, FreedType
<1>5. ASSUME NEW d \in Ids
      PROVE  /\ D[d].ref = C[d].ref - Bit(d = c)
             /\ D[d].status = IF d = c /\ C[d].ref = 1 THEN "freed" ELSE C[d].status
             /\ D[d].seq = C[d].seq
  <2>1. CASE d # c
    BY <2>1, <1>1, <1>3, SMT DEF Bit
  <2>2. CASE d = c /\ C[d].ref = 1
    BY <2>2, <1>1, <1>3, FreedType, SMT DEF Bit
  <2>3. CASE d = c /\ C[d].ref # 1
    BY <2>3, <1>1, <1>2, <1>3 DEF Bit
  <2> QED
    BY <2>1, <2>2, <2>3
<1> QED
  BY <1>4, <1>5 DEF D

\* The same when there may be no client id to drop.
LEMMA DecRefIf ==
  ASSUME NEW C \in [Ids -> CidT], NEW c
  PROVE  /\ DecIf(C, c) \in [Ids -> CidT]
         /\ \A d \in Ids :
              /\ DecIf(C, c)[d].ref = C[d].ref - Bit(d = c)
              /\ DecIf(C, c)[d].status =
                   IF d = c /\ C[d].ref = 1 THEN "freed" ELSE C[d].status
              /\ DecIf(C, c)[d].seq = C[d].seq
<1>1. CASE c = 0
  <2>1. \A d \in Ids : d # c /\ C[d].ref \in Int
    BY <1>1, SMT DEF Ids, CidT
  <2> QED
    BY <1>1, <2>1, SMT DEF DecIf, Bit
<1>2. CASE c # 0
  BY <1>2, DecRef, SMT DEF DecIf
<1> QED
  BY <1>1, <1>2

\* A session that loses a reference.
LEMMA UnrefType ==
  ASSUME NEW x \in SessT
  PROVE  /\ Unref(x) \in SessT
         /\ Unref(x).ref = x.ref - 1
         /\ Unref(x).cid = x.cid
         /\ Unref(x).csq = x.csq
         /\ Unref(x).hashed <=> (x.ref # 1 /\ x.hashed)
         /\ x.ref # 1 => /\ Unref(x).lock = x.lock
                         /\ Unref(x).sequence = x.sequence
                         /\ Unref(x).cached = x.cached
                         /\ Unref(x).ran = x.ran
                         /\ Unref(x).torn = x.torn
         /\ x.ref = 1 => /\ Unref(x).lock = None
                         /\ Unref(x).sequence = 0
                         /\ Unref(x).cached = 0
                         /\ Unref(x).ran = [q \in 1..MaxSeq |-> 0]
<1>1. x.cid \in Ids \cup {0} /\ x.csq \in Nat /\ x.ref \in Int /\ x.hashed \in BOOLEAN
  BY DEF SessT
<1>2. CASE x.ref = 1
  <2>1. Unref(x) = [NoSession EXCEPT !.cid = x.cid, !.csq = x.csq]
    BY <1>2 DEF Unref
  <2>2. [NoSession EXCEPT !.cid = x.cid, !.csq = x.csq] \in SessT
    BY <1>1, NoSessionType DEF SessT
  <2>3. /\ Unref(x).ref = 0 /\ Unref(x).cid = x.cid /\ Unref(x).csq = x.csq
        /\ ~Unref(x).hashed /\ Unref(x).lock = None
        /\ Unref(x).sequence = 0 /\ Unref(x).cached = 0
    BY <2>1 DEF NoSession
  <2>4. Unref(x).ran = [q \in 1..MaxSeq |-> 0]
    BY <2>1 DEF NoSession
  <2> QED
    BY <2>1, <2>2, <2>3, <2>4, <1>1, <1>2, SMT
<1>3. CASE x.ref # 1
  <2>1. Unref(x) = [x EXCEPT !.ref = @ - 1]
    BY <1>3 DEF Unref
  <2> QED
    BY <2>1, <1>1, <1>3, SMT DEF SessT
<1> QED
  BY <1>2, <1>3

\* dec_session_ref, with the reference to the client id that goes along.
LEMMA DecSession ==
  ASSUME NEW C \in [Ids -> CidT], NEW S \in [Sess -> SessT], NEW s \in Sess,
         dec_session_ref(S, C, s)
  PROVE  /\ sess' = [S EXCEPT ![s] = Unref(S[s])]
         /\ sess' \in [Sess -> SessT]
         /\ cid' \in [Ids -> CidT]
         /\ \A d \in Ids :
              /\ cid'[d].ref = C[d].ref - Bit(S[s].ref = 1 /\ d = S[s].cid)
              /\ cid'[d].status = IF S[s].ref = 1 /\ d = S[s].cid /\ C[d].ref = 1
                                  THEN "freed" ELSE C[d].status
              /\ cid'[d].seq = C[d].seq
<1>1. /\ sess' = [S EXCEPT ![s] = Unref(S[s])]
      /\ cid' = IF S[s].ref = 1 THEN dec_client_id_ref(C, S[s].cid) ELSE C
  BY DEF dec_session_ref
<1>2. [S EXCEPT ![s] = Unref(S[s])] \in [Sess -> SessT]
  BY UnrefType
<1>3. CASE S[s].ref = 1
  <2>1. cid' = dec_client_id_ref(C, S[s].cid)
    BY <1>1, <1>3
  <2> QED
    BY <1>1, <1>2, <1>3, <2>1, DecRef, SMT
<1>4. CASE S[s].ref # 1
  <2>1. \A d \in Ids : C[d].ref \in Int
    BY DEF CidT
  <2> QED
    BY <1>1, <1>2, <1>4, <2>1, SMT DEF Bit
<1> QED
  BY <1>3, <1>4

-----------------------------------------------------------------------------
(***************************************************************************)
(* What a thread holds at each point of its program                        *)
(***************************************************************************)
\* The program counters of nfs_client_id_expire.
Exp == {"exp_mark", "exp_unhash", "exp_state", "exp_sessions", "exp_back"}

Shape(x) ==
    /\ x.pc = "idle" => /\ x.found = 0 /\ x.old = 0 /\ x.exp = 0 /\ ~x.own
                        /\ x.s = 0 /\ x.slot = 0
    /\ x.pc \in {"cs_lock", "dc_lock", "rp_lock"} => x.found # 0 /\ x.s = 0
    /\ x.pc \in {"cs_confirm", "sq_expire"} => x.found # 0 /\ x.s # 0
    /\ x.pc \in {"ds_del", "sq_lease", "sq_slot", "sq_exec"} => x.found = 0 /\ x.s # 0
    /\ x.pc = "ex_new" => x.found = 0 /\ x.s = 0
    /\ x.pc = "sq_complete" => x.found = 0 /\ x.s \in {0, x.slot}
    /\ x.pc \in Exp =>
        /\ x.exp # 0
        /\ x.exp = (IF x.back \in {"ex_new", "cs_confirm"} THEN x.old ELSE x.found)
        /\ x.back \in {"sq_done", "rp_done"} => x.old = 0
        /\ x.back = "ex_new" => x.found = 0 /\ x.s = 0
        /\ x.back = "cs_confirm" => x.found # 0 /\ x.s # 0
        /\ x.back # None
    /\ x.pc \notin Exp => x.old = 0 /\ x.exp = 0
    /\ x.own <=> x.pc \in {"exp_state", "exp_sessions"}
    /\ x.slot # 0 => x.pc \in {"sq_exec", "sq_complete"}
    /\ x.pc = "sq_exec" => x.slot = x.s

ThreadOK == th \in [Threads -> ThT] /\ \A t \in Threads : Shape(th[t])

\* The other variables, with the looser types.
Types ==
    /\ Counting
    /\ cid \in [Ids -> CidT]
    /\ ht \in [{"confirmed", "unconfirmed"} -> SUBSET Ids]
    /\ cr \in [{"confirmed", "unconfirmed"} -> Ids \cup {0}]
    /\ mutex \in Threads \cup {None}
    /\ sess \in [Sess -> SessT]
    /\ last \in [id : 0..MaxIds, session : 0..MaxSess]
    /\ leaked \in [Ids -> Nat]

\* Nothing refers to a client id or a session before it is handed out.
LastInv ==
    /\ \A s \in Sess : /\ s <= last.session => sess[s].cid \in 1..last.id
                       /\ s > last.session => sess[s] = NoSession
    /\ \A t \in Threads :
        /\ th[t].s <= last.session /\ th[t].slot <= last.session
        /\ th[t].found <= last.id /\ th[t].old <= last.id
    /\ \A c \in Ids : c > last.id =>
        /\ cid[c].ref = 0 /\ cid[c].status = "none"
        /\ c \notin Hashed /\ leaked[c] = 0
    /\ cr.confirmed <= last.id /\ cr.unconfirmed <= last.id

Ground == Types /\ LastInv

\* Only one thread changes, to a record of the right shape.
OneThread(t) ==
    /\ \A u \in Threads \ {t} : th'[u] = th[u]
    /\ th' \in [Threads -> ThT]
    /\ Shape(th'[t])

-----------------------------------------------------------------------------
(***************************************************************************)
(* What the actions do to the client ids and the sessions                  *)
(***************************************************************************)
\* The ids and sessions that a thread works on.
LEMMA HeldTypes ==
  ASSUME ThreadOK, Ground, NEW t \in Threads
  PROVE  /\ th[t].found # 0 => th[t].found \in Ids
         /\ th[t].old # 0 => th[t].old \in Ids
         /\ th[t].exp # 0 => th[t].exp \in Ids
         /\ th[t].s # 0 => th[t].s \in Sess
         /\ th[t].slot # 0 => th[t].slot \in Sess
  BY DEF ThreadOK, ThT

\* The status of a record goes with its count, from B to the next state.
Follows(B, c) ==
    /\ cid'[c].ref # 0 => cid'[c].status = B[c].status
    /\ B[c].ref = 0 => cid'[c].ref = 0 /\ cid'[c].status = B[c].status
    /\ cid'[c].ref = 0 /\ B[c].ref # 0 => cid'[c].status = "freed"

\* A step that takes a reference to a client id (to none, if it is 0).
TakesId(d) ==
    /\ cid' \in [Ids -> CidT]
    /\ \A c \in Ids : /\ cid'[c].ref = cid[c].ref + Bit(c = d)
                      /\ cid'[c].status = cid[c].status
                      /\ cid'[c].seq = cid[c].seq

\* One that drops references to client ids d and e.
DropsIds(B, d, e) ==
    /\ cid' \in [Ids -> CidT]
    /\ \A c \in Ids :
        /\ cid'[c].ref = B[c].ref - Bit(c = d) - Bit(c = e)
        /\ (B[c].ref >= Bit(c = d) + Bit(c = e)) => Follows(B, c)
        /\ cid'[c].seq = B[c].seq

\* The client id that goes with the last reference to a session.
Last(x) == IF x.ref = 1 THEN x.cid ELSE 0

\* C is what dec_client_id_ref leaves of B.
LessOne(B, C, d) ==
    \A c \in Ids :
        /\ C[c].ref = B[c].ref - Bit(c = d)
        /\ C[c].status = IF c = d /\ B[c].ref = 1 THEN "freed" ELSE B[c].status
        /\ C[c].seq = B[c].seq

\* Dropping a reference to a client id, then one to a session.
LEMMA DropBoth ==
  ASSUME NEW B \in [Ids -> CidT], NEW C \in [Ids -> CidT],
         NEW S \in [Sess -> SessT], NEW s \in Sess,
         NEW d, dec_session_ref(S, C, s),
         LessOne(B, C, d)
  PROVE  /\ DropsIds(B, d, Last(S[s]))
         /\ sess' = [S EXCEPT ![s] = Unref(S[s])]
         /\ sess' \in [Sess -> SessT]
<1>1. /\ sess' = [S EXCEPT ![s] = Unref(S[s])]
      /\ sess' \in [Sess -> SessT]
      /\ cid' \in [Ids -> CidT]
      /\ \A c \in Ids :
              /\ cid'[c].ref = C[c].ref - Bit(S[s].ref = 1 /\ c = S[s].cid)
              /\ cid'[c].status = IF S[s].ref = 1 /\ c = S[s].cid /\ C[c].ref = 1
                                  THEN "freed" ELSE C[c].status
              /\ cid'[c].seq = C[c].seq
  BY DecSession, SMT
<1>2. ASSUME NEW c \in Ids
      PROVE  /\ cid'[c].ref = B[c].ref - Bit(c = d) - Bit(c = Last(S[s]))
             /\ (B[c].ref >= Bit(c = d) + Bit(c = Last(S[s]))) => Follows(B, c)
             /\ cid'[c].seq = B[c].seq
  <2>1. c # 0
    BY SMT DEF Ids
  <2>2. B[c].ref \in Int
    BY DEF CidT
  <2>3. C[c].ref = B[c].ref - Bit(c = d) /\ cid'[c].seq = B[c].seq
        /\ C[c].status = IF c = d /\ B[c].ref = 1 THEN "freed" ELSE B[c].status
    BY <1>1 DEF LessOne
  <2>4. Bit(c = d) \in {0, 1} /\ (Bit(c = d) = 1 <=> c = d)
    BY SMT DEF Bit
  <2>5. CASE S[s].ref = 1 /\ c = S[s].cid
    <3>1. c = Last(S[s]) /\ Bit(c = Last(S[s])) = 1
      BY <2>5 DEF Last, Bit
    <3>2. /\ cid'[c].ref = C[c].ref - 1
          /\ cid'[c].status = IF C[c].ref = 1 THEN "freed" ELSE C[c].status
      BY <1>1, <2>5 DEF Bit
    <3> QED
      BY <2>2, <2>3, <2>4, <3>1, <3>2, SMT DEF Follows
  <2>6. CASE ~(S[s].ref = 1 /\ c = S[s].cid)
    <3>1. c # Last(S[s]) /\ Bit(c = Last(S[s])) = 0
      BY <2>1, <2>6 DEF Last, Bit
    <3>2. cid'[c].ref = C[c].ref - 0 /\ cid'[c].status = C[c].status
      BY <1>1, <2>6 DEF Bit
    <3> QED
      BY <2>2, <2>3, <2>4, <3>1, <3>2, SMT DEF Follows
  <2> QED
    BY <2>5, <2>6
<1> QED
  BY <1>1, <1>2 DEF DropsIds

\* A step that drops one client id drops the references of DropsIds.
LEMMA DropOne ==
  ASSUME Types, NEW d, cid' = DecIf(cid, d)
  PROVE  DropsIds(cid, d, 0)
<1>1. \A c \in Ids : c # 0 /\ cid[c].ref \in Int
  BY SMTT(30) DEF Types, CidT, Ids
<1>2. /\ cid' \in [Ids -> CidT]
      /\ \A c \in Ids :
              /\ cid'[c].ref = cid[c].ref - Bit(c = d)
              /\ cid'[c].status = IF c = d /\ cid[c].ref = 1 THEN "freed" ELSE cid[c].status
              /\ cid'[c].seq = cid[c].seq
  BY DecRefIf, SMT DEF Types
<1> QED
  BY <1>1, <1>2, SMT DEF DropsIds, Bit, Follows

\* A step that takes a reference to one client id.
LEMMA TakeOne ==
  ASSUME Types, NEW d, cid' = inc_client_id_ref(cid, d)
  PROVE  TakesId(d)
  BY IncRef, SMT DEF Types, TakesId

-----------------------------------------------------------------------------
(***************************************************************************)
(* The reference counts                                                    *)
(***************************************************************************)
Held(c) == Bit(c \in Hashed) + Cardinality(SessionsOf(c)) + Cardinality(Finders(c))
             + Cardinality(Olds(c)) + Cardinality(Owners(c)) + leaked[c]

RefEq == \A c \in Ids : cid[c].ref = Held(c)
StatusEq == \A c \in Ids : cid[c].ref = 0 <=> cid[c].status \in {"none", "freed"}
SessEq == \A s \in Sess : sess[s].ref = Bit(sess[s].hashed) + Cardinality(Users(s))

\* Refs is the conjunction of its three equations.
LEMMA RefsParts == Refs <=> RefEq /\ StatusEq /\ SessEq
  BY DEF Refs, RefEq, StatusEq, SessEq, Held

\* What thread t and session s add to the references to client id c.
Share(t, s, c) ==
    Bit(c \in Hashed) + Bit(s \in Sess /\ sess[s].ref > 0 /\ sess[s].cid = c)
      + Bit(th[t].found = c) + Bit(th[t].old = c) + Bit(th[t].own /\ th[t].exp = c)
      + leaked[c]

\* Only what thread t and session s hold changes.
Local(t, s) ==
    /\ \A u \in Threads \ {t} : th'[u] = th[u]
    /\ \A x \in Sess \ {s} : sess'[x] = sess[x]

\* When a thread t and a session s alone change, the references held to a
\* client id change by the share of t and s.
LEMMA HeldStep ==
  ASSUME Counting, NEW t \in Threads, NEW s, Local(t, s), NEW c \in Ids,
         leaked[c] \in Nat, leaked'[c] \in Nat
  PROVE  /\ Held(c) \in Nat /\ Held(c)' \in Nat
         /\ Held(c) >= Share(t, s, c) /\ Share(t, s, c) \in Nat
         /\ Held(c)' - Held(c) = Share(t, s, c)' - Share(t, s, c)
<1> DEFINE h == Bit(c \in Hashed)
           s1 == Bit(s \in Sess /\ sess[s].ref > 0 /\ sess[s].cid = c)
           f1 == Bit(th[t].found = c)
           o1 == Bit(th[t].old = c)
           w1 == Bit(th[t].own /\ th[t].exp = c)
           h2 == Bit(c \in Hashed')
           s2 == Bit(s \in Sess /\ sess'[s].ref > 0 /\ sess'[s].cid = c)
           f2 == Bit(th'[t].found = c)
           o2 == Bit(th'[t].old = c)
           w2 == Bit(th'[t].own /\ th'[t].exp = c)
<1>1. h \in {0, 1} /\ s1 \in {0, 1} /\ f1 \in {0, 1} /\ o1 \in {0, 1} /\ w1 \in {0, 1}
  BY DEF Bit
<1>2. h2 \in {0, 1} /\ s2 \in {0, 1} /\ f2 \in {0, 1} /\ o2 \in {0, 1} /\ w2 \in {0, 1}
  BY DEF Bit
<1>3. /\ Cardinality(Finders(c)) \in Nat /\ Cardinality(Finders(c)) >= f1
      /\ Cardinality(Finders(c)') = Cardinality(Finders(c)) + f2 - f1
  BY FinderCounts, SMT DEF Local
<1>4. /\ Cardinality(Olds(c)) \in Nat /\ Cardinality(Olds(c)) >= o1
      /\ Cardinality(Olds(c)') = Cardinality(Olds(c)) + o2 - o1
  BY OldCounts, SMT DEF Local
<1>5. /\ Cardinality(Owners(c)) \in Nat /\ Cardinality(Owners(c)) >= w1
      /\ Cardinality(Owners(c)') = Cardinality(Owners(c)) + w2 - w1
  BY OwnerCounts DEF Local
<1>6. /\ Cardinality(SessionsOf(c)) \in Nat /\ Cardinality(SessionsOf(c)) >= s1
      /\ Cardinality(SessionsOf(c)') = Cardinality(SessionsOf(c)) + s2 - s1
  BY SessionCounts DEF Local
<1>7. /\ Held(c) = h + Cardinality(SessionsOf(c)) + Cardinality(Finders(c))
                      + Cardinality(Olds(c)) + Cardinality(Owners(c)) + leaked[c]
      /\ Share(t, s, c) = h + s1 + f1 + o1 + w1 + leaked[c]
  BY DEF Held, Share
<1>8. /\ Held(c)' = h2 + Cardinality(SessionsOf(c)') + Cardinality(Finders(c)')
                      + Cardinality(Olds(c)') + Cardinality(Owners(c)') + leaked'[c]
      /\ Share(t, s, c)' = h2 + s2 + f2 + o2 + w2 + leaked'[c]
  BY DEF Held, Share
<1> HIDE DEF h, s1, f1, o1, w1, h2, s2, f2, o2, w2
<1>9. /\ Cardinality(Finders(c)') \in Nat /\ Cardinality(Olds(c)') \in Nat
      /\ Cardinality(Owners(c)') \in Nat /\ Cardinality(SessionsOf(c)') \in Nat
  BY <1>1, <1>2, <1>3, <1>4, <1>5, <1>6, SMT
<1>10. Held(c) \in Nat /\ Held(c) >= Share(t, s, c) /\ Share(t, s, c) \in Nat
  BY <1>1, <1>3, <1>4, <1>5, <1>6, <1>7, SMT
<1>11. Held(c)' \in Nat /\ Share(t, s, c)' \in Nat
  BY <1>2, <1>8, <1>9, SMT
<1>12. Held(c)' - Held(c) = Share(t, s, c)' - Share(t, s, c)
  <2>1. /\ h \in Int /\ s1 \in Int /\ f1 \in Int /\ o1 \in Int /\ w1 \in Int
        /\ h2 \in Int /\ s2 \in Int /\ f2 \in Int /\ o2 \in Int /\ w2 \in Int
    BY <1>1, <1>2, SMT
  <2>2. Held(c)' - Held(c) = (h2 - h) + (s2 - s1) + (f2 - f1) + (o2 - o1) + (w2 - w1)
                                      + (leaked'[c] - leaked[c])
    BY <1>3, <1>4, <1>5, <1>6, <1>7, <1>8, <1>9, <2>1, SMT
  <2> QED
    BY <1>7, <1>8, <2>1, <2>2, SMT
<1> QED
  BY <1>10, <1>11, <1>12

\* What a step that changes thread t and session s must do to the counts.
LEMMA RefEqStep ==
  ASSUME RefEq, Types, NEW t \in Threads, NEW s, Local(t, s), leaked' \in [Ids -> Nat],
         \A c \in Ids : cid'[c].ref = cid[c].ref + Share(t, s, c)' - Share(t, s, c)
  PROVE  RefEq' /\ \A c \in Ids : cid'[c].ref \in Nat
<1> SUFFICES ASSUME NEW c \in Ids
             PROVE  cid'[c].ref = Held(c)' /\ cid'[c].ref \in Nat
  BY DEF RefEq
<1>1. Counting /\ leaked[c] \in Nat /\ leaked'[c] \in Nat
  BY DEF Types
<1>2. /\ Held(c) \in Nat /\ Held(c)' \in Nat
      /\ Held(c)' - Held(c) = Share(t, s, c)' - Share(t, s, c)
  BY <1>1, HeldStep
<1>3. cid[c].ref = Held(c)
  BY DEF RefEq
<1>4. Share(t, s, c) \in Int /\ Share(t, s, c)' \in Int
  BY <1>1, SMT DEF Share, Bit
<1> QED
  BY <1>2, <1>3, <1>4, SMT

\* A client id that a thread, a table or a session holds has a reference.
LEMMA HasRef ==
  ASSUME RefEq, Types, NEW t \in Threads, NEW s, Local(t, s), leaked' \in [Ids -> Nat],
         NEW c \in Ids,
         \/ c \in Hashed
         \/ th[t].found = c
         \/ th[t].old = c
         \/ s \in Sess /\ sess[s].ref > 0 /\ sess[s].cid = c
  PROVE  cid[c].ref > 0
<1>1. Counting /\ leaked[c] \in Nat /\ leaked'[c] \in Nat
  BY DEF Types
<1>2. Held(c) \in Nat /\ Held(c) >= Share(t, s, c)
  BY <1>1, HeldStep
<1>3. Share(t, s, c) \in Int /\ Share(t, s, c) > 0
  BY <1>1, SMT DEF Share, Bit
<1> QED
  BY <1>2, <1>3, SMT DEF RefEq

\* The count of a session stays exact when it follows its hash bit and the
\* thread that holds it.
LEMMA SessEqStep ==
  ASSUME SessEq, Types, NEW t \in Threads, NEW s, Local(t, s), sess' \in [Sess -> SessT],
         s \in Sess => sess'[s].ref = sess[s].ref + Bit(sess'[s].hashed) - Bit(sess[s].hashed)
                                        + Bit(th'[t].s = s) - Bit(th[t].s = s),
         \A x \in Sess \ {s} : th'[t].s = x <=> th[t].s = x
  PROVE  SessEq'
<1> SUFFICES ASSUME NEW x \in Sess
             PROVE  sess'[x].ref = Bit(sess'[x].hashed) + Cardinality(Users(x)')
  BY DEF SessEq
<1>1. /\ Cardinality(Users(x)) \in Nat
      /\ Cardinality(Users(x)') = Cardinality(Users(x)) + Bit(th'[t].s = x) - Bit(th[t].s = x)
  BY UserCounts, SMT DEF Local, Types
<1>2. sess[x].ref = Bit(sess[x].hashed) + Cardinality(Users(x))
  BY DEF SessEq
<1>3. CASE x = s
  BY <1>1, <1>2, <1>3, SMT DEF Bit
<1>4. CASE x # s
  <2>1. sess'[x] = sess[x] /\ Bit(th'[t].s = x) = Bit(th[t].s = x)
    BY <1>4 DEF Local, Bit
  <2> QED
    BY <1>1, <1>2, <2>1, SMT DEF Bit
<1> QED
  BY <1>3, <1>4

\* A session in use has a reference, and one more while it is hashed.
LEMMA UserHasRef ==
  ASSUME SessEq, Types, NEW t \in Threads, \A u \in Threads \ {t} : th'[u] = th[u],
         th[t].s \in Sess
  PROVE  sess[th[t].s].ref >= Bit(sess[th[t].s].hashed) + 1
<1> DEFINE s == th[t].s
<1>1. Cardinality(Users(s)) \in Nat /\ Cardinality(Users(s)) >= Bit(th[t].s = s)
  BY UserCounts DEF Types
<1>2. sess[s].ref = Bit(sess[s].hashed) + Cardinality(Users(s))
  BY DEF SessEq
<1> QED
  BY <1>1, <1>2, SMT DEF Bit

-----------------------------------------------------------------------------
(***************************************************************************)
(* The kinds of steps                                                      *)
(***************************************************************************)
\* A step that changes no holder and no count.
StillStep(t, s) ==
    /\ Local(t, s)
    /\ th'[t].found = th[t].found /\ th'[t].old = th[t].old /\ th'[t].s = th[t].s
    /\ (th'[t].own /\ th'[t].exp = th[t].exp) \/ ~th'[t].own
    /\ th'[t].own <=> th[t].own
    /\ s \in Sess => /\ sess'[s].ref = sess[s].ref /\ sess'[s].cid = sess[s].cid
                     /\ sess'[s].hashed = sess[s].hashed
    /\ \A c \in Ids : cid'[c].ref = cid[c].ref
    /\ Hashed' = Hashed /\ leaked' = leaked

\* A step that takes and drops no reference keeps the counts exact.
LEMMA Still ==
  ASSUME RefEq, SessEq, Types, NEW t \in Threads, NEW s, StillStep(t, s),
         sess' \in [Sess -> SessT]
  PROVE  RefEq' /\ SessEq'
<1>1. Local(t, s) /\ leaked' \in [Ids -> Nat]
  BY DEF StillStep, Types
<1>2. ASSUME NEW c \in Ids
      PROVE  cid'[c].ref = cid[c].ref + Share(t, s, c)' - Share(t, s, c)
  <2>1. cid[c].ref \in Int /\ leaked[c] \in Int
    BY SMT DEF Types, CidT
  <2>2. Share(t, s, c)' = Share(t, s, c)
    BY DEF Share, StillStep
  <2>3. Share(t, s, c) \in Int
    BY <2>1, SMT DEF Share, Bit
  <2>4. cid'[c].ref = cid[c].ref
    BY DEF StillStep
  <2> QED
    BY <2>1, <2>2, <2>3, <2>4, SMT
<1>3. RefEq'
  BY <1>1, <1>2, RefEqStep
<1>4. s \in Sess => /\ sess[s].ref \in Int /\ sess'[s].ref = sess[s].ref
                    /\ sess'[s].hashed = sess[s].hashed
  BY DEF Types, SessT, StillStep
<1>5. th'[t].s = th[t].s
  BY DEF StillStep
<1>6. SessEq'
  BY <1>1, <1>4, <1>5, SessEqStep, SMT DEF Bit
<1> QED
  BY <1>3, <1>6

\* A thread takes a reference to client id d, as the one it found or as old.
TakeStep(t, d) ==
    /\ Local(t, 0) /\ TakesId(d) /\ sess' = sess
    /\ \/ th[t].found = 0 /\ th'[t].found = d /\ th'[t].old = th[t].old
       \/ th[t].old = 0 /\ th'[t].old = d /\ th'[t].found = th[t].found
    /\ th'[t].s = th[t].s /\ ~th[t].own /\ ~th'[t].own
    /\ Hashed' = Hashed /\ leaked' = leaked

\* A step that takes one client id and remembers it keeps the counts exact.
LEMMA Takes ==
  ASSUME RefEq, SessEq, Types, NEW t \in Threads, NEW d \in Ids, TakeStep(t, d)
  PROVE  RefEq' /\ SessEq'
<1>0. 0 \notin Sess /\ 0 \notin Ids
  BY SMT DEF Sess, Ids
<1>1. Local(t, 0) /\ leaked' \in [Ids -> Nat] /\ sess' \in [Sess -> SessT] /\ th'[t].s = th[t].s
  BY DEF TakeStep, Types
<1>2. ASSUME NEW c \in Ids
      PROVE  cid'[c].ref = cid[c].ref + Share(t, 0, c)' - Share(t, 0, c)
  <2> DEFINE h == Bit(c \in Hashed)
             f == Bit(th[t].found = c)
             o == Bit(th[t].old = c)
             f2 == Bit(th'[t].found = c)
             o2 == Bit(th'[t].old = c)
             n == Bit(c = d)
  <2>1. cid[c].ref \in Int /\ leaked[c] \in Int /\ c # 0
    BY <1>0, SMT DEF Types, CidT
  <2>2. cid'[c].ref = cid[c].ref + n
    BY DEF TakesId, TakeStep
  <2>3. f2 + o2 = f + o + n
    BY <2>1, SMT DEF Bit, TakeStep
  <2>4. ~th[t].own /\ ~th'[t].own /\ leaked'[c] = leaked[c] /\ Bit(c \in Hashed') = h
    BY DEF TakeStep
  <2>5. /\ Share(t, 0, c) = h + 0 + f + o + 0 + leaked[c]
        /\ Share(t, 0, c)' = h + 0 + f2 + o2 + 0 + leaked[c]
    BY <1>0, <2>4 DEF Share, Bit
  <2>6. h \in Int /\ f \in Int /\ o \in Int /\ f2 \in Int /\ o2 \in Int /\ n \in Int
    BY SMT DEF Bit
  <2> HIDE DEF h, f, o, f2, o2, n
  <2> QED
    BY <2>1, <2>2, <2>3, <2>5, <2>6, SMT
<1>3. RefEq'
  BY <1>1, <1>2, RefEqStep
<1>4. SessEq'
  BY <1>0, <1>1, SessEqStep
<1> QED
  BY <1>3, <1>4

\* A thread drops its reference to client id d.
DropStep(t, d) ==
    /\ Local(t, 0) /\ DropsIds(cid, d, 0) /\ sess' = sess
    /\ \/ th[t].found = d /\ th'[t].found = 0 /\ th'[t].old = th[t].old
       \/ th[t].old = d /\ th'[t].old = 0 /\ th'[t].found = th[t].found
    /\ th'[t].s = th[t].s /\ ~th[t].own /\ ~th'[t].own
    /\ Hashed' = Hashed /\ leaked' = leaked

\* A step that drops one client id and forgets it keeps the counts exact, and
\* a freed record is one nobody holds.
LEMMA Drops ==
  ASSUME RefEq, SessEq, Types, NEW t \in Threads, NEW d \in Ids, DropStep(t, d)
  PROVE  RefEq' /\ SessEq' /\ \A c \in Ids : Follows(cid, c)
<1>0. 0 \notin Sess /\ 0 \notin Ids
  BY SMT DEF Sess, Ids
<1>1. Local(t, 0) /\ leaked' \in [Ids -> Nat] /\ sess' \in [Sess -> SessT] /\ th'[t].s = th[t].s
  BY DEF DropStep, Types
<1>2. ASSUME NEW c \in Ids
      PROVE  /\ cid'[c].ref = cid[c].ref + Share(t, 0, c)' - Share(t, 0, c)
             /\ cid'[c].ref \in Nat => Follows(cid, c)
  <2> DEFINE h == Bit(c \in Hashed)
             f == Bit(th[t].found = c)
             o == Bit(th[t].old = c)
             f2 == Bit(th'[t].found = c)
             o2 == Bit(th'[t].old = c)
             n == Bit(c = d)
  <2>1. cid[c].ref \in Int /\ leaked[c] \in Int /\ c # 0
    BY <1>0, SMT DEF Types, CidT
  <2>2. /\ cid'[c].ref = cid[c].ref - n - Bit(c = 0)
        /\ cid[c].ref >= n + Bit(c = 0) => Follows(cid, c)
    BY DEF DropsIds, DropStep
  <2>3. f2 + o2 = f + o - n
    BY <2>1, SMT DEF Bit, DropStep
  <2>4. ~th[t].own /\ ~th'[t].own /\ leaked'[c] = leaked[c] /\ Bit(c \in Hashed') = h
    BY DEF DropStep
  <2>5. /\ Share(t, 0, c) = h + 0 + f + o + 0 + leaked[c]
        /\ Share(t, 0, c)' = h + 0 + f2 + o2 + 0 + leaked[c]
    BY <1>0, <2>4 DEF Share, Bit
  <2>6. h \in Int /\ f \in Int /\ o \in Int /\ f2 \in Int /\ o2 \in Int /\ n \in Int
        /\ Bit(c = 0) = 0
    BY <2>1, SMT DEF Bit
  <2> HIDE DEF h, f, o, f2, o2, n
  <2> QED
    BY <2>1, <2>2, <2>3, <2>5, <2>6, SMT
<1>3. RefEq' /\ \A c \in Ids : cid'[c].ref \in Nat
  BY <1>1, <1>2, RefEqStep
<1>4. SessEq'
  BY <1>0, <1>1, SessEqStep
<1> QED
  BY <1>2, <1>3, <1>4

\* A thread drops its session, as it stands in x, and the client id it found,
\* if any; B differs from cid in neither the counts nor the freed records.
ReleaseBy(t, s, B, x) ==
    /\ Local(t, s)
    /\ th[t].s = s /\ th'[t].s = 0 /\ th'[t].found = 0 /\ th'[t].old = th[t].old
    /\ ~th[t].own /\ ~th'[t].own
    /\ \A c \in Ids : B[c].ref = cid[c].ref
    /\ x.cid = sess[s].cid /\ (x.hashed => sess[s].hashed)
    /\ x.ref = sess[s].ref + Bit(x.hashed) - Bit(sess[s].hashed)
    /\ sess'[s] = Unref(x)
    /\ DropsIds(B, th[t].found, Last(x))
    /\ Hashed' = Hashed /\ leaked' = leaked

\* A step that releases a session, with the client id if it was the last
\* reference, keeps the counts exact.
LEMMA Releases ==
  ASSUME RefEq, SessEq, Types, NEW t \in Threads, NEW s \in Sess, NEW B, NEW x \in SessT,
         ReleaseBy(t, s, B, x), sess' \in [Sess -> SessT]
  PROVE  RefEq' /\ SessEq' /\ \A c \in Ids : Follows(B, c)
<1>0. s # 0 /\ 0 \notin Ids
  BY SMT DEF Sess, Ids
<1>1. /\ Local(t, s) /\ leaked' \in [Ids -> Nat]
      /\ th[t].s = s /\ th'[t].s = 0 /\ th'[t].found = 0 /\ th'[t].old = th[t].old
      /\ x.cid = sess[s].cid
  BY DEF ReleaseBy, Types
<1>2. sess[s].ref >= Bit(sess[s].hashed) + 1 /\ sess[s].ref \in Int
  BY <1>1, UserHasRef DEF Local, Types, SessT
<1>3. /\ x.ref \in Int /\ x.ref >= Bit(x.hashed) + 1 /\ sess[s].ref > 0
      /\ x.ref = sess[s].ref + Bit(x.hashed) - Bit(sess[s].hashed)
  BY <1>2, SMT DEF Bit, ReleaseBy
<1>4. /\ sess'[s].ref = x.ref - 1 /\ sess'[s].cid = x.cid
      /\ sess'[s].hashed <=> (x.ref # 1 /\ x.hashed)
  BY UnrefType, SMT DEF ReleaseBy
<1>5. sess'[s].hashed <=> x.hashed
  BY <1>3, <1>4, SMT DEF Bit
<1>6. ASSUME NEW c \in Ids
      PROVE  /\ cid'[c].ref = cid[c].ref + Share(t, s, c)' - Share(t, s, c)
             /\ cid'[c].ref \in Nat => Follows(B, c)
  <2> DEFINE f == Bit(c = th[t].found)
             l == Bit(c = Last(x))
             a == Bit(c \in Hashed)
             b == Bit(sess[s].ref > 0 /\ sess[s].cid = c)
             b2 == Bit(sess'[s].ref > 0 /\ sess'[s].cid = c)
             o == Bit(th[t].old = c)
  <2>1. cid[c].ref \in Int /\ leaked[c] \in Int /\ c # 0
    BY <1>0, SMT DEF Types, CidT
  <2>2. /\ cid'[c].ref = B[c].ref - f - l
        /\ B[c].ref >= f + l => Follows(B, c)
        /\ B[c].ref = cid[c].ref
    BY DEF DropsIds, ReleaseBy
  <2>3. l = b - b2
    <3>1. CASE x.cid = c
      BY <1>1, <1>3, <1>4, <2>1, <3>1, SMT DEF Bit, Last
    <3>2. CASE x.cid # c
      BY <1>1, <1>3, <1>4, <2>1, <3>2, SMT DEF Bit, Last
    <3> QED
      BY <3>1, <3>2
  <2>4. ~th[t].own /\ ~th'[t].own /\ leaked'[c] = leaked[c] /\ Bit(c \in Hashed') = a
    BY DEF ReleaseBy
  <2>5. /\ Share(t, s, c) = a + b + f + o + 0 + leaked[c]
        /\ Share(t, s, c)' = a + b2 + 0 + o + 0 + leaked[c]
    BY <1>0, <1>1, <2>1, <2>4 DEF Share, Bit
  <2>6. /\ f \in Int /\ l \in Int /\ a \in Int /\ b \in Int /\ b2 \in Int /\ o \in Int
    BY SMT DEF Bit
  <2> HIDE DEF f, l, a, b, b2, o
  <2> QED
    BY <2>1, <2>2, <2>3, <2>5, <2>6, SMT
<1>7. RefEq' /\ \A c \in Ids : cid'[c].ref \in Nat
  BY <1>1, <1>6, RefEqStep
<1>8. SessEq'
  <2>1. sess'[s].ref = sess[s].ref + Bit(sess'[s].hashed) - Bit(sess[s].hashed)
                                   + Bit(th'[t].s = s) - Bit(th[t].s = s)
    BY <1>0, <1>1, <1>2, <1>3, <1>4, <1>5, SMT DEF Bit
  <2>2. \A y \in Sess \ {s} : th'[t].s = y <=> th[t].s = y
    BY <1>1, SMT DEF Sess
  <2> QED
    BY <1>1, <2>1, <2>2, SessEqStep
<1> QED
  BY <1>6, <1>7, <1>8

-----------------------------------------------------------------------------
(***************************************************************************)
(* The mutex and the client record                                         *)
(***************************************************************************)
\* The points where a thread holds cr_mutex.
Critical == Exp \cup {"ex_new", "cs_confirm"}

MutexInv == \A t \in Threads : th[t].pc \in Critical <=> mutex = t

\* No thread has the name of the free mutex.
LEMMA NoneNoThread == None \notin Threads
  BY ThreadsAssumption DEF None, Threads

-----------------------------------------------------------------------------
(***************************************************************************)
(* The counts, step by step                                                *)
(***************************************************************************)
Counts == Types /\ LastInv /\ RefEq /\ StatusEq /\ SessEq

\* A step hands out no id and refers to none that has not been handed out.
LastKept(t) ==
    /\ last' = last /\ th'[t].slot <= last.session
    /\ cr'.confirmed <= last.id /\ cr'.unconfirmed <= last.id

\* A step that hands out nothing keeps LastInv.
LEMMA LastStep ==
  ASSUME LastInv, Types, NEW t \in Threads, NEW s, Local(t, s), LastKept(t),
         s \in Sess => sess'[s].cid = sess[s].cid /\ s <= last.session,
         th'[t].s <= last.session, th'[t].found <= last.id, th'[t].old <= last.id,
         \A c \in Ids : c > last.id => /\ cid'[c].ref = cid[c].ref
                                       /\ cid'[c].status = cid[c].status
                                       /\ leaked'[c] = leaked[c],
         Hashed' \subseteq Hashed
  PROVE  LastInv'
<1>1. last.session \in Int /\ last' = last
  BY SMT DEF Types, LastKept
<1>2. ASSUME NEW x \in Sess
      PROVE  /\ x <= last.session => sess'[x].cid \in 1..last.id
             /\ x > last.session => sess'[x] = NoSession
  <2>1. CASE x = s
    BY <1>1, <2>1, SMT DEF LastInv, Sess
  <2>2. CASE x # s
    BY <2>2 DEF LastInv, Local
  <2> QED
    BY <2>1, <2>2
<1>3. ASSUME NEW u \in Threads
      PROVE  /\ th'[u].s <= last.session /\ th'[u].slot <= last.session
             /\ th'[u].found <= last.id /\ th'[u].old <= last.id
  <2>1. CASE u = t
    BY <2>1 DEF LastKept
  <2>2. CASE u # t
    BY <2>2 DEF LastInv, Local
  <2> QED
    BY <2>1, <2>2
<1>4. ASSUME NEW c \in Ids, c > last.id
      PROVE  /\ cid'[c].ref = 0 /\ cid'[c].status = "none"
             /\ c \notin Hashed' /\ leaked'[c] = 0
  BY <1>4 DEF LastInv
<1> QED
  BY <1>1, <1>2, <1>3, <1>4 DEF LastInv, LastKept

\* What is handed out stays when last and the client record do.
LEMMA LastSame ==
  ASSUME Counts, last' = last, cr' = cr, NEW t, th'[t].slot <= last.session
  PROVE  LastKept(t)
  BY DEF LastKept, Counts, LastInv

\* A step that changes no holder, no count and frees nothing.
LEMMA CountsStill ==
  ASSUME Counts, Types', NEW t \in Threads, NEW s, StillStep(t, s), LastKept(t),
         s \in Sess => s <= last.session,
         \A c \in Ids : \/ cid'[c].status = cid[c].status
                        \/ /\ cid[c].ref > 0
                           /\ cid'[c].status \notin {"none", "freed"}
  PROVE  Counts'
<1>1. RefEq' /\ SessEq'
  BY Still DEF Counts, Types
<1>2. ASSUME NEW c \in Ids
      PROVE  cid'[c].ref = 0 <=> cid'[c].status \in {"none", "freed"}
  <2>1. cid'[c].ref = cid[c].ref
    BY DEF StillStep
  <2> QED
    BY <2>1, SMT DEF Counts, StatusEq
<1>3. LastInv'
  <2>1. ASSUME NEW c \in Ids, c > last.id
        PROVE  cid'[c].ref = cid[c].ref /\ cid'[c].status = cid[c].status
               /\ leaked'[c] = leaked[c]
    <3>1. cid[c].ref = 0 /\ cid'[c].ref = cid[c].ref /\ leaked'[c] = leaked[c]
      BY <2>1 DEF Counts, LastInv, StillStep
    <3> QED
      BY <3>1, SMT
  <2>2. /\ Local(t, s) /\ Hashed' \subseteq Hashed
        /\ s \in Sess => sess'[s].cid = sess[s].cid
        /\ th'[t].s <= last.session /\ th'[t].found <= last.id /\ th'[t].old <= last.id
    BY DEF Counts, LastInv, StillStep
  <2> QED
    BY <2>1, <2>2, LastStep DEF Counts
<1> QED
  BY <1>1, <1>2, <1>3 DEF Counts, StatusEq

\* A thread takes a reference to a client id that has one.
LEMMA CountsTakes ==
  ASSUME Counts, Types', NEW t \in Threads, NEW d \in Ids, cid[d].ref > 0,
         TakeStep(t, d), LastKept(t)
  PROVE  Counts'
<1>0. d <= last.id /\ 0 \notin Sess /\ \A c \in Ids : cid[c].ref \in Int /\ c # 0
  <2>1. d \in Int /\ last.id \in Int
    BY SMT DEF Counts, Types, Ids
  <2>2. d > last.id => cid[d].ref = 0
    BY DEF Counts, LastInv
  <2>3. \A c \in Ids : cid[c].ref \in Int /\ c # 0
    BY SMT DEF Counts, Types, CidT, Ids
  <2> QED
    BY <2>1, <2>2, <2>3, SMT DEF Sess
<1>1. RefEq' /\ SessEq'
  BY Takes DEF Counts
<1>2. ASSUME NEW c \in Ids
      PROVE  cid'[c].ref = 0 <=> cid'[c].status \in {"none", "freed"}
  <2>1. cid'[c].ref = cid[c].ref + Bit(c = d) /\ cid'[c].status = cid[c].status
    BY DEF TakeStep, TakesId
  <2>2. cid[c].ref = 0 <=> cid[c].status \in {"none", "freed"}
    BY DEF Counts, StatusEq
  <2> QED
    BY <1>0, <2>1, <2>2, SMT DEF Bit
<1>3. LastInv'
  <2>1. ASSUME NEW c \in Ids, c > last.id
        PROVE  cid'[c].ref = cid[c].ref /\ cid'[c].status = cid[c].status
               /\ leaked'[c] = leaked[c]
    <3>1. c # d
      BY <1>0, <2>1, SMT DEF Counts, Types, Ids
    <3>2. /\ cid'[c].ref = cid[c].ref + Bit(c = d) /\ cid'[c].status = cid[c].status
          /\ leaked'[c] = leaked[c]
      BY DEF TakeStep, TakesId
    <3> QED
      BY <1>0, <3>1, <3>2, SMT DEF Bit
  <2>2. /\ Local(t, 0) /\ Hashed' \subseteq Hashed
        /\ th'[t].s <= last.session /\ th'[t].found <= last.id /\ th'[t].old <= last.id
    BY <1>0 DEF Counts, LastInv, TakeStep
  <2> QED
    BY <1>0, <2>1, <2>2, LastStep DEF Counts
<1> QED
  BY <1>1, <1>2, <1>3 DEF Counts, StatusEq

\* The records follow their counts.
LEMMA StatusFollows ==
  ASSUME NEW B, \A c \in Ids : B[c].ref = 0 <=> B[c].status \in {"none", "freed"},
         \A c \in Ids : Follows(B, c)
  PROVE  StatusEq'
<1> SUFFICES ASSUME NEW c \in Ids
             PROVE  cid'[c].ref = 0 <=> cid'[c].status \in {"none", "freed"}
  BY DEF StatusEq
<1> QED
  BY DEF Follows

\* A thread drops its reference to a client id.
LEMMA CountsDrops ==
  ASSUME Counts, Types', NEW t \in Threads, NEW d \in Ids, DropStep(t, d), LastKept(t)
  PROVE  Counts'
<1>0. 0 \notin Sess /\ last.id \in Nat /\ last.session \in Nat
  BY SMT DEF Sess, Counts, Types
<1>1. RefEq' /\ SessEq' /\ \A c \in Ids : Follows(cid, c)
  BY Drops DEF Counts
<1>2. StatusEq'
  BY <1>1, StatusFollows DEF Counts, StatusEq
<1>3. LastInv'
  <2>1. d <= last.id
    BY DEF Counts, LastInv, DropStep
  <2>2. ASSUME NEW c \in Ids, c > last.id
        PROVE  cid'[c].ref = cid[c].ref /\ cid'[c].status = cid[c].status
               /\ leaked'[c] = leaked[c]
    <3>1. c # d /\ c # 0 /\ c \in Int
      BY <1>0, <2>1, <2>2, SMT DEF Ids
    <3>2. cid[c].ref = 0 /\ leaked'[c] = leaked[c]
      BY <2>2 DEF Counts, LastInv, DropStep
    <3>3. cid'[c].ref = cid[c].ref - Bit(c = d) - Bit(c = 0)
      BY DEF DropStep, DropsIds
    <3>4. cid'[c].ref = 0
      <4>1. Bit(c = d) = 0 /\ Bit(c = 0) = 0
        BY <3>1 DEF Bit
      <4>2. cid'[c].ref = 0 - 0 - 0
        BY <3>2, <3>3, <4>1
      <4> QED
        BY <4>2, SMT
    <3> QED
      BY <1>1, <3>2, <3>4 DEF Follows
  <2>3. /\ Local(t, 0) /\ Hashed' \subseteq Hashed
        /\ th'[t].s <= last.session /\ th'[t].found <= last.id /\ th'[t].old <= last.id
    BY <1>0, SMT DEF Counts, LastInv, DropStep
  <2> QED
    BY <1>0, <2>2, <2>3, LastStep DEF Counts
<1> QED
  BY <1>1, <1>2, <1>3 DEF Counts

\* A thread drops its session, as it stands in x, and the client id it found.
LEMMA CountsReleases ==
  ASSUME Counts, Types', NEW t \in Threads, NEW s \in Sess, NEW B, NEW x \in SessT,
         ReleaseBy(t, s, B, x), LastKept(t),
         \A c \in Ids : \/ B[c].status = cid[c].status
                        \/ /\ cid[c].ref > 0
                           /\ B[c].status \notin {"none", "freed"}
  PROVE  Counts'
<1>0. /\ last.id \in Nat /\ last.session \in Nat
      /\ th[t].found <= last.id /\ x.cid \in 1..last.id /\ s <= last.session
  <2>1. last.id \in Nat /\ last.session \in Nat
    BY SMT DEF Counts, Types
  <2>2. th[t].s = s /\ x.cid = sess[s].cid
    BY DEF ReleaseBy
  <2> QED
    BY <2>1, <2>2 DEF Counts, LastInv
<1>1. RefEq' /\ SessEq' /\ \A c \in Ids : Follows(B, c)
  BY Releases DEF Counts, Types
<1>2. StatusEq'
  <2>1. \A c \in Ids : B[c].ref = cid[c].ref
    BY DEF ReleaseBy
  <2>2. \A c \in Ids : cid[c].ref = 0 <=> cid[c].status \in {"none", "freed"}
    BY DEF Counts, StatusEq
  <2>3. \A c \in Ids : cid[c].ref > 0 => cid[c].ref # 0
    BY SMT DEF Counts, Types, CidT
  <2> QED
    BY <1>1, <2>1, <2>2, <2>3, StatusFollows
<1>3. LastInv'
  <2>1. ASSUME NEW c \in Ids, c > last.id
        PROVE  cid'[c].ref = cid[c].ref /\ cid'[c].status = cid[c].status
               /\ leaked'[c] = leaked[c]
    <3>1. c # th[t].found /\ c # x.cid /\ c # 0
      BY <1>0, <2>1, SMT DEF Ids
    <3>2. cid[c].ref = 0 /\ leaked'[c] = leaked[c] /\ B[c].ref = cid[c].ref
      BY <2>1 DEF Counts, LastInv, ReleaseBy
    <3>3. c # Last(x) /\ B[c].status = cid[c].status
      BY <3>1, <3>2, SMT DEF Last
    <3>4. cid'[c].ref = B[c].ref - Bit(c = th[t].found) - Bit(c = Last(x))
      BY DEF ReleaseBy, DropsIds
    <3>5. cid'[c].ref = 0
      <4>1. Bit(c = th[t].found) = 0 /\ Bit(c = Last(x)) = 0
        BY <3>1, <3>3 DEF Bit
      <4>2. cid'[c].ref = 0 - 0 - 0
        BY <3>2, <3>4, <4>1
      <4> QED
        BY <4>2, SMT
    <3> QED
      BY <1>1, <3>2, <3>3, <3>5 DEF Follows
  <2>2. sess'[s].cid = sess[s].cid
    BY UnrefType DEF ReleaseBy
  <2>3. /\ Local(t, s) /\ Hashed' \subseteq Hashed
        /\ th'[t].s = 0 /\ th'[t].found = 0 /\ th'[t].old <= last.id
    BY DEF Counts, LastInv, ReleaseBy
  <2> QED
    BY <1>0, <2>1, <2>2, <2>3, LastStep, SMT DEF Counts
<1> QED
  BY <1>1, <1>2, <1>3 DEF Counts

-----------------------------------------------------------------------------
(***************************************************************************)
(* The client record, and the inductive invariant                          *)
(***************************************************************************)
Tables == {"confirmed", "unconfirmed"}

\* The record points into the tables, which are disjoint, a client id about to
\* leave its table is not pointed to any more, and EXCHANGE_ID has an id left.
CrInv ==
    /\ \A x \in Tables : cr[x] # 0 => cr[x] \in ht[x]
    /\ ht.confirmed \cap ht.unconfirmed = {}
    /\ \A t \in Threads : th[t].pc = "exp_unhash" =>
         th[t].tab \in Tables /\ \A x \in Tables : cr[x] # th[t].exp
    /\ \A t \in Threads :
         th[t].pc = "ex_new" \/ (th[t].pc \in Exp /\ th[t].back = "ex_new") => last.id < MaxIds

\* The table a client id is taken from.
TabInv == \A t \in Threads : th[t].tab \in {None} \cup Tables

\* EXCHANGE_ID is about to hand out an id.
Allots(x) == x.pc = "ex_new" \/ (x.pc \in Exp /\ x.back = "ex_new")

\* The inductive invariant: the control of each thread, the counts with nothing
\* used before it is handed out, cr_mutex held over the critical section only,
\* and a client record that agrees with the tables.
IInv == ThreadOK /\ Counts /\ MutexInv /\ CrInv /\ TabInv

-----------------------------------------------------------------------------
(***************************************************************************)
(* What the actions share                                                  *)
(***************************************************************************)
\* A step of one thread that changes no session, or session s at most, is local
\* to the thread and to that session.
LEMMA OnlyThread ==
  ASSUME NEW t \in Threads, OneThread(t)
  PROVE  /\ 0 \notin Sess /\ 0 \notin Ids
         /\ sess' = sess => Local(t, 0)
         /\ \A s : (\A x \in Sess \ {s} : sess'[x] = sess[x]) => Local(t, s)
BY SMT DEF OneThread, Local, Sess, Ids

\* The fields of a client id that do not count.
LEMMA SetStatus ==
  ASSUME NEW C \in [Ids -> CidT], NEW c, NEW st \in Statuses
  PROVE  /\ [C EXCEPT ![c].status = st] \in [Ids -> CidT]
         /\ \A d \in Ids :
              /\ [C EXCEPT ![c].status = st][d].ref = C[d].ref
              /\ [C EXCEPT ![c].status = st][d].status = IF d = c THEN st ELSE C[d].status
              /\ [C EXCEPT ![c].status = st][d].seq = C[d].seq
<1>1. \A r \in CidT : /\ [r EXCEPT !.status = st] \in CidT
                      /\ [r EXCEPT !.status = st].ref = r.ref
                      /\ [r EXCEPT !.status = st].status = st
                      /\ [r EXCEPT !.status = st].seq = r.seq
  BY DEF CidT
<1>2. [C EXCEPT ![c].status = st] =
        [d \in Ids |-> IF d = c THEN [C[d] EXCEPT !.status = st] ELSE C[d]]
  OBVIOUS
<1> QED
  BY <1>1, <1>2

\* A change of what the owners of a client hold changes no count.
LEMMA SetState ==
  ASSUME NEW C \in [Ids -> CidT], NEW c, NEW k \in SUBSET Kinds
  PROVE  /\ [C EXCEPT ![c].state = k] \in [Ids -> CidT]
         /\ \A d \in Ids : /\ [C EXCEPT ![c].state = k][d].ref = C[d].ref
                           /\ [C EXCEPT ![c].state = k][d].status = C[d].status
                           /\ [C EXCEPT ![c].state = k][d].seq = C[d].seq
<1>1. \A r \in CidT : /\ [r EXCEPT !.state = k] \in CidT
                      /\ [r EXCEPT !.state = k].ref = r.ref
                      /\ [r EXCEPT !.state = k].status = r.status
                      /\ [r EXCEPT !.state = k].seq = r.seq
  BY DEF CidT
<1>2. [C EXCEPT ![c].state = k] =
        [d \in Ids |-> IF d = c THEN [C[d] EXCEPT !.state = k] ELSE C[d]]
  OBVIOUS
<1> QED
  BY <1>1, <1>2

\* Reference counts are integers.
LEMMA CidRefs ==
  ASSUME NEW C \in [Ids -> CidT]
  PROVE  \A d \in Ids : C[d].ref \in Int /\ C[d] \in CidT
BY DEF CidT

\* nfs41_Session_Del takes a session out of its table.
LEMMA DeletedType ==
  ASSUME NEW x \in SessT
  PROVE  /\ Deleted(x) \in SessT
         /\ Deleted(x).ref = x.ref - Bit(x.hashed)
         /\ Deleted(x).cid = x.cid
         /\ Deleted(x).csq = x.csq
         /\ ~Deleted(x).hashed
         /\ x.ref # 1 \/ ~x.hashed =>
              /\ Deleted(x).lock = x.lock /\ Deleted(x).sequence = x.sequence
              /\ Deleted(x).cached = x.cached /\ Deleted(x).ran = x.ran
              /\ Deleted(x).torn = x.torn
         /\ x.ref = 1 /\ x.hashed =>
              /\ Deleted(x).lock = None /\ Deleted(x).sequence = 0
              /\ Deleted(x).cached = 0 /\ Deleted(x).ran = [q \in 1..MaxSeq |-> 0]
<1> DEFINE y == [x EXCEPT !.hashed = FALSE]
<1>1. /\ y \in SessT /\ y.ref = x.ref /\ y.cid = x.cid /\ y.csq = x.csq /\ ~y.hashed
      /\ y.lock = x.lock /\ y.sequence = x.sequence /\ y.cached = x.cached
      /\ y.ran = x.ran /\ y.torn = x.torn /\ x.ref \in Int
  BY DEF SessT
<1>2. CASE x.hashed
  <2>1. Deleted(x) = Unref(y)
    BY <1>2 DEF Deleted
  <2> HIDE DEF y
  <2>2. /\ Unref(y) \in SessT
        /\ Unref(y).ref = y.ref - 1 /\ Unref(y).cid = y.cid /\ Unref(y).csq = y.csq
        /\ Unref(y).hashed <=> (y.ref # 1 /\ y.hashed)
    BY <1>1, UnrefType
  <2>3. y.ref # 1 => /\ Unref(y).lock = y.lock /\ Unref(y).sequence = y.sequence
                     /\ Unref(y).cached = y.cached /\ Unref(y).ran = y.ran
                     /\ Unref(y).torn = y.torn
    BY <1>1, UnrefType
  <2>4. y.ref = 1 => /\ Unref(y).lock = None /\ Unref(y).sequence = 0
                     /\ Unref(y).cached = 0 /\ Unref(y).ran = [q \in 1..MaxSeq |-> 0]
    BY <1>1, UnrefType
  <2> HIDE DEF None
  <2>5. Bit(x.hashed) = 1
    BY <1>2 DEF Bit
  <2>6. Deleted(x) \in SessT /\ Deleted(x).ref = x.ref - Bit(x.hashed) /\ Deleted(x).cid = x.cid
        /\ Deleted(x).csq = x.csq /\ ~Deleted(x).hashed
    BY <1>1, <2>1, <2>2, <2>5
  <2>7. x.ref # 1 \/ ~x.hashed =>
              /\ Deleted(x).lock = x.lock /\ Deleted(x).sequence = x.sequence
              /\ Deleted(x).cached = x.cached /\ Deleted(x).ran = x.ran
              /\ Deleted(x).torn = x.torn
    BY <1>1, <1>2, <2>1, <2>3
  <2>8. x.ref = 1 /\ x.hashed =>
              /\ Deleted(x).lock = None /\ Deleted(x).sequence = 0
              /\ Deleted(x).cached = 0 /\ Deleted(x).ran = [q \in 1..MaxSeq |-> 0]
    BY <1>1, <2>1, <2>4
  <2> QED
    BY <2>6, <2>7, <2>8
<1>3. CASE ~x.hashed
  BY <1>1, <1>3, SMT DEF Deleted, Bit
<1> QED
  BY <1>2, <1>3

\* A thread that is done holds nothing.
LEMMA DoneThread ==
  ASSUME ThreadOK, NEW t \in Threads, Done(t)
  PROVE  /\ th'[t].found = 0 /\ th'[t].old = 0 /\ th'[t].exp = 0 /\ th'[t].s = 0
         /\ th'[t].slot = 0 /\ ~th'[t].own /\ th'[t].pc = "idle"
BY DEF ThreadOK, Done, Idle

\* dec_session_ref at the end of a request, after the client id was dropped.
LEMMA ReleaseStep ==
  ASSUME Counts, NEW t \in Threads, OneThread(t),
         th[t].s \in Sess, th'[t].s = 0, th'[t].found = 0, th'[t].old = th[t].old,
         ~th[t].own, ~th'[t].own, th'[t].slot <= last.session,
         NEW B \in [Ids -> CidT], NEW C \in [Ids -> CidT],
         \A c \in Ids : /\ B[c].ref = cid[c].ref
                        /\ \/ B[c].status = cid[c].status
                           \/ /\ cid[c].ref > 0
                              /\ B[c].status \notin {"none", "freed"},
         LessOne(B, C, th[t].found),
         NEW S \in [Sess -> SessT], \A y \in Sess \ {th[t].s} : S[y] = sess[y],
         S[th[t].s].cid = sess[th[t].s].cid, S[th[t].s].hashed => sess[th[t].s].hashed,
         S[th[t].s].ref = sess[th[t].s].ref + Bit(S[th[t].s].hashed) - Bit(sess[th[t].s].hashed),
         dec_session_ref(S, C, th[t].s),
         ht' \in [{"confirmed", "unconfirmed"} -> SUBSET Ids], Hashed' = Hashed,
         cr' \in [{"confirmed", "unconfirmed"} -> Ids \cup {0}],
         mutex' \in Threads \cup {None}, leaked' = leaked, last' = last,
         cr'.confirmed <= last.id, cr'.unconfirmed <= last.id
  PROVE  /\ Counts'
         /\ DropsIds(B, th[t].found, Last(S[th[t].s]))
         /\ sess' = [S EXCEPT ![th[t].s] = Unref(S[th[t].s])]
<1>0. PICK s \in Sess : s = th[t].s
  OBVIOUS
<1>1. /\ DropsIds(B, th[t].found, Last(S[s]))
      /\ sess' = [S EXCEPT ![s] = Unref(S[s])]
      /\ sess' \in [Sess -> SessT]
  <2>1. dec_session_ref(S, C, s)
    BY <1>0
  <2> QED
    BY <2>1, DropBoth
<1>2. Types'
  BY <1>1 DEF Types, DropsIds, Counts
<1>3. Local(t, s)
  BY <1>0, <1>1, OnlyThread
<1>4. S[s] \in SessT /\ sess'[s] = Unref(S[s])
  BY <1>1
<1>5. ReleaseBy(t, s, B, S[s])
  BY <1>0, <1>1, <1>3, <1>4 DEF ReleaseBy
<1>6. LastKept(t)
  BY DEF LastKept
<1>7. Counts'
  BY <1>2, <1>4, <1>5, <1>6, CountsReleases
<1> QED
  BY <1>0, <1>1, <1>7

\* The client id found is dropped, if there is one.
LEMMA DropFound ==
  ASSUME NEW B \in [Ids -> CidT], NEW d
  PROVE  /\ DecIf(B, d) \in [Ids -> CidT]
         /\ d \in Ids => DecIf(B, d) = dec_client_id_ref(B, d)
         /\ LessOne(B, DecIf(B, d), d)
<1>1. d \in Ids => d # 0
  BY SMT DEF Ids
<1>2. d \in Ids => DecIf(B, d) = dec_client_id_ref(B, d)
  BY <1>1 DEF DecIf
<1> QED
  BY <1>2, DecRefIf, SMT DEF LessOne

\* A step that leaves the record and the tables alone.
LEMMA CrQuiet ==
  ASSUME CrInv, TabInv, NEW t \in Threads, OneThread(t), ht' = ht, cr' = cr, last'.id = last.id,
         th'[t].pc # "exp_unhash", Allots(th'[t]) => Allots(th[t]) \/ last.id < MaxIds,
         th'[t].tab \in {None, th[t].tab}
  PROVE  CrInv' /\ TabInv'
<1>1. ASSUME NEW u \in Threads, th'[u].pc = "exp_unhash"
      PROVE  th'[u].tab \in Tables /\ \A x \in Tables : cr'[x] # th'[u].exp
  <2>1. u # t /\ th'[u] = th[u]
    BY <1>1 DEF OneThread
  <2> QED
    BY <1>1, <2>1 DEF CrInv
<1>2. ASSUME NEW u \in Threads, Allots(th'[u])
      PROVE  last'.id < MaxIds
  <2>1. CASE u # t
    <3>1. th'[u] = th[u]
      BY <2>1 DEF OneThread
    <3> QED
      BY <1>2, <3>1 DEF CrInv, Allots
  <2>2. CASE u = t
    BY <1>2, <2>2 DEF CrInv, Allots
  <2> QED
    BY <2>1, <2>2
<1>3. TabInv'
  BY DEF TabInv, OneThread
<1>4. /\ \A x \in Tables : cr'[x] # 0 => cr'[x] \in ht'[x]
      /\ ht'.confirmed \cap ht'.unconfirmed = {}
  BY DEF CrInv
<1> QED
  BY <1>1, <1>2, <1>3, <1>4 DEF CrInv, Allots

\* A step that changes them, by a thread that has cr_mutex to itself.
LEMMA CrOwn ==
  ASSUME MutexInv, TabInv, NEW t \in Threads, OneThread(t), mutex \in {None, t},
         th'[t].pc \notin Critical, th'[t].tab \in {None, th[t].tab},
         \A x \in Tables : cr'[x] # 0 => cr'[x] \in ht'[x],
         ht'.confirmed \cap ht'.unconfirmed = {}
  PROVE  CrInv' /\ TabInv'
<1>1. ASSUME NEW u \in Threads
      PROVE  th'[u].pc \notin Critical
  <2>1. CASE u = t
    BY <2>1
  <2>2. CASE u # t
    <3>1. th'[u] = th[u] /\ mutex # u
      BY <2>2, NoneNoThread DEF OneThread
    <3> QED
      BY <3>1 DEF MutexInv
  <2> QED
    BY <2>1, <2>2
<1>2. TabInv'
  BY DEF TabInv, OneThread
<1> QED
  BY <1>1, <1>2 DEF CrInv, Critical, Exp

-----------------------------------------------------------------------------
(***************************************************************************)
(* The control of a thread                                                 *)
(***************************************************************************)
LEMMA MarkType ==
  ASSUME NEW r \in ThT, NEW st \in Statuses
  PROVE  [r EXCEPT !.pc = "exp_unhash", !.tab = st] \in ThT
  BY DEF ThT, PCs

\* A step of nfs_client_id_expire is a step of one thread, which stays typed.
LEMMA ExpireThread ==
  ASSUME ThreadOK, Ground, NEW t \in Threads, Expire(t)
  PROVE  OneThread(t)
<1> USE DEF ThreadOK, OneThread
<1>1. CASE ExpireSkip(t)
  BY <1>1, SMT DEF ExpireSkip, Go, ThT, Shape, Exp, PCs
<1>2. CASE ExpireMark(t)
  <2>1. cid[th[t].exp].status \in Statuses
    BY <1>2 DEF Ground, Types, LastInv, CidT, Shape, Exp, ThT, ExpireMark
  <2>2. PICK st \in Statuses :
            th' = [th EXCEPT ![t].pc = "exp_unhash", ![t].tab = st]
    BY <1>2, <2>1 DEF ExpireMark
  <2>3. th[t].pc = "exp_mark"
    BY <1>2 DEF ExpireMark
  <2> DEFINE r == [th[t] EXCEPT !.pc = "exp_unhash", !.tab = st]
  <2>6. r \in ThT
    BY MarkType
  <2>7. th' = [th EXCEPT ![t] = r]
    BY <2>2
  <2> HIDE DEF r
  <2>4. th' \in [Threads -> ThT] /\ \A u \in Threads \ {t} : th'[u] = th[u]
    BY <2>6, <2>7
  <2>5. Shape(th'[t])
    BY <2>2, <2>3, SMT DEF Shape, Exp
  <2> QED
    BY <2>4, <2>5
<1>3. CASE ExpireUnhash(t)
  BY <1>3, SMT DEF ExpireUnhash, ThT, Shape, Exp, PCs
<1>4. CASE ExpireState(t)
  BY <1>4, SMT DEF ExpireState, Go, ThT, Shape, Exp, PCs
<1>5. CASE ExpireSessions(t)
  BY <1>5, SMT DEF ExpireSessions, ThT, Shape, Exp, PCs
<1>6. CASE ExpireEnd(t)
  BY <1>6, IdleType DEF ExpireEnd, Done, Shape, Exp, Idle
<1>7. CASE ExpireBack(t)
  BY <1>7, SMT DEF ExpireBack, ThT, Shape, Exp, PCs, Statuses, None
<1>8. CASE ExpireSession(t)
  BY <1>8 DEF ExpireSession
<1> QED
  BY <1>1, <1>2, <1>3, <1>4, <1>5, <1>6, <1>7, <1>8 DEF Expire

\* The first step of a request is a step of one thread, which stays typed.
LEMMA RequestThread ==
  ASSUME ThreadOK, Ground, NEW t \in Threads, Request(t)
  PROVE  OneThread(t)
<1> USE DEF ThreadOK, OneThread
<1>1. ASSUME NEW i \in Incs, ExchangeId(t, i)
      PROVE  OneThread(t)
  BY <1>1 DEF ExchangeId
<1>2. ASSUME NEW i \in Incs, ExchangeIdClash(t, i)
      PROVE  OneThread(t)
  BY <1>2, SMT DEF ExchangeIdClash, Ground, Types, LastInv, ThT, Shape, Exp, PCs, None
<1>3. ASSUME NEW c \in Ids, DestroyClientid(t, c)
      PROVE  OneThread(t)
  BY <1>3, SMTT(30) DEF DestroyClientid, Ids, ThT, Shape, Exp, PCs
<1>4. ASSUME NEW c \in Ids, NEW q \in 1..MaxSess, CreateSession(t, c, q)
      PROVE  OneThread(t)
  BY <1>4, BoundsAssumption, SMTT(30) DEF CreateSession, Ids, ThT, Shape, Exp, PCs
<1>5. ASSUME NEW s \in Sess, DestroySession(t, s)
      PROVE  OneThread(t)
  BY <1>5, SMTT(30) DEF DestroySession, Sess, ThT, Shape, Exp, PCs
<1>6. ASSUME NEW s \in Sess, NEW q \in 0..MaxSeq, Sequence(t, s, q)
      PROVE  OneThread(t)
  BY <1>6, BoundsAssumption, SMT DEF Sequence, Sess, ThT, Shape, Exp, PCs
<1> QED
  BY <1>1, <1>2, <1>3, <1>4, <1>5, <1>6 DEF Request

\* A later step of a request is a step of one thread, which stays typed.
LEMMA ContinueThread ==
  ASSUME ThreadOK, Ground, NEW t \in Threads, Continue(t)
  PROVE  OneThread(t)
<1> USE DEF ThreadOK, OneThread
<1>1. CASE ExchangeIdNew(t)
  BY <1>1, IdleType DEF ExchangeIdNew, Done, Shape, Exp, Idle
<1>2. CASE CreateSessionRefuse(t)
  BY <1>2, IdleType DEF CreateSessionRefuse, Done, Shape, Exp, Idle
<1>3. CASE CreateSessionBuild(t)
  <2>1. last.session + 1 \in Sess
    BY <1>3, BoundsAssumption, SMT DEF CreateSessionBuild, Ground, Types, LastInv, Sess
  <2> QED
    BY <1>3, <2>1, SMT DEF CreateSessionBuild, Ground, Types, LastInv, Sess, ThT, Shape, Exp, PCs, None
<1>4. CASE CreateSessionUpdate(t)
  BY <1>4, IdleType DEF CreateSessionUpdate, Done, Shape, Exp, Idle
<1>5. CASE CreateSessionConfirm(t)
  BY <1>5, IdleType DEF CreateSessionConfirm, Done, Shape, Exp, Idle
<1>6. CASE CreateSessionLate(t)
  BY <1>6, IdleType DEF CreateSessionLate, Done, Shape, Exp, Idle
<1>7. CASE DestroyClientidRemove(t)
  BY <1>7, IdleType DEF DestroyClientidRemove, Done, Shape, Exp, Idle
<1>8. CASE DestroySessionDel(t)
  BY <1>8, IdleType DEF DestroySessionDel, Done, Shape, Exp, Idle
<1>9. CASE SequenceLease(t)
  <2>1. sess[th[t].s].cid \in Ids /\ sess[th[t].s].cid # 0
    BY <1>9, BoundsAssumption, SMT DEF SequenceLease, Ground, Types, LastInv, Shape, ThT, Ids, Sess
  <2> QED
    BY <1>9, <2>1, SMTT(30) DEF SequenceLease, ThT, Shape, Exp, PCs
<1>10. CASE SequenceNext(t)
  <2> DEFINE s == th[t].s
  <2>1. /\ th[t].pc = "sq_slot"
        /\ \/ th' = [th EXCEPT ![t].pc = "sq_exec", ![t].slot = s]
           \/ th' = [th EXCEPT ![t].pc = "sq_complete", ![t].slot = s, ![t].s = 0]
    BY <1>10 DEF SequenceNext
  <2> QED
    BY <2>1, SMT DEF ThT, Shape, Exp, PCs
<1>11. CASE SequenceRefuse(t)
  BY <1>11, SMTT(30) DEF SequenceRefuse, ThT, Shape, Exp, PCs
<1>12. CASE SequenceExec(t)
  BY <1>12, SMT DEF SequenceExec, Go, ThT, Shape, Exp, PCs
<1>13. CASE SequenceComplete(t)
  BY <1>13, IdleType DEF SequenceComplete, Done, Shape, Exp, Idle
<1>14. CASE ExpireLock(t)
  BY <1>14, SMT DEF ExpireLock, ThT, Shape, Exp, PCs, None
<1>15. CASE Expire(t)
  BY <1>15, ExpireThread
<1> QED
  BY <1>1, <1>2, <1>3, <1>4, <1>5, <1>6, <1>7, <1>8, <1>9, <1>10, <1>11, <1>12,
     <1>13, <1>14, <1>15 DEF Continue

\* The reaper changes no thread but itself.
LEMMA ReapThread ==
  ASSUME ThreadOK, Ground, NEW c \in Ids, Reap(c)
  PROVE  Reaper \in Threads /\ OneThread(Reaper)
  BY SMT DEF ThreadOK, OneThread, Reap, Threads, Ids, ThT, Shape, Exp, PCs
\* A slot changes, but not what the session counts for.
SameSlot(x, y) ==
    /\ y \in SessT /\ y.ref = x.ref /\ y.cid = x.cid /\ y.csq = x.csq
    /\ y.hashed <=> x.hashed

\* The fields of a slot can change without touching the references of its
\* session.
LEMMA SlotFields ==
  ASSUME NEW x \in SessT
  PROVE  /\ SameSlot(x, x)
         /\ SameSlot(x, [x EXCEPT !.sequence = @ + 1])
         /\ \A q \in Nat : SameSlot(x, [x EXCEPT !.cached = q])
         /\ \A u \in Threads \cup {None} : SameSlot(x, [x EXCEPT !.lock = u])
         /\ \A b \in BOOLEAN : SameSlot(x, [x EXCEPT !.torn = b])
         /\ \A r \in [1..MaxSeq -> Nat] : SameSlot(x, [x EXCEPT !.ran = r])
<1>1. SameSlot(x, x)
  BY DEF SameSlot
<1>2. SameSlot(x, [x EXCEPT !.sequence = @ + 1])
  BY SMT DEF SameSlot, SessT
<1>3. ASSUME NEW q \in Nat PROVE SameSlot(x, [x EXCEPT !.cached = q])
  BY DEF SameSlot, SessT
<1>4. ASSUME NEW u \in Threads \cup {None} PROVE SameSlot(x, [x EXCEPT !.lock = u])
  BY DEF SameSlot, SessT
<1>5. ASSUME NEW b \in BOOLEAN PROVE SameSlot(x, [x EXCEPT !.torn = b])
  BY DEF SameSlot, SessT
<1>6. ASSUME NEW r \in [1..MaxSeq -> Nat] PROVE SameSlot(x, [x EXCEPT !.ran = r])
  BY DEF SameSlot, SessT
<1> QED
  BY <1>1, <1>2, <1>3, <1>4, <1>5, <1>6

\* Only the slot of session s changes.
SlotOnly(S, s) ==
    /\ S \in [Sess -> SessT]
    /\ \A x \in Sess \ {s} : S[x] = sess[x]
    /\ SameSlot(sess[s], S[s])

\* A change of the slot of s alone.
LEMMA OneSlot ==
  ASSUME sess \in [Sess -> SessT], NEW s \in Sess, NEW y, SameSlot(sess[s], y)
  PROVE  SlotOnly([sess EXCEPT ![s] = y], s)
BY DEF SlotOnly, SameSlot

\* The slot of s goes on to its next request.
LEMMA NextSlot ==
  ASSUME sess \in [Sess -> SessT], NEW s \in Sess, NEW S,
         S = [sess EXCEPT ![s].sequence = @ + 1, ![s].cached = 0]
  PROVE  /\ SlotOnly(S, s)
         /\ \A u \in Threads \cup {None} : SlotOnly([S EXCEPT ![s].lock = u], s)
<1>1. PICK x \in SessT : x = sess[s]
  OBVIOUS
<1>2. PICK y \in SessT : y = [x EXCEPT !.sequence = @ + 1] /\ SameSlot(x, y)
  <2>1. SameSlot(x, [x EXCEPT !.sequence = @ + 1])
    BY SlotFields
  <2> QED
    BY <2>1 DEF SameSlot
<1>3. PICK z \in SessT : z = [y EXCEPT !.cached = 0] /\ SameSlot(y, z)
  <2>1. SameSlot(y, [y EXCEPT !.cached = 0])
    BY SlotFields
  <2> QED
    BY <2>1 DEF SameSlot
<1>4. S = [sess EXCEPT ![s] = z]
  BY <1>1, <1>2, <1>3
<1>5. SameSlot(sess[s], z)
  BY <1>1, <1>2, <1>3 DEF SameSlot
<1>6. SlotOnly(S, s)
  <2>1. SlotOnly([sess EXCEPT ![s] = z], s)
    BY <1>5, OneSlot
  <2> QED
    BY <1>4, <2>1
<1>7. ASSUME NEW u \in Threads \cup {None}
      PROVE  SlotOnly([S EXCEPT ![s].lock = u], s)
  <2>1. PICK w : w = [z EXCEPT !.lock = u] /\ SameSlot(z, w)
    BY SlotFields
  <2>2. [S EXCEPT ![s].lock = u] = [sess EXCEPT ![s] = w]
    BY <1>4, <2>1
  <2>3. SameSlot(sess[s], w)
    BY <1>5, <2>1 DEF SameSlot
  <2>4. SlotOnly([sess EXCEPT ![s] = w], s)
    BY <2>3, OneSlot
  <2> QED
    BY <2>2, <2>4
<1> QED
  BY <1>6, <1>7

\* Executing a request changes the slot alone.
LEMMA RanSlot ==
  ASSUME sess \in [Sess -> SessT], NEW s \in Sess, NEW q
  PROVE  SlotOnly([sess EXCEPT ![s].ran[q] = @ + 1], s)
<1>1. PICK x \in SessT : x = sess[s]
  OBVIOUS
<1>2. PICK r : r = [x.ran EXCEPT ![q] = @ + 1]
  OBVIOUS
<1>3. r \in [1..MaxSeq -> Nat]
  <2>1. PICK f \in [1..MaxSeq -> Nat] : f = x.ran
    BY DEF SessT
  <2>2. r = [p \in 1..MaxSeq |-> IF p = q THEN f[p] + 1 ELSE f[p]]
    BY <1>2, <2>1
  <2>3. \A p \in 1..MaxSeq : f[p] + 1 \in Nat /\ f[p] \in Nat
    BY SMT
  <2> QED
    BY <2>2, <2>3
<1>4. PICK w : w = [x EXCEPT !.ran = r] /\ SameSlot(x, w)
  BY <1>3, SlotFields
<1>5. SlotOnly([sess EXCEPT ![s] = w], s)
  BY <1>1, <1>4, OneSlot
<1>6. [sess EXCEPT ![s].ran[q] = @ + 1] = [sess EXCEPT ![s] = w]
  BY <1>1, <1>2, <1>4
<1> QED
  BY <1>5, <1>6

\* Storing a reply changes the slot alone.
LEMMA ReplySlot ==
  ASSUME sess \in [Sess -> SessT], NEW s \in Sess, NEW q \in Nat, NEW b \in BOOLEAN, NEW S,
         S = [sess EXCEPT ![s].cached = q, ![s].torn = @ \/ b]
  PROVE  SlotOnly(S, s) /\ SlotOnly([S EXCEPT ![s].lock = None], s)
<1>1. PICK x \in SessT : x = sess[s]
  OBVIOUS
<1>2. PICK y \in SessT : y = [x EXCEPT !.cached = q] /\ SameSlot(x, y)
  BY SlotFields DEF SameSlot
<1>3. PICK z \in SessT : z = [y EXCEPT !.torn = @ \/ b] /\ SameSlot(y, z)
  <2>1. PICK f \in BOOLEAN : f = (y.torn \/ b)
    OBVIOUS
  <2>2. SameSlot(y, [y EXCEPT !.torn = f])
    BY SlotFields
  <2>3. [y EXCEPT !.torn = @ \/ b] = [y EXCEPT !.torn = f]
    BY <2>1
  <2> QED
    BY <2>2, <2>3 DEF SameSlot
<1>4. S = [sess EXCEPT ![s] = z]
  BY <1>1, <1>2, <1>3
<1>5. SameSlot(sess[s], z)
  BY <1>1, <1>2, <1>3 DEF SameSlot
<1>6. SlotOnly(S, s)
  <2>1. SlotOnly([sess EXCEPT ![s] = z], s)
    BY <1>5, OneSlot
  <2> QED
    BY <1>4, <2>1
<1>7. SlotOnly([S EXCEPT ![s].lock = None], s)
  <2>1. PICK w : w = [z EXCEPT !.lock = None] /\ SameSlot(z, w)
    BY SlotFields
  <2>2. [S EXCEPT ![s].lock = None] = [sess EXCEPT ![s] = w]
    BY <1>4, <2>1
  <2>3. SameSlot(sess[s], w)
    BY <1>5, <2>1 DEF SameSlot
  <2>4. SlotOnly([sess EXCEPT ![s] = w], s)
    BY <2>3, OneSlot
  <2> QED
    BY <2>2, <2>4
<1> QED
  BY <1>6, <1>7

\* The counts of the records do not depend on the other fields.
Same(C, D) ==
    /\ D \in [Ids -> CidT]
    /\ \A c \in Ids : D[c].ref = C[c].ref /\ D[c].status = C[c].status

\* Releasing a lease changes no count and no sequence number.
LEMMA LeaseReleased ==
  ASSUME NEW C \in [Ids -> CidT], NEW k, NEW b
  PROVE  LET D == [C EXCEPT ![k].resv = @ - 1, ![k].fresh = @ \/ (b)]
         IN  Same(C, D) /\ \A d \in Ids : D[d].seq = C[d].seq
<1>1. ASSUME NEW r \in CidT
      PROVE  [[r EXCEPT !.resv = @ - 1] EXCEPT !.fresh = @ \/ b] \in CidT
  <2>1. PICK y : y = [r EXCEPT !.resv = @ - 1]
    OBVIOUS
  <2>2. y \in CidT
    BY <2>1, SMT DEF CidT
  <2>3. PICK f \in BOOLEAN : f = (y.fresh \/ b)
    OBVIOUS
  <2>4. [y EXCEPT !.fresh = f] \in CidT
    BY <2>2 DEF CidT
  <2>5. [y EXCEPT !.fresh = @ \/ b] = [y EXCEPT !.fresh = f]
    BY <2>3
  <2> QED
    BY <2>1, <2>4, <2>5
<1>2. ASSUME NEW r \in CidT
      PROVE  /\ [[r EXCEPT !.resv = @ - 1] EXCEPT !.fresh = @ \/ b].ref = r.ref
             /\ [[r EXCEPT !.resv = @ - 1] EXCEPT !.fresh = @ \/ b].seq = r.seq
             /\ [[r EXCEPT !.resv = @ - 1] EXCEPT !.fresh = @ \/ b].status = r.status
  BY DEF CidT
<1>3. [C EXCEPT ![k].resv = @ - 1, ![k].fresh = @ \/ (b)] =
        [d \in Ids |-> IF d = k THEN [[C[d] EXCEPT !.resv = @ - 1] EXCEPT !.fresh = @ \/ b]
                       ELSE C[d]]
  OBVIOUS
<1> QED
  BY <1>1, <1>2, <1>3 DEF Same

\* Counting a CREATE_SESSION and renewing the lease changes no reference.
LEMMA AcceptedSame ==
  ASSUME NEW C \in [Ids -> CidT], NEW c
  PROVE  /\ Same(C, Accepted(C, c))
         /\ \A d \in Ids : Accepted(C, c)[d].seq = IF d = c THEN C[d].seq + 1 ELSE C[d].seq
<1>1. ASSUME NEW r \in CidT
      PROVE  /\ [[r EXCEPT !.seq = @ + 1] EXCEPT !.fresh = TRUE] \in CidT
             /\ [[r EXCEPT !.seq = @ + 1] EXCEPT !.fresh = TRUE].ref = r.ref
             /\ [[r EXCEPT !.seq = @ + 1] EXCEPT !.fresh = TRUE].status = r.status
             /\ [[r EXCEPT !.seq = @ + 1] EXCEPT !.fresh = TRUE].seq = r.seq + 1
  <2>1. PICK y : y = [r EXCEPT !.seq = @ + 1]
    OBVIOUS
  <2>2. y \in CidT /\ y.ref = r.ref /\ y.status = r.status /\ y.seq = r.seq + 1
    BY <2>1, SMT DEF CidT
  <2>3. [y EXCEPT !.fresh = TRUE] \in CidT
    BY <2>2 DEF CidT
  <2>4. /\ [y EXCEPT !.fresh = TRUE].ref = y.ref /\ [y EXCEPT !.fresh = TRUE].status = y.status
        /\ [y EXCEPT !.fresh = TRUE].seq = y.seq
    BY <2>2 DEF CidT
  <2> QED
    BY <2>1, <2>2, <2>3, <2>4
<1>2. Accepted(C, c) =
        [d \in Ids |-> IF d = c THEN [[C[d] EXCEPT !.seq = @ + 1] EXCEPT !.fresh = TRUE] ELSE C[d]]
  BY DEF Accepted
<1> QED
  BY <1>1, <1>2 DEF Same

-----------------------------------------------------------------------------
(***************************************************************************)
(* The status of the client ids, the sequence and the slots                *)
(***************************************************************************)
\* A CREATE_SESSION between the building of its session and its end.
Creating(x) == x.pc = "cs_confirm" \/ (x.pc \in Exp /\ x.back = "cs_confirm")

\* What nfs_client_id_expire and CREATE_SESSION rely on while they hold
\* cr_mutex: the client id is marked and still in the table of its former
\* status; the confirmed client id is the one being expired, or gone.
StatT(x) ==
    /\ x.pc = "exp_unhash" => x.exp \in ht[x.tab] /\ cid[x.exp].status \notin Tables
    /\ Creating(x) /\ (x.pc = "cs_confirm" => x.unconf) =>
         cr.confirmed = IF x.pc = "exp_mark" THEN x.exp ELSE 0

\* The status of a client id tells its place in the client record and in the
\* tables.
StatInv ==
    /\ \A c \in Ids : cid[c].status = "confirmed" <=> cr.confirmed = c
    /\ \A c \in Ids : cr.unconfirmed = c => cid[c].status = "unconfirmed"
    /\ \A x \in Tables, c \in Ids : cid[c].status = x => c \in ht[x]
    /\ \A t \in Threads : StatT(th[t])

\* The thread that is creating session s for the sequence its client id is at.
Creates(t, s) ==
    /\ Creating(th[t]) /\ th[t].s = s
    /\ sess[s].cid = th[t].found /\ sess[s].csq = cid[th[t].found].seq

\* A session belongs to an earlier csa_sequence than its client id is at,
\* unless it is still being created.
SeqInv ==
    /\ \A s \in Sess : sess[s].hashed =>
         sess[s].csq < cid[sess[s].cid].seq \/ \E t \in Threads : Creates(t, s)
    /\ CreatedOnce

\* A thread that runs a request of a slot.
Running(x) == x.pc = "sq_exec" \/ (x.pc = "sq_complete" /\ x.s # 0)

\* It has slot_lock and the sequence of the slot, and has not run it before.
SlotT(t) ==
    Running(th[t]) =>
        /\ sess[th[t].s].lock = t /\ sess[th[t].s].sequence = th[t].seq
        /\ th[t].pc = "sq_exec" =>
             \A q \in 1..MaxSeq : q >= th[t].seq => sess[th[t].s].ran[q] = 0

\* No request of a slot runs twice, and none runs ahead of the slot.
SlotInv ==
    /\ \A s \in Sess, q \in 1..MaxSeq : q > sess[s].sequence => sess[s].ran[q] = 0
    /\ \A t \in Threads : SlotT(t)
    /\ ExactlyOnce

-----------------------------------------------------------------------------
(***************************************************************************)
(* Steps that leave all this alone                                         *)
(***************************************************************************)
\* No client id changes but that it may be freed, and no sequence.
Kept == \A c \in Ids : /\ cid'[c].status \in {cid[c].status, "freed"}
                       /\ cid'[c].seq = cid[c].seq

\* The tables and the client record stay as well.
Placed == Kept /\ ht' = ht /\ cr' = cr

\* At most the unconfirmed client id leaves the client record.
InPlace == /\ \A c \in Ids : cid'[c].status \in {cid[c].status, "freed"}
         /\ ht' = ht /\ cr'.confirmed = cr.confirmed
         /\ cr'.unconfirmed \in {0, cr.unconfirmed}

\* A session stays what it was created for, and is at most unhashed.
Passed == \A s \in Sess : /\ sess'[s].cid = sess[s].cid /\ sess'[s].csq = sess[s].csq
                          /\ sess'[s].hashed => sess[s].hashed

SlotEq(x, y) == /\ y.lock = x.lock /\ y.sequence = x.sequence /\ y.cached = x.cached
                /\ y.ran = x.ran /\ y.torn = x.torn
SlotNew(y) == y.sequence = 0 /\ y.cached = 0 /\ y.ran = [q \in 1..MaxSeq |-> 0]

\* A slot stays, or its session goes and no other thread holds it.
SlotKept(t, s) ==
    \/ SlotEq(sess[s], sess'[s])
    \/ SlotNew(sess'[s]) /\ \A u \in Threads \ {t} : th[u].s # s

\* A client id in a table is not freed.
LEMMA HashedLive ==
  ASSUME Counts', NEW c \in Ids, c \in Hashed'
  PROVE  cid'[c].status # "freed"
<1>1. Counting
  BY DEF Counts, Types
<1>2. /\ SessionsOf(c)' \in SUBSET Sess /\ Finders(c)' \in SUBSET Threads
      /\ Olds(c)' \in SUBSET Threads /\ Owners(c)' \in SUBSET Threads
  BY DEF SessionsOf, Finders, Olds, Owners
<1>3. /\ Cardinality(SessionsOf(c)') \in Nat /\ Cardinality(Finders(c)') \in Nat
      /\ Cardinality(Olds(c)') \in Nat /\ Cardinality(Owners(c)') \in Nat
  BY <1>1, <1>2 DEF Counting
<1>4. cid'[c].ref = 1 + Cardinality(SessionsOf(c)') + Cardinality(Finders(c)')
                      + Cardinality(Olds(c)') + Cardinality(Owners(c)') + leaked'[c]
  BY DEF Counts, RefEq, Held, Bit
<1>5. leaked'[c] \in Nat
  BY DEF Counts, Types
<1>6. cid'[c].ref # 0
  BY <1>3, <1>4, <1>5, SMT
<1> QED
  BY <1>6 DEF Counts, StatusEq

\* While a thread is in a critical section, no other one is.
LEMMA AloneIn ==
  ASSUME MutexInv, NEW t \in Threads, mutex \in {None, t}, NEW u \in Threads, u # t
  PROVE  th[u].pc \notin Critical
BY NoneNoThread DEF MutexInv

\* A step that leaves the client ids in their places keeps StatInv.
LEMMA QuietStat ==
  ASSUME StatInv, CrInv, Counts', NEW t \in Threads, OneThread(t), InPlace, StatT(th[t])'
  PROVE  StatInv'
<1>0. \A c \in Ids : c \in Hashed' => cid'[c].status # "freed"
  BY HashedLive
<1>1. \A x \in Tables, c \in Ids : cr[x] = c => c \in Hashed' /\ cid'[c].status = cid[c].status
  <2> SUFFICES ASSUME NEW x \in Tables, NEW c \in Ids, cr[x] = c
               PROVE  c \in Hashed' /\ cid'[c].status = cid[c].status
    OBVIOUS
  <2>1. c \in ht[x]
    BY SMT DEF CrInv, Ids
  <2>2. c \in Hashed'
    BY <2>1 DEF Hashed, InPlace, Tables
  <2> QED
    BY <1>0, <2>2 DEF InPlace
<1>2. \A c \in Ids : cid'[c].status = "confirmed" <=> cr'.confirmed = c
  BY <1>1 DEF StatInv, InPlace, Tables
<1>3. \A c \in Ids : cr'.unconfirmed = c => cid'[c].status = "unconfirmed"
  <2>1. 0 \notin Ids
    BY SMT DEF Ids
  <2> QED
    BY <1>1, <2>1 DEF StatInv, InPlace, Tables
<1>4. \A x \in Tables, c \in Ids : cid'[c].status = x => c \in ht'[x]
  BY DEF StatInv, InPlace, Tables
<1>5. ASSUME NEW u \in Threads
      PROVE  StatT(th[u])'
  <2>1. CASE u = t
    BY <2>1
  <2>2. CASE u # t
    <3>1. th'[u] = th[u] /\ StatT(th[u])
      BY <2>2 DEF OneThread, StatInv
    <3>2. th[u].pc = "exp_unhash" =>
            th[u].exp \in ht'[th[u].tab] /\ cid'[th[u].exp].status \notin Tables
      <4> SUFFICES ASSUME th[u].pc = "exp_unhash"
                   PROVE  th[u].exp \in ht'[th[u].tab] /\ cid'[th[u].exp].status \notin Tables
        OBVIOUS
      <4>1. th[u].exp \in ht[th[u].tab] /\ cid[th[u].exp].status \notin Tables
        BY <3>1 DEF StatT
      <4>2. th[u].exp \in Ids
        <5>1. th[u].tab \in Tables /\ ht' \in [Tables -> SUBSET Ids] /\ ht' = ht
          BY DEF CrInv, InPlace, Counts, Types, Tables
        <5> QED
          BY <4>1, <5>1
      <4> QED
        BY <4>1, <4>2 DEF InPlace, Tables
    <3> QED
      BY <3>1, <3>2 DEF StatT, InPlace
  <2> QED
    BY <2>1, <2>2
<1> QED
  BY <1>2, <1>3, <1>4, <1>5 DEF StatInv

\* A step that counts no CREATE_SESSION and builds no session keeps SeqInv, if
\* the thread that creates a session goes on or takes it away.
LEMMA QuietSeq ==
  ASSUME SeqInv, Counts, NEW t \in Threads, OneThread(t), Passed,
         \A c \in 1..last.id : cid'[c].seq = cid[c].seq,
         Creating(th[t]) => \/ /\ Creating(th'[t])
                               /\ th'[t].s = th[t].s /\ th'[t].found = th[t].found
                            \/ \A s \in Sess : th[t].s = s => ~sess'[s].hashed
  PROVE  SeqInv'
<1>1. ASSUME NEW s \in Sess, sess'[s].hashed
      PROVE  sess'[s].csq < cid'[sess'[s].cid].seq \/ \E u \in Threads : Creates(u, s)'
  <2>1. /\ sess[s].hashed /\ sess'[s].cid = sess[s].cid /\ sess'[s].csq = sess[s].csq
    BY <1>1 DEF Passed
  <2>2. sess[s].cid \in 1..last.id
    BY <2>1, SMT DEF Counts, LastInv, Types, NoSession, Sess
  <2>3. cid'[sess[s].cid].seq = cid[sess[s].cid].seq
    BY <2>2
  <2>4. CASE sess[s].csq < cid[sess[s].cid].seq
    BY <2>1, <2>3, <2>4
  <2>5. ASSUME NEW u \in Threads, Creates(u, s)
        PROVE  Creates(u, s)'
    <3>1. Creating(th'[u]) /\ th'[u].s = s /\ th'[u].found = th[u].found
      BY <1>1, <2>5 DEF OneThread, Creates
    <3> QED
      BY <2>1, <2>3, <2>5, <3>1 DEF Creates
  <2> QED
    BY <2>1, <2>4, <2>5 DEF SeqInv
<1>2. CreatedOnce'
  BY SMT DEF SeqInv, CreatedOnce, Passed
<1> QED
  BY <1>1, <1>2 DEF SeqInv

\* A step that leaves the slots alone keeps SlotInv.
LEMMA QuietSlot ==
  ASSUME SlotInv, NEW t \in Threads, OneThread(t), \A s \in Sess : SlotKept(t, s),
         ThreadOK, ~Running(th'[t]), th[t].slot = 0
  PROVE  SlotInv'
<1>1. ASSUME NEW s \in Sess
      PROVE  /\ \A q \in 1..MaxSeq : q > sess'[s].sequence => sess'[s].ran[q] = 0
             /\ \A q \in 1..MaxSeq : sess'[s].ran[q] <= 1
             /\ \/ sess'[s].lock # None
                \/ sess'[s].sequence = sess'[s].cached
                \/ sess'[s].torn
                \/ \E u \in Threads : th'[u].slot = s /\ th'[u].s = 0
  <2>1. CASE SlotNew(sess'[s])
    BY <2>1, SMT DEF SlotNew
  <2>2. CASE SlotEq(sess[s], sess'[s])
    <3>1. \A u \in Threads : th[u].slot = s => th'[u] = th[u]
      BY SMT DEF OneThread, Sess
    <3> QED
      BY <2>2, <3>1, SMT DEF SlotEq, SlotInv, ExactlyOnce
  <2> QED
    BY <2>1, <2>2 DEF SlotKept
<1>2. ASSUME NEW u \in Threads, Running(th'[u])
      PROVE  SlotT(u)'
  <2>1. u # t /\ th'[u] = th[u]
    BY <1>2 DEF OneThread
  <2>2. SlotT(u) /\ Running(th[u])
    BY <1>2, <2>1 DEF SlotInv
  <2>3. PICK s \in Sess : s = th[u].s
    BY <2>2, SMT DEF Running, ThreadOK, ThT, Shape
  <2>4. SlotEq(sess[s], sess'[s])
    BY <2>1, <2>3 DEF SlotKept
  <2> QED
    BY <2>1, <2>2, <2>3, <2>4 DEF SlotT, SlotEq
<1>3. \A u \in Threads : SlotT(u)'
  BY <1>2 DEF SlotT
<1> QED
  BY <1>1, <1>3 DEF SlotInv, ExactlyOnce

-----------------------------------------------------------------------------
(***************************************************************************)
(* The pieces of steps                                                     *)
(***************************************************************************)
\* Two threads that hold a session are two references.
LEMMA TwoUsers ==
  ASSUME Counts, NEW s \in Sess, NEW t \in Threads, NEW u \in Threads, t # u,
         th[t].s = s, th[u].s = s
  PROVE  sess[s].ref >= Bit(sess[s].hashed) + 2
<1>1. PICK S \in SUBSET Threads : S = Users(s)
  BY DEF Users
<1>2. PICK R \in SUBSET Threads : R = S \ {u}
  OBVIOUS
<1>3. t \in R /\ u \in S /\ u \notin R /\ S \ {u} = R \ {u}
  BY <1>1, <1>2 DEF Users
<1>4. Counting /\ Threads \in {Threads, Sess}
  BY DEF Counts, Types
<1>5. /\ Cardinality(R) = Cardinality(S) + Bit(u \in R) - Bit(u \in S)
      /\ Cardinality(S) \in Nat /\ Cardinality(R) \in Nat
  BY <1>3, <1>4, CountStep, SMT
<1>6. Cardinality(R) >= Bit(t \in R)
  BY <1>4, CountStep
<1>7. Cardinality(S) >= 2
  BY <1>3, <1>5, <1>6, SMT DEF Bit
<1>8. sess[s].ref = Bit(sess[s].hashed) + Cardinality(S)
  BY <1>1 DEF Counts, SessEq
<1>9. Bit(sess[s].hashed) \in {0, 1}
  BY DEF Bit
<1> QED
  BY <1>5, <1>7, <1>8, <1>9, SMT

\* A thread that holds a session is a reference.
LEMMA OneUser ==
  ASSUME Counts, NEW s \in Sess, NEW t \in Threads, th[t].s = s
  PROVE  sess[s].ref >= Bit(sess[s].hashed) + 1
<1>1. PICK S \in SUBSET Threads : S = Users(s)
  BY DEF Users
<1>0. t \in S
  BY <1>1 DEF Users
<1>2. Counting /\ Threads \in {Threads, Sess}
  BY DEF Counts, Types
<1>3. Cardinality(S) \in Nat /\ Cardinality(S) >= Bit(t \in S)
  BY <1>2, CountStep
<1>4. sess[s].ref = Bit(sess[s].hashed) + Cardinality(S)
  BY <1>1 DEF Counts, SessEq
<1>5. Bit(sess[s].hashed) \in {0, 1}
  BY DEF Bit
<1> QED
  BY <1>0, <1>3, <1>4, <1>5, SMT DEF Bit

\* The client ids C keep their status and their sequence, or are freed.
KeptBy(C) == \A c \in Ids : /\ C[c].status \in {cid[c].status, "freed"}
                            /\ C[c].seq = cid[c].seq

\* Taking and dropping references does.
LEMMA KeptRefs ==
  ASSUME Types, NEW d
  PROVE  /\ cid' = cid => Kept
         /\ cid' = inc_client_id_ref(cid, d) => Kept
         /\ KeptBy(DecIf(cid, d)) /\ DecIf(cid, d) \in [Ids -> CidT]
         /\ cid' = DecIf(cid, d) => Kept
         /\ d \in Ids => DecIf(cid, d) = dec_client_id_ref(cid, d)
<1>1. cid' = cid => Kept
  BY DEF Kept
<1>2. cid' = inc_client_id_ref(cid, d) => Kept
  BY TakeOne DEF TakesId, Kept
<1>3. cid \in [Ids -> CidT]
  BY DEF Types
<1>4. KeptBy(DecIf(cid, d)) /\ DecIf(cid, d) \in [Ids -> CidT]
  <2>1. \A c \in Ids : /\ DecIf(cid, d)[c].status =
                            (IF c = d /\ cid[c].ref = 1 THEN "freed" ELSE cid[c].status)
                       /\ DecIf(cid, d)[c].seq = cid[c].seq
    BY <1>3, DecRefIf, SMT
  <2> QED
    BY <1>3, <2>1, DecRefIf DEF KeptBy
<1>5. cid' = DecIf(cid, d) => Kept
  BY <1>4 DEF Kept, KeptBy
<1>6. d \in Ids => DecIf(cid, d) = dec_client_id_ref(cid, d)
  BY SMT DEF DecIf, Ids
<1> QED
  BY <1>1, <1>2, <1>4, <1>5, <1>6

\* Renewing, reserving and releasing a lease does, as does a change of state.
LEMMA KeptLease ==
  ASSUME NEW C \in [Ids -> CidT], KeptBy(C), NEW c
  PROVE  /\ \A k : KeptBy([C EXCEPT ![c].state = k])
         /\ \A k : KeptBy([C EXCEPT ![c].fresh = k])
         /\ \A k : KeptBy([C EXCEPT ![c].resv = k])
         /\ \A k, b : KeptBy([C EXCEPT ![c].resv = k, ![c].fresh = b])
BY SMT DEF KeptBy, CidT

\* Releasing a session does.
LEMMA KeptSession ==
  ASSUME NEW C \in [Ids -> CidT], KeptBy(C), NEW S \in [Sess -> SessT], NEW s \in Sess,
         dec_session_ref(S, C, s)
  PROVE  Kept
<1>1. \A d \in Ids :
         /\ cid'[d].status = IF S[s].ref = 1 /\ d = S[s].cid /\ C[d].ref = 1
                             THEN "freed" ELSE C[d].status
         /\ cid'[d].seq = C[d].seq
  BY DecSession, SMT
<1> QED
  BY <1>1 DEF Kept, KeptBy

\* A session that is looked up, or left alone, keeps its slot.
LEMMA SlotsStay ==
  ASSUME Types, NEW t, NEW s \in Sess
  PROVE  /\ sess' = sess => Passed /\ \A x \in Sess : SlotKept(t, x)
         /\ sess' = [sess EXCEPT ![s].ref = @ + 1] => Passed /\ \A x \in Sess : SlotKept(t, x)
<1>1. sess \in [Sess -> SessT]
  BY DEF Types
<1>2. sess' = sess => Passed /\ \A x \in Sess : SlotKept(t, x)
  BY DEF Passed, SlotKept, SlotEq
<1>3. ASSUME sess' = [sess EXCEPT ![s].ref = @ + 1]
      PROVE  Passed /\ \A x \in Sess : SlotKept(t, x)
  <2>1. \A x \in Sess : /\ sess'[x].cid = sess[x].cid /\ sess'[x].csq = sess[x].csq
                        /\ sess'[x].hashed = sess[x].hashed
                        /\ sess'[x].lock = sess[x].lock /\ sess'[x].sequence = sess[x].sequence
                        /\ sess'[x].cached = sess[x].cached /\ sess'[x].ran = sess[x].ran
                        /\ sess'[x].torn = sess[x].torn
    BY <1>1, <1>3 DEF SessT
  <2> QED
    BY <2>1 DEF Passed, SlotKept, SlotEq
<1> QED
  BY <1>2, <1>3

\* What is left of a slot when a reference to its session is dropped.
LEMMA UnrefSlot ==
  ASSUME NEW x \in SessT
  PROVE  SlotNew(Unref(x)) \/ SlotEq(x, Unref(x))
<1>1. x.ref = 1 => SlotNew(Unref(x))
  BY UnrefType DEF SlotNew
<1>2. x.ref # 1 => SlotEq(x, Unref(x))
  BY UnrefType DEF SlotEq
<1> QED
  BY <1>1, <1>2

\* A thread that drops its session, which it may have unhashed, keeps the slot
\* of that session, unless nobody else holds it.
LEMMA SlotsDropped ==
  ASSUME Counts, NEW t \in Threads, NEW s \in Sess, th[t].s = s,
         NEW S \in [Sess -> SessT], \A x \in Sess \ {s} : S[x] = sess[x],
         S[s].cid = sess[s].cid, S[s].csq = sess[s].csq, SlotEq(sess[s], S[s]),
         S[s].hashed => sess[s].hashed,
         S[s].ref = sess[s].ref + Bit(S[s].hashed) - Bit(sess[s].hashed),
         sess' = [S EXCEPT ![s] = Unref(S[s])]
  PROVE  Passed /\ \A x \in Sess : SlotKept(t, x)
<1>1. sess'[s] = Unref(S[s]) /\ \A x \in Sess \ {s} : sess'[x] = sess[x]
  OBVIOUS
<1>2. S[s] \in SessT /\ sess[s].ref \in Int
  BY DEF Counts, Types, SessT
<1>3. /\ Unref(S[s]).cid = sess[s].cid /\ Unref(S[s]).csq = sess[s].csq
      /\ Unref(S[s]).hashed => sess[s].hashed
  BY <1>2, UnrefType
<1>4. Passed
  BY <1>1, <1>3 DEF Passed
<1>5. SlotKept(t, s)
  <2>1. CASE S[s].ref # 1
    <3>1. SlotEq(S[s], Unref(S[s]))
      BY <1>2, <2>1, UnrefType DEF SlotEq
    <3> QED
      BY <1>1, <3>1 DEF SlotKept, SlotEq
  <2>2. CASE S[s].ref = 1
    <3>1. SlotNew(Unref(S[s]))
      BY <1>2, <2>2, UnrefType DEF SlotNew
    <3>2. sess[s].ref < Bit(sess[s].hashed) + 2
      BY <1>2, <2>2, SMTT(30) DEF Bit
    <3>3. \A u \in Threads \ {t} : th[u].s # s
      BY <1>2, <3>2, TwoUsers, SMT DEF Bit
    <3> QED
      BY <1>1, <3>1, <3>3 DEF SlotKept
  <2> QED
    BY <2>1, <2>2
<1>6. \A x \in Sess \ {s} : SlotKept(t, x)
  BY <1>1 DEF SlotKept, SlotEq
<1> QED
  BY <1>4, <1>5, <1>6

-----------------------------------------------------------------------------
(***************************************************************************)
(* The actions                                                             *)
(***************************************************************************)
\* The three invariants behind OneConfirmed, CreatedOnce and ExactlyOnce.
Deep == StatInv /\ SeqInv /\ SlotInv

\* What the steps of a thread start from.
Base == ThreadOK /\ Counts /\ CrInv /\ MutexInv /\ Deep

\* A thread that neither creates a session nor runs a request.
Apart(x) == ~Creating(x) /\ x.pc \notin {"exp_unhash", "sq_exec", "sq_complete"}

\* A step of such a thread that leaves all alone.
LEMMA QuietStep ==
  ASSUME Base, Counts', NEW t \in Threads, OneThread(t), Placed, Passed,
         \A s \in Sess : SlotKept(t, s), Apart(th[t]), Apart(th'[t])
  PROVE  Deep'
<1>1. StatT(th[t])'
  BY DEF StatT, Apart, Creating
<1>2. StatInv'
  BY <1>1, QuietStat DEF Base, Deep, Placed, Kept, InPlace
<1>3. \A c \in 1..last.id : cid'[c].seq = cid[c].seq
  <2>1. last.id \in 0..MaxIds
    BY DEF Base, Counts, Types
  <2>2. \A c \in 1..last.id : c \in Ids
    BY <2>1, BoundsAssumption, SMT DEF Ids
  <2> QED
    BY <2>2 DEF Placed, Kept
<1>4. SeqInv'
  BY <1>3, QuietSeq DEF Base, Deep, Apart
<1>5. th[t].slot = 0 /\ ~Running(th'[t])
  BY DEF Base, ThreadOK, Shape, Apart, Running
<1>6. SlotInv'
  BY <1>5, QuietSlot DEF Base, Deep
<1> QED
  BY <1>2, <1>4, <1>6 DEF Deep

\* The lookups of EXCHANGE_ID, CREATE_SESSION and DESTROY_CLIENTID.
LEMMA LookupDeep ==
  ASSUME Base, Counts', NEW t \in Threads, OneThread(t),
         \/ \E i \in Incs : ExchangeIdClash(t, i)
         \/ \E c \in Ids : DestroyClientid(t, c)
         \/ \E c \in Ids, q \in 1..MaxSess : CreateSession(t, c, q)
         \/ t = Reaper /\ \E c \in Ids : Reap(c)
  PROVE  Deep'
<1>1. PICK d : cid' = inc_client_id_ref(cid, d)
  BY DEF ExchangeIdClash, DestroyClientid, CreateSession, Reap
<1>2. ht' = ht /\ cr' = cr /\ sess' = sess
  BY DEF ExchangeIdClash, DestroyClientid, CreateSession, Reap
<1>3. Types
  BY DEF Base, Counts
<1>4. Placed
  BY <1>1, <1>2, <1>3, KeptRefs DEF Placed
<1>5. Passed /\ \A x \in Sess : SlotKept(t, x)
  BY <1>2 DEF Passed, SlotKept, SlotEq
<1>6. Apart(th[t]) /\ Apart(th'[t])
  <2>0. th \in [Threads -> ThT]
    BY DEF Base, ThreadOK
  <2> USE <2>0 DEF ThT, Apart, Creating, Exp
  <2>1. ASSUME NEW i \in Incs, ExchangeIdClash(t, i) PROVE Apart(th[t]) /\ Apart(th'[t])
    <3>1. th[t].pc = "idle" /\ th'[t] = [th[t] EXCEPT !.pc = "exp_mark", !.old = cr.confirmed,
                                     !.exp = cr.confirmed, !.back = "ex_new", !.inc = i]
      BY <2>0, <2>1 DEF ExchangeIdClash
    <3> QED
      BY <3>1, SMT
  <2>2. ASSUME NEW c \in Ids, DestroyClientid(t, c) PROVE Apart(th[t]) /\ Apart(th'[t])
    <3>1. th[t].pc = "idle" /\ th'[t] = [th[t] EXCEPT !.pc = "dc_lock", !.found = c]
      BY <2>0, <2>2 DEF DestroyClientid
    <3> QED
      BY <3>1, SMT
  <2>3. ASSUME NEW c \in Ids, NEW q \in 1..MaxSess, CreateSession(t, c, q)
        PROVE  Apart(th[t]) /\ Apart(th'[t])
    <3>1. th[t].pc = "idle" /\ th'[t] = [th[t] EXCEPT !.pc = "cs_lock", !.found = c,
                                     !.seq = q, !.unconf = c \in ht.unconfirmed]
      BY <2>0, <2>3 DEF CreateSession
    <3> QED
      BY <3>1, SMT
  <2>4. ASSUME t = Reaper, NEW c \in Ids, Reap(c) PROVE Apart(th[t]) /\ Apart(th'[t])
    <3>1. th[t].pc = "idle" /\ th'[t] = [th[t] EXCEPT !.pc = "rp_lock", !.found = c]
      BY <2>0, <2>4 DEF Reap
    <3> QED
      BY <3>1, SMT
  <2> QED
    BY <2>1, <2>2, <2>3, <2>4
<1> QED
  BY <1>4, <1>5, <1>6, QuietStep

\* The lookups of DESTROY_SESSION and SEQUENCE.
LEMMA SessionLookupDeep ==
  ASSUME Base, Counts', NEW t \in Threads, OneThread(t),
         \/ \E s \in Sess : DestroySession(t, s)
         \/ \E s \in Sess, q \in 0..MaxSeq : Sequence(t, s, q)
  PROVE  Deep'
<1>1. PICK s \in Sess : sess' = [sess EXCEPT ![s].ref = @ + 1]
  BY DEF DestroySession, Sequence
<1>2. ht' = ht /\ cr' = cr /\ cid' = cid
  BY DEF DestroySession, Sequence
<1>3. Types
  BY DEF Base, Counts
<1>4. Placed
  BY <1>2 DEF Placed, Kept
<1>5. Passed /\ \A x \in Sess : SlotKept(t, x)
  BY <1>1, <1>3, SlotsStay
<1>6. Apart(th[t]) /\ Apart(th'[t])
  <2>0. th \in [Threads -> ThT]
    BY DEF Base, ThreadOK
  <2> USE <2>0 DEF ThT, Apart, Creating, Exp
  <2>1. ASSUME NEW x \in Sess, DestroySession(t, x) PROVE Apart(th[t]) /\ Apart(th'[t])
    <3>1. th[t].pc = "idle" /\ th'[t] = [th[t] EXCEPT !.pc = "ds_del", !.s = x]
      BY <2>0, <2>1 DEF DestroySession
    <3> QED
      BY <3>1, SMT
  <2>2. ASSUME NEW x \in Sess, NEW q \in 0..MaxSeq, Sequence(t, x, q)
        PROVE  Apart(th[t]) /\ Apart(th'[t])
    <3>1. th[t].pc = "idle" /\ th'[t] = [th[t] EXCEPT !.pc = "sq_lease", !.s = x, !.seq = q]
      BY <2>0, <2>2 DEF Sequence
    <3> QED
      BY <3>1, SMT
  <2> QED
    BY <2>1, <2>2
<1> QED
  BY <1>4, <1>5, <1>6, QuietStep

\* CREATE_SESSION refused, the lease of SEQUENCE, and cr_mutex taken to expire.
LEMMA LeaseDeep ==
  ASSUME Base, Counts', NEW t \in Threads, OneThread(t),
         CreateSessionRefuse(t) \/ SequenceLease(t) \/ ExpireLock(t)
  PROVE  Deep'
<1>1. ht' = ht /\ cr' = cr /\ sess' = sess
  BY DEF CreateSessionRefuse, SequenceLease, ExpireLock
<1>2. Types /\ cid \in [Ids -> CidT] /\ KeptBy(cid)
  BY DEF Base, Counts, Types, KeptBy
<1>3. Kept
  <2>1. CASE CreateSessionRefuse(t)
    <3>1. th[t].found \in Ids
      BY <2>1 DEF CreateSessionRefuse, Base, ThreadOK, Shape, ThT
    <3> QED
      BY <1>2, <2>1, <3>1, KeptRefs DEF CreateSessionRefuse
  <2>2. CASE SequenceLease(t)
    <3>1. PICK c : \/ cid' = inc_client_id_ref(cid, c)
                   \/ \E k : cid' = [cid EXCEPT ![c].resv = k]
      BY <2>2 DEF SequenceLease
    <3>2. \A k : KeptBy([cid EXCEPT ![c].resv = k])
      BY <1>2, KeptLease
    <3>3. CASE cid' = inc_client_id_ref(cid, c)
      BY <1>2, <3>3, KeptRefs
    <3>4. ASSUME NEW k, cid' = [cid EXCEPT ![c].resv = k] PROVE Kept
      <4>1. KeptBy(cid')
        BY <3>2, <3>4
      <4> QED
        BY <4>1 DEF Kept, KeptBy
    <3> QED
      BY <3>1, <3>3, <3>4
  <2>3. CASE ExpireLock(t)
    BY <1>2, <2>3, KeptRefs DEF ExpireLock
  <2> QED
    BY <2>1, <2>2, <2>3
<1>4. Placed
  BY <1>1, <1>3 DEF Placed
<1>5. Passed /\ \A x \in Sess : SlotKept(t, x)
  BY <1>1 DEF Passed, SlotKept, SlotEq
<1>6. Apart(th[t]) /\ Apart(th'[t])
  <2>0. th \in [Threads -> ThT]
    BY DEF Base, ThreadOK
  <2> USE <2>0 DEF ThT, Apart, Creating, Exp
  <2>1. CASE CreateSessionRefuse(t)
    BY <2>1 DEF CreateSessionRefuse, Done, Idle
  <2>2. CASE SequenceLease(t)
    BY <2>2, SMT DEF SequenceLease
  <2>3. CASE ExpireLock(t)
    BY <2>3, SMT DEF ExpireLock
  <2> QED
    BY <2>1, <2>2, <2>3
<1> QED
  BY <1>4, <1>5, <1>6, QuietStep

\* Releasing a session leaves the slots in use alone.
LEMMA SlotsReleased ==
  ASSUME Counts, NEW t \in Threads, NEW s \in Sess, th[t].s = s,
         NEW C \in [Ids -> CidT], dec_session_ref(sess, C, s)
  PROVE  Passed /\ \A x \in Sess : SlotKept(t, x)
<1>1. sess \in [Sess -> SessT]
  BY DEF Counts, Types
<1>2. sess' = [sess EXCEPT ![s] = Unref(sess[s])]
  BY <1>1, DecSession, SMT
<1>3. SlotEq(sess[s], sess[s])
  BY DEF SlotEq
<1>4. sess[s].ref = sess[s].ref + Bit(sess[s].hashed) - Bit(sess[s].hashed)
  <2>1. sess[s].ref \in Int /\ Bit(sess[s].hashed) \in Int
    BY <1>1, SMT DEF SessT, Bit
  <2> QED
    BY <2>1, SMT
<1> QED
  BY <1>1, <1>2, <1>3, <1>4, SlotsDropped

\* A step that releases a session leaves the client ids and the slots alone.
LEMMA ReleaseKeeps ==
  ASSUME Counts, NEW t \in Threads, NEW s \in Sess, th[t].s = s,
         NEW C \in [Ids -> CidT], KeptBy(C), dec_session_ref(sess, C, s)
  PROVE  Kept /\ Passed /\ \A x \in Sess : SlotKept(t, x)
BY KeptSession, SlotsReleased DEF Counts, Types

\* The same when the thread unhashes the session first.
LEMMA DeleteKeeps ==
  ASSUME Counts, NEW t \in Threads, NEW s \in Sess, th[t].s = s,
         NEW C \in [Ids -> CidT], KeptBy(C), NEW S, S = nfs41_Session_Del(sess, s),
         dec_session_ref(S, C, s)
  PROVE  /\ Kept /\ Passed /\ \A x \in Sess : SlotKept(t, x)
         /\ ~sess'[s].hashed
<1>1. sess \in [Sess -> SessT] /\ sess[s] \in SessT
  BY DEF Counts, Types
<1>2. S = [sess EXCEPT ![s] = Deleted(sess[s])]
  BY DEF nfs41_Session_Del
<1>3. Deleted(sess[s]) \in SessT
  BY <1>1, DeletedType
<1>4. /\ S \in [Sess -> SessT] /\ S[s] = Deleted(sess[s])
      /\ \A x \in Sess \ {s} : S[x] = sess[x]
  BY <1>1, <1>2, <1>3
<1>5. sess' = [S EXCEPT ![s] = Unref(S[s])]
  BY <1>4, DecSession, SMT
<1>6. Kept
  BY <1>4, KeptSession
<1>7. sess[s].ref >= Bit(sess[s].hashed) + 1 /\ sess[s].ref \in Int
  BY <1>1, OneUser DEF SessT
<1>8. sess[s].ref # 1 \/ ~sess[s].hashed
  BY <1>7, SMTT(30) DEF Bit
<1>9. /\ S[s].cid = sess[s].cid /\ S[s].csq = sess[s].csq /\ ~S[s].hashed
      /\ S[s].ref = sess[s].ref - Bit(sess[s].hashed)
      /\ SlotEq(sess[s], S[s])
  BY <1>1, <1>4, <1>8, DeletedType, SMTT(30) DEF SlotEq
<1>10. S[s].ref = sess[s].ref + Bit(S[s].hashed) - Bit(sess[s].hashed)
  BY <1>7, <1>9, SMT DEF Bit
<1>11. Passed /\ \A x \in Sess : SlotKept(t, x)
  BY <1>4, <1>5, <1>9, <1>10, SlotsDropped
<1>12. S[s] \in SessT /\ sess'[s] = Unref(S[s])
  BY <1>4, <1>5
<1>13. ~sess'[s].hashed
  BY <1>9, <1>12, UnrefType, SMT
<1> QED
  BY <1>6, <1>11, <1>13

\* DESTROY_SESSION, and the end of an expiry by SEQUENCE or the reaper.
LEMMA ReleaseDeep ==
  ASSUME Base, Counts', NEW t \in Threads, OneThread(t), DestroySessionDel(t) \/ ExpireEnd(t)
  PROVE  Deep'
<1>0. th \in [Threads -> ThT] /\ Types /\ Counts
  BY DEF Base, ThreadOK, Counts
<1>1. ht' = ht /\ cr' = cr /\ Done(t)
  BY DEF DestroySessionDel, ExpireEnd
<1>2. cid \in [Ids -> CidT] /\ KeptBy(cid)
  BY <1>0 DEF Types, KeptBy
<1>3. Kept /\ Passed /\ \A x \in Sess : SlotKept(t, x)
  <2>1. CASE DestroySessionDel(t)
    <3>1. PICK s \in Sess : s = th[t].s
      BY <2>1 DEF DestroySessionDel, Base, ThreadOK, ThT, Shape
    <3>2. dec_session_ref(sess, cid, s) \/ dec_session_ref(nfs41_Session_Del(sess, s), cid, s)
      BY <2>1, <3>1 DEF DestroySessionDel
    <3> QED
      BY <1>0, <1>2, <3>1, <3>2, ReleaseKeeps, DeleteKeeps
  <2>2. CASE ExpireEnd(t)
    <3>1. PICK C : C = DecIf(cid, th[t].found)
      OBVIOUS
    <3>2. KeptBy(C) /\ C \in [Ids -> CidT] /\ (cid' = C => Kept)
      BY <1>0, <3>1, KeptRefs
    <3>3. CASE th[t].s = 0
      <4>1. cid' = C /\ sess' = sess
        BY <2>2, <3>1, <3>3 DEF ExpireEnd
      <4> QED
        BY <3>2, <4>1 DEF Passed, SlotKept, SlotEq
    <3>4. CASE th[t].s # 0
      <4>1. PICK s \in Sess : s = th[t].s
        BY <1>0, <3>4 DEF ThT
      <4>2. dec_session_ref(sess, C, s)
        BY <2>2, <3>1, <3>4, <4>1 DEF ExpireEnd
      <4> QED
        BY <1>0, <3>2, <4>1, <4>2, ReleaseKeeps
    <3> QED
      BY <3>3, <3>4
  <2> QED
    BY <2>1, <2>2
<1>4. Apart(th[t])
  <2>1. th[t].pc = "ds_del" \/ (th[t].pc = "exp_back" /\ th[t].back \in {"sq_done", "rp_done"})
    BY DEF DestroySessionDel, ExpireEnd
  <2> QED
    BY <2>1 DEF Apart, Creating, Exp
<1>5. Apart(th'[t])
  BY <1>0, <1>1 DEF Apart, Creating, Exp, Done, Idle
<1> QED
  BY <1>1, <1>3, <1>4, <1>5, QuietStep DEF Placed

-----------------------------------------------------------------------------
(***************************************************************************)
(* SEQUENCE and the slots                                                  *)
(***************************************************************************)
\* The slot of s after its next request has come in.
LEMMA NextValues ==
  ASSUME sess \in [Sess -> SessT], NEW s \in Sess, NEW S,
         S = [sess EXCEPT ![s].sequence = @ + 1, ![s].cached = 0]
  PROVE  /\ S[s].sequence = sess[s].sequence + 1 /\ S[s].cached = 0
         /\ S[s].lock = sess[s].lock /\ S[s].ran = sess[s].ran /\ S[s].torn = sess[s].torn
BY DEF SessT

\* The slot of s after slot_lock was taken or released.
LEMMA LockValues ==
  ASSUME NEW S \in [Sess -> SessT], NEW s \in Sess, NEW u, NEW R, R = [S EXCEPT ![s].lock = u]
  PROVE  /\ R[s].lock = u /\ R[s].sequence = S[s].sequence /\ R[s].cached = S[s].cached
         /\ R[s].ran = S[s].ran /\ R[s].torn = S[s].torn
BY DEF SessT

\* A step of a thread that creates no session and leaves the client ids alone.
LEMMA CalmStep ==
  ASSUME Base, Counts', NEW t \in Threads, OneThread(t), Placed, Passed,
         ~Creating(th[t]), ~Creating(th'[t]), th'[t].pc # "exp_unhash"
  PROVE  StatInv' /\ SeqInv'
<1>1. StatT(th[t])'
  BY DEF StatT, Creating
<1>2. StatInv'
  BY <1>1, QuietStat DEF Base, Deep, Placed, Kept, InPlace
<1>3. \A c \in 1..last.id : cid'[c].seq = cid[c].seq
  <2>1. last.id \in 0..MaxIds
    BY DEF Base, Counts, Types
  <2>2. \A c \in 1..last.id : c \in Ids
    BY <2>1, BoundsAssumption, SMT DEF Ids
  <2> QED
    BY <2>2 DEF Placed, Kept
<1>4. SeqInv'
  BY <1>3, QuietSeq DEF Base, Deep
<1> QED
  BY <1>2, <1>4

\* A slot that another thread runs is locked by that thread.
LEMMA OthersLock ==
  ASSUME SlotInv, NEW t \in Threads, NEW s \in Sess, sess[s].lock \in {None, t}
  PROVE  \A u \in Threads \ {t} : ~(Running(th[u]) /\ th[u].s = s)
BY NoneNoThread, SMT DEF SlotInv, SlotT

-----------------------------------------------------------------------------
(***************************************************************************)
(* Steps that move a client id, with cr_mutex held                         *)
(***************************************************************************)
\* No other thread is in a critical section then.
LEMMA LockedStat ==
  ASSUME MutexInv, NEW t \in Threads, OneThread(t), mutex \in {None, t}, StatT(th[t])'
  PROVE  /\ \A u \in Threads : StatT(th[u])'
         /\ \A u \in Threads \ {t} : ~Creating(th[u])
<1>1. ASSUME NEW u \in Threads, u # t
      PROVE  StatT(th[u])' /\ ~Creating(th[u])
  <2>1. th[u].pc \notin Critical /\ th'[u] = th[u]
    BY <1>1, AloneIn DEF OneThread
  <2> QED
    BY <2>1 DEF Critical, Exp, Creating, StatT
<1> QED
  BY <1>1

\* The end of a CREATE_SESSION counts it.
LEMMA AcceptedSeq ==
  ASSUME SeqInv, MutexInv, Counts, NEW t \in Threads, OneThread(t), mutex = t, Passed,
         NEW c \in Ids, th[t].found = c, cid'[c].seq = cid[c].seq + 1,
         \A d \in Ids \ {c} : cid'[d].seq = cid[d].seq
  PROVE  SeqInv'
<1>1. ASSUME NEW s \in Sess, sess'[s].hashed
      PROVE  sess'[s].csq < cid'[sess'[s].cid].seq
  <2>1. /\ sess[s].hashed /\ sess'[s].cid = sess[s].cid /\ sess'[s].csq = sess[s].csq
    BY <1>1 DEF Passed
  <2>2. sess[s].cid \in 1..last.id /\ last.id \in 0..MaxIds /\ sess \in [Sess -> SessT]
    BY <2>1, SMT DEF Counts, LastInv, Types, NoSession, Sess
  <2>3. PICK d \in Ids : d = sess[s].cid
    BY <2>2, BoundsAssumption, SMT DEF Ids
  <2>4. cid \in [Ids -> CidT]
    BY DEF Counts, Types
  <2>5. cid[d].seq \in Nat /\ sess[s].csq \in Nat
    BY <2>2, <2>4 DEF CidT, SessT
  <2>6. cid'[d].seq \in {cid[d].seq, cid[d].seq + 1}
    OBVIOUS
  <2>7. CASE sess[s].csq < cid[d].seq
    <3>1. sess[s].csq < cid'[d].seq
      BY <2>5, <2>6, <2>7, SMT
    <3> QED
      BY <2>1, <2>3, <3>1
  <2>8. ASSUME NEW u \in Threads, Creates(u, s)
        PROVE  sess[s].csq = cid[c].seq /\ d = c
    <3>1. th[u].pc \in Critical
      BY <2>8 DEF Creates, Creating, Critical
    <3>2. u = t
      BY <3>1 DEF MutexInv
    <3> QED
      BY <2>3, <2>8, <3>2 DEF Creates
  <2> QED
    BY <2>1, <2>3, <2>5, <2>7, <2>8, SMTT(30) DEF SeqInv
<1>2. CreatedOnce'
  BY SMT DEF SeqInv, CreatedOnce, Passed
<1> QED
  BY <1>1, <1>2 DEF SeqInv

-----------------------------------------------------------------------------
(***************************************************************************)
(* The control of the threads and cr_mutex                                 *)
(***************************************************************************)
\* A step of one thread keeps the shape of the others.
LEMMA ShapeStep ==
  ASSUME ThreadOK, NEW t \in Threads, OneThread(t)
  PROVE  ThreadOK'
  BY DEF ThreadOK, OneThread

\* The control of the threads is preserved.
LEMMA ThreadOKStep ==
  ASSUME ThreadOK, Ground, [Next]_vars
  PROVE  ThreadOK'
<1>1. ASSUME NEW t \in Workers, Request(t)
      PROVE  ThreadOK'
  BY <1>1, RequestThread, ShapeStep DEF Threads, ThreadOK
<1>2. ASSUME NEW t \in Threads, Continue(t)
      PROVE  ThreadOK'
  BY <1>2, ContinueThread, ShapeStep
<1>3. ASSUME NEW c \in Ids, Reap(c)
      PROVE  ThreadOK'
  BY <1>3, ReapThread, ShapeStep
<1>4. ASSUME NEW c \in Ids, Age(c)
      PROVE  ThreadOK'
  BY <1>4 DEF Age, ThreadOK
<1>5. CASE UNCHANGED vars
  BY <1>5 DEF vars, ThreadOK
<1> QED
  BY <1>1, <1>2, <1>3, <1>4, <1>5 DEF Next

\* nfs_client_id_expire runs under cr_mutex from its first step to its last.
LEMMA MutexExpire ==
  ASSUME ThreadOK, Ground, MutexInv, NEW t \in Threads, Expire(t)
  PROVE  MutexInv'
<1>1. OneThread(t)
  BY ExpireThread
<1>2. th[t].pc \in Critical
  BY DEF Expire, ExpireSkip, ExpireMark, ExpireUnhash, ExpireState,
     ExpireSession, ExpireSessions, ExpireEnd, ExpireBack, Critical, Exp
<1> DEFINE Remains == th'[t].pc \in Critical /\ mutex' = mutex
           Leaves == th'[t].pc = "idle" /\ mutex' = None
<1>3. CASE Remains
  BY <1>1, <1>2, <1>3 DEF MutexInv, OneThread
<1>4. CASE Leaves
  BY <1>1, <1>2, <1>4, NoneNoThread DEF MutexInv, OneThread, Critical, Exp
<1>5. ExpireSkip(t) => Remains
  BY SMT DEF ExpireSkip, Go, Critical, Exp, ThreadOK
<1>6. ExpireMark(t) => Remains
  BY DEF ExpireMark, Critical, Exp, ThreadOK, ThT
<1>7. ExpireUnhash(t) => Remains
  BY SMT DEF ExpireUnhash, Critical, Exp, ThreadOK, ThT
<1>8. ExpireState(t) => Remains
  BY SMT DEF ExpireState, Go, Critical, Exp, ThreadOK
<1>9. ExpireSessions(t) => Remains
  BY SMT DEF ExpireSessions, Critical, Exp, ThreadOK, ThT
<1>10. ExpireEnd(t) => Leaves
  BY SMT DEF ExpireEnd, Done, Unlock, Idle, ThreadOK
<1>11. ExpireBack(t) => Remains
  BY SMT DEF ExpireBack, Critical, Exp, ThreadOK, ThT
<1>12. ExpireSession(t) => Remains
  BY <1>2 DEF ExpireSession
<1> QED
  BY <1>3, <1>4, <1>5, <1>6, <1>7, <1>8, <1>9, <1>10, <1>11, <1>12 DEF Expire

\* The threads outside the critical section, by what they do to it.
LEMMA MutexKinds ==
  ASSUME MutexInv, NEW t \in Threads, OneThread(t),
         \/ (th[t].pc \in Critical <=> th'[t].pc \in Critical) /\ mutex' = mutex
         \/ mutex = None /\ mutex' = t /\ th'[t].pc \in Critical
         \/ mutex = t /\ mutex' = None /\ th'[t].pc \notin Critical
  PROVE  MutexInv'
  BY NoneNoThread, SMT DEF MutexInv, OneThread

\* cr_mutex is held by the one thread in the critical section.
LEMMA MutexStep ==
  ASSUME ThreadOK, Ground, MutexInv, [Next]_vars
  PROVE  MutexInv'
<1> USE DEF ThreadOK, Critical, Exp
<1>1. ASSUME NEW t \in Threads, Request(t)
      PROVE  MutexInv'
  <2>2. ASSUME NEW i \in Incs, ExchangeIdClash(t, i)
        PROVE  mutex = None /\ mutex' = t /\ th'[t].pc \in Critical
    BY <2>2, SMT DEF ExchangeIdClash, Lock, ThT
  <2> DEFINE Alike == (th[t].pc \in Critical <=> th'[t].pc \in Critical) /\ mutex' = mutex
  <2>3. ASSUME NEW c \in Ids, DestroyClientid(t, c)
        PROVE  Alike
    BY <2>3, SMT DEF DestroyClientid, ThT
  <2>4. ASSUME NEW c \in Ids, NEW q \in 1..MaxSess, CreateSession(t, c, q)
        PROVE  Alike
    BY <2>4, SMT DEF CreateSession, ThT
  <2>5. ASSUME NEW s \in Sess, DestroySession(t, s)
        PROVE  Alike
    BY <2>5, SMT DEF DestroySession, ThT
  <2>6. ASSUME NEW s \in Sess, NEW q \in 0..MaxSeq, Sequence(t, s, q)
        PROVE  Alike
    BY <2>6, SMT DEF Sequence, ThT
  <2>7. ASSUME NEW i \in Incs, ExchangeId(t, i)
        PROVE  Alike
    BY <2>7 DEF ExchangeId
  <2>8. OneThread(t)
    BY <1>1, RequestThread
  <2> QED
    BY <1>1, <2>2, <2>3, <2>4, <2>5, <2>6, <2>7, <2>8, MutexKinds DEF Request
<1>2. ASSUME NEW t \in Threads, Continue(t)
      PROVE  MutexInv'
  <2> DEFINE Alike == (th[t].pc \in Critical <=> th'[t].pc \in Critical) /\ mutex' = mutex
             TakesLock == mutex = None /\ mutex' = t /\ th'[t].pc \in Critical
             Leaves == mutex = t /\ mutex' = None /\ th'[t].pc \notin Critical
  <2>1. ExchangeIdNew(t) => Leaves
    BY SMT DEF ExchangeIdNew, Unlock, Done, Idle
  <2>2. CreateSessionRefuse(t) => Alike
    BY SMT DEF CreateSessionRefuse, Done, Idle
  <2>3. CreateSessionBuild(t) => TakesLock
    BY SMT DEF CreateSessionBuild, Lock, ThT
  <2>4. CreateSessionUpdate(t) => Leaves
    BY SMT DEF CreateSessionUpdate, Unlock, Done, Idle
  <2>5. CreateSessionConfirm(t) => Leaves
    BY SMT DEF CreateSessionConfirm, Unlock, Done, Idle
  <2>6. CreateSessionLate(t) => Leaves
    BY SMT DEF CreateSessionLate, Unlock, Done, Idle
  <2>7. DestroyClientidRemove(t) => Alike
    BY SMT DEF DestroyClientidRemove, Done, Idle
  <2>8. DestroySessionDel(t) => Alike
    BY SMTT(30) DEF DestroySessionDel, Done, Idle
  <2>9. SequenceLease(t) => Alike
    BY SMTT(30) DEF SequenceLease, ThT
  <2>10. SequenceNext(t) => Alike
    BY SMT DEF SequenceNext, ThT
  <2>11. SequenceRefuse(t) => Alike
    BY SMTT(30) DEF SequenceRefuse, ThT
  <2>12. SequenceExec(t) => Alike
    BY SMTT(30) DEF SequenceExec, Go, ThT
  <2>13. SequenceComplete(t) => Alike
    BY SMT DEF SequenceComplete, Done, Idle
  <2>14. ExpireLock(t) => TakesLock
    BY SMT DEF ExpireLock, Lock, ThT
  <2>15. CASE Expire(t)
    BY <2>15, MutexExpire
  <2>16. Alike \/ TakesLock \/ Leaves \/ Expire(t)
    BY <1>2, <2>1, <2>2, <2>3, <2>4, <2>5, <2>6, <2>7, <2>8, <2>9, <2>10, <2>11,
       <2>12, <2>13, <2>14 DEF Continue
  <2>17. OneThread(t)
    BY <1>2, ContinueThread
  <2> QED
    BY <2>15, <2>16, <2>17, MutexKinds
<1>3. ASSUME NEW c \in Ids, Reap(c)
      PROVE  MutexInv'
  <2>1. Reaper \in Threads /\ OneThread(Reaper)
    BY <1>3, ReapThread
  <2>2. /\ mutex' = mutex
        /\ th[Reaper].pc \in Critical <=> th'[Reaper].pc \in Critical
    BY <1>3, <2>1, SMT DEF Reap, ThT
  <2> QED
    BY <2>1, <2>2, MutexKinds
<1>4. ASSUME NEW c \in Ids, Age(c)
      PROVE  MutexInv'
  BY <1>4 DEF Age, MutexInv
<1>5. CASE UNCHANGED vars
  BY <1>5 DEF vars, MutexInv
<1> QED
  BY <1>1, <1>2, <1>3, <1>4, <1>5 DEF Next, Threads

=============================================================================
