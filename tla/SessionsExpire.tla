--------------------------- MODULE SessionsExpire ---------------------------
(***************************************************************************)
(* nfs_client_id_expire, and EXCHANGE_ID and DESTROY_CLIENTID, which       *)
(* replace and remove the client ids of the client record, preserve the    *)
(* counts, the agreement of the client record with the tables, and what is *)
(* known of the statuses.                                                  *)
(***************************************************************************)
EXTENDS SessionsLemmas

\* The prover of the leaves that name no other.
USE ZenonT(30)

-----------------------------------------------------------------------------
(***************************************************************************)
(* nfs_client_id_expire                                                    *)
(***************************************************************************)
\* nfs_client_id_expire, when the client id is already expired, keeps the
\* reference counts exact.
LEMMA SkipCounts ==
  ASSUME ThreadOK, Counts, NEW t \in Threads, ExpireSkip(t)
  PROVE  Counts'
<1>1. Local(t, 0) /\ 0 \notin Sess
  BY SMT DEF Local, ExpireSkip, Go, Sess
<1>2. Types' /\ Hashed' = Hashed
  BY DEF ExpireSkip, Counts, Types, Hashed
<1>3. th'[t] = [th[t] EXCEPT !.pc = "exp_back"] /\ th[t].pc = "exp_mark"
  BY DEF ExpireSkip, Go, ThreadOK
<1>4. /\ th'[t].found = th[t].found /\ th'[t].old = th[t].old /\ th'[t].s = th[t].s
      /\ th'[t].slot <= last.session
      /\ (th'[t].own /\ th'[t].exp = th[t].exp) \/ ~th'[t].own
      /\ th'[t].own <=> th[t].own
  BY <1>3, SMT DEF ThreadOK, ThT, Counts, LastInv
<1> QED
  <2>1. StillStep(t, 0)
    BY <1>1, <1>2, <1>4 DEF StillStep, ExpireSkip
  <2>2. LastKept(t)
    BY <1>4 DEF LastKept, ExpireSkip, Counts, LastInv
  <2> QED
    BY <1>1, <1>2, <2>1, <2>2, CountsStill DEF ExpireSkip

\* The release of state by nfs_client_id_expire keeps the reference counts
\* exact.
LEMMA StateCounts ==
  ASSUME ThreadOK, Counts, NEW t \in Threads, ExpireState(t)
  PROVE  Counts'
<1>1. Local(t, 0) /\ 0 \notin Sess
  BY SMT DEF Local, ExpireState, Go, Sess
<1>2. cid' \in [Ids -> CidT] /\ \A c \in Ids : /\ cid'[c].ref = cid[c].ref
                                               /\ cid'[c].status = cid[c].status
  <2> DEFINE e == th[t].exp
             k == {}
  <2>1. cid' = [cid EXCEPT ![e].state = k] /\ k \in SUBSET Kinds
    BY DEF ExpireState
  <2> HIDE DEF e, k
  <2>2. cid \in [Ids -> CidT]
    BY DEF Counts, Types
  <2> QED
    BY <2>1, <2>2, SetState, SMT
<1>3. Types' /\ Hashed' = Hashed
  BY <1>2 DEF ExpireState, Counts, Types, Hashed
<1>4. th'[t] = [th[t] EXCEPT !.pc = "exp_sessions"] /\ th[t].pc = "exp_state"
  BY DEF ExpireState, Go, ThreadOK
<1>5. /\ th'[t].found = th[t].found /\ th'[t].old = th[t].old /\ th'[t].s = th[t].s
      /\ th'[t].slot <= last.session
      /\ (th'[t].own /\ th'[t].exp = th[t].exp) \/ ~th'[t].own
      /\ th'[t].own <=> th[t].own
  BY <1>4, SMT DEF ThreadOK, ThT, Counts, LastInv
<1> QED
  <2>1. StillStep(t, 0)
    BY <1>1, <1>2, <1>3, <1>5 DEF StillStep, ExpireState
  <2>2. LastKept(t)
    BY <1>5 DEF LastKept, ExpireState, Counts, LastInv
  <2> QED
    BY <1>1, <1>2, <1>3, <2>1, <2>2, CountsStill

\* The client id that is expired is one the thread holds.
LEMMA ExpireHeld ==
  ASSUME ThreadOK, Counts, NEW t \in Threads, th[t].pc \in Exp, Local(t, 0),
         leaked' = leaked
  PROVE  th[t].exp \in Ids /\ cid[th[t].exp].ref > 0
<1>1. th[t].exp \in Ids /\ (th[t].found = th[t].exp \/ th[t].old = th[t].exp)
  BY DEF ThreadOK, Shape, ThT
<1> QED
  BY <1>1, HasRef DEF Counts, Types

\* Marking a client id as expired keeps the reference counts exact.
LEMMA MarkCounts ==
  ASSUME ThreadOK, Counts, NEW t \in Threads, ExpireMark(t)
  PROVE  Counts' /\ th'[t].tab \in Tables
<1> DEFINE c == th[t].exp
<1>1. Local(t, 0) /\ 0 \notin Sess
  BY ExpireThread, OnlyThread DEF Expire, ExpireMark, Counts, Ground
<1>2. th[t].pc = "exp_mark"
  BY DEF ExpireMark
<1>3. c \in Ids /\ cid[c].ref > 0
  BY <1>1, <1>2, ExpireHeld DEF ExpireMark, Exp
<1>4. /\ cid' \in [Ids -> CidT]
      /\ \A d \in Ids : /\ cid'[d].ref = cid[d].ref
                        /\ cid'[d].status = IF d = c THEN "expired" ELSE cid[d].status
  <2>1. cid' = [cid EXCEPT ![c].status = "expired"] /\ "expired" \in Statuses
    BY DEF ExpireMark, Statuses
  <2>2. cid \in [Ids -> CidT]
    BY DEF Counts, Types
  <2>3. PICK e \in Ids : e = c
    BY <1>3
  <2>4. PICK A : A = [cid EXCEPT ![e].status = "expired"]
    OBVIOUS
  <2>5. /\ A \in [Ids -> CidT]
        /\ \A d \in Ids : /\ A[d].ref = cid[d].ref
                          /\ A[d].status = IF d = e THEN "expired" ELSE cid[d].status
    BY <2>1, <2>2, <2>4, SetStatus, SMT
  <2>6. cid' = A
    BY <2>1, <2>3, <2>4
  <2> QED
    BY <2>3, <2>5, <2>6
<1>5. /\ cr' \in [{"confirmed", "unconfirmed"} -> Ids \cup {0}]
      /\ cr'.confirmed <= last.id /\ cr'.unconfirmed <= last.id
  BY SMT DEF ExpireMark, Detach, Counts, Types, LastInv
<1>6. Types' /\ Hashed' = Hashed
  BY <1>4, <1>5 DEF ExpireMark, Counts, Types, Hashed
<1>7. th'[t] = [th[t] EXCEPT !.pc = "exp_unhash", !.tab = cid[c].status]
  BY DEF ExpireMark, ThreadOK
<1>8. /\ th'[t].found = th[t].found /\ th'[t].old = th[t].old /\ th'[t].s = th[t].s
      /\ th'[t].slot <= last.session
      /\ (th'[t].own /\ th'[t].exp = th[t].exp) \/ ~th'[t].own
      /\ th'[t].own <=> th[t].own
  BY <1>7, SMT DEF ThreadOK, ThT, Counts, LastInv
<1>9. Counts'
  <2>1. \A d \in Ids : /\ cid'[d].ref = cid[d].ref
                       /\ \/ cid'[d].status = cid[d].status
                          \/ /\ cid[d].ref > 0
                             /\ cid'[d].status \notin {"none", "freed"}
    BY <1>3, <1>4
  <2>2. leaked' = leaked /\ last' = last
    BY DEF ExpireMark
  <2> HIDE DEF c
  <2>3. StillStep(t, 0)
    BY <1>1, <1>6, <1>8, <2>1, <2>2 DEF StillStep
  <2>4. LastKept(t)
    BY <1>5, <1>8, <2>2 DEF LastKept
  <2> QED
    BY <1>1, <1>6, <2>1, <2>3, <2>4, CountsStill
<1>10. th'[t].tab = cid[c].status
  BY <1>7, SMT DEF ThreadOK, ThT
<1>11. cid[c].status \in Statuses \ {"none", "freed", "expired"}
  BY <1>3, SMT DEF ExpireMark, Counts, StatusEq, Types, CidT
<1> QED
  BY <1>9, <1>10, <1>11 DEF Tables, Statuses

\* Taking an expired client id from its table keeps the reference counts
\* exact.
LEMMA UnhashCounts ==
  ASSUME ThreadOK, Counts, CrInv, NEW t \in Threads, ExpireUnhash(t)
  PROVE  Counts'
<1> DEFINE c == th[t].exp
<1>1. Local(t, 0) /\ 0 \notin Sess
  BY ExpireThread, OnlyThread DEF Expire, ExpireUnhash, Counts, Ground
<1>2. th[t].pc = "exp_unhash" /\ th[t].tab \in Tables
  BY DEF ExpireUnhash, CrInv
<1>3. c \in Ids
  BY <1>2 DEF ThreadOK, Shape, ThT, Exp
<1>4. /\ ht' \in [{"confirmed", "unconfirmed"} -> SUBSET Ids]
      /\ c \in Hashed /\ Hashed' = Hashed \ {c}
  <2>1. CASE th[t].tab = "confirmed"
    <3>1. /\ ht'.confirmed = ht.confirmed \ {c} /\ ht'.unconfirmed = ht.unconfirmed
          /\ c \in ht.confirmed
      BY <2>1 DEF ExpireUnhash, Counts, Types
    <3>2. c \notin ht.unconfirmed
      BY <3>1 DEF CrInv
    <3> QED
      BY <2>1, <3>1, <3>2, SMT DEF ExpireUnhash, Counts, Types, Hashed
  <2>2. CASE th[t].tab = "unconfirmed"
    <3>1. /\ ht'.unconfirmed = ht.unconfirmed \ {c} /\ ht'.confirmed = ht.confirmed
          /\ c \in ht.unconfirmed
      BY <2>2 DEF ExpireUnhash, Counts, Types
    <3>2. c \notin ht.confirmed
      BY <3>1 DEF CrInv
    <3> QED
      BY <2>2, <3>1, <3>2, SMT DEF ExpireUnhash, Counts, Types, Hashed
  <2> QED
    BY <1>2, <2>1, <2>2 DEF Tables
<1>5. Types'
  BY <1>4 DEF ExpireUnhash, Counts, Types
<1>6. th'[t] = [th[t] EXCEPT !.pc = "exp_state", !.own = TRUE]
  BY DEF ExpireUnhash, ThreadOK
<1>7. /\ th'[t].found = th[t].found /\ th'[t].old = th[t].old /\ th'[t].s = th[t].s
      /\ th'[t].slot <= last.session /\ th'[t].exp = c
      /\ th'[t].own /\ ~th[t].own
  BY <1>2, <1>6, SMT DEF ThreadOK, ThT, Counts, LastInv, Shape
<1>8. ASSUME NEW d \in Ids
      PROVE  cid'[d].ref = cid[d].ref + Share(t, 0, d)' - Share(t, 0, d)
  <2>1. cid[d].ref \in Int /\ leaked[d] \in Int /\ cid'[d] = cid[d] /\ leaked' = leaked
    BY SMT DEF Counts, Types, CidT, ExpireUnhash
  <2>2. Share(t, 0, d)' = Share(t, 0, d) /\ Share(t, 0, d) \in Int
    BY <1>1, <1>4, <1>7, <2>1, SMT DEF Share, Bit
  <2> QED
    BY <2>1, <2>2, SMT
<1>9. RefEq'
  BY <1>1, <1>5, <1>8, RefEqStep DEF Counts, Types
<1>10. SessEq'
  BY <1>1, <1>7, SessEqStep DEF Counts, ExpireUnhash, Types
<1>11. StatusEq'
  BY DEF Counts, StatusEq, ExpireUnhash
<1>12. LastInv'
  <2>1. LastKept(t)
    BY <1>7 DEF LastKept, ExpireUnhash, Counts, LastInv
  <2>2. Hashed' \subseteq Hashed
    BY <1>4
  <2> HIDE DEF c
  <2> QED
    BY <1>1, <1>7, <2>1, <2>2, LastStep DEF Counts, LastInv, ExpireUnhash
<1> QED
  BY <1>5, <1>9, <1>10, <1>11, <1>12 DEF Counts

\* What ExpireSession does to the session it takes out of the table.
LEMMA SessionGone ==
  ASSUME Counts, NEW t \in Threads, ExpireSession(t)
  PROVE  \E s \in Sess :
           /\ sess[s].ref \in Int /\ sess[s].ref > 0 /\ sess[s].hashed
           /\ sess[s].cid = th[t].exp /\ sess[s] \in SessT
           /\ sess' = [sess EXCEPT ![s] = Deleted(sess[s])]
           /\ sess' \in [Sess -> SessT]
           /\ cid' = DecIf(cid, Last(sess[s]))
<1>1. PICK s \in SessionsOf(th[t].exp) :
         /\ sess[s].hashed
         /\ sess' = nfs41_Session_Del(sess, s)
         /\ cid' = DecIf(cid, IF sess[s].ref = 1 THEN sess[s].cid ELSE 0)
  BY DEF ExpireSession
<1>2. s \in Sess /\ sess[s].ref > 0 /\ sess[s].cid = th[t].exp
  BY DEF SessionsOf
<1>3. sess[s] \in SessT /\ sess[s].ref \in Int /\ sess \in [Sess -> SessT]
  BY <1>2 DEF Counts, Types, SessT
<1>4. Deleted(sess[s]) \in SessT
  BY <1>3, DeletedType
<1>5. sess' = [sess EXCEPT ![s] = Deleted(sess[s])]
  BY <1>1 DEF nfs41_Session_Del
<1>6. sess' \in [Sess -> SessT]
  BY <1>3, <1>4, <1>5
<1>7. cid' = DecIf(cid, Last(sess[s]))
  BY <1>1 DEF Last
<1> QED
  BY <1>1, <1>2, <1>3, <1>5, <1>6, <1>7

\* Deleting a session of an expired client id keeps the reference counts exact.
LEMMA SessionCountsKept ==
  ASSUME ThreadOK, Counts, NEW t \in Threads, ExpireSession(t)
  PROVE  Counts'
<1>1. PICK s \in Sess :
         /\ sess[s].ref \in Int /\ sess[s].ref > 0 /\ sess[s].hashed
         /\ sess[s].cid = th[t].exp /\ sess[s] \in SessT
         /\ sess' = [sess EXCEPT ![s] = Deleted(sess[s])]
         /\ sess' \in [Sess -> SessT]
         /\ cid' = DecIf(cid, Last(sess[s]))
  BY SessionGone
<1>2. /\ ht' = ht /\ cr' = cr /\ mutex' = mutex /\ th' = th /\ last' = last
      /\ leaked' = leaked /\ Hashed' = Hashed
  BY DEF ExpireSession, Hashed
<1>3. /\ sess'[s].ref = sess[s].ref - 1 /\ sess'[s].cid = sess[s].cid /\ ~sess'[s].hashed
      /\ \A x \in Sess \ {s} : sess'[x] = sess[x]
  <2>1. sess'[s] = Deleted(sess[s]) /\ \A x \in Sess \ {s} : sess'[x] = sess[x]
    BY <1>1 DEF Counts, Types
  <2>2. /\ Deleted(sess[s]).ref = sess[s].ref - Bit(sess[s].hashed)
        /\ Deleted(sess[s]).cid = sess[s].cid /\ ~Deleted(sess[s]).hashed
    BY <1>1, DeletedType
  <2>3. Bit(sess[s].hashed) = 1
    BY <1>1 DEF Bit
  <2> QED
    BY <2>1, <2>2, <2>3
<1>4. DropsIds(cid, Last(sess[s]), 0)
  BY <1>1, DropOne DEF Counts
<1>5. Local(t, s) /\ leaked' \in [Ids -> Nat]
  BY <1>2, <1>3 DEF Local, Counts, Types
<1>6. Types'
  BY <1>1, <1>2, <1>4 DEF Counts, Types, DropsIds
<1>7. ASSUME NEW c \in Ids
      PROVE  /\ cid'[c].ref = cid[c].ref + Share(t, s, c)' - Share(t, s, c)
             /\ cid'[c].ref = cid[c].ref - Bit(c = Last(sess[s]))
             /\ cid[c].ref \in Int
             /\ cid[c].ref >= Bit(c = Last(sess[s])) => Follows(cid, c)
  <2> DEFINE l == Bit(c = Last(sess[s]))
             a == Bit(c \in Hashed)
             b == Bit(sess[s].ref > 0 /\ sess[s].cid = c)
             b2 == Bit(sess'[s].ref > 0 /\ sess'[s].cid = c)
             f == Bit(th[t].found = c)
             o == Bit(th[t].old = c)
             w == Bit(th[t].own /\ th[t].exp = c)
  <2>1. cid[c].ref \in Int /\ leaked[c] \in Int /\ c # 0
    BY SMTT(30) DEF Counts, Types, CidT, Ids
  <2>2. /\ cid'[c].ref = cid[c].ref - l - Bit(c = 0)
        /\ cid[c].ref >= l + Bit(c = 0) => Follows(cid, c)
    BY <1>4 DEF DropsIds
  <2>3. Bit(c = 0) = 0
    BY <2>1 DEF Bit
  <2>4. l = b - b2
    <3>1. CASE sess[s].cid = c
      BY <1>1, <1>3, <2>1, <3>1, SMTT(30) DEF Bit, Last
    <3>2. CASE sess[s].cid # c
      BY <1>1, <1>3, <2>1, <3>2, SMTT(30) DEF Bit, Last
    <3> QED
      BY <3>1, <3>2
  <2>5. /\ Share(t, s, c) = a + b + f + o + w + leaked[c]
        /\ Share(t, s, c)' = a + b2 + f + o + w + leaked[c]
    BY <1>2 DEF Share, Bit
  <2>6. /\ l \in Int /\ a \in Int /\ b \in Int /\ b2 \in Int /\ f \in Int /\ o \in Int
        /\ w \in Int
    BY SMT DEF Bit
  <2> HIDE DEF l, a, b, b2, f, o, w
  <2>7. /\ cid'[c].ref = cid[c].ref + Share(t, s, c)' - Share(t, s, c)
        /\ cid'[c].ref = cid[c].ref - l
        /\ cid[c].ref >= l => Follows(cid, c)
    BY <2>1, <2>2, <2>3, <2>4, <2>5, <2>6, SMTT(30)
  <2> QED
    BY <2>1, <2>7 DEF l
<1>8. RefEq' /\ \A c \in Ids : cid'[c].ref \in Nat
  <2>1. \A c \in Ids : cid'[c].ref = cid[c].ref + Share(t, s, c)' - Share(t, s, c)
    BY <1>7
  <2>2. RefEq /\ Types
    BY DEF Counts
  <2> QED
    BY <1>5, <2>1, <2>2, RefEqStep
<1>9. StatusEq'
  <2>1. ASSUME NEW c \in Ids PROVE Follows(cid, c)
    <3>1. cid[c].ref >= Bit(c = Last(sess[s]))
      BY <1>7, <1>8, SMT DEF Bit
    <3> QED
      BY <1>7, <3>1
  <2> QED
    BY <2>1, StatusFollows DEF Counts, StatusEq
<1>10. SessEq'
  <2>1. sess'[s].ref = sess[s].ref + Bit(sess'[s].hashed) - Bit(sess[s].hashed)
                                   + Bit(th'[t].s = s) - Bit(th[t].s = s)
    BY <1>1, <1>2, <1>3, SMT DEF Bit
  <2> QED
    BY <1>1, <1>2, <1>5, <2>1, SessEqStep DEF Counts
<1>11. LastInv'
  <2>1. /\ last.session \in Int /\ s \in Int /\ th[t].exp \in Int /\ last.id \in Int
        /\ th[t].exp <= last.id
    BY <1>1, SMTT(30) DEF ExpireSession, Counts, Types, Sess, ThreadOK, ThT, Ids, LastInv, Shape, Exp
  <2>2. s <= last.session
    <3>1. s > last.session => sess[s].ref = 0
      BY SMT DEF Counts, LastInv, NoSession
    <3> QED
      BY <1>1, <2>1, <3>1, SMTT(30)
  <2>3. ASSUME NEW c \in Ids, c > last.id
        PROVE  cid'[c].ref = cid[c].ref /\ cid'[c].status = cid[c].status
               /\ leaked'[c] = leaked[c]
    <3>1. Bit(c = Last(sess[s])) = 0
      BY <1>1, <2>1, <2>3, SMT DEF Last, Bit, Ids
    <3>2. cid'[c].ref = cid[c].ref /\ Follows(cid, c)
      BY <1>7, <1>8, <3>1, SMT
    <3>3. cid[c].ref = 0
      BY <2>3 DEF Counts, LastInv
    <3> QED
      BY <1>2, <3>2, <3>3 DEF Follows
  <2>4. /\ LastKept(t) /\ th'[t].s <= last.session /\ th'[t].found <= last.id
        /\ th'[t].old <= last.id
    BY <1>2 DEF LastKept, Counts, LastInv
  <2> QED
    BY <1>2, <1>3, <1>5, <2>2, <2>3, <2>4, LastStep DEF Counts
<1> QED
  BY <1>6, <1>8, <1>9, <1>10, <1>11 DEF Counts

\* Dropping the reference of the table of an expired client id keeps the
\* reference counts exact.
LEMMA SessionsCounts ==
  ASSUME ThreadOK, Counts, NEW t \in Threads, ExpireSessions(t)
  PROVE  Counts'
<1>0. PICK e \in Ids : e = th[t].exp
  BY DEF ExpireSessions, ThreadOK, Shape, ThT, Exp
<1>1. Local(t, 0) /\ 0 \notin Sess
  BY ExpireThread, OnlyThread DEF Expire, ExpireSessions, Counts, Ground
<1>2. th[t].pc = "exp_sessions" /\ th[t].exp = e /\ th[t].own /\ e <= last.id
  BY <1>0 DEF ExpireSessions, ThreadOK, Shape, ThT, Exp, Counts, LastInv
<1>3. /\ ht' = ht /\ cr' = cr /\ mutex' = mutex /\ sess' = sess /\ last' = last
      /\ leaked' = leaked /\ Hashed' = Hashed
  BY DEF ExpireSessions, Hashed
<1>4. th'[t] = [th[t] EXCEPT !.pc = "exp_back", !.own = FALSE]
  BY DEF ExpireSessions, ThreadOK
<1>5. /\ th'[t].found = th[t].found /\ th'[t].old = th[t].old /\ th'[t].s = th[t].s
      /\ th'[t].slot = th[t].slot /\ ~th'[t].own
  BY <1>4, SMT DEF ThreadOK, ThT
<1>6. DropsIds(cid, e, 0)
  <2>1. cid' = DecIf(cid, e)
    BY <1>0, SMT DEF ExpireSessions, DecIf, Ids
  <2> QED
    BY <2>1, DropOne DEF Counts
<1>7. Types'
  BY <1>3, <1>6 DEF Counts, Types, DropsIds
<1>8. ASSUME NEW c \in Ids
      PROVE  /\ cid'[c].ref = cid[c].ref + Share(t, 0, c)' - Share(t, 0, c)
             /\ cid'[c].ref = cid[c].ref - Bit(c = e)
             /\ cid[c].ref \in Int
             /\ cid[c].ref >= Bit(c = e) => Follows(cid, c)
  <2> DEFINE l == Bit(c = e)
             a == Bit(c \in Hashed)
             f == Bit(th[t].found = c)
             o == Bit(th[t].old = c)
  <2>1. cid[c].ref \in Int /\ leaked[c] \in Int /\ c # 0
    BY SMT DEF Counts, Types, CidT, Ids
  <2>2. /\ cid'[c].ref = cid[c].ref - l - Bit(c = 0)
        /\ cid[c].ref >= l + Bit(c = 0) => Follows(cid, c)
    BY <1>6 DEF DropsIds
  <2>3. Bit(c = 0) = 0
    BY <2>1 DEF Bit
  <2>4. /\ Share(t, 0, c) = a + 0 + f + o + l + leaked[c]
        /\ Share(t, 0, c)' = a + 0 + f + o + 0 + leaked[c]
    BY <1>1, <1>2, <1>3, <1>5 DEF Share, Bit
  <2>5. l \in Int /\ a \in Int /\ f \in Int /\ o \in Int
    BY SMT DEF Bit
  <2> HIDE DEF l, a, f, o
  <2>6. /\ cid'[c].ref = cid[c].ref + Share(t, 0, c)' - Share(t, 0, c)
        /\ cid'[c].ref = cid[c].ref - l
        /\ cid[c].ref >= l => Follows(cid, c)
    BY <2>1, <2>2, <2>3, <2>4, <2>5, SMTT(30)
  <2> QED
    BY <2>1, <2>6 DEF l
<1>9. RefEq' /\ \A c \in Ids : cid'[c].ref \in Nat
  <2>1. \A c \in Ids : cid'[c].ref = cid[c].ref + Share(t, 0, c)' - Share(t, 0, c)
    BY <1>8
  <2>2. RefEq /\ Types /\ leaked' \in [Ids -> Nat]
    BY <1>7 DEF Counts, Types
  <2> QED
    BY <1>1, <2>1, <2>2, RefEqStep
<1>10. StatusEq'
  <2>1. ASSUME NEW c \in Ids PROVE Follows(cid, c)
    <3>1. cid[c].ref >= Bit(c = e)
      BY <1>8, <1>9, SMT DEF Bit
    <3> QED
      BY <1>8, <3>1
  <2> QED
    BY <2>1, StatusFollows DEF Counts, StatusEq
<1>11. SessEq'
  BY <1>1, <1>3, <1>5, SessEqStep DEF Counts, Types
<1>12. LastInv'
  <2>1. ASSUME NEW c \in Ids, c > last.id
        PROVE  cid'[c].ref = cid[c].ref /\ cid'[c].status = cid[c].status
               /\ leaked'[c] = leaked[c]
    <3>1. last.id \in Int
      BY SMT DEF Counts, Types
    <3>2. Bit(c = e) = 0
      BY <1>2, <2>1, <3>1, SMTT(30) DEF Bit, Ids
    <3>3. cid'[c].ref = cid[c].ref /\ Follows(cid, c)
      BY <1>8, <1>9, <3>2, SMT
    <3>4. cid[c].ref = 0
      BY <2>1 DEF Counts, LastInv
    <3> QED
      BY <1>3, <3>3, <3>4 DEF Follows
  <2>2. /\ LastKept(t) /\ th'[t].s <= last.session /\ th'[t].found <= last.id
        /\ th'[t].old <= last.id
    BY <1>3, <1>5 DEF LastKept, Counts, LastInv
  <2> QED
    BY <1>1, <1>3, <2>1, <2>2, LastStep DEF Counts
<1> QED
  BY <1>7, <1>9, <1>10, <1>11, <1>12 DEF Counts

\* The end of an expiry by SEQUENCE or the reaper keeps the reference counts
\* exact.
LEMMA EndCounts ==
  ASSUME ThreadOK, Counts, NEW t \in Threads, ExpireEnd(t)
  PROVE  Counts'
<1>1. OneThread(t)
  BY ExpireThread DEF Expire, Counts, Ground
<1>2. /\ th[t].pc = "exp_back" /\ th[t].back \in {"sq_done", "rp_done"}
      /\ mutex' = None /\ ht' = ht /\ cr' = cr /\ last' = last /\ leaked' = leaked
      /\ Done(t)
  BY DEF ExpireEnd, Unlock
<1>3. /\ th[t].found \in Ids /\ th[t].old = 0 /\ ~th[t].own
  BY <1>2 DEF ThreadOK, Shape, ThT, Exp
<1>4. /\ th'[t].found = 0 /\ th'[t].old = 0 /\ th'[t].s = 0
      /\ th'[t].slot = 0 /\ ~th'[t].own
  BY <1>2, DoneThread
<1>5. Hashed' = Hashed /\ 0 <= last.session
  BY <1>2, SMT DEF Hashed, Counts, Types
<1>6. cid \in [Ids -> CidT] /\ sess \in [Sess -> SessT]
  BY DEF Counts, Types
<1>7. CASE th[t].s = 0
  <2>1. cid' = DecIf(cid, th[t].found) /\ sess' = sess
    BY <1>7 DEF ExpireEnd
  <2>2. Local(t, 0)
    BY <1>1, <2>1, OnlyThread
  <2>3. DropsIds(cid, th[t].found, 0)
    BY <2>1, DropOne DEF Counts
  <2>4. Types'
    BY <1>2, <2>1, <2>3 DEF Types, Counts, DropsIds
  <2>5. DropStep(t, th[t].found)
    BY <1>2, <1>3, <1>4, <1>5, <1>7, <2>1, <2>2, <2>3 DEF DropStep
  <2>6. LastKept(t)
    BY <1>2, <1>4, <1>5, LastSame
  <2> QED
    BY <1>3, <2>4, <2>5, <2>6, CountsDrops
<1>8. CASE th[t].s # 0
  <2> DEFINE D == DecIf(cid, th[t].found)
  <2>1. dec_session_ref(sess, D, th[t].s)
    BY <1>8 DEF ExpireEnd
  <2>2. D \in [Ids -> CidT] /\ LessOne(cid, D, th[t].found)
    BY <1>6, DropFound
  <2>3. th[t].s \in Sess
    BY <1>8 DEF ThreadOK, ThT
  <2>4. sess[th[t].s].ref = sess[th[t].s].ref + Bit(sess[th[t].s].hashed) - Bit(sess[th[t].s].hashed)
    BY <1>6, <2>3, SMT DEF SessT, Bit
  <2>5. /\ ht' \in [{"confirmed", "unconfirmed"} -> SUBSET Ids]
        /\ cr' \in [{"confirmed", "unconfirmed"} -> Ids \cup {0}]
        /\ mutex' \in Threads \cup {None}
        /\ cr'.confirmed <= last.id /\ cr'.unconfirmed <= last.id
    BY <1>2 DEF Counts, Types, LastInv
  <2> HIDE DEF D
  <2> QED
    BY <1>1, <1>2, <1>3, <1>4, <1>5, <1>6, <2>1, <2>2, <2>3, <2>4, <2>5, ReleaseStep
<1> QED
  BY <1>7, <1>8

\* The end of an expiry by EXCHANGE_ID or CREATE_SESSION keeps the reference
\* counts exact.
LEMMA BackCounts ==
  ASSUME ThreadOK, Counts, NEW t \in Threads, ExpireBack(t)
  PROVE  Counts'
<1>1. OneThread(t)
  BY ExpireThread DEF Expire, Counts, Ground
<1>2. /\ th[t].pc = "exp_back" /\ th[t].back \in {"ex_new", "cs_confirm"}
      /\ mutex' = mutex /\ ht' = ht /\ cr' = cr /\ last' = last /\ leaked' = leaked
      /\ sess' = sess
  BY DEF ExpireBack
<1>3. /\ th[t].old \in Ids /\ ~th[t].own
  BY <1>2 DEF ThreadOK, Shape, ThT, Exp
<1>4. th'[t] = [th[t] EXCEPT !.pc = th[t].back, !.old = 0, !.exp = 0, !.tab = None, !.back = None]
  BY DEF ExpireBack, ThreadOK
<1>5. /\ th'[t].found = th[t].found /\ th'[t].old = 0 /\ th'[t].s = th[t].s
      /\ th'[t].slot = th[t].slot /\ ~th'[t].own
  BY <1>3, <1>4, SMTT(30) DEF ThreadOK, ThT
<1>6. Hashed' = Hashed /\ th[t].slot <= last.session
  BY <1>2 DEF Hashed, Counts, LastInv
<1>7. cid' = DecIf(cid, th[t].old)
  BY <1>3, SMT DEF ExpireBack, DecIf, Ids
<1>8. Local(t, 0)
  BY <1>1, <1>2, OnlyThread
<1>9. DropsIds(cid, th[t].old, 0)
  BY <1>7, DropOne DEF Counts
<1>10. Types'
  BY <1>2, <1>9 DEF Types, Counts, DropsIds
<1>11. DropStep(t, th[t].old)
  BY <1>2, <1>3, <1>5, <1>6, <1>8, <1>9 DEF DropStep
<1>12. LastKept(t)
  BY <1>2, <1>5, <1>6, LastSame
<1> QED
  BY <1>3, <1>10, <1>11, <1>12, CountsDrops

\* Every step of nfs_client_id_expire keeps the reference counts exact.
LEMMA ExpireCounts ==
  ASSUME ThreadOK, Counts, CrInv, NEW t \in Threads, Expire(t)
  PROVE  Counts'
BY SkipCounts, MarkCounts, UnhashCounts, StateCounts, SessionCountsKept, SessionsCounts,
   EndCounts, BackCounts DEF Expire

\* nfs_client_id_expire keeps the client record and the tables in agreement.
LEMMA CrExpire ==
  ASSUME ThreadOK, Counts, CrInv, MutexInv, TabInv, NEW t \in Threads, Expire(t)
  PROVE  CrInv' /\ TabInv'
<1>1. OneThread(t)
  BY ExpireThread DEF Counts, Ground
<1>2. CASE ExpireMark(t)
  <2>1. th'[t].tab \in Tables
    BY <1>2, MarkCounts
  <2>2. PICK c : c = th[t].exp
    OBVIOUS
  <2>3. /\ cr' = [x \in DOMAIN cr |-> IF cr[x] = c THEN 0 ELSE cr[x]] /\ ht' = ht /\ last' = last
        /\ th[t].pc = "exp_mark"
    BY <1>2, <2>2 DEF ExpireMark, Detach
  <2>4. DOMAIN cr = Tables
    BY DEF Counts, Types, Tables
  <2>5. \A x \in Tables : cr'[x] = IF cr[x] = c THEN 0 ELSE cr[x]
    BY <2>3, <2>4
  <2>6. th'[t].exp = c /\ c # 0 /\ th'[t].pc = "exp_unhash" /\ th'[t].back = th[t].back
    BY <1>2, <2>2, <2>3, SMTT(30) DEF ExpireMark, ThreadOK, ThT, Shape, Exp
  <2>7. ASSUME NEW u \in Threads, th'[u].pc = "exp_unhash"
        PROVE  th'[u].tab \in Tables /\ \A x \in Tables : cr'[x] # th'[u].exp
    <3>1. CASE u = t
      BY <2>1, <2>5, <2>6, <3>1
    <3>2. CASE u # t
      <4>1. th'[u] = th[u] /\ mutex = u /\ mutex = t
        BY <1>1, <2>3, <2>7, <3>2 DEF OneThread, MutexInv, Critical, Exp
      <4> QED
        BY <3>2, <4>1
    <3> QED
      BY <3>1, <3>2
  <2>8. ASSUME NEW u \in Threads, Allots(th'[u])
        PROVE  last'.id < MaxIds
    <3>1. Allots(th[u])
      <4>1. CASE u = t
        BY <2>3, <2>6, <2>8, <4>1 DEF Allots, Exp
      <4>2. CASE u # t
        BY <1>1, <2>8, <4>2 DEF OneThread
      <4> QED
        BY <4>1, <4>2
    <3> QED
      BY <2>3, <3>1 DEF CrInv, Allots
  <2>9. TabInv'
    BY <1>1, <2>1 DEF TabInv, OneThread
  <2>10. /\ \A x \in Tables : cr'[x] # 0 => cr'[x] \in ht'[x]
         /\ ht'.confirmed \cap ht'.unconfirmed = {}
    BY <2>3, <2>5 DEF CrInv
  <2> QED
    BY <2>7, <2>8, <2>9, <2>10 DEF CrInv, Allots
<1>3. CASE ExpireUnhash(t)
  <2>1. /\ th[t].pc = "exp_unhash" /\ cr' = cr /\ last' = last
        /\ ht' = [ht EXCEPT ![th[t].tab] = @ \ {th[t].exp}]
        /\ th'[t] = [th[t] EXCEPT !.pc = "exp_state", !.own = TRUE]
    BY <1>3 DEF ExpireUnhash, ThreadOK
  <2>2. /\ th'[t].pc = "exp_state" /\ th'[t].back = th[t].back /\ th'[t].tab = th[t].tab
    BY <2>1, SMT DEF ThreadOK, ThT
  <2>3. th[t].tab \in Tables /\ \A x \in Tables : cr[x] # th[t].exp
    BY <2>1 DEF CrInv
  <2>4. \A x \in Tables : ht'[x] = IF x = th[t].tab THEN ht[x] \ {th[t].exp} ELSE ht[x]
    BY <2>1 DEF Counts, Types, Tables
  <2>5. /\ \A x \in Tables : cr'[x] # 0 => cr'[x] \in ht'[x]
        /\ ht'.confirmed \cap ht'.unconfirmed = {}
    <3>1. ASSUME NEW x \in Tables, cr'[x] # 0 PROVE cr'[x] \in ht'[x]
      BY <2>1, <2>3, <2>4, <3>1, SMTT(30) DEF CrInv
    <3>2. ht'.confirmed \subseteq ht.confirmed /\ ht'.unconfirmed \subseteq ht.unconfirmed
      BY <2>4 DEF Tables
    <3> QED
      BY <3>1, <3>2 DEF CrInv
  <2>6. ASSUME NEW u \in Threads, th'[u].pc = "exp_unhash"
        PROVE  th'[u].tab \in Tables /\ \A x \in Tables : cr'[x] # th'[u].exp
    <3>1. u # t /\ th'[u] = th[u]
      BY <1>1, <2>2, <2>6 DEF OneThread
    <3> QED
      BY <2>1, <2>6, <3>1 DEF CrInv
  <2>7. ASSUME NEW u \in Threads, Allots(th'[u])
        PROVE  last'.id < MaxIds
    <3>1. Allots(th[u])
      <4>1. CASE u = t
        BY <2>1, <2>2, <2>7, <4>1 DEF Allots, Exp
      <4>2. CASE u # t
        BY <1>1, <2>7, <4>2 DEF OneThread
      <4> QED
        BY <4>1, <4>2
    <3> QED
      BY <2>1, <3>1 DEF CrInv, Allots
  <2>8. TabInv'
    BY <1>1, <2>2 DEF TabInv, OneThread
  <2> QED
    BY <2>5, <2>6, <2>7, <2>8 DEF CrInv, Allots
<1> DEFINE Quiet == /\ ht' = ht /\ cr' = cr /\ last' = last /\ th'[t].pc # "exp_unhash"
                    /\ Allots(th'[t]) => Allots(th[t])
                    /\ th'[t].tab \in {None, th[t].tab}
<1> USE DEF ThreadOK, ThT, Allots, Exp
<1>4. ExpireSkip(t) => Quiet
  BY SMT DEF ExpireSkip, Go
<1>5. ExpireState(t) => Quiet
  BY SMT DEF ExpireState, Go
<1>6. ExpireSessions(t) => Quiet
  BY SMT DEF ExpireSessions
<1>7. ExpireEnd(t) => Quiet
  BY SMT DEF ExpireEnd, Done, Idle
<1>8. ExpireBack(t) => Quiet
  BY SMT DEF ExpireBack
<1>9. Quiet => CrInv' /\ TabInv'
  BY <1>1, CrQuiet
<1>10. ExpireSession(t) => Quiet
  BY DEF ExpireSession
<1> QED
  BY <1>2, <1>3, <1>4, <1>5, <1>6, <1>7, <1>8, <1>9, <1>10 DEF Expire

-----------------------------------------------------------------------------
(***************************************************************************)
(* The status, the sequences and the slots                                 *)
(***************************************************************************)
\* A step of an expiry after the client id has been marked.
LEMMA OnStep ==
  ASSUME Base, Counts', NEW t \in Threads, OneThread(t), Placed, Passed,
         \A s \in Sess : SlotKept(t, s), th[t].pc \in Exp,
         th'[t].pc \notin {"exp_mark", "exp_unhash", "sq_exec", "sq_complete"},
         Creating(th'[t]) => Creating(th[t]) /\ cr.confirmed = 0,
         Creating(th[t]) => Creating(th'[t]) /\ th'[t].s = th[t].s /\ th'[t].found = th[t].found
  PROVE  Deep'
<1>1. StatT(th[t])'
  BY DEF StatT, Placed, Creating
<1>2. StatInv'
  BY <1>1, QuietStat DEF Base, Deep, Placed, Kept, InPlace
<1>3. \A c \in 1..last.id : cid'[c].seq = cid[c].seq
  <2>1. last.id \in 0..MaxIds
    BY DEF Base, Counts, Types
  <2>2. \A c \in 1..last.id : c \in Ids
    BY <2>1, BoundsAssumption, SMT DEF Ids
  <2> QED
    BY <2>2 DEF Placed, Kept
<1>4. SeqInv'
  BY <1>3, QuietSeq DEF Base, Deep
<1>5. th[t].slot = 0 /\ ~Running(th'[t])
  BY DEF Base, ThreadOK, Shape, Running, Exp
<1>6. SlotInv'
  BY <1>5, QuietSlot DEF Base, Deep
<1> QED
  BY <1>2, <1>4, <1>6 DEF Deep

\* Deleting a session of a client id leaves the slots in use alone.
LEMMA SessionsKept ==
  ASSUME Counts, NEW t \in Threads, ExpireSession(t)
  PROVE  Kept /\ Passed /\ \A s \in Sess : SlotKept(t, s)
<1>1. PICK s \in Sess :
         /\ sess[s].ref \in Int /\ sess[s].hashed /\ sess[s] \in SessT
         /\ sess' = [sess EXCEPT ![s] = Deleted(sess[s])]
         /\ cid' = DecIf(cid, Last(sess[s]))
  BY SessionGone
<1>2. Kept
  BY <1>1, KeptRefs DEF Counts
<1>3. sess'[s] = Deleted(sess[s]) /\ \A x \in Sess \ {s} : sess'[x] = sess[x]
  BY <1>1 DEF Counts, Types
<1>4. sess'[s].cid = sess[s].cid /\ sess'[s].csq = sess[s].csq /\ ~sess'[s].hashed
  BY <1>1, <1>3, DeletedType
<1>5. SlotKept(t, s)
  <2>1. CASE sess[s].ref # 1
    <3>1. SlotEq(sess[s], Deleted(sess[s]))
      BY <1>1, <2>1, DeletedType DEF SlotEq
    <3> QED
      BY <1>3, <3>1 DEF SlotKept
  <2>2. CASE sess[s].ref = 1
    <3>1. SlotNew(Deleted(sess[s]))
      BY <1>1, <2>2, DeletedType DEF SlotNew
    <3>2. \A u \in Threads : th[u].s # s
      BY <1>1, <2>2, OneUser, SMT DEF Bit
    <3> QED
      BY <1>3, <3>1, <3>2 DEF SlotKept
  <2> QED
    BY <2>1, <2>2
<1>6. \A x \in Sess \ {s} : SlotKept(t, x)
  BY <1>3 DEF SlotKept, SlotEq
<1> QED
  BY <1>2, <1>3, <1>4, <1>5, <1>6 DEF Passed

\* nfs_client_id_expire but for the marking and the unhashing.
LEMMA ExpiryDeep ==
  ASSUME Base, Counts', NEW t \in Threads, OneThread(t),
         \/ ExpireSkip(t) \/ ExpireState(t) \/ ExpireSession(t) \/ ExpireSessions(t)
         \/ ExpireBack(t)
  PROVE  Deep'
<1>0. th \in [Threads -> ThT] /\ Types /\ Counts /\ StatT(th[t]) /\ Shape(th[t])
  BY DEF Base, ThreadOK, Counts, Deep, StatInv
<1>1. ht' = ht /\ cr' = cr
  BY DEF ExpireSkip, ExpireState, ExpireSession, ExpireSessions, ExpireBack
<1>2. cid \in [Ids -> CidT] /\ KeptBy(cid)
  BY <1>0 DEF Types, KeptBy
<1>3. th[t].pc \in Exp
  BY DEF ExpireSkip, ExpireState, ExpireSession, ExpireSessions, ExpireBack, Exp
<1>4. th[t].exp \in Ids
  BY <1>0, <1>3 DEF Shape, ThT
<1>5. Kept /\ Passed /\ \A x \in Sess : SlotKept(t, x)
  <2>1. CASE ExpireSkip(t)
    BY <2>1 DEF ExpireSkip, Kept, Passed, SlotKept, SlotEq
  <2>2. CASE ExpireState(t)
    <3>1. cid' = [cid EXCEPT ![th[t].exp].state = {}] /\ sess' = sess
      BY <2>2 DEF ExpireState
    <3>2. KeptBy(cid')
      BY <1>2, <3>1, KeptLease
    <3> QED
      BY <3>1, <3>2 DEF Kept, KeptBy, Passed, SlotKept, SlotEq
  <2>3. CASE ExpireSessions(t)
    <3>1. cid' = dec_client_id_ref(cid, th[t].exp) /\ sess' = sess
      BY <2>3 DEF ExpireSessions
    <3> QED
      BY <1>0, <1>4, <3>1, KeptRefs DEF Passed, SlotKept, SlotEq
  <2>4. CASE ExpireBack(t)
    <3>1. th[t].old \in Ids /\ cid' = dec_client_id_ref(cid, th[t].old) /\ sess' = sess
      BY <1>0, <1>4, <2>4 DEF ExpireBack, Shape, Exp
    <3> QED
      BY <1>0, <3>1, KeptRefs DEF Passed, SlotKept, SlotEq
  <2>5. CASE ExpireSession(t)
    BY <1>0, <2>5, SessionsKept
  <2> QED
    BY <2>1, <2>2, <2>3, <2>4, <2>5
<1>6. Creating(th[t]) => cr.confirmed = 0
  <2>1. CASE th[t].pc # "exp_mark"
    BY <1>0, <1>3, <2>1 DEF StatT, Exp
  <2>2. CASE th[t].pc = "exp_mark"
    <3>1. cid[th[t].exp].status = "expired"
      BY <2>2 DEF ExpireSkip, ExpireState, ExpireSession, ExpireSessions, ExpireBack
    <3>2. cr.confirmed # th[t].exp
      BY <1>4, <3>1 DEF Base, Deep, StatInv
    <3> QED
      BY <1>0, <2>2, <3>2 DEF StatT
  <2> QED
    BY <2>1, <2>2
<1>7. /\ th'[t].pc \notin {"exp_mark", "exp_unhash", "sq_exec", "sq_complete"}
      /\ th'[t].s = th[t].s /\ th'[t].found = th[t].found
      /\ Creating(th'[t]) <=> Creating(th[t])
  <2> USE DEF ThT, Creating, Exp
  <2>1. CASE ExpireSkip(t)
    <3>1. th[t].pc = "exp_mark" /\ th'[t] = [th[t] EXCEPT !.pc = "exp_back"]
      BY <1>0, <2>1 DEF ExpireSkip, Go
    <3> QED
      BY <1>0, <3>1
  <2>2. CASE ExpireState(t)
    <3>1. th[t].pc = "exp_state" /\ th'[t] = [th[t] EXCEPT !.pc = "exp_sessions"]
      BY <1>0, <2>2 DEF ExpireState, Go
    <3> QED
      BY <1>0, <3>1
  <2>3. CASE ExpireSessions(t)
    <3>1. th[t].pc = "exp_sessions" /\ th'[t] = [th[t] EXCEPT !.pc = "exp_back", !.own = FALSE]
      BY <1>0, <2>3 DEF ExpireSessions
    <3> QED
      BY <1>0, <3>1, SMT
  <2>4. CASE ExpireBack(t)
    <3>1. /\ th[t].pc = "exp_back" /\ th[t].back \in {"ex_new", "cs_confirm"}
          /\ th'[t] = [th[t] EXCEPT !.pc = th[t].back, !.old = 0, !.exp = 0,
                                    !.tab = None, !.back = None]
      BY <1>0, <2>4 DEF ExpireBack
    <3> QED
      BY <1>0, <3>1
  <2>5. CASE ExpireSession(t)
    BY <2>5 DEF ExpireSession
  <2> QED
    BY <2>1, <2>2, <2>3, <2>4, <2>5
<1> QED
  BY <1>1, <1>3, <1>5, <1>6, <1>7, OnStep DEF Placed

\* nfs_client_id_expire marks the client id, then takes it out of its table.
LEMMA MarkDeep ==
  ASSUME Base, Counts', CrInv', NEW t \in Threads, OneThread(t), ExpireMark(t)
  PROVE  Deep'
<1>0. /\ StatInv /\ SeqInv /\ SlotInv /\ ThreadOK /\ Counts /\ CrInv /\ MutexInv /\ Types
      /\ sess \in [Sess -> SessT] /\ cid \in [Ids -> CidT] /\ last.id \in 0..MaxIds
      /\ cr \in [{"confirmed", "unconfirmed"} -> Ids \cup {0}] /\ th[t] \in ThT
      /\ StatT(th[t])
  BY DEF Base, Deep, Counts, Types, ThreadOK, StatInv
<1>1. /\ th[t].pc = "exp_mark" /\ ht' = ht /\ sess' = sess
      /\ cr' = Detach(th[t].exp)
      /\ th'[t] = [th[t] EXCEPT !.pc = "exp_unhash", !.tab = cid[th[t].exp].status]
  BY <1>0 DEF ExpireMark, ThreadOK
<1>2. th[t].exp \in Ids /\ th[t].slot = 0 /\ mutex = t
  BY <1>0, <1>1 DEF ThreadOK, Shape, Exp, ThT, MutexInv, Critical
<1>3. PICK c \in Ids : c = th[t].exp
  BY <1>2
<1>4. /\ th'[t].pc = "exp_unhash" /\ th'[t].tab = cid[c].status /\ th'[t].exp = c
      /\ th'[t].s = th[t].s /\ th'[t].found = th[t].found /\ th'[t].back = th[t].back
  BY <1>0, <1>1, <1>3 DEF ThT
<1>5. \A d \in Ids : /\ cid'[d].status = IF d = c THEN "expired" ELSE cid[d].status
                     /\ cid'[d].seq = cid[d].seq
  <2>1. "expired" \in Statuses /\ cid' = [cid EXCEPT ![c].status = "expired"]
    BY <1>3 DEF Statuses, ExpireMark
  <2> QED
    BY <1>0, <2>1, SetStatus, SMTT(30)
<1>6. \A x \in Tables : cr'[x] = IF cr[x] = c THEN 0 ELSE cr[x]
  BY <1>0, <1>1, <1>3 DEF Detach, Tables
<1>7. cid[c].status \in Tables /\ c \in ht[cid[c].status]
  <2>1. th'[t].tab \in Tables
    BY <1>4 DEF CrInv
  <2> QED
    BY <1>0, <1>4, <2>1 DEF StatInv
<1>8. StatT(th[t])'
  <2>1. c \in ht'[th'[t].tab] /\ cid'[c].status \notin Tables
    BY <1>1, <1>4, <1>5, <1>7 DEF Tables
  <2>2. Creating(th'[t]) => cr'.confirmed = 0
    <3>1. Creating(th'[t]) => cr.confirmed = c
      BY <1>0, <1>1, <1>3, <1>4 DEF StatT, Creating, Exp
    <3> QED
      BY <1>6, <3>1 DEF Tables
  <2> QED
    BY <1>4, <2>1, <2>2 DEF StatT
<1>9. StatInv'
  <2>1. \A u \in Threads : StatT(th[u])'
    BY <1>0, <1>2, <1>8, LockedStat
  <2>2. 0 \notin Ids
    BY SMT DEF Ids
  <2>3. \A d \in Ids : cid'[d].status = "confirmed" <=> cr'.confirmed = d
    BY <1>0, <1>5, <1>6, <2>2, SMTT(30) DEF StatInv, Tables
  <2>4. \A d \in Ids : cr'.unconfirmed = d => cid'[d].status = "unconfirmed"
    BY <1>0, <1>5, <1>6, <2>2, SMTT(30) DEF StatInv, Tables
  <2>5. \A x \in Tables, d \in Ids : cid'[d].status = x => d \in ht'[x]
    BY <1>0, <1>1, <1>5 DEF StatInv, Tables
  <2> QED
    BY <2>1, <2>3, <2>4, <2>5 DEF StatInv
<1>10. Passed /\ \A s \in Sess : SlotKept(t, s)
  BY <1>1 DEF Passed, SlotKept, SlotEq
<1>11. SeqInv'
  <2>1. \A d \in 1..last.id : cid'[d].seq = cid[d].seq
    BY <1>0, <1>5, BoundsAssumption, SMTT(30) DEF Ids
  <2>2. Creating(th[t]) => Creating(th'[t])
    BY <1>1, <1>4 DEF Creating, Exp
  <2> QED
    BY <1>0, <1>4, <1>10, <2>1, <2>2, QuietSeq
<1>12. SlotInv'
  BY <1>0, <1>2, <1>4, <1>10, QuietSlot DEF Running
<1> QED
  BY <1>9, <1>11, <1>12 DEF Deep

\* It takes it out of that table.
LEMMA UnhashDeep ==
  ASSUME Base, Counts', NEW t \in Threads, OneThread(t), ExpireUnhash(t)
  PROVE  Deep'
<1>0. /\ StatInv /\ SeqInv /\ SlotInv /\ ThreadOK /\ Counts /\ CrInv /\ MutexInv /\ Types
      /\ ht \in [{"confirmed", "unconfirmed"} -> SUBSET Ids] /\ th[t] \in ThT
      /\ StatT(th[t])
  BY DEF Base, Deep, Counts, Types, ThreadOK, StatInv
<1>1. /\ th[t].pc = "exp_unhash" /\ cr' = cr /\ cid' = cid /\ sess' = sess
      /\ ht' = [ht EXCEPT ![th[t].tab] = @ \ {th[t].exp}]
      /\ th'[t] = [th[t] EXCEPT !.pc = "exp_state", !.own = TRUE]
  BY <1>0 DEF ExpireUnhash, ThreadOK
<1>2. th[t].slot = 0 /\ mutex = t
  BY <1>0, <1>1 DEF ThreadOK, Shape, Exp, ThT, MutexInv, Critical
<1>3. /\ th'[t].pc = "exp_state"
      /\ th'[t].s = th[t].s /\ th'[t].found = th[t].found /\ th'[t].back = th[t].back
  BY <1>0, <1>1 DEF ThT
<1>4. cid[th[t].exp].status \notin Tables
  BY <1>0, <1>1 DEF StatT
<1>5. StatT(th[t])'
  BY <1>0, <1>1, <1>3 DEF StatT, Creating, Exp
<1>6. StatInv'
  <2>1. \A u \in Threads : StatT(th[u])'
    BY <1>0, <1>2, <1>5, LockedStat
  <2>2. \A x \in Tables, d \in Ids : cid'[d].status = x => d \in ht'[x]
    <3> SUFFICES ASSUME NEW x \in Tables, NEW d \in Ids, cid[d].status = x
                 PROVE  d \in ht'[x]
      BY <1>1
    <3>1. d \in ht[x] /\ d # th[t].exp
      BY <1>0, <1>4 DEF StatInv
    <3> QED
      BY <1>0, <1>1, <3>1 DEF Tables
  <2> QED
    BY <1>0, <1>1, <2>1, <2>2 DEF StatInv
<1>7. Passed /\ \A s \in Sess : SlotKept(t, s)
  BY <1>1 DEF Passed, SlotKept, SlotEq
<1>8. SeqInv'
  <2>1. Creating(th[t]) => Creating(th'[t])
    BY <1>1, <1>3 DEF Creating, Exp
  <2> QED
    BY <1>0, <1>1, <1>3, <1>7, <2>1, QuietSeq
<1>9. SlotInv'
  BY <1>0, <1>2, <1>3, <1>7, QuietSlot DEF Running
<1> QED
  BY <1>6, <1>8, <1>9 DEF Deep

-----------------------------------------------------------------------------
(***************************************************************************)
(* EXCHANGE_ID                                                             *)
(***************************************************************************)
\* The client ids, the tables and the client record, as one value.
IsRecords(r) ==
    /\ r = [cid |-> r.cid, ht |-> r.ht, cr |-> r.cr]
    /\ r.cid \in [Ids -> CidT]
    /\ r.ht \in [Tables -> SUBSET Ids]
    /\ r.cr \in [Tables -> Ids \cup {0}]

\* remove_client_id unhashes the client id and drops that reference.
LEMMA Removed ==
  ASSUME NEW r, IsRecords(r), NEW tab \in Tables, NEW c,
         NEW q, q = remove_client_id(r, tab, c)
  PROVE  /\ IsRecords(q)
         /\ q.ht[tab] = r.ht[tab] \ {c}
         /\ q.cr[tab] = IF c \in r.ht[tab] THEN 0 ELSE r.cr[tab]
         /\ \A x \in Tables \ {tab} : q.ht[x] = r.ht[x] /\ q.cr[x] = r.cr[x]
         /\ \A d \in Ids :
              /\ q.cid[d].ref = r.cid[d].ref - Bit(c \in r.ht[tab] /\ d = c)
              /\ q.cid[d].status = IF c \in r.ht[tab] /\ d = c
                                   THEN IF r.cid[d].ref = 1 THEN "freed" ELSE "expired"
                                   ELSE r.cid[d].status
              /\ q.cid[d].seq = r.cid[d].seq
<1> DEFINE C == r.cid
           H == r.ht
           R == r.cr
<1>1. C \in [Ids -> CidT] /\ H \in [Tables -> SUBSET Ids] /\ R \in [Tables -> Ids \cup {0}]
  BY DEF IsRecords
<1>2. CASE c \notin H[tab]
  <2>1. q = r
    BY <1>2 DEF remove_client_id
  <2>2. \A d \in Ids : C[d].ref \in Int
    BY <1>1, CidRefs
  <2>3. \A d \in Ids : Bit(c \in H[tab] /\ d = c) = 0
    BY <1>2 DEF Bit
  <2>4. H[tab] \ {c} = H[tab]
    BY <1>2
  <2> QED
    BY <1>2, <2>1, <2>2, <2>3, <2>4, SMTT(30)
<1>3. CASE c \in H[tab]
  <2> DEFINE E == [C EXCEPT ![c].status = "expired"]
             D == dec_client_id_ref(E, c)
             H2 == [H EXCEPT ![tab] = @ \ {c}]
             R2 == [R EXCEPT ![tab] = 0]
  <2>1. q = [cid |-> D, ht |-> H2, cr |-> R2]
    BY <1>3 DEF remove_client_id
  <2> HIDE DEF C, H, R
  <2>2. /\ E \in [Ids -> CidT]
        /\ \A d \in Ids : /\ E[d].ref = C[d].ref
                          /\ E[d].status = IF d = c THEN "expired" ELSE C[d].status
                          /\ E[d].seq = C[d].seq
    <3>1. \A y \in CidT : /\ [y EXCEPT !.status = "expired"] \in CidT
                          /\ [y EXCEPT !.status = "expired"].ref = y.ref
                          /\ [y EXCEPT !.status = "expired"].status = "expired"
                          /\ [y EXCEPT !.status = "expired"].seq = y.seq
      BY DEF CidT, Statuses
    <3>2. E = [d \in Ids |-> IF d = c THEN [C[d] EXCEPT !.status = "expired"] ELSE C[d]]
      BY <1>1
    <3>3. \A d \in Ids : C[d] \in CidT
      BY <1>1
    <3> HIDE DEF E
    <3>4. E \in [Ids -> CidT]
      BY <3>1, <3>2, <3>3
    <3>5. ASSUME NEW d \in Ids
          PROVE  /\ E[d].ref = C[d].ref
                 /\ E[d].status = IF d = c THEN "expired" ELSE C[d].status
                 /\ E[d].seq = C[d].seq
      <4>1. CASE d = c
        BY <3>1, <3>2, <3>3, <4>1
      <4>2. CASE d # c
        BY <3>2, <4>2
      <4> QED
        BY <4>1, <4>2
    <3> QED
      BY <3>4, <3>5
  <2> HIDE DEF E
  <2>3. /\ D \in [Ids -> CidT]
        /\ \A d \in Ids : /\ D[d].ref = E[d].ref - Bit(d = c)
                          /\ D[d].status = IF d = c /\ E[d].ref = 1 THEN "freed" ELSE E[d].status
                          /\ D[d].seq = E[d].seq
    BY <2>2, DecRef, SMT
  <2>4. /\ H2 \in [Tables -> SUBSET Ids] /\ R2 \in [Tables -> Ids \cup {0}]
        /\ H2[tab] = H[tab] \ {c} /\ R2[tab] = 0
        /\ \A x \in Tables \ {tab} : H2[x] = H[x] /\ R2[x] = R[x]
    BY <1>1
  <2> HIDE DEF D, H2, R2
  <2>5. q.cid = D /\ q.ht = H2 /\ q.cr = R2 /\ q = [cid |-> q.cid, ht |-> q.ht, cr |-> q.cr]
    BY <2>1, SMT
  <2>6. ASSUME NEW d \in Ids
        PROVE  /\ D[d].ref = C[d].ref - Bit(c \in H[tab] /\ d = c)
               /\ D[d].status = IF c \in H[tab] /\ d = c
                                   THEN IF C[d].ref = 1 THEN "freed" ELSE "expired"
                                   ELSE C[d].status
               /\ D[d].seq = C[d].seq
    <3>1. CASE d = c
      BY <1>3, <2>2, <2>3, <3>1 DEF Bit
    <3>2. CASE d # c
      BY <1>3, <2>2, <2>3, <3>2 DEF Bit
    <3> QED
      BY <3>1, <3>2
  <2>7. IsRecords(q)
    BY <2>3, <2>4, <2>5 DEF IsRecords
  <2>8. \A d \in Ids :
               /\ q.cid[d].ref = C[d].ref - Bit(c \in H[tab] /\ d = c)
               /\ q.cid[d].status = IF c \in H[tab] /\ d = c
                                   THEN IF C[d].ref = 1 THEN "freed" ELSE "expired"
                                   ELSE C[d].status
               /\ q.cid[d].seq = C[d].seq
    BY <2>5, <2>6
  <2>9. /\ q.ht[tab] = H[tab] \ {c} /\ q.cr[tab] = IF c \in H[tab] THEN 0 ELSE R[tab]
        /\ \A x \in Tables \ {tab} : q.ht[x] = H[x] /\ q.cr[x] = R[x]
    BY <1>3, <2>4, <2>5
  <2> QED
    BY <2>7, <2>8, <2>9 DEF C, H, R
<1> QED
  BY <1>2, <1>3

\* A client id n is handed out in the place of u, with a reference to k leaked.
Replaces(n, u, k) ==
    /\ n \in Ids /\ n = last.id + 1 /\ last' = [last EXCEPT !.id = @ + 1]
    /\ u \in Ids \cup {0} /\ (u # 0 => u \in Hashed)
    /\ k \in Ids \cup {0} /\ (k # 0 => k \in Hashed /\ k # u)
    /\ cid' \in [Ids -> CidT]
    /\ \A d \in Ids : cid'[d].ref = cid[d].ref - Bit(d = u) + Bit(d = n) + Bit(d = k)
    /\ \A d \in Ids \ {n, u} : cid'[d].status = cid[d].status
    /\ cid'[n].status = "unconfirmed"
    /\ u # 0 => cid'[u].status = IF cid[u].ref = 1 THEN "freed" ELSE "expired"
    /\ ht' \in [Tables -> SUBSET Ids] /\ Hashed' = (Hashed \ {u}) \cup {n}
    /\ cr' \in [Tables -> Ids \cup {0}] /\ cr'.confirmed <= n /\ cr'.unconfirmed <= n
    /\ mutex' \in Threads \cup {None} /\ sess' = sess
    /\ leaked' \in [Ids -> Nat] /\ \A d \in Ids : leaked'[d] = leaked[d] + Bit(d = k)

\* The thread holds what it held.
Keeps(t) ==
    /\ th'[t].found = th[t].found /\ th'[t].old = th[t].old /\ th'[t].s = th[t].s
    /\ th'[t].slot <= last.session /\ ~th[t].own /\ ~th'[t].own

\* Counts after a new client id n has replaced the unconfirmed one u, with k
\* more references leaked.
LEMMA NewCounts ==
  ASSUME Counts, NEW t \in Threads, OneThread(t), Keeps(t), NEW n, NEW u, NEW k, Replaces(n, u, k)
  PROVE  Counts'
<1> USE DEF Replaces, Keeps
<1>1. Local(t, 0) /\ 0 \notin Sess /\ 0 \notin Ids
  BY OnlyThread
<1>2. /\ n \notin Hashed /\ cid[n].ref = 0 /\ leaked[n] = 0 /\ n # u /\ n # k
  BY <1>1, SMT DEF Counts, LastInv, Types
<1>3. last' \in [id : 0..MaxIds, session : 0..MaxSess] /\ last'.id = n /\ last'.session = last.session
  <2>1. last \in [id : 0..MaxIds, session : 0..MaxSess]
    BY DEF Counts, Types
  <2>2. n \in 1..MaxIds /\ n = last.id + 1 /\ last' = [last EXCEPT !.id = @ + 1]
    BY DEF Ids
  <2> QED
    BY ONLY <2>1, <2>2, SMT
<1>4. Types'
  BY <1>3 DEF Counts, Types, Tables
<1>5. ASSUME NEW d \in Ids
      PROVE  cid'[d].ref = cid[d].ref + Share(t, 0, d)' - Share(t, 0, d)
  <2> DEFINE f == Bit(th[t].found = d)
             o == Bit(th[t].old = d)
             h == Bit(d \in Hashed)
             h2 == Bit(d \in Hashed')
             l == leaked[d]
             l2 == leaked'[d]
  <2>1. Share(t, 0, d) = h + 0 + f + o + 0 + l /\ Share(t, 0, d)' = h2 + 0 + f + o + 0 + l2
    BY <1>1 DEF Share, Bit
  <2>2. f \in Int /\ o \in Int /\ h \in Int /\ h2 \in Int /\ l \in Int /\ cid[d].ref \in Int
    BY SMT DEF Bit, Counts, Types, CidT
  <2>3. l2 = l + Bit(d = k)
    OBVIOUS
  <2>4. h2 = h - Bit(d = u) + Bit(d = n)
    BY <1>1, <1>2, SMT DEF Bit
  <2>5. cid'[d].ref = cid[d].ref - Bit(d = u) + Bit(d = n) + Bit(d = k)
    OBVIOUS
  <2>6. Bit(d = u) \in Int /\ Bit(d = n) \in Int /\ Bit(d = k) \in Int
    BY SMT DEF Bit
  <2> HIDE DEF f, o, h, h2, l, l2
  <2> QED
    BY <2>1, <2>2, <2>3, <2>4, <2>5, <2>6, SMTT(30)
<1>6. RefEq' /\ \A d \in Ids : cid'[d].ref \in Nat
  BY <1>1, <1>5, RefEqStep, SMTT(30) DEF Counts
<1>7. SessEq'
  BY <1>1, SessEqStep, SMTT(30) DEF Counts, Types
<1>8. StatusEq'
  <2>1. ASSUME NEW d \in Ids
        PROVE  cid'[d].ref = 0 <=> cid'[d].status \in {"none", "freed"}
    <3>1. cid'[d].ref = cid[d].ref - Bit(d = u) + Bit(d = n) + Bit(d = k) /\ cid[d].ref \in Int
      BY DEF Counts, Types, CidT
    <3>2. cid[d].ref = 0 <=> cid[d].status \in {"none", "freed"}
      BY DEF Counts, StatusEq
    <3>3. d \in Hashed => cid[d].ref > 0
      BY <1>1, HasRef DEF Counts
    <3>4. CASE d = n
      BY <1>2, <3>1, <3>4, SMTT(30) DEF Bit
    <3>5. CASE d = u
      <4>1. cid'[d].ref = cid[d].ref - 1
        BY <1>1, <1>2, <3>1, <3>5, SMTT(30) DEF Bit
      <4>2. cid'[d].status = IF cid[d].ref = 1 THEN "freed" ELSE "expired"
        BY <1>1, <3>5
      <4> QED
        BY <3>1, <4>1, <4>2, SMTT(30)
    <3>6. CASE d = k
      <4>1. cid'[d].ref = cid[d].ref + 1 /\ cid[d].ref > 0
        BY <1>1, <1>2, <3>1, <3>3, <3>6, SMTT(30) DEF Bit
      <4>2. cid'[d].status = cid[d].status
        BY <1>1, <1>2, <3>6
      <4> QED
        BY <3>1, <3>2, <4>1, <4>2, SMTT(30)
    <3>7. CASE d \notin {n, u, k}
      <4>1. cid'[d].ref = cid[d].ref /\ cid'[d].status = cid[d].status
        BY <3>1, <3>7, SMTT(30) DEF Bit
      <4> QED
        BY <3>2, <4>1
    <3> QED
      BY <3>4, <3>5, <3>6, <3>7
  <2> QED
    BY <2>1 DEF StatusEq
<1>9. LastInv'
  <2>1. last.id \in Int /\ last.session \in Int
    BY SMT DEF Counts, Types
  <2>2. ASSUME NEW s \in Sess
        PROVE  /\ s <= last'.session => sess'[s].cid \in 1..last'.id
               /\ s > last'.session => sess'[s] = NoSession
    <3>1. s <= last.session => sess[s].cid \in 1..last.id
      BY DEF Counts, LastInv
    <3>2. s > last.session => sess[s] = NoSession
      BY DEF Counts, LastInv
    <3> QED
      BY <1>3, <2>1, <3>1, <3>2, SMTT(30)
  <2>3. ASSUME NEW v \in Threads
        PROVE  /\ th'[v].s <= last'.session /\ th'[v].slot <= last'.session
               /\ th'[v].found <= last'.id /\ th'[v].old <= last'.id
    <3>1. /\ th[v].s <= last.session /\ th[v].slot <= last.session
          /\ th[v].found <= last.id /\ th[v].old <= last.id
      BY DEF Counts, LastInv
    <3>2. th'[v] = th[v] \/ v = t
      BY DEF OneThread
    <3>3. th'[v].found \in Int /\ th'[v].old \in Int
      BY SMT DEF OneThread, ThT, Ids
    <3>4. /\ th'[v].s <= last.session /\ th'[v].slot <= last.session
          /\ th'[v].found <= last.id /\ th'[v].old <= last.id
      BY <3>1, <3>2
    <3> QED
      BY <1>3, <2>1, <3>3, <3>4, SMTT(30)
  <2>4. ASSUME NEW d \in Ids, d > last'.id
        PROVE  /\ cid'[d].ref = 0 /\ cid'[d].status = "none"
               /\ d \notin Hashed' /\ leaked'[d] = 0
    <3>1. d > last.id /\ d # n /\ d \in Int
      BY <1>3, <2>1, <2>4, SMTT(30) DEF Ids
    <3>2. cid[d].ref = 0 /\ cid[d].status = "none" /\ d \notin Hashed /\ leaked[d] = 0
      BY <3>1 DEF Counts, LastInv
    <3>3. d # u /\ d # k
      BY <1>1, <3>2, SMT
    <3> QED
      BY <3>1, <3>2, <3>3, SMTT(30) DEF Bit
  <2>5. cr'.confirmed <= last'.id /\ cr'.unconfirmed <= last'.id
    BY <1>3
  <2> QED
    BY <2>2, <2>3, <2>4, <2>5 DEF LastInv
<1> QED
  BY <1>4, <1>6, <1>7, <1>8, <1>9 DEF Counts

\* What NewClientId makes of the records: u gives way to n.
LEMMA NewId ==
  ASSUME Counts, CrInv, NEW i \in Incs \cup {None}, last.id < MaxIds,
         NEW r, r = NewClientId(i), NEW n, n = last.id + 1, NEW u, u = cr.unconfirmed
  PROVE  /\ IsRecords(r)
         /\ n \in Ids /\ u \in Ids \cup {0} /\ n # u
         /\ u # 0 => u \in Hashed /\ u \in ht.unconfirmed /\ u \notin ht.confirmed
         /\ \A d \in Ids : r.cid[d].ref = cid[d].ref - Bit(d = u) + Bit(d = n)
         /\ \A d \in Ids \ {n, u} : r.cid[d].status = cid[d].status
         /\ \A d \in Ids \ {n} : r.cid[d].seq = cid[d].seq
         /\ r.cid[n].status = "unconfirmed" /\ r.cid[n].seq = 1
         /\ u # 0 => r.cid[u].status = IF cid[u].ref = 1 THEN "freed" ELSE "expired"
         /\ r.ht.confirmed = ht.confirmed
         /\ r.ht.unconfirmed = (ht.unconfirmed \ {u}) \cup {n}
         /\ r.ht.confirmed \cup r.ht.unconfirmed = (Hashed \ {u}) \cup {n}
         /\ r.cr.confirmed = cr.confirmed /\ r.cr.unconfirmed = n
<1> DEFINE q == remove_client_id(Records, "unconfirmed", cr.unconfirmed)
           new == [NoCid EXCEPT !.status = "unconfirmed", !.ref = 1, !.inc = i,
                                !.seq = 1, !.fresh = TRUE]
<1>1. /\ "unconfirmed" \in Tables /\ "confirmed" \in Tables \ {"unconfirmed"}
      /\ cid \in [Ids -> CidT] /\ ht \in [Tables -> SUBSET Ids]
      /\ cr \in [Tables -> Ids \cup {0}] /\ 0 \notin Ids
      /\ \A d \in Ids : cid[d].ref \in Int
  BY SMTT(30) DEF Tables, Counts, Types, Ids, CidT
<1>2. n \in Ids /\ u \in Ids \cup {0} /\ n \notin Hashed /\ cid[n].ref = 0
  <2>1. n \in Ids /\ n > last.id
    BY BoundsAssumption, SMT DEF Counts, Types, Ids
  <2>2. n \notin Hashed /\ cid[n].ref = 0
    BY <2>1 DEF Counts, LastInv
  <2> QED
    BY <1>1, <2>1, <2>2
<1>3. /\ u # 0 <=> u \in ht.unconfirmed
      /\ u # 0 => u \in Hashed /\ u \in ht.unconfirmed /\ u \notin ht.confirmed
  BY <1>1 DEF CrInv, Hashed, Tables
<1>4. n # u
  BY <1>1, <1>2, <1>3
<1>5. /\ IsRecords(q)
      /\ q.ht.unconfirmed = ht.unconfirmed \ {u}
      /\ q.ht.confirmed = ht.confirmed /\ q.cr.confirmed = cr.confirmed
      /\ \A d \in Ids :
              /\ q.cid[d].ref = cid[d].ref - Bit(u \in ht.unconfirmed /\ d = u)
              /\ q.cid[d].status = IF u \in ht.unconfirmed /\ d = u
                                   THEN IF cid[d].ref = 1 THEN "freed" ELSE "expired"
                                   ELSE cid[d].status
              /\ q.cid[d].seq = cid[d].seq
  <2> DEFINE tab == "unconfirmed"
             r0 == Records
  <2>1. q = remove_client_id(r0, tab, u)
    OBVIOUS
  <2>2. tab \in Tables
    BY DEF Tables
  <2>3. IsRecords(r0) /\ r0.cid = cid /\ r0.ht = ht /\ r0.cr = cr
    BY <1>1 DEF Records, IsRecords
  <2> HIDE DEF q, tab, r0
  <2>4. /\ IsRecords(q)
        /\ q.ht[tab] = r0.ht[tab] \ {u}
        /\ \A x \in Tables \ {tab} : q.ht[x] = r0.ht[x] /\ q.cr[x] = r0.cr[x]
        /\ \A d \in Ids :
              /\ q.cid[d].ref = r0.cid[d].ref - Bit(u \in r0.ht[tab] /\ d = u)
              /\ q.cid[d].status = IF u \in r0.ht[tab] /\ d = u
                                   THEN IF r0.cid[d].ref = 1 THEN "freed" ELSE "expired"
                                   ELSE r0.cid[d].status
              /\ q.cid[d].seq = r0.cid[d].seq
    BY <2>1, <2>2, <2>3, Removed, SMTT(30)
  <2>5. "confirmed" \in Tables \ {tab}
    BY <1>1 DEF tab
  <2> QED
    BY <2>3, <2>4, <2>5 DEF tab
<1>6. new \in CidT /\ new.status = "unconfirmed" /\ new.ref = 1 /\ new.seq = 1
  <2>1. new \in CidT
    <3> DEFINE a == [NoCid EXCEPT !.status = "unconfirmed"]
               b == [a EXCEPT !.ref = 1]
               e == [b EXCEPT !.inc = i]
               f == [e EXCEPT !.seq = 1]
               g == [f EXCEPT !.fresh = TRUE]
    <3>1. new = g
      OBVIOUS
    <3>2. a \in CidT
      BY ONLY NoCidType DEF a, CidT, Statuses
    <3> HIDE DEF a
    <3>3. b \in CidT
      BY ONLY <3>2, SMT DEF b, CidT
    <3> HIDE DEF b
    <3>4. e \in CidT
      BY ONLY <3>3, i \in Incs \cup {None} DEF e, CidT
    <3> HIDE DEF e
    <3>5. f \in CidT
      BY ONLY <3>4 DEF f, CidT
    <3> HIDE DEF f
    <3>6. g \in CidT
      BY ONLY <3>5, ZenonT(30) DEF g, CidT
    <3> QED
      BY <3>1, <3>6
  <2>2. new.status = "unconfirmed" /\ new.ref = 1 /\ new.seq = 1
    BY ONLY TRUE DEF new, NoCid
  <2> QED
    BY <2>1, <2>2
<1>7. r = [cid |-> [q.cid EXCEPT ![n] = new],
           ht |-> [q.ht EXCEPT !["unconfirmed"] = @ \cup {n}],
           cr |-> [q.cr EXCEPT !["unconfirmed"] = n]]
  BY DEF NewClientId
<1> HIDE DEF q, new
<1>8. /\ r.cid = [q.cid EXCEPT ![n] = new]
      /\ r.ht = [q.ht EXCEPT !["unconfirmed"] = @ \cup {n}]
      /\ r.cr = [q.cr EXCEPT !["unconfirmed"] = n]
      /\ r = [cid |-> r.cid, ht |-> r.ht, cr |-> r.cr]
  <2> DEFINE a == [q.cid EXCEPT ![n] = new]
             b == [q.ht EXCEPT !["unconfirmed"] = @ \cup {n}]
             e == [q.cr EXCEPT !["unconfirmed"] = n]
  <2>1. r = [cid |-> a, ht |-> b, cr |-> e]
    BY <1>7
  <2> HIDE DEF a, b, e
  <2>2. r.cid = a /\ r.ht = b /\ r.cr = e /\ r = [cid |-> r.cid, ht |-> r.ht, cr |-> r.cr]
    BY <2>1, SMTT(30)
  <2> QED
    BY <2>2 DEF a, b, e
<1>9. /\ r.cid \in [Ids -> CidT] /\ r.cid[n] = new /\ \A d \in Ids \ {n} : r.cid[d] = q.cid[d]
  BY <1>2, <1>5, <1>6, <1>8, SMTT(30) DEF IsRecords
<1>10. /\ r.ht \in [Tables -> SUBSET Ids] /\ r.cr \in [Tables -> Ids \cup {0}]
       /\ r.ht.confirmed = q.ht.confirmed /\ r.ht.unconfirmed = q.ht.unconfirmed \cup {n}
       /\ r.cr.confirmed = q.cr.confirmed /\ r.cr.unconfirmed = n
  BY <1>1, <1>2, <1>5, <1>8, SMTT(30) DEF Tables, IsRecords
<1>11. ASSUME NEW d \in Ids
       PROVE  r.cid[d].ref = cid[d].ref - Bit(d = u) + Bit(d = n)
  <2>1. CASE d = n
    BY <1>2, <1>4, <1>6, <1>9, <2>1, SMTT(30) DEF Bit
  <2>2. CASE d # n
    BY <1>1, <1>3, <1>5, <1>9, <2>2, SMTT(30) DEF Bit
  <2> QED
    BY <2>1, <2>2
<1>12. /\ \A d \in Ids \ {n, u} : r.cid[d].status = cid[d].status
       /\ \A d \in Ids \ {n} : r.cid[d].seq = cid[d].seq
       /\ u # 0 => r.cid[u].status = IF cid[u].ref = 1 THEN "freed" ELSE "expired"
  <2>1. ASSUME NEW d \in Ids \ {n}
        PROVE  /\ r.cid[d].seq = cid[d].seq
               /\ d # u => r.cid[d].status = cid[d].status
               /\ d = u => r.cid[d].status = IF cid[u].ref = 1 THEN "freed" ELSE "expired"
    <3>1. r.cid[d] = q.cid[d] /\ q.cid[d].seq = cid[d].seq
      BY <1>5, <1>9
    <3>2. d = u => u # 0 /\ u \in ht.unconfirmed
      BY <1>1, <1>3
    <3> QED
      BY <1>5, <3>1, <3>2, SMTT(30)
  <2> QED
    BY <1>2, <1>4, <2>1
<1>13. r.ht.confirmed \cup r.ht.unconfirmed = (Hashed \ {u}) \cup {n}
  <2>1. u \notin ht.confirmed
    BY <1>1, <1>2, <1>3
  <2> QED
    BY <1>5, <1>10, <2>1, SMTT(30) DEF Hashed
<1>14. IsRecords(r)
  BY <1>8, <1>9, <1>10 DEF IsRecords
<1> QED
  BY <1>2, <1>3, <1>4, <1>5, <1>6, <1>9, <1>10, <1>11, <1>12, <1>13, <1>14

\* NewClientId with, for CASE 5, a reference to the confirmed record k.
LEMMA NewIdCounts ==
  ASSUME Counts, CrInv, NEW t \in Threads, OneThread(t), NEW i \in Incs \cup {None},
         last.id < MaxIds, NEW r, r = NewClientId(i), last' = [last EXCEPT !.id = @ + 1],
         sess' = sess, mutex' \in Threads \cup {None}, Keeps(t),
         NEW k \in Ids \cup {0}, k # 0 => k = cr.confirmed,
         ht' = r.ht, cr' = r.cr, cid' \in [Ids -> CidT],
         \A d \in Ids : cid'[d].ref = r.cid[d].ref + Bit(d = k),
         \A d \in Ids : cid'[d].status = r.cid[d].status,
         leaked' \in [Ids -> Nat], \A d \in Ids : leaked'[d] = leaked[d] + Bit(d = k)
  PROVE  Counts'
<1>0. PICK n, u : n = last.id + 1 /\ u = cr.unconfirmed
  OBVIOUS
<1>1. /\ n \in Ids /\ u \in Ids \cup {0} /\ n # u
      /\ u # 0 => u \in Hashed /\ u \in ht.unconfirmed /\ u \notin ht.confirmed
      /\ IsRecords(r)
      /\ \A d \in Ids : r.cid[d].ref = cid[d].ref - Bit(d = u) + Bit(d = n)
      /\ \A d \in Ids \ {n, u} : r.cid[d].status = cid[d].status
      /\ r.cid[n].status = "unconfirmed"
      /\ u # 0 => r.cid[u].status = IF cid[u].ref = 1 THEN "freed" ELSE "expired"
      /\ r.ht.confirmed \cup r.ht.unconfirmed = (Hashed \ {u}) \cup {n}
      /\ r.cr.confirmed = cr.confirmed /\ r.cr.unconfirmed = n
  BY <1>0, NewId, SMTT(30)
<1>2. /\ last.id \in Int /\ cr.confirmed <= last.id /\ cr.confirmed \in Ids \cup {0}
      /\ cr.confirmed # 0 => cr.confirmed \in ht.confirmed
  BY SMT DEF Counts, Types, LastInv, CrInv, Tables
<1>3. \A d \in Ids : cid'[d].ref = cid[d].ref - Bit(d = u) + Bit(d = n) + Bit(d = k)
  BY <1>1, SMT
<1>4. Hashed' = (Hashed \ {u}) \cup {n}
  BY <1>1 DEF Hashed
<1>5. k # 0 => k \in Hashed /\ k # u
  <2>1. k # 0 => k \in ht.confirmed
    BY <1>2
  <2> QED
    BY <1>1, <2>1 DEF Hashed
<1>6. cr'.confirmed <= n /\ cr'.unconfirmed <= n
  BY <1>0, <1>1, <1>2, SMTT(30) DEF Ids
<1>7. /\ \A d \in Ids \ {n, u} : cid'[d].status = cid[d].status
      /\ cid'[n].status = "unconfirmed"
      /\ u # 0 => cid'[u].status = IF cid[u].ref = 1 THEN "freed" ELSE "expired"
  BY <1>1, SMT
<1>8. ht' \in [Tables -> SUBSET Ids] /\ cr' \in [Tables -> Ids \cup {0}]
  BY <1>1 DEF IsRecords
<1>9. Replaces(n, u, k)
  BY <1>0, <1>1, <1>3, <1>4, <1>5, <1>6, <1>7, <1>8 DEF Replaces
<1> QED
  BY <1>9, NewCounts

\* EXCHANGE_ID keeps the reference counts exact.
LEMMA ExchangeIdCounts ==
  ASSUME ThreadOK, Counts, CrInv, NEW t \in Threads, NEW i \in Incs, ExchangeId(t, i)
  PROVE  Counts'
<1>0. PICK r : r = NewClientId(i)
  OBVIOUS
<1>1. /\ IsRecords(r) /\ r.cid \in [Ids -> CidT]
      /\ i \in Incs \cup {None} /\ last.id < MaxIds
  <2>1. i \in Incs \cup {None} /\ last.id < MaxIds
    BY DEF ExchangeId
  <2> QED
    BY <1>0, <2>1, NewId, SMTT(30) DEF IsRecords
<1>2. OneThread(t)
  BY RequestThread DEF Request, Counts, Ground
<1>3. /\ th' = th /\ sess' = sess /\ mutex' = mutex /\ last' = [last EXCEPT !.id = @ + 1]
      /\ th[t].pc = "idle"
  BY DEF ExchangeId, CountId
<1>4. /\ th[t].slot <= last.session /\ ~th[t].own
  BY <1>3 DEF Counts, LastInv, ThreadOK, Shape
<1>5. /\ leaked \in [Ids -> Nat] /\ mutex \in Threads \cup {None} /\ cr.confirmed \in Ids \cup {0}
      /\ 0 \notin Ids /\ \A d \in Ids : r.cid[d].ref \in Int
  <2>1. \A d \in Ids : r.cid[d].ref \in Int
    BY <1>1, CidRefs
  <2> QED
    BY <2>1, SMT DEF Counts, Types, Ids
<1>6. Keeps(t) /\ mutex' \in Threads \cup {None}
  BY <1>3, <1>4, <1>5 DEF Keeps
<1>7. CASE cr.confirmed = 0 /\ StoreRecords(r) /\ UNCHANGED leaked
  <2>1. ht' = r.ht /\ cr' = r.cr /\ cid' = r.cid /\ leaked' = leaked
    BY <1>7 DEF StoreRecords
  <2>2. PICK k \in Ids \cup {0} : k = 0
    OBVIOUS
  <2>3. /\ cid' \in [Ids -> CidT] /\ leaked' \in [Ids -> Nat]
        /\ \A d \in Ids : cid'[d].ref = r.cid[d].ref + Bit(d = k)
        /\ \A d \in Ids : cid'[d].status = r.cid[d].status
        /\ \A d \in Ids : leaked'[d] = leaked[d] + Bit(d = k)
    BY <1>1, <1>5, <2>1, <2>2, SMTT(30) DEF Bit
  <2> QED
    BY <1>0, <1>1, <1>2, <1>3, <1>6, <2>1, <2>2, <2>3, NewIdCounts, SMTT(30)
<1>8. CASE /\ cr.confirmed # 0 /\ StoreRecords([r EXCEPT !.cid = inc_client_id_ref(@, cr.confirmed)])
           /\ leaked' = [leaked EXCEPT ![cr.confirmed] = @ + 1]
  <2>0. PICK k \in Ids \cup {0} : k = cr.confirmed
    BY <1>5
  <2>1. ht' = r.ht /\ cr' = r.cr /\ cid' = inc_client_id_ref(r.cid, k)
    BY <1>1, <1>8, <2>0 DEF StoreRecords, IsRecords
  <2>2. /\ cid' \in [Ids -> CidT]
        /\ \A d \in Ids : cid'[d].ref = r.cid[d].ref + Bit(d = k)
        /\ \A d \in Ids : cid'[d].status = r.cid[d].status
    BY <1>1, <2>1, IncRef, SMTT(30)
  <2>3. leaked' \in [Ids -> Nat] /\ \A d \in Ids : leaked'[d] = leaked[d] + Bit(d = k)
    BY <1>5, <1>8, <2>0, SMTT(30) DEF Bit
  <2> QED
    BY <1>0, <1>1, <1>2, <1>3, <1>6, <2>0, <2>1, <2>2, <2>3, NewIdCounts, SMTT(30)
<1> QED
  BY <1>0, <1>7, <1>8 DEF ExchangeId

\* EXCHANGE_ID after a collision keeps the reference counts exact.
LEMMA ExchangeIdNewCounts ==
  ASSUME ThreadOK, Counts, CrInv, NEW t \in Threads, ExchangeIdNew(t)
  PROVE  Counts'
<1>0. PICK i \in Incs \cup {None} : i = th[t].inc
  BY DEF ThreadOK, ThT
<1>a. PICK r : r = NewClientId(i)
  OBVIOUS
<1>1. /\ th[t].pc = "ex_new" /\ StoreRecords(r) /\ last' = [last EXCEPT !.id = @ + 1]
      /\ mutex' = None /\ Done(t) /\ sess' = sess /\ leaked' = leaked
  BY <1>0, <1>a DEF ExchangeIdNew, Unlock, CountId
<1>2. last.id < MaxIds
  BY <1>1 DEF CrInv
<1>3. r.cid \in [Ids -> CidT]
  BY <1>a, <1>2, NewId DEF IsRecords
<1>4. OneThread(t)
  BY ContinueThread DEF Continue, Counts, Ground
<1>5. Keeps(t)
  <2>1. th[t].found = 0 /\ th[t].old = 0 /\ th[t].s = 0 /\ ~th[t].own
    BY <1>1 DEF ThreadOK, Shape, Exp
  <2>2. 0 <= last.session
    BY SMT DEF Counts, Types
  <2> QED
    BY <1>1, <2>1, <2>2, DoneThread DEF Keeps
<1>6. ht' = r.ht /\ cr' = r.cr /\ cid' = r.cid
  BY <1>1 DEF StoreRecords
<1>7. PICK k \in Ids \cup {0} : k = 0
  OBVIOUS
<1>8. /\ cid' \in [Ids -> CidT] /\ leaked' \in [Ids -> Nat]
      /\ \A d \in Ids : cid'[d].ref = r.cid[d].ref + Bit(d = k)
      /\ \A d \in Ids : cid'[d].status = r.cid[d].status
      /\ \A d \in Ids : leaked'[d] = leaked[d] + Bit(d = k)
  <2>0. \A d \in Ids : r.cid[d].ref \in Int
    BY <1>3, CidRefs
  <2>1. leaked \in [Ids -> Nat] /\ 0 \notin Ids /\ \A d \in Ids : r.cid[d].ref \in Int
    BY <2>0, SMTT(30) DEF Counts, Types, Ids
  <2> QED
    BY <1>1, <1>3, <1>6, <1>7, <2>1, SMTT(30) DEF Bit
<1> QED
  BY <1>a, <1>1, <1>2, <1>4, <1>5, <1>6, <1>7, <1>8, NewIdCounts, SMTT(30)

-----------------------------------------------------------------------------
(***************************************************************************)
(* DESTROY_CLIENTID                                                        *)
(***************************************************************************)
\* r is the records without a as confirmed and b as unconfirmed client id.
Without(r, a, b) ==
    /\ IsRecords(r)
    /\ a \in Ids \cup {0} /\ (a # 0 => a \in ht.confirmed /\ a = cr.confirmed)
    /\ b \in Ids \cup {0} /\ (b # 0 => b \in ht.unconfirmed /\ b = cr.unconfirmed)
    /\ r.ht.confirmed = ht.confirmed \ {a} /\ r.ht.unconfirmed = ht.unconfirmed \ {b}
    /\ r.cr.confirmed = IF a # 0 THEN 0 ELSE cr.confirmed
    /\ r.cr.unconfirmed = IF b # 0 THEN 0 ELSE cr.unconfirmed
    /\ \A d \in Ids :
         /\ r.cid[d].ref = cid[d].ref - Bit(d = a) - Bit(d = b)
         /\ r.cid[d].status = IF d \in {a, b} THEN IF cid[d].ref = 1 THEN "freed" ELSE "expired"
                              ELSE cid[d].status
         /\ r.cid[d].seq = cid[d].seq

\* The three parts of Records, typed, with what CrInv says of them.
LEMMA RecordsType ==
  ASSUME Counts, CrInv
  PROVE  /\ IsRecords(Records) /\ Records.cid = cid /\ Records.ht = ht /\ Records.cr = cr
         /\ 0 \notin Ids /\ \A d \in Ids : cid[d].ref \in Int
         /\ ht.confirmed \subseteq Ids /\ ht.unconfirmed \subseteq Ids
         /\ cr.confirmed \in Ids \cup {0} /\ cr.unconfirmed \in Ids \cup {0}
         /\ cr.confirmed # 0 <=> cr.confirmed \in ht.confirmed
         /\ cr.unconfirmed # 0 <=> cr.unconfirmed \in ht.unconfirmed
<1>1. cid \in [Ids -> CidT] /\ ht \in [Tables -> SUBSET Ids] /\ cr \in [Tables -> Ids \cup {0}]
      /\ 0 \notin Ids
  BY SMT DEF Counts, Types, Tables, Ids
<1>2. IsRecords(Records) /\ Records.cid = cid /\ Records.ht = ht /\ Records.cr = cr
  BY <1>1 DEF Records, IsRecords
<1>3. /\ ht.confirmed \subseteq Ids /\ ht.unconfirmed \subseteq Ids
      /\ cr.confirmed \in Ids \cup {0} /\ cr.unconfirmed \in Ids \cup {0}
  BY <1>1 DEF Tables
<1>4. /\ cr.confirmed # 0 => cr.confirmed \in ht.confirmed
      /\ cr.unconfirmed # 0 => cr.unconfirmed \in ht.unconfirmed
  BY DEF CrInv, Tables
<1> QED
  BY <1>1, <1>2, <1>3, <1>4, CidRefs

\* Removing the confirmed and then the unconfirmed client id of the record
\* leaves the records without them.
LEMMA RemovedBoth ==
  ASSUME Counts, CrInv, NEW a, a = cr.confirmed, NEW b, b = cr.unconfirmed,
         NEW r1, r1 = remove_client_id(Records, "confirmed", a),
         NEW r2, r2 = remove_client_id(r1, "unconfirmed", b)
  PROVE  Without(r2, a, b)
<1>1. /\ IsRecords(Records) /\ Records.cid = cid /\ Records.ht = ht /\ Records.cr = cr
      /\ 0 \notin Ids /\ \A d \in Ids : cid[d].ref \in Int
      /\ a \in Ids \cup {0} /\ b \in Ids \cup {0}
      /\ (a # 0 <=> a \in ht.confirmed) /\ (b # 0 <=> b \in ht.unconfirmed)
  BY RecordsType
<1> DEFINE x == "confirmed"
           y == "unconfirmed"
           r0 == Records
<1>2. x \in Tables /\ y \in Tables /\ x # y
  BY DEF Tables
<1>3. r1 = remove_client_id(r0, x, a) /\ r2 = remove_client_id(r1, y, b) /\ IsRecords(r0)
      /\ r0.cid = cid /\ r0.ht = ht /\ r0.cr = cr
  BY <1>1
<1>4. (a # 0 <=> a \in ht[x]) /\ (b # 0 <=> b \in ht[y])
  BY <1>1
<1> HIDE DEF x, y, r0
<1>5. /\ IsRecords(r1)
      /\ r1.ht[x] = r0.ht[x] \ {a}
      /\ r1.cr[x] = IF a \in r0.ht[x] THEN 0 ELSE r0.cr[x]
      /\ \A z \in Tables \ {x} : r1.ht[z] = r0.ht[z] /\ r1.cr[z] = r0.cr[z]
      /\ \A d \in Ids :
           /\ r1.cid[d].ref = r0.cid[d].ref - Bit(a \in r0.ht[x] /\ d = a)
           /\ r1.cid[d].status = IF a \in r0.ht[x] /\ d = a
                                 THEN IF r0.cid[d].ref = 1 THEN "freed" ELSE "expired"
                                 ELSE r0.cid[d].status
           /\ r1.cid[d].seq = r0.cid[d].seq
  BY <1>2, <1>3, Removed, SMTT(30)
<1>6. /\ IsRecords(r2)
      /\ r2.ht[y] = r1.ht[y] \ {b}
      /\ r2.cr[y] = IF b \in r1.ht[y] THEN 0 ELSE r1.cr[y]
      /\ \A z \in Tables \ {y} : r2.ht[z] = r1.ht[z] /\ r2.cr[z] = r1.cr[z]
      /\ \A d \in Ids :
           /\ r2.cid[d].ref = r1.cid[d].ref - Bit(b \in r1.ht[y] /\ d = b)
           /\ r2.cid[d].status = IF b \in r1.ht[y] /\ d = b
                                 THEN IF r1.cid[d].ref = 1 THEN "freed" ELSE "expired"
                                 ELSE r1.cid[d].status
           /\ r2.cid[d].seq = r1.cid[d].seq
  BY <1>2, <1>3, <1>5, Removed, SMTT(30)
<1>7. /\ r2.ht[x] = ht[x] \ {a} /\ r2.ht[y] = ht[y] \ {b}
      /\ r2.cr[x] = IF a # 0 THEN 0 ELSE cr[x]
      /\ r2.cr[y] = IF b # 0 THEN 0 ELSE cr[y]
  BY <1>2, <1>3, <1>4, <1>5, <1>6
<1>8. a # 0 => a # b
  <2>1. ht.confirmed \cap ht.unconfirmed = {}
    BY DEF CrInv
  <2> QED
    BY <1>1, <2>1
<1>9. ASSUME NEW d \in Ids
      PROVE  /\ r2.cid[d].ref = cid[d].ref - Bit(d = a) - Bit(d = b)
             /\ r2.cid[d].status = IF d \in {a, b} THEN IF cid[d].ref = 1 THEN "freed" ELSE "expired"
                                   ELSE cid[d].status
             /\ r2.cid[d].seq = cid[d].seq
  <2>1. r1.ht[y] = ht[y] /\ d # 0 /\ cid[d].ref \in Int
    BY <1>1, <1>2, <1>3, <1>5
  <2>2. /\ r1.cid[d].ref = cid[d].ref - Bit(d = a)
        /\ r1.cid[d].status = IF d = a THEN IF cid[d].ref = 1 THEN "freed" ELSE "expired"
                                 ELSE cid[d].status
        /\ r1.cid[d].seq = cid[d].seq
    <3>1. (a \in r0.ht[x] /\ d = a) <=> d = a
      BY <1>3, <1>4, <2>1, SMTT(30)
    <3>2. Bit(a \in r0.ht[x] /\ d = a) = Bit(d = a)
      BY <3>1 DEF Bit
    <3> QED
      BY <1>3, <1>5, <3>1, <3>2
  <2>3. /\ r2.cid[d].ref = r1.cid[d].ref - Bit(d = b)
        /\ r2.cid[d].status = IF d = b THEN IF r1.cid[d].ref = 1 THEN "freed" ELSE "expired"
                                 ELSE r1.cid[d].status
        /\ r2.cid[d].seq = r1.cid[d].seq
    <3>1. (b \in r1.ht[y] /\ d = b) <=> d = b
      BY <1>3, <1>4, <2>1
    <3>2. Bit(b \in r1.ht[y] /\ d = b) = Bit(d = b)
      BY <3>1 DEF Bit
    <3> QED
      BY <1>6, <3>1, <3>2
  <2>4. CASE d = b
    <3>1. d # a
      BY <1>8, <2>1, <2>4
    <3>2. r1.cid[d].ref = cid[d].ref
      BY <2>1, <2>2, <3>1, SMTT(30) DEF Bit
    <3> QED
      BY <2>1, <2>2, <2>3, <2>4, <3>1, <3>2 DEF Bit
  <2>5. CASE d # b
    BY <2>1, <2>2, <2>3, <2>5
  <2> QED
    BY <2>4, <2>5
<1>10. /\ a \in Ids \cup {0} /\ (a # 0 => a \in ht.confirmed /\ a = cr.confirmed)
       /\ b \in Ids \cup {0} /\ (b # 0 => b \in ht.unconfirmed /\ b = cr.unconfirmed)
  BY <1>1
<1>11. /\ r2.ht.confirmed = ht.confirmed \ {a} /\ r2.ht.unconfirmed = ht.unconfirmed \ {b}
       /\ r2.cr.confirmed = IF a # 0 THEN 0 ELSE cr.confirmed
       /\ r2.cr.unconfirmed = IF b # 0 THEN 0 ELSE cr.unconfirmed
  BY <1>7 DEF x, y
<1> QED
  BY <1>6, <1>9, <1>10, <1>11 DEF Without

\* What DESTROY_CLIENTID leaves, before it drops the client id it looked up.
LEMMA DestroyRecords ==
  ASSUME ThreadOK, Counts, CrInv, NEW t \in Threads, DestroyClientidRemove(t)
  PROVE  \E r, a, b : /\ Without(r, a, b)
                      /\ cid' = dec_client_id_ref(r.cid, th[t].found)
                      /\ ht' = r.ht /\ cr' = r.cr
<1> DEFINE conf == cr.confirmed
           unc == cr.unconfirmed
           r1 == IF conf = 0 THEN Records ELSE remove_client_id(Records, "confirmed", conf)
           r2 == IF unc = 0 THEN r1 ELSE remove_client_id(r1, "unconfirmed", unc)
           r == IF conf # 0 /\ SessionsOf(conf) # {} THEN Records ELSE r2
<1>1. StoreRecords([r EXCEPT !.cid = dec_client_id_ref(@, th[t].found)])
  BY DEF DestroyClientidRemove
<1>2. /\ IsRecords(Records) /\ Records.cid = cid /\ Records.ht = ht /\ Records.cr = cr
      /\ 0 \notin Ids /\ \A d \in Ids : cid[d].ref \in Int
      /\ ht.confirmed \subseteq Ids /\ ht.unconfirmed \subseteq Ids
      /\ (conf # 0 <=> conf \in ht.confirmed) /\ (unc # 0 <=> unc \in ht.unconfirmed)
  BY RecordsType
<1>3. ASSUME NEW q, NEW a, NEW b, Without(q, a, b), r = q
      PROVE  /\ cid' = dec_client_id_ref(q.cid, th[t].found)
             /\ ht' = q.ht /\ cr' = q.cr
  <2> HIDE DEF r
  <2> QED
    BY <1>1, <1>3 DEF StoreRecords, Without, IsRecords
<1>4. Without(Records, 0, 0)
  <2>1. /\ Records.ht.confirmed = ht.confirmed \ {0} /\ Records.ht.unconfirmed = ht.unconfirmed \ {0}
    BY <1>2
  <2>2. \A d \in Ids : d # 0 /\ cid[d].ref = cid[d].ref - Bit(d = 0) - Bit(d = 0)
    BY <1>2, SMT DEF Bit
  <2> QED
    BY <1>2, <2>1, <2>2 DEF Without
<1>5. r1 = remove_client_id(Records, "confirmed", conf)
  BY <1>2 DEF remove_client_id
<1>6. r2 = remove_client_id(r1, "unconfirmed", unc)
  <2>1. unc = 0 => 0 \notin r1.ht["unconfirmed"]
    <3>1. PICK x \in Tables : x = "confirmed"
      BY DEF Tables
    <3>2. "unconfirmed" \in Tables \ {x}
      BY <3>1 DEF Tables
    <3>3. PICK q : q = remove_client_id(Records, x, conf)
      OBVIOUS
    <3> HIDE DEF conf, unc, r1
    <3>4. \A z \in Tables \ {x} : q.ht[z] = Records.ht[z]
      BY <1>2, <3>1, <3>3, Removed, SMTT(30)
    <3> QED
      BY <1>2, <1>5, <3>1, <3>2, <3>3, <3>4
  <2> HIDE DEF r1
  <2> QED
    BY <2>1 DEF remove_client_id
<1>7. Without(r2, conf, unc)
  <2> HIDE DEF r1, r2
  <2> QED
    BY <1>5, <1>6, RemovedBoth
<1>8. CASE conf # 0 /\ SessionsOf(conf) # {}
  BY <1>3, <1>4, <1>8
<1>9. CASE ~(conf # 0 /\ SessionsOf(conf) # {})
  <2>1. r = r2
    BY <1>9
  <2> HIDE DEF r, r2, conf, unc
  <2> QED
    BY <1>3, <1>7, <2>1
<1> QED
  BY <1>8, <1>9

\* DESTROY_CLIENTID keeps the reference counts exact.
LEMMA DestroyCounts ==
  ASSUME ThreadOK, Counts, CrInv, NEW t \in Threads, DestroyClientidRemove(t)
  PROVE  Counts'
<1>1. PICK r, a, b : /\ Without(r, a, b)
                     /\ cid' = dec_client_id_ref(r.cid, th[t].found)
                     /\ ht' = r.ht /\ cr' = r.cr
  BY DestroyRecords
<1>2. /\ th[t].pc = "dc_lock" /\ mutex' = mutex /\ Done(t) /\ sess' = sess
      /\ last' = last /\ leaked' = leaked
  BY DEF DestroyClientidRemove
<1>3. OneThread(t)
  BY ContinueThread DEF Continue, Counts, Ground
<1>4. Local(t, 0) /\ 0 \notin Sess /\ 0 \notin Ids
  BY <1>2, <1>3, OnlyThread
<1>5. PICK f \in Ids : f = th[t].found
  BY <1>2 DEF ThreadOK, Shape, ThT
<1>6. /\ th[t].old = 0 /\ th[t].s = 0 /\ ~th[t].own
      /\ th'[t].found = 0 /\ th'[t].old = 0 /\ th'[t].s = 0 /\ th'[t].slot = 0 /\ ~th'[t].own
  <2>1. th[t].old = 0 /\ th[t].s = 0 /\ ~th[t].own
    BY <1>2 DEF ThreadOK, Shape, Exp
  <2> QED
    BY <1>2, <2>1, DoneThread
<1>7. /\ IsRecords(r) /\ r.cid \in [Ids -> CidT] /\ r.ht \in [Tables -> SUBSET Ids]
      /\ r.cr \in [Tables -> Ids \cup {0}]
  BY <1>1 DEF Without, IsRecords
<1>8. /\ cid' \in [Ids -> CidT]
      /\ \A d \in Ids :
           /\ cid'[d].ref = r.cid[d].ref - Bit(d = f)
           /\ cid'[d].status = IF d = f /\ r.cid[d].ref = 1 THEN "freed" ELSE r.cid[d].status
  BY <1>1, <1>5, <1>7, DecRef, SMTT(30)
<1>9. Types'
  BY <1>1, <1>2, <1>7, <1>8 DEF Counts, Types, Tables
<1>10. /\ a \in Ids \cup {0} /\ (a # 0 => a \in Hashed)
       /\ b \in Ids \cup {0} /\ (b # 0 => b \in Hashed)
       /\ Hashed' = Hashed \ {a, b} /\ (a # 0 => a # b)
       /\ cr'.confirmed \in {0, cr.confirmed} /\ cr'.unconfirmed \in {0, cr.unconfirmed}
  <2>1. /\ a \in Ids \cup {0} /\ (a # 0 => a \in ht.confirmed)
        /\ b \in Ids \cup {0} /\ (b # 0 => b \in ht.unconfirmed)
        /\ ht'.confirmed = ht.confirmed \ {a} /\ ht'.unconfirmed = ht.unconfirmed \ {b}
        /\ cr'.confirmed \in {0, cr.confirmed} /\ cr'.unconfirmed \in {0, cr.unconfirmed}
    BY <1>1 DEF Without
  <2>2. /\ ht.confirmed \cap ht.unconfirmed = {} /\ 0 \notin ht.confirmed /\ 0 \notin ht.unconfirmed
    BY <1>4 DEF CrInv, Counts, Types
  <2> QED
    BY <2>1, <2>2, SMTT(30) DEF Hashed
<1>11. ASSUME NEW d \in Ids
       PROVE  /\ r.cid[d].ref = cid[d].ref - Bit(d = a) - Bit(d = b)
              /\ r.cid[d].status = IF d \in {a, b} THEN IF cid[d].ref = 1 THEN "freed" ELSE "expired"
                                   ELSE cid[d].status
              /\ cid[d].ref \in Int /\ r.cid[d].ref \in Int
  <2>1. cid[d].ref \in Int /\ r.cid[d].ref \in Int
    BY <1>7, CidRefs DEF Counts, Types
  <2> QED
    BY <1>1, <2>1 DEF Without
<1>12. ASSUME NEW d \in Ids
       PROVE  cid'[d].ref = cid[d].ref + Share(t, 0, d)' - Share(t, 0, d)
  <2> DEFINE h == Bit(d \in Hashed)
             h2 == Bit(d \in Hashed')
             l == leaked[d]
             a1 == Bit(d = a)
             b1 == Bit(d = b)
             f1 == Bit(d = f)
  <2>1. Share(t, 0, d) = h + 0 + f1 + 0 + 0 + l /\ Share(t, 0, d)' = h2 + 0 + 0 + 0 + 0 + l
    BY <1>2, <1>4, <1>5, <1>6 DEF Share, Bit
  <2>2. h2 = h - a1 - b1
    BY <1>4, <1>10, SMTT(30) DEF Bit
  <2>3. cid'[d].ref = cid[d].ref - a1 - b1 - f1 /\ cid[d].ref \in Int
    BY <1>8, <1>11, SMTT(30)
  <2>4. h \in Int /\ h2 \in Int /\ l \in Int /\ a1 \in Int /\ b1 \in Int /\ f1 \in Int
    BY SMT DEF Bit, Counts, Types
  <2> HIDE DEF h, h2, l, a1, b1, f1
  <2> QED
    BY <2>1, <2>2, <2>3, <2>4, SMTT(30)
<1>13. RefEq' /\ \A d \in Ids : cid'[d].ref \in Nat
  BY <1>2, <1>4, <1>12, RefEqStep DEF Counts, Types
<1>14. SessEq'
  BY <1>2, <1>4, <1>6, SessEqStep DEF Counts, Types
<1>15. StatusEq'
  <2>1. ASSUME NEW d \in Ids
        PROVE  cid'[d].ref = 0 <=> cid'[d].status \in {"none", "freed"}
    <3>1. cid[d].ref = 0 <=> cid[d].status \in {"none", "freed"}
      BY DEF Counts, StatusEq
    <3>2. d \in {a, b} => cid[d].ref > 0
      <4>1. d \in {a, b} => d \in Hashed
        BY <1>4, <1>10
      <4>2. leaked' \in [Ids -> Nat]
        BY <1>9 DEF Types
      <4> QED
        BY <1>4, <4>1, <4>2, HasRef DEF Counts
    <3>3. r.cid[d].ref = 0 <=> r.cid[d].status \in {"none", "freed"}
      <4>1. CASE d \in {a, b}
        <5>1. Bit(d = a) + Bit(d = b) = 1 /\ Bit(d = a) \in Int /\ Bit(d = b) \in Int
          BY <1>4, <1>10, <4>1, SMTT(30) DEF Bit
        <5>2. r.cid[d].ref = cid[d].ref - 1
          BY <1>11, <5>1, SMTT(30)
        <5> QED
          BY <1>11, <3>2, <4>1, <5>2, SMTT(30)
      <4>2. CASE d \notin {a, b}
        <5>1. Bit(d = a) = 0 /\ Bit(d = b) = 0
          BY <4>2 DEF Bit
        <5>2. r.cid[d].ref = cid[d].ref
          BY <1>11, <5>1, SMTT(30)
        <5> QED
          BY <1>11, <3>1, <4>2, <5>2
      <4> QED
        BY <4>1, <4>2
    <3>4. cid'[d].ref \in Nat
      BY <1>13
    <3>5. CASE d = f
      <4>1. cid'[d].ref = r.cid[d].ref - 1
        BY <1>8, <3>5 DEF Bit
      <4> QED
        BY <1>8, <1>11, <3>3, <3>4, <3>5, <4>1, SMTT(30)
    <3>6. CASE d # f
      <4>1. cid'[d].ref = r.cid[d].ref
        BY <1>8, <1>11, <3>6, SMTT(30) DEF Bit
      <4> QED
        BY <1>8, <3>3, <3>6, <4>1
    <3> QED
      BY <3>5, <3>6
  <2> QED
    BY <2>1 DEF StatusEq
<1>16. LastInv'
  <2>1. last.id \in Int /\ last.session \in Int /\ 0 <= last.id /\ 0 <= last.session
    BY SMTT(30) DEF Counts, Types
  <2>2. ASSUME NEW d \in Ids, d > last.id
        PROVE  cid'[d].ref = cid[d].ref /\ cid'[d].status = cid[d].status /\ leaked'[d] = leaked[d]
    <3>1. d \notin Hashed /\ d # f /\ d # 0
      BY <1>4, <1>5, <2>1, <2>2, SMTT(30) DEF Counts, LastInv, Ids
    <3>2. d \notin {a, b}
      BY <1>10, <3>1
    <3>3. Bit(d = a) = 0 /\ Bit(d = b) = 0 /\ Bit(d = f) = 0
      BY <3>1, <3>2 DEF Bit
    <3> QED
      BY <1>2, <1>8, <1>11, <3>1, <3>2, <3>3, SMTT(30)
  <2>3. cr'.confirmed <= last.id /\ cr'.unconfirmed <= last.id
    BY <1>10, <2>1 DEF Counts, LastInv
  <2>4. Hashed' \subseteq Hashed
    BY <1>10
  <2>5. LastKept(t)
    BY <1>2, <1>6, <2>1, <2>3 DEF LastKept
  <2> QED
    BY <1>2, <1>4, <1>6, <2>1, <2>2, <2>4, <2>5, LastStep DEF Counts
<1> QED
  BY <1>9, <1>13, <1>14, <1>15, <1>16, SMTT(30) DEF Counts

\* EXCHANGE_ID hands out an id.
LEMMA CrNew ==
  ASSUME Counts, CrInv, MutexInv, TabInv, NEW t \in Threads, OneThread(t), mutex \in {None, t},
         th'[t].pc \notin Critical, th'[t].tab \in {None, th[t].tab},
         NEW i \in Incs \cup {None}, last.id < MaxIds, NEW r, r = NewClientId(i),
         ht' = r.ht, cr' = r.cr
  PROVE  CrInv' /\ TabInv'
<1>1. PICK n, u : n = last.id + 1 /\ u = cr.unconfirmed
  OBVIOUS
<1>2. /\ n \in Ids /\ IsRecords(r)
      /\ r.ht.confirmed = ht.confirmed /\ r.ht.unconfirmed = (ht.unconfirmed \ {u}) \cup {n}
      /\ r.cr.confirmed = cr.confirmed /\ r.cr.unconfirmed = n
  BY <1>1, NewId, SMTT(30)
<1>3. n \notin Hashed
  BY <1>1, <1>2, SMTT(30) DEF Counts, LastInv, Types
<1>4. ASSUME NEW x \in Tables, cr'[x] # 0
      PROVE  cr'[x] \in ht'[x]
  BY <1>2, <1>4 DEF Tables, CrInv
<1>5. ht'.confirmed \cap ht'.unconfirmed = {}
  BY <1>2, <1>3 DEF CrInv, Hashed
<1> QED
  BY <1>4, <1>5, CrOwn

\* The first step of a request keeps the client record and the tables in
\* agreement.
LEMMA CrRequest ==
  ASSUME ThreadOK, Counts, CrInv, MutexInv, TabInv, NEW t \in Threads, Request(t)
  PROVE  CrInv' /\ TabInv'
<1>1. OneThread(t)
  BY RequestThread DEF Counts, Ground
<1>2. ASSUME NEW i \in Incs, ExchangeId(t, i)
      PROVE  CrInv' /\ TabInv'
  <2>1. PICK r : r = NewClientId(i)
    OBVIOUS
  <2>2. /\ th[t].pc = "idle" /\ mutex = None /\ last.id < MaxIds /\ th' = th
    BY <1>2 DEF ExchangeId
  <2>3. ht' = r.ht /\ cr' = r.cr
    <3>1. IsRecords(r)
      BY <2>1, <2>2, NewId
    <3>2. CASE StoreRecords(r)
      BY <3>2 DEF StoreRecords
    <3>3. CASE StoreRecords([r EXCEPT !.cid = inc_client_id_ref(@, cr.confirmed)])
      BY <3>1, <3>3 DEF StoreRecords, IsRecords
    <3> QED
      BY <1>2, <2>1, <3>2, <3>3 DEF ExchangeId
  <2>4. i \in Incs \cup {None} /\ th'[t].pc \notin Critical /\ th'[t].tab \in {None, th[t].tab}
    BY <2>2 DEF Critical, Exp
  <2> QED
    BY <1>1, <2>1, <2>2, <2>3, <2>4, CrNew
<1> DEFINE Quiet == /\ ht' = ht /\ cr' = cr /\ last' = last /\ th'[t].pc # "exp_unhash"
                    /\ Allots(th'[t]) => Allots(th[t]) \/ last.id < MaxIds
                    /\ th'[t].tab \in {None, th[t].tab}
<1>3. ASSUME NEW i \in Incs, ExchangeIdClash(t, i) PROVE Quiet
  BY <1>3, SMTT(30) DEF ExchangeIdClash, ThreadOK, ThT, Allots, Exp
<1>4. ASSUME NEW c \in Ids, DestroyClientid(t, c) PROVE Quiet
  BY <1>4, SMTT(30) DEF DestroyClientid, ThreadOK, ThT, Allots, Exp
<1>5. ASSUME NEW c \in Ids, NEW q \in 1..MaxSess, CreateSession(t, c, q) PROVE Quiet
  BY <1>5, SMTT(30) DEF CreateSession, ThreadOK, ThT, Allots, Exp
<1>6. ASSUME NEW s \in Sess, DestroySession(t, s) PROVE Quiet
  BY <1>6, SMTT(30) DEF DestroySession, ThreadOK, ThT, Allots, Exp
<1>7. ASSUME NEW s \in Sess, NEW q \in 0..MaxSeq, Sequence(t, s, q) PROVE Quiet
  BY <1>7, SMT DEF Sequence, ThreadOK, ThT, Allots, Exp
<1>8. Quiet => CrInv' /\ TabInv'
  BY <1>1, CrQuiet
<1> HIDE DEF Quiet
<1> QED
  BY <1>2, <1>3, <1>4, <1>5, <1>6, <1>7, <1>8 DEF Request

\* A later step of a request keeps the client record and the tables in
\* agreement.
LEMMA CrContinue ==
  ASSUME ThreadOK, Counts, CrInv, MutexInv, TabInv, NEW t \in Threads, Continue(t)
  PROVE  CrInv' /\ TabInv'
<1>1. OneThread(t)
  BY ContinueThread DEF Counts, Ground
<1>2. CASE ExchangeIdNew(t)
  <2>1. PICK i \in Incs \cup {None} : i = th[t].inc
    BY DEF ThreadOK, ThT
  <2>2. PICK r : r = NewClientId(i)
    OBVIOUS
  <2>3. /\ mutex = t /\ ht' = r.ht /\ cr' = r.cr /\ Done(t) /\ th[t].pc = "ex_new"
    BY <1>2, <2>1, <2>2 DEF ExchangeIdNew, StoreRecords, Unlock
  <2>4. last.id < MaxIds
    BY <2>3 DEF CrInv
  <2>5. th'[t].pc \notin Critical /\ th'[t].tab \in {None, th[t].tab}
    BY <2>3 DEF Done, Idle, Critical, Exp, ThreadOK
  <2> QED
    BY <1>1, <2>2, <2>3, <2>4, <2>5, CrNew
<1>3. CASE CreateSessionConfirm(t)
  <2>1. PICK c : c = th[t].found
    OBVIOUS
  <2>2. /\ mutex = t /\ Done(t) /\ c \in ht.unconfirmed
        /\ ht' = [confirmed |-> ht.confirmed \cup {c}, unconfirmed |-> ht.unconfirmed \ {c}]
        /\ cr' = [confirmed |-> c, unconfirmed |-> 0]
    BY <1>3, <2>1 DEF CreateSessionConfirm, Unlock
  <2>3. th'[t].pc \notin Critical /\ th'[t].tab \in {None, th[t].tab}
    BY <2>2 DEF Done, Idle, Critical, Exp, ThreadOK
  <2>4. \A x \in Tables : cr'[x] # 0 => cr'[x] \in ht'[x]
    BY <2>2, SMT DEF Tables
  <2>5. ht'.confirmed \cap ht'.unconfirmed = {}
    BY <2>2 DEF CrInv
  <2> QED
    BY <1>1, <2>2, <2>3, <2>4, <2>5, CrOwn
<1>4. CASE CreateSessionLate(t)
  <2>1. /\ mutex = t /\ Done(t) /\ ht' = ht /\ cr' = [cr EXCEPT !.unconfirmed = 0]
    BY <1>4 DEF CreateSessionLate, Unlock
  <2>2. th'[t].pc \notin Critical /\ th'[t].tab \in {None, th[t].tab}
    BY <2>1 DEF Done, Idle, Critical, Exp, ThreadOK
  <2>3. cr \in [Tables -> Ids \cup {0}]
    BY DEF Counts, Types, Tables
  <2>4. \A x \in Tables : cr'[x] # 0 => cr'[x] \in ht'[x]
    BY <2>1, <2>3 DEF CrInv
  <2>5. ht'.confirmed \cap ht'.unconfirmed = {}
    BY <2>1 DEF CrInv
  <2> QED
    BY <1>1, <2>1, <2>2, <2>4, <2>5, CrOwn
<1>5. CASE DestroyClientidRemove(t)
  <2>1. PICK r, a, b : Without(r, a, b) /\ ht' = r.ht /\ cr' = r.cr
    BY <1>5, DestroyRecords
  <2>2. mutex = None /\ Done(t)
    BY <1>5 DEF DestroyClientidRemove
  <2>3. th'[t].pc \notin Critical /\ th'[t].tab \in {None, th[t].tab}
    BY <2>2 DEF Done, Idle, Critical, Exp, ThreadOK
  <2>4. /\ ht'.confirmed = ht.confirmed \ {a} /\ ht'.unconfirmed = ht.unconfirmed \ {b}
        /\ cr'.confirmed = (IF a # 0 THEN 0 ELSE cr.confirmed)
        /\ cr'.unconfirmed = (IF b # 0 THEN 0 ELSE cr.unconfirmed)
    BY <2>1 DEF Without
  <2>5. ASSUME NEW x \in Tables, cr'[x] # 0
        PROVE  cr'[x] \in ht'[x]
    <3>1. CASE x = "confirmed"
      <4>1. cr'.confirmed = cr.confirmed /\ a = 0 /\ cr.confirmed \in ht.confirmed
        BY <2>4, <2>5, <3>1 DEF CrInv
      <4> QED
        BY <2>4, <2>5, <3>1, <4>1
    <3>2. CASE x = "unconfirmed"
      <4>1. cr'.unconfirmed = cr.unconfirmed /\ b = 0 /\ cr.unconfirmed \in ht.unconfirmed
        BY <2>4, <2>5, <3>2 DEF CrInv
      <4> QED
        BY <2>4, <2>5, <3>2, <4>1, SMTT(30)
    <3> QED
      BY <3>1, <3>2 DEF Tables
  <2>6. ht'.confirmed \cap ht'.unconfirmed = {}
    BY <2>4 DEF CrInv
  <2> QED
    BY <1>1, <2>2, <2>3, <2>5, <2>6, CrOwn
<1>6. CASE Expire(t)
  BY <1>6, CrExpire
<1> DEFINE Quiet == /\ ht' = ht /\ cr' = cr /\ last'.id = last.id /\ th'[t].pc # "exp_unhash"
                    /\ ~Allots(th'[t])
                    /\ th'[t].tab \in {None, th[t].tab}
<1>done. Done(t) /\ ht' = ht /\ cr' = cr /\ last' = last => Quiet
  BY SMT DEF Done, Idle, ThreadOK, Allots, Exp
<1>7. CreateSessionRefuse(t) => Quiet
  BY <1>done DEF CreateSessionRefuse
<1>8. CreateSessionBuild(t) => Quiet
  BY SMT DEF CreateSessionBuild, Lock, ThreadOK, ThT, Allots, Exp, Counts, Types
<1>9. CreateSessionUpdate(t) => Quiet
  BY <1>done DEF CreateSessionUpdate
<1>10. DestroySessionDel(t) => Quiet
  BY <1>done DEF DestroySessionDel
<1>11. SequenceLease(t) => Quiet
  BY SMTT(30) DEF SequenceLease, ThreadOK, ThT, Allots, Exp
<1>12. SequenceNext(t) => Quiet
  BY SMT DEF SequenceNext, ThreadOK, ThT, Allots, Exp
<1>13. SequenceRefuse(t) => Quiet
  BY SMTT(30) DEF SequenceRefuse, ThreadOK, ThT, Allots, Exp
<1>14. SequenceExec(t) => Quiet
  BY SMT DEF SequenceExec, Go, ThreadOK, ThT, Allots, Exp
<1>15. SequenceComplete(t) => Quiet
  BY <1>done DEF SequenceComplete
<1>16. ExpireLock(t) => Quiet
  BY SMT DEF ExpireLock, ThreadOK, ThT, Allots, Exp
<1>17. Quiet => CrInv' /\ TabInv'
  BY <1>1, CrQuiet
<1> HIDE DEF Quiet
<1> QED
  BY <1>2, <1>3, <1>4, <1>5, <1>6, <1>7, <1>8, <1>9, <1>10, <1>11, <1>12, <1>13, <1>14,
     <1>15, <1>16, <1>17 DEF Continue

\* Every step keeps the client record and the tables in agreement.
LEMMA CrStep ==
  ASSUME ThreadOK, Counts, CrInv, MutexInv, TabInv, [Next]_vars
  PROVE  CrInv' /\ TabInv'
<1>1. ASSUME NEW c \in Ids, Reap(c) PROVE CrInv' /\ TabInv'
  <2>1. Reaper \in Threads /\ OneThread(Reaper)
    BY <1>1, ReapThread DEF Counts, Ground
  <2>2. /\ ht' = ht /\ cr' = cr /\ last' = last /\ th'[Reaper].pc = "rp_lock"
        /\ th'[Reaper].tab = th[Reaper].tab
    BY <1>1, <2>1, SMTT(30) DEF Reap, ThreadOK, ThT
  <2>3. ~Allots(th'[Reaper])
    BY <2>2 DEF Allots, Exp
  <2> QED
    BY <2>1, <2>2, <2>3, CrQuiet
<1>2. ASSUME NEW c \in Ids, Age(c) PROVE CrInv' /\ TabInv'
  BY <1>2 DEF Age, CrInv, TabInv
<1>3. CASE UNCHANGED vars
  BY <1>3 DEF vars, CrInv, TabInv
<1> QED
  BY <1>1, <1>2, <1>3, CrRequest, CrContinue DEF Next, Threads

-----------------------------------------------------------------------------
(***************************************************************************)
(* The statuses in EXCHANGE_ID and DESTROY_CLIENTID                        *)
(***************************************************************************)
\* EXCHANGE_ID puts a new unconfirmed client id in the place of the former.
LEMMA NewDeep ==
  ASSUME Base, Counts', NEW t \in Threads, OneThread(t), mutex \in {None, t},
         th[t].pc \in {"idle", "ex_new"}, th'[t].pc = "idle", sess' = sess,
         NEW i \in Incs \cup {None}, last.id < MaxIds, NEW r, r = NewClientId(i),
         ht' = r.ht, cr' = r.cr,
         \A d \in Ids : cid'[d].status = r.cid[d].status /\ cid'[d].seq = r.cid[d].seq
  PROVE  Deep'
<1>0. /\ StatInv /\ SeqInv /\ SlotInv /\ ThreadOK /\ Counts /\ CrInv /\ MutexInv /\ LastInv
      /\ last.id \in 0..MaxIds
  BY DEF Base, Deep, Counts, Types
<1>1. PICK n, u : n = last.id + 1 /\ u = cr.unconfirmed
  OBVIOUS
<1>2. /\ n \in Ids /\ u \in Ids \cup {0} /\ n # u
      /\ u # 0 => u \in ht.unconfirmed /\ u \notin ht.confirmed
      /\ \A d \in Ids \ {n, u} : r.cid[d].status = cid[d].status
      /\ \A d \in Ids \ {n} : r.cid[d].seq = cid[d].seq
      /\ r.cid[n].status = "unconfirmed"
      /\ u # 0 => r.cid[u].status = IF cid[u].ref = 1 THEN "freed" ELSE "expired"
      /\ r.ht.confirmed = ht.confirmed
      /\ r.ht.unconfirmed = (ht.unconfirmed \ {u}) \cup {n}
      /\ r.cr.confirmed = cr.confirmed /\ r.cr.unconfirmed = n
  BY <1>0, <1>1, NewId, SMTT(30)
<1>3. th[t].slot = 0 /\ ~Running(th'[t]) /\ ~Creating(th[t]) /\ StatT(th[t])'
  BY <1>0 DEF ThreadOK, Shape, Running, Creating, Exp, StatT
<1>4. StatInv'
  <2>1. \A v \in Threads : StatT(th[v])'
    BY <1>0, <1>3, LockedStat
  <2>2. cr.confirmed # n /\ (u # 0 => cr.confirmed # u)
    <3>1. cr.confirmed <= last.id /\ cr.confirmed \in Ids \cup {0}
      BY <1>0 DEF LastInv, Counts, Types
    <3>2. cr.confirmed # 0 => cr.confirmed \in ht.confirmed
      BY <1>0 DEF CrInv, Tables
    <3>3. cr.confirmed # n
      BY <1>0, <1>1, <3>1, SMTT(30) DEF Ids
    <3> QED
      BY <1>2, <3>2, <3>3
  <2>0. /\ cid'[n].status = "unconfirmed" /\ 0 \notin Ids
        /\ u # 0 => cid'[u].status \in {"freed", "expired"}
    <3>1. 0 \notin Ids
      BY SMT DEF Ids
    <3>2. u # 0 => r.cid[u].status \in {"freed", "expired"} /\ u \in Ids
      BY <1>2
    <3> QED
      BY <1>2, <3>1, <3>2
  <2>3. \A d \in Ids : cid'[d].status = "confirmed" <=> cr'.confirmed = d
    <3> TAKE d \in Ids
    <3>1. CASE d \in {n, u}
      <4>1. cid'[d].status # "confirmed"
        BY <2>0, <3>1
      <4>2. cr'.confirmed # d
        BY <1>2, <2>0, <2>2, <3>1, SMTT(30)
      <4> QED
        BY <4>1, <4>2
    <3>2. CASE d \notin {n, u}
      BY <1>0, <1>2, <3>2, SMTT(30) DEF StatInv
    <3> QED
      BY <3>1, <3>2
  <2>4. \A d \in Ids : cr'.unconfirmed = d => cid'[d].status = "unconfirmed"
    BY <1>2, SMT
  <2>5. \A x \in Tables, d \in Ids : cid'[d].status = x => d \in ht'[x]
    <3> TAKE x \in Tables, d \in Ids
    <3>1. CASE d \in {n, u}
      <4>1. d = u => cid'[d].status \notin Tables
        BY <2>0 DEF Tables
      <4>2. d = n => n \in ht'.unconfirmed
        BY <1>2
      <4> QED
        BY <2>0, <3>1, <4>1, <4>2 DEF Tables
    <3>2. CASE d \notin {n, u}
      BY <1>0, <1>2, <3>2, SMTT(30) DEF StatInv, Tables
    <3> QED
      BY <3>1, <3>2
  <2> QED
    BY <2>1, <2>3, <2>4, <2>5 DEF StatInv
<1>5. Passed /\ \A s \in Sess : SlotKept(t, s)
  BY DEF Passed, SlotKept, SlotEq
<1>6. SeqInv'
  <2>1. \A d \in 1..last.id : cid'[d].seq = cid[d].seq
    BY <1>0, <1>1, <1>2, BoundsAssumption, SMTT(30) DEF Ids
  <2> QED
    BY <1>0, <1>3, <1>5, <2>1, QuietSeq
<1>7. SlotInv'
  BY <1>0, <1>3, <1>5, QuietSlot
<1> QED
  BY <1>4, <1>6, <1>7 DEF Deep

\* EXCHANGE_ID, at once or after it has expired the confirmed client id.
LEMMA ExchangeDeep ==
  ASSUME Base, Counts', NEW t \in Threads, OneThread(t),
         (\E i \in Incs : ExchangeId(t, i)) \/ ExchangeIdNew(t)
  PROVE  Deep'
<1>0. /\ ThreadOK /\ Counts /\ CrInv /\ MutexInv /\ th[t] \in ThT
  BY DEF Base, ThreadOK
<1>1. ASSUME NEW i \in Incs, ExchangeId(t, i)
      PROVE  Deep'
  <2>1. PICK j \in Incs \cup {None} : j = i
    OBVIOUS
  <2>2. PICK r : r = NewClientId(j)
    OBVIOUS
  <2>3. /\ th[t].pc = "idle" /\ th'[t].pc = "idle" /\ mutex = None /\ last.id < MaxIds
        /\ sess' = sess
    BY <1>1 DEF ExchangeId
  <2>4. r.cid \in [Ids -> CidT]
    BY <1>0, <2>2, <2>3, NewId DEF IsRecords
  <2>5. /\ ht' = r.ht /\ cr' = r.cr
        /\ cid' = r.cid \/ cid' = inc_client_id_ref(r.cid, cr.confirmed)
    <3>1. CASE StoreRecords(r)
      BY <3>1 DEF StoreRecords
    <3>2. CASE StoreRecords([r EXCEPT !.cid = inc_client_id_ref(@, cr.confirmed)])
      <4>1. PICK q : q = [r EXCEPT !.cid = inc_client_id_ref(@, cr.confirmed)]
        OBVIOUS
      <4>2. /\ q.ht = r.ht /\ q.cr = r.cr /\ q.cid = inc_client_id_ref(r.cid, cr.confirmed)
        BY <2>2, <4>1 DEF NewClientId
      <4> QED
        BY <3>2, <4>1, <4>2 DEF StoreRecords
    <3> QED
      BY <1>1, <2>1, <2>2, <3>1, <3>2 DEF ExchangeId
  <2>6. \A d \in Ids : cid'[d].status = r.cid[d].status /\ cid'[d].seq = r.cid[d].seq
    BY <2>4, <2>5, IncRef, SMTT(30)
  <2> QED
    BY <2>2, <2>3, <2>5, <2>6, NewDeep
<1>2. CASE ExchangeIdNew(t)
  <2>1. th[t].inc \in Incs \cup {None}
    BY <1>0 DEF ThT
  <2>2. PICK j \in Incs \cup {None} : j = th[t].inc
    BY <2>1
  <2>3. PICK r : r = NewClientId(j)
    OBVIOUS
  <2>4. /\ th[t].pc = "ex_new" /\ mutex = t /\ sess' = sess /\ Done(t)
        /\ ht' = r.ht /\ cr' = r.cr /\ cid' = r.cid
    BY <1>2, <2>2, <2>3 DEF ExchangeIdNew, StoreRecords, Unlock
  <2>5. th'[t].pc = "idle" /\ last.id < MaxIds
    BY <1>0, <2>4, DoneThread DEF CrInv
  <2> QED
    BY <2>3, <2>4, <2>5, NewDeep
<1> QED
  BY <1>1, <1>2, SMTT(30)

\* DESTROY_CLIENTID removes the client ids of the client record.
LEMMA DestroyDeep ==
  ASSUME Base, Counts', NEW t \in Threads, OneThread(t), DestroyClientidRemove(t)
  PROVE  Deep'
<1>0. /\ StatInv /\ SeqInv /\ SlotInv /\ ThreadOK /\ Counts /\ CrInv /\ MutexInv /\ LastInv
      /\ last.id \in 0..MaxIds
  BY DEF Base, Deep, Counts, Types
<1>1. PICK r, a, b : /\ Without(r, a, b)
                     /\ cid' = dec_client_id_ref(r.cid, th[t].found)
                     /\ ht' = r.ht /\ cr' = r.cr
  BY <1>0, DestroyRecords
<1>2. th[t].pc = "dc_lock" /\ mutex = None /\ Done(t) /\ sess' = sess
  BY DEF DestroyClientidRemove
<1>3. th'[t].pc = "idle"
  BY <1>0, <1>2, DoneThread
<1>4. th[t].slot = 0 /\ ~Running(th'[t]) /\ ~Creating(th[t]) /\ StatT(th[t])'
  BY <1>0, <1>2, <1>3 DEF ThreadOK, Shape, Running, Creating, Exp, StatT
<1>5. \A d \in Ids : cid'[d].status \in {r.cid[d].status, "freed"} /\ cid'[d].seq = cid[d].seq
  BY <1>1, DecRef, SMTT(30) DEF Without, IsRecords
<1>6. StatInv'
  <2>1. \A v \in Threads : StatT(th[v])'
    BY <1>0, <1>2, <1>4, LockedStat
  <2>2. /\ a \in Ids \cup {0} /\ b \in Ids \cup {0} /\ 0 \notin Ids
        /\ (a # 0 => a = cr.confirmed) /\ (b # 0 => b = cr.unconfirmed)
        /\ ht'.confirmed = ht.confirmed \ {a} /\ ht'.unconfirmed = ht.unconfirmed \ {b}
        /\ cr'.confirmed = (IF a # 0 THEN 0 ELSE cr.confirmed)
        /\ cr'.unconfirmed = (IF b # 0 THEN 0 ELSE cr.unconfirmed)
    BY <1>1, SMT DEF Without, Ids
  <2>3. \A d \in Ids : r.cid[d].status \in IF d \in {a, b} THEN {"freed", "expired"}
                                           ELSE {cid[d].status}
    BY <1>1 DEF Without
  <2>4. CrInv => \A x \in Tables : cr[x] # 0 => cr[x] \in ht[x]
    BY DEF CrInv
  <2>5. \A x \in Tables, d \in Ids : cr'[x] = d => d \in Hashed' /\ cr[x] = d /\ d \notin {a, b}
    <3> TAKE x \in Tables, d \in Ids
    <3> HAVE cr'[x] = d
    <3>1. cr[x] = d /\ d \in ht[x]
      BY <1>0, <2>2, <2>4 DEF Tables
    <3>2. d \notin {a, b}
      <4>1. cr.confirmed \in Ids /\ cr.unconfirmed \in Ids => cr.confirmed # cr.unconfirmed
        BY <1>0, <2>2, <2>4 DEF CrInv, Tables
      <4> QED
        BY <2>2, <3>1, <4>1 DEF Tables
    <3> QED
      BY <2>2, <3>1, <3>2 DEF Tables, Hashed
  <2>6. \A d \in Ids : d \in Hashed' => cid'[d].status # "freed"
    BY HashedLive
  <2>7. \A d \in Ids : cid'[d].status = "confirmed" <=> cr'.confirmed = d
    <3> TAKE d \in Ids
    <3>1. ASSUME cid'[d].status = "confirmed"
          PROVE  cr'.confirmed = d
      <4>1. d \notin {a, b} /\ cid[d].status = "confirmed"
        BY <1>5, <2>3, <3>1
      <4>2. cr.confirmed = d
        BY <1>0, <4>1 DEF StatInv
      <4> QED
        BY <2>2, <4>1, <4>2
    <3>2. ASSUME cr'.confirmed = d
          PROVE  cid'[d].status = "confirmed"
      <4>1. d \in Hashed' /\ cr.confirmed = d /\ d \notin {a, b}
        BY <2>5, <3>2 DEF Tables
      <4>2. cid[d].status = "confirmed"
        BY <1>0, <4>1 DEF StatInv
      <4> QED
        BY <1>5, <2>3, <2>6, <4>1, <4>2
    <3> QED
      BY <3>1, <3>2
  <2>8. \A d \in Ids : cr'.unconfirmed = d => cid'[d].status = "unconfirmed"
    <3> TAKE d \in Ids
    <3> HAVE cr'.unconfirmed = d
    <3>1. d \in Hashed' /\ cr.unconfirmed = d /\ d \notin {a, b}
      BY <2>5 DEF Tables
    <3>2. cid[d].status = "unconfirmed"
      BY <1>0, <3>1 DEF StatInv
    <3> QED
      BY <1>5, <2>3, <2>6, <3>1, <3>2
  <2>9. \A x \in Tables, d \in Ids : cid'[d].status = x => d \in ht'[x]
    <3> TAKE x \in Tables, d \in Ids
    <3> HAVE cid'[d].status = x
    <3>1. d \notin {a, b} /\ cid[d].status = x
      BY <1>5, <2>3 DEF Tables
    <3>2. d \in ht[x]
      BY <1>0, <3>1 DEF StatInv
    <3> QED
      BY <2>2, <3>1, <3>2 DEF Tables
  <2> QED
    BY <2>1, <2>7, <2>8, <2>9 DEF StatInv
<1>7. Passed /\ \A s \in Sess : SlotKept(t, s)
  BY <1>2 DEF Passed, SlotKept, SlotEq
<1>8. SeqInv'
  <2>1. \A d \in 1..last.id : cid'[d].seq = cid[d].seq
    BY <1>0, <1>5, BoundsAssumption, SMTT(30) DEF Ids
  <2> QED
    BY <1>0, <1>4, <1>7, <2>1, QuietSeq
<1>9. SlotInv'
  BY <1>0, <1>4, <1>7, QuietSlot
<1> QED
  BY <1>6, <1>8, <1>9 DEF Deep

=============================================================================
