---------------------------- MODULE DupReqProofs ----------------------------
(***************************************************************************)
(* Proofs about DupReq, for any number of calls, requests and connections  *)
(* and all limits of the cache: the types, EntryRefs, DrcRefs, OneOwner    *)
(* and that DupReq implements ReplyCache.                                  *)
(***************************************************************************)
EXTENDS DupReq, FiniteSetTheorems, TLAPS

\* The prover of the leaves that name no other.
USE ZenonT(30)


-----------------------------------------------------------------------------
(***************************************************************************)
(* The inductive invariant                                                 *)
(***************************************************************************)
Bit(P) == IF P THEN 1 ELSE 0

\* A list without repetitions.
Distinct(s) == \A i, j \in 1..Len(s) : s[i] = s[j] => i = j

\* Where a request is before it has looked its call up, and where it works for
\* an entry, is about to, or is about to hand it on.
Early == {"idle", "getdrc", "lookup"}
Owning == Working \cup {"resume", "rele"}

\* The calls that have a reference on the DRC.
Calls == {r \in Reqs : pc[r] \in InCall}

\* The count of DrcRefs; what else DrcRefs says follows from it.
DrcInv ==
    /\ drc.refcnt = Cardinality(xpU2) + leaked + Cardinality(Calls)
    /\ drc.refcnt > 0 => drc.live
    /\ drc.recycle => drc.refcnt = 0

\* The table and the queue hold the same entries, but for those that their
\* request is deleting; no entry is queued twice, and no call has two entries.
QueueInv ==
    /\ Distinct(dupreqQ)
    /\ Range(dupreqQ) \subseteq tree
    /\ \A e \in tree \ Range(dupreqQ) :
         \E r \in Reqs : pc[r] = "delete3" /\ dv[r] = e
    /\ \A e, f \in tree : Key[e] = Key[f] => e = f

\* What holds for a request.  A call has come over a connection that has its
\* reference on the DRC, and has an entry while it holds one.  An entry is
\* worked for while it is incomplete, and whoever may come to execute it finds
\* it not executed.
RequestInv(r) ==
    LET e == entry[dv[r]]
    IN /\ pc[r] \in InCall => Xprt[r] \in xpU2
       /\ pc[r] \notin Holding => dv[r] = r
       /\ pc[r] \in Early => r \notin tree /\ ~entry[r].ran
       /\ pc[r] \in Working => ~e.complete
       /\ pc[r] \in {"exists", "retire", "retire2"} => e.complete
       /\ pc[r] = "finish" => rc[r] # "DROP"
       /\ pc[r] = "delete" => rc[r] = "DROP"
       /\ pc[r] = "delete3" => dv[r] \in tree \ Range(dupreqQ)
       /\ pc[r] \in {"process", "delete", "delete2", "delete3"} => ~e.ran
       /\ pc[r] \in {"resume", "rele"} => e.complete \/ ~e.ran
       /\ pc[r] = "resume" => e.rc # "XPRT_DIED"

\* What holds for an entry.  The duplicates that are queued behind it are
\* suspended, and are queued once; a completed call was not dropped, and one
\* whose reply was not sent has no duplicates.
EntryInv(e) ==
    /\ Distinct(entry[e].dupes)
    /\ \A d \in Range(entry[e].dupes) : pc[d] = "suspended" /\ dv[d] = e
    /\ entry[e].complete => entry[e].rc # "DROP"
    /\ entry[e].rc = "XPRT_DIED" => entry[e].complete /\ entry[e].dupes = <<>>

\* What holds for two requests.  Nobody has the entry of a request that has not
\* come to make it, and an incomplete entry has one owner at most.
PairInv(r, q) ==
    /\ dv[q] = r => pc[r] \notin Early
    /\ dv[r] = dv[q] /\ pc[r] \in Owning /\ pc[q] \in Owning => entry[dv[r]].complete

Requests == \A r \in Reqs : RequestInv(r)
Entries == \A e \in Reqs : EntryInv(e)
Pairs == \A r, q \in Reqs : r # q => PairInv(r, q)

\* The inductive invariant.
IInv == TypeOK /\ EntryRefs /\ DrcInv /\ QueueInv /\ Requests /\ Entries /\ Pairs


-----------------------------------------------------------------------------
(***************************************************************************)
(* Counting, and lists                                                     *)
(***************************************************************************)

\* Two finite sets that differ in one element at most.
LEMMA CountStep ==
  ASSUME NEW T, IsFiniteSet(T), NEW S \in SUBSET T, NEW R \in SUBSET T, NEW t,
         S \ {t} = R \ {t}
  PROVE  /\ Cardinality(S) \in Nat /\ Cardinality(S) >= Bit(t \in S)
         /\ Cardinality(R) = Cardinality(S) + Bit(t \in R) - Bit(t \in S)
<1>1. /\ IsFiniteSet(S) /\ IsFiniteSet(R)
      /\ IsFiniteSet(S \ {t}) /\ Cardinality(S \ {t}) \in Nat
  BY FS_Subset, FS_CardinalityType
<1>2. ASSUME NEW U, IsFiniteSet(U), U \ {t} = S \ {t}
      PROVE  Cardinality(U) = Cardinality(S \ {t}) + Bit(t \in U)
  <2>1. CASE t \in U
    <3>1. U = (S \ {t}) \cup {t} /\ t \notin S \ {t}
      BY <1>2, <2>1
    <3> QED
      BY <1>1, <2>1, <3>1, FS_AddElement DEF Bit
  <2>2. CASE t \notin U
    <3>1. U = S \ {t}
      BY <1>2, <2>2
    <3> QED
      BY <1>1, <2>2, <3>1, SMT DEF Bit
  <2> QED
    BY <2>1, <2>2
<1>3. Cardinality(S) = Cardinality(S \ {t}) + Bit(t \in S)
  BY <1>1, <1>2
<1>4. Cardinality(R) = Cardinality(S \ {t}) + Bit(t \in R)
  BY <1>1, <1>2
<1> QED
  BY <1>1, <1>3, <1>4, SMT DEF Bit

\* The empty list.
LEMMA EmptyList ==
  ASSUME NEW S
  PROVE  <<>> \in Seq(S) /\ Distinct(<<>>) /\ Range(<<>>) = {}
BY SMT DEF Distinct, Range

\* The elements of a list.
LEMMA Elements ==
  ASSUME NEW S, NEW q \in Seq(S)
  PROVE  Range(q) = {q[i] : i \in 1..Len(q)}
<1>1. DOMAIN q = 1..Len(q)
  BY SMT
<1> QED
  BY <1>1 DEF Range

\* TAILQ_INSERT_TAIL.
LEMMA AppendList ==
  ASSUME NEW S, NEW q \in Seq(S), NEW e \in S, Distinct(q), e \notin Range(q)
  PROVE  /\ Append(q, e) \in Seq(S) /\ Distinct(Append(q, e))
         /\ Range(Append(q, e)) = Range(q) \cup {e}
<1>1. /\ Append(q, e) \in Seq(S) /\ Len(Append(q, e)) = Len(q) + 1 /\ Len(q) \in Nat
      /\ \A i \in 1..Len(q) : Append(q, e)[i] = q[i]
      /\ Append(q, e)[Len(q) + 1] = e
  BY SMT
<1>2. Range(q) = {q[i] : i \in 1..Len(q)}
  BY Elements
<1>3. Range(Append(q, e)) = {Append(q, e)[i] : i \in 1..Len(q) + 1}
  BY <1>1, Elements
<1>4. Range(Append(q, e)) = Range(q) \cup {e}
  BY <1>1, <1>2, <1>3, SMT
<1>5. Distinct(Append(q, e))
  BY <1>1, <1>2, SMT DEF Distinct
<1> QED
  BY <1>1, <1>4, <1>5

\* TAILQ_REMOVE of the first element.
LEMMA TailList ==
  ASSUME NEW S, NEW q \in Seq(S), q # <<>>, Distinct(q)
  PROVE  /\ Tail(q) \in Seq(S) /\ Distinct(Tail(q))
         /\ Head(q) \in Range(q) /\ Head(q) \in S
         /\ Range(Tail(q)) = Range(q) \ {Head(q)}
<1>1. /\ Tail(q) \in Seq(S) /\ Len(Tail(q)) = Len(q) - 1 /\ Len(q) \in Nat \ {0}
      /\ \A i \in 1..Len(Tail(q)) : Tail(q)[i] = q[i + 1]
      /\ Head(q) = q[1] /\ Head(q) \in S
  BY SMT
<1>2. Range(q) = {q[i] : i \in 1..Len(q)}
  BY Elements
<1>3. Range(Tail(q)) = {Tail(q)[i] : i \in 1..Len(q) - 1}
  BY <1>1, Elements
<1>4. Distinct(Tail(q))
  BY <1>1, SMT DEF Distinct
<1>5. ASSUME NEW e PROVE e \in Range(Tail(q)) <=> e \in Range(q) \ {Head(q)}
  <2>1. ASSUME NEW i \in 1..Len(q) - 1, e = Tail(q)[i]
        PROVE  e \in Range(q) \ {Head(q)}
    BY <1>1, <1>2, <2>1, SMT DEF Distinct
  <2>2. ASSUME NEW i \in 1..Len(q), e = q[i], e # Head(q)
        PROVE  e \in Range(Tail(q))
    <3>1. i - 1 \in 1..Len(q) - 1 /\ (i - 1) + 1 = i
      BY <1>1, <2>2, SMT
    <3>2. Tail(q)[i - 1] = e
      BY <1>1, <2>2, <3>1
    <3> QED
      BY <1>3, <3>1, <3>2
  <2> QED
    BY <1>2, <1>3, <2>1, <2>2
<1> QED
  BY <1>1, <1>2, <1>4, <1>5, SMT

\* What the concatenation of two lists holds.
LEMMA ConcatList ==
  ASSUME NEW S, NEW a \in Seq(S), NEW b \in Seq(S)
  PROVE  /\ a \o b \in Seq(S) /\ Len(a \o b) = Len(a) + Len(b)
         /\ \A j \in 1..Len(a) + Len(b) :
              (a \o b)[j] = IF j <= Len(a) THEN a[j] ELSE b[j - Len(a)]
BY SMT

\* TAILQ_REMOVE of any element.
LEMMA RemoveList ==
  ASSUME NEW S, NEW q \in Seq(S), NEW i \in 1..Len(q), Distinct(q)
  PROVE  /\ TailqRemove(q, i) \in Seq(S) /\ Distinct(TailqRemove(q, i))
         /\ q[i] \in Range(q) /\ Range(TailqRemove(q, i)) = Range(q) \ {q[i]}
<1> DEFINE a == SubSeq(q, 1, i - 1)
           b == SubSeq(q, i + 1, Len(q))
<1>1. Len(q) \in Nat /\ i \in Nat
  BY SMT
<1>2. /\ a \in Seq(S) /\ Len(a) = i - 1
      /\ \A j \in 1..i - 1 : a[j] = q[j]
  BY <1>1, SMT
<1>3. /\ b \in Seq(S) /\ Len(b) = Len(q) - i
      /\ \A j \in 1..Len(q) - i : b[j] = q[i + j]
  BY <1>1, SMT
<1>4. /\ a \o b \in Seq(S) /\ Len(a \o b) = Len(q) - 1
      /\ \A j \in 1..Len(q) - 1 : (a \o b)[j] = IF j < i THEN q[j] ELSE q[j + 1]
  <2> HIDE DEF a, b
  <2>1. /\ a \o b \in Seq(S) /\ Len(a \o b) = Len(a) + Len(b)
        /\ \A j \in 1..Len(a) + Len(b) :
             (a \o b)[j] = IF j <= Len(a) THEN a[j] ELSE b[j - Len(a)]
    BY <1>2, <1>3, ConcatList
  <2>2. ASSUME NEW j \in 1..Len(q) - 1
        PROVE  (a \o b)[j] = IF j < i THEN q[j] ELSE q[j + 1]
    <3>1. CASE j < i
      <4>1. j \in 1..i - 1 /\ j <= Len(a) /\ j \in 1..Len(a) + Len(b)
        BY <1>1, <1>2, <1>3, <3>1, SMT
      <4> QED
        BY <1>2, <2>1, <3>1, <4>1
    <3>2. CASE ~(j < i)
      <4>1. /\ j - Len(a) \in 1..Len(q) - i /\ ~(j <= Len(a))
            /\ j \in 1..Len(a) + Len(b) /\ i + (j - Len(a)) = j + 1
        BY <1>1, <1>2, <1>3, <3>2, SMT
      <4>2. (a \o b)[j] = b[j - Len(a)] /\ b[j - Len(a)] = q[i + (j - Len(a))]
        BY <1>3, <2>1, <4>1
      <4> QED
        BY <3>2, <4>1, <4>2
    <3> QED
      BY <3>1, <3>2
  <2> QED
    BY <1>1, <1>2, <1>3, <2>1, <2>2, SMT
<1>5. TailqRemove(q, i) = a \o b
  BY DEF TailqRemove
<1> DEFINE c == TailqRemove(q, i)
<1>6. /\ c \in Seq(S) /\ Len(c) = Len(q) - 1
      /\ \A j \in 1..Len(q) - 1 : c[j] = IF j < i THEN q[j] ELSE q[j + 1]
  BY <1>4, <1>5
<1> HIDE DEF c
<1>7. Range(q) = {q[j] : j \in 1..Len(q)} /\ Range(c) = {c[j] : j \in 1..Len(q) - 1}
  BY <1>6, Elements
<1>8. Distinct(c)
  BY <1>1, <1>6, SMT DEF Distinct
<1>9. ASSUME NEW e PROVE e \in Range(c) <=> e \in Range(q) \ {q[i]}
  <2>1. ASSUME NEW j \in 1..Len(q) - 1, e = c[j]
        PROVE  e \in Range(q) \ {q[i]}
    <3> DEFINE k == IF j < i THEN j ELSE j + 1
    <3>1. k \in 1..Len(q) /\ k # i /\ e = q[k]
      BY <1>1, <1>6, <2>1, SMT
    <3> QED
      BY <1>7, <3>1 DEF Distinct
  <2>2. ASSUME NEW k \in 1..Len(q), e = q[k], e # q[i]
        PROVE  e \in Range(c)
    <3> DEFINE j == IF k < i THEN k ELSE k - 1
    <3>1. j \in 1..Len(q) - 1 /\ c[j] = e
      BY <1>1, <1>6, <2>2, SMT
    <3> QED
      BY <1>7, <3>1
  <2> QED
    BY <1>7, <2>1, <2>2
<1> QED
  BY <1>6, <1>7, <1>8, <1>9 DEF c

-----------------------------------------------------------------------------
(***************************************************************************)
(* References                                                              *)
(***************************************************************************)

\* A step that leaves the threads of all other requests where they are.
Alone(r) ==
    \A q \in Reqs \ {r} : pc'[q] = pc[q] /\ dv'[q] = dv[q] /\ rc'[q] = rc[q]

\* How many hold an entry, and how the step of one request changes that.
LEMMA HoldersStep ==
  ASSUME NEW r \in Reqs, NEW e,
         \A q \in Reqs \ {r} :
           dv'[q] = dv[q] /\ (pc'[q] \in Holding <=> pc[q] \in Holding)
  PROVE  /\ Cardinality(Holders(e)) \in Nat
         /\ Cardinality(Holders(e)') = Cardinality(Holders(e))
              + Bit(dv'[r] = e /\ pc'[r] \in Holding) - Bit(dv[r] = e /\ pc[r] \in Holding)
<1>1. /\ Holders(e) \in SUBSET Reqs /\ Holders(e)' \in SUBSET Reqs
      /\ Holders(e) \ {r} = Holders(e)' \ {r}
  BY DEF Holders
<1>2. /\ r \in Holders(e) <=> dv[r] = e /\ pc[r] \in Holding
      /\ r \in Holders(e)' <=> dv'[r] = e /\ pc'[r] \in Holding
  BY DEF Holders
<1>3. /\ Cardinality(Holders(e)) \in Nat
      /\ Cardinality(Holders(e)') =
           Cardinality(Holders(e)) + Bit(r \in Holders(e)') - Bit(r \in Holders(e))
  BY <1>1, CountStep, DupReqAssumption
<1> QED
  BY <1>2, <1>3 DEF Bit

\* The same for the number of calls.
LEMMA CallsStep ==
  ASSUME NEW r \in Reqs,
         \A q \in Reqs \ {r} : pc'[q] \in InCall <=> pc[q] \in InCall
  PROVE  /\ Cardinality(Calls) \in Nat
         /\ Cardinality(Calls') = Cardinality(Calls)
              + Bit(pc'[r] \in InCall) - Bit(pc[r] \in InCall)
<1>1. /\ Calls \in SUBSET Reqs /\ Calls' \in SUBSET Reqs
      /\ Calls \ {r} = Calls' \ {r}
  BY DEF Calls
<1>2. (r \in Calls <=> pc[r] \in InCall) /\ (r \in Calls' <=> pc'[r] \in InCall)
  BY DEF Calls
<1>3. /\ Cardinality(Calls) \in Nat
      /\ Cardinality(Calls') = Cardinality(Calls) + Bit(r \in Calls') - Bit(r \in Calls)
  BY <1>1, CountStep, DupReqAssumption
<1> QED
  BY <1>2, <1>3 DEF Bit

\* A step that counts what it takes and gives back keeps the counts exact.
LEMMA RefsStep ==
  ASSUME IInv, NEW r \in Reqs, entry' \in [Reqs -> Entry],
         \A q \in Reqs \ {r} :
           dv'[q] = dv[q] /\ (pc'[q] \in Holding <=> pc[q] \in Holding),
         \A e \in Reqs :
           entry'[e].refcnt - Bit(dv'[r] = e /\ pc'[r] \in Holding) - Bit(e \in tree')
             = entry[e].refcnt - Bit(dv[r] = e /\ pc[r] \in Holding) - Bit(e \in tree)
  PROVE  EntryRefs'
<1> SUFFICES ASSUME NEW e \in Reqs
             PROVE  entry'[e].refcnt = Cardinality(Holders(e)') + Bit(e \in tree')
  BY DEF EntryRefs, Bit
<1>1. entry[e].refcnt = Cardinality(Holders(e)) + Bit(e \in tree)
  BY DEF IInv, EntryRefs, Bit
<1>2. /\ Cardinality(Holders(e)) \in Nat
      /\ Cardinality(Holders(e)') = Cardinality(Holders(e))
           + Bit(dv'[r] = e /\ pc'[r] \in Holding) - Bit(dv[r] = e /\ pc[r] \in Holding)
  BY HoldersStep
<1>3. entry[e].refcnt \in Int /\ entry'[e].refcnt \in Int
  BY DEF IInv, TypeOK, Entry
<1> QED
  BY <1>1, <1>2, <1>3, SMT DEF Bit

\* What the count of an entry says about who holds it.
LEMMA HeldBy ==
  ASSUME IInv, NEW e \in Reqs
  PROVE  /\ entry[e].refcnt \in Nat
         /\ e \in tree => entry[e].refcnt # 0
         /\ \A r \in Reqs : dv[r] = e /\ pc[r] \in Holding => entry[e].refcnt # 0
         /\ entry[e].refcnt = 1 /\ e \in tree =>
              \A r \in Reqs : dv[r] = e => pc[r] \notin Holding
         /\ \A r, q \in Reqs :
              entry[e].refcnt = 1 /\ r # q /\ dv[r] = e /\ dv[q] = e
                /\ pc[r] \in Holding => pc[q] \notin Holding /\ e \notin tree
<1>1. entry[e].refcnt = Cardinality(Holders(e)) + Bit(e \in tree)
  BY DEF IInv, EntryRefs, Bit
<1>2. ASSUME NEW r \in Holders(e)
      PROVE  /\ Cardinality(Holders(e) \ {r}) \in Nat
             /\ Cardinality(Holders(e)) = Cardinality(Holders(e) \ {r}) + 1
             /\ IsFiniteSet(Holders(e) \ {r})
  <2>1. IsFiniteSet(Holders(e)) /\ IsFiniteSet(Holders(e) \ {r})
    BY DupReqAssumption, FS_Subset DEF Holders
  <2>2. Cardinality(Holders(e)) = Cardinality(Holders(e) \ {r}) + 1
    <3>1. Holders(e) = (Holders(e) \ {r}) \cup {r} /\ r \notin Holders(e) \ {r}
      OBVIOUS
    <3> QED
      BY <2>1, <3>1, FS_AddElement
  <2> QED
    BY <2>1, <2>2, FS_CardinalityType
<1>3. ASSUME NEW r \in Holders(e), NEW q \in Holders(e), r # q
      PROVE  Cardinality(Holders(e) \ {r}) # 0
  <2>1. Holders(e) \ {r} # {}
    BY <1>3
  <2> QED
    BY <1>2, <2>1, FS_EmptySet
<1>4. IsFiniteSet(Holders(e)) /\ Cardinality(Holders(e)) \in Nat
  BY DupReqAssumption, FS_Subset, FS_CardinalityType DEF Holders
<1>5. \A r \in Reqs : r \in Holders(e) <=> dv[r] = e /\ pc[r] \in Holding
  BY DEF Holders
<1>6. entry[e].refcnt \in Nat /\ (e \in tree => entry[e].refcnt # 0)
  BY <1>1, <1>4, SMT DEF Bit
<1>7. ASSUME NEW r \in Holders(e)
      PROVE  entry[e].refcnt # 0 /\ (entry[e].refcnt = 1 => e \notin tree)
  <2> DEFINE n == Cardinality(Holders(e) \ {r})
  <2>1. n \in Nat /\ Cardinality(Holders(e)) = n + 1
    BY <1>2
  <2> HIDE DEF n
  <2> QED
    BY <1>1, <2>1, SMT DEF Bit
<1>8. ASSUME NEW r \in Holders(e), NEW q \in Holders(e), r # q
      PROVE  entry[e].refcnt # 1
  <2> DEFINE n == Cardinality(Holders(e) \ {r})
  <2>1. n \in Nat /\ n # 0 /\ Cardinality(Holders(e)) = n + 1
    BY <1>2, <1>3, <1>8
  <2> HIDE DEF n
  <2> QED
    BY <1>1, <2>1, SMT DEF Bit
<1> HIDE DEF Holders
<1> QED
  BY <1>5, <1>6, <1>7, <1>8

\* What the count of the DRC says: a call does not have the last reference,
\* and one without references has no connections and no calls.
LEMMA DrcBy ==
  ASSUME IInv
  PROVE  /\ drc.refcnt \in Nat
         /\ xpU2 # {} => drc.refcnt # 0
         /\ \A r \in Reqs : pc[r] \in InCall => drc.refcnt > 1
         /\ IsFiniteSet(xpU2) /\ Cardinality(xpU2) \in Nat /\ Cardinality(Calls) \in Nat
         /\ leaked \in Nat
<1>1. /\ drc.refcnt = Cardinality(xpU2) + leaked + Cardinality(Calls)
      /\ leaked \in Nat /\ xpU2 \in SUBSET Xprts
  BY DEF IInv, DrcInv, TypeOK
<1>2. IsFiniteSet(xpU2) /\ Cardinality(xpU2) \in Nat
  BY <1>1, DupReqAssumption, FS_Subset, FS_CardinalityType
<1>3. IsFiniteSet(Calls) /\ Cardinality(Calls) \in Nat
  BY DupReqAssumption, FS_Subset, FS_CardinalityType DEF Calls
<1>4. xpU2 # {} => Cardinality(xpU2) # 0
  BY <1>2, FS_EmptySet
<1>5. ASSUME NEW r \in Reqs, pc[r] \in InCall
      PROVE  Cardinality(Calls) # 0 /\ xpU2 # {}
  <2>1. r \in Calls /\ Xprt[r] \in xpU2
    BY <1>5 DEF Calls, IInv, Requests, RequestInv
  <2> QED
    BY <1>3, <2>1, FS_EmptySet
<1> QED
  BY <1>1, <1>2, <1>3, <1>4, <1>5, SMT

\* A step that takes and gives back no reference on the DRC.
LEMMA DrcKept ==
  ASSUME IInv,
         \A q \in Reqs : pc'[q] \in InCall <=> pc[q] \in InCall,
         xpU2' = xpU2, leaked' = leaked, drc'.refcnt = drc.refcnt,
         drc'.live = drc.live, drc'.recycle = drc.recycle
  PROVE  DrcInv'
<1>1. Calls' = Calls
  BY DEF Calls
<1> QED
  BY <1>1 DEF IInv, DrcInv

-----------------------------------------------------------------------------
(***************************************************************************)
(* What a step leaves as it was                                            *)
(***************************************************************************)

\* The thread of a request goes from one location to another.
LEMMA TransitionStep ==
  ASSUME TypeOK, NEW r \in Reqs, NEW from, NEW to, Transition(r, from, to)
  PROVE  /\ pc[r] = from /\ pc'[r] = to
         /\ to \in Locations => pc' \in [Reqs -> Locations]
         /\ \A q \in Reqs \ {r} : pc'[q] = pc[q]
<1>1. pc[r] = from /\ pc' = [pc EXCEPT ![r] = to] /\ pc \in [Reqs -> Locations]
  BY DEF Transition, TypeOK
<1> HIDE DEF Locations
<1> QED
  BY <1>1

\* What holds for a request that stays where it is, and finds its entry as it
\* was, if it uses it.
LEMMA RequestKept ==
  ASSUME NEW q \in Reqs, RequestInv(q),
         pc'[q] = pc[q], dv'[q] = dv[q], rc'[q] = rc[q],
         pc[q] \in InCall /\ Xprt[q] \in xpU2 => Xprt[q] \in xpU2',
         pc[q] \in Early => /\ q \in tree' => q \in tree
                            /\ entry'[q].ran => entry[q].ran,
         pc[q] = "delete3" /\ dv[q] \in tree \ Range(dupreqQ) =>
           dv[q] \in tree' \ Range(dupreqQ'),
         pc[q] \in Owning \cup {"exists", "retire", "retire2"} =>
           /\ entry'[dv[q]].complete = entry[dv[q]].complete
           /\ entry'[dv[q]].ran = entry[dv[q]].ran
           /\ entry'[dv[q]].rc = entry[dv[q]].rc
  PROVE  RequestInv(q)'
BY DEF RequestInv, Owning, Working

\* The duplicates of an entry are requests.
LEMMA DupesIn ==
  ASSUME TypeOK, NEW e \in Reqs
  PROVE  entry[e].dupes \in Seq(Reqs) /\ Range(entry[e].dupes) \subseteq Reqs
<1>1. entry[e].dupes \in Seq(Reqs)
  BY DEF TypeOK, Entry
<1> QED
  BY <1>1, Elements, SMT

\* What holds for an entry whose results and duplicates stay.
LEMMA EntryKept ==
  ASSUME NEW e \in Reqs, TypeOK, EntryInv(e),
         \A d \in Reqs : pc[d] = "suspended" /\ dv[d] = e => pc'[d] = "suspended" /\ dv'[d] = e,
         entry'[e].dupes = entry[e].dupes, entry'[e].rc = entry[e].rc,
         entry'[e].complete = entry[e].complete
  PROVE  EntryInv(e)'
BY DupesIn DEF EntryInv

\* What holds for two requests, when one of them takes a step.
LEMMA PairsStep ==
  ASSUME IInv, NEW r \in Reqs, Alone(r),
         pc'[r] \in Early => pc[r] \in Early,
         \A q \in Reqs \ {r} : dv'[r] = q => pc[q] \notin Early,
         \A q \in Reqs \ {r} : pc[q] \in Owning /\ entry[dv[q]].complete =>
                                 entry'[dv[q]].complete,
         pc'[r] \in Owning => \/ entry'[dv'[r]].complete
                              \/ \A q \in Reqs \ {r} : dv[q] = dv'[r] => pc[q] \notin Owning
  PROVE  Pairs'
<1> SUFFICES ASSUME NEW a \in Reqs, NEW b \in Reqs, a # b
             PROVE  PairInv(a, b)'
  BY DEF Pairs
<1>1. PairInv(a, b)
  BY DEF IInv, Pairs
<1>2. CASE a = r
  BY <1>1, <1>2 DEF PairInv, Alone
<1>3. CASE b = r
  BY <1>1, <1>3, SMT DEF PairInv, Alone
<1>4. CASE a # r /\ b # r
  BY <1>1, <1>4 DEF PairInv, Alone
<1> QED
  BY <1>2, <1>3, <1>4

\* The table and the queue stay, and so does who deletes from them.
LEMMA QueueKept ==
  ASSUME QueueInv, tree' = tree, dupreqQ' = dupreqQ,
         \A q \in Reqs : pc[q] = "delete3" => pc'[q] = "delete3" /\ dv'[q] = dv[q]
  PROVE  QueueInv'
BY DEF QueueInv

\* A request goes on without touching the entries.
LEMMA ThreadInv ==
  ASSUME IInv, NEW r \in Reqs, TypeOK', DrcInv', QueueInv', RequestInv(r)', Alone(r),
         dv'[r] = dv[r], entry' = entry, tree' = tree,
         Range(dupreqQ') \subseteq Range(dupreqQ), xpU2 \subseteq xpU2',
         pc[r] # "suspended", pc'[r] \in Holding <=> pc[r] \in Holding,
         pc'[r] \in Early => pc[r] \in Early,
         pc'[r] \in Owning => pc[r] \in Owning \/ entry[dv[r]].complete
  PROVE  IInv'
<1>1. EntryRefs'
  <2>1. \A q \in Reqs \ {r} : dv'[q] = dv[q] /\ (pc'[q] \in Holding <=> pc[q] \in Holding)
    BY DEF Alone
  <2>2. entry' \in [Reqs -> Entry]
    BY DEF TypeOK
  <2> QED
    BY <2>1, <2>2, RefsStep
<1>2. Requests'
  <2>1. ASSUME NEW q \in Reqs, q # r PROVE RequestInv(q)'
    <3>1. pc'[q] = pc[q] /\ dv'[q] = dv[q] /\ rc'[q] = rc[q] /\ RequestInv(q)
      BY <2>1 DEF IInv, Requests, Alone
    <3>2. dv[q] \in tree \ Range(dupreqQ) => dv[q] \in tree' \ Range(dupreqQ')
      OBVIOUS
    <3> QED
      BY <3>1, <3>2, RequestKept
  <2> QED
    BY <2>1 DEF Requests
<1>3. Entries'
  <2>1. ASSUME NEW e \in Reqs PROVE EntryInv(e)'
    BY EntryKept DEF IInv, Entries, Alone
  <2> QED
    BY <2>1 DEF Entries
<1>4. Pairs'
  <2>1. \A q \in Reqs \ {r} : dv'[r] = q => pc[q] \notin Early
    BY DEF IInv, Pairs, PairInv
  <2>2. pc'[r] \in Owning =>
           \/ entry'[dv'[r]].complete
           \/ \A q \in Reqs \ {r} : dv[q] = dv'[r] => pc[q] \notin Owning
    BY DEF IInv, Pairs, PairInv
  <2> QED
    BY <2>1, <2>2, PairsStep
<1> QED
  BY <1>1, <1>2, <1>3, <1>4 DEF IInv

\* A request goes on without touching the cache.
LEMMA MoveInv ==
  ASSUME IInv, NEW r \in Reqs, TypeOK', DrcInv', RequestInv(r)', Alone(r),
         dv'[r] = dv[r], UNCHANGED cache, xpU2 \subseteq xpU2',
         pc[r] # "suspended", pc[r] # "delete3",
         pc'[r] \in Holding <=> pc[r] \in Holding,
         pc'[r] \in Early => pc[r] \in Early,
         pc'[r] \in Owning => pc[r] \in Owning \/ entry[dv[r]].complete
  PROVE  IInv'
<1>1. entry' = entry /\ tree' = tree /\ dupreqQ' = dupreqQ
  BY DEF cache
<1>2. QueueInv'
  BY <1>1, QueueKept DEF IInv, Alone
<1> QED
  BY <1>1, <1>2, ThreadInv

-----------------------------------------------------------------------------
(***************************************************************************)
(* The steps that leave the cache as it is                                 *)
(***************************************************************************)

\* A request arrives.
LEMMA ArriveInv ==
  ASSUME IInv, NEW r \in Reqs, Arrive(r)
  PROVE  IInv'
<1>1. /\ pc[r] = "idle" /\ pc'[r] = "getdrc"
      /\ pc' \in [Reqs -> Locations] /\ \A q \in Reqs \ {r} : pc'[q] = pc[q]
  BY TransitionStep DEF IInv, Arrive, Locations
<1>2. UNCHANGED <<dv, rc, cnt, pick, cache, drc, xprt, xpU2, executed, leaked>>
  BY DEF Arrive
<1>3. TypeOK'
  BY <1>1, <1>2 DEF IInv, TypeOK, cache
<1>4. DrcInv'
  BY <1>1, <1>2, DrcKept DEF InCall, Holding, Locations
<1>5. RequestInv(r)'
  BY <1>1, <1>2 DEF IInv, Requests, RequestInv, cache, Locations, Holding, InCall, Early, Owning, Working
<1>6. Alone(r)
  BY <1>1, <1>2 DEF Alone
<1>7. /\ pc[r] # "suspended" /\ pc[r] # "delete3"
      /\ pc'[r] \in Holding <=> pc[r] \in Holding
      /\ pc'[r] \in Early => pc[r] \in Early
      /\ pc'[r] \in Owning => pc[r] \in Owning \/ entry[dv[r]].complete
  BY <1>1 DEF Locations, Holding, InCall, Early, Owning, Working
<1> QED
  BY <1>2, <1>3, <1>4, <1>5, <1>6, <1>7, MoveInv

\* nfs_dupreq_get_drc, when the connection has its DRC.
LEMMA RefDrcInv ==
  ASSUME IInv, NEW r \in Reqs, RefDrc(r)
  PROVE  IInv'
<1>1. /\ pc[r] = "getdrc" /\ pc'[r] = "lookup"
      /\ pc' \in [Reqs -> Locations] /\ \A q \in Reqs \ {r} : pc'[q] = pc[q]
  BY TransitionStep DEF IInv, RefDrc, Locations
<1>2. /\ UNCHANGED <<dv, rc, cnt, pick, cache, xprt, xpU2, executed, leaked>>
      /\ drc' = [drc EXCEPT !.refcnt = @ + 1] /\ Xprt[r] \in xpU2
  BY DEF RefDrc
<1>3. TypeOK'
  <2>1. drc' \in Drc
    <3>1. drc \in Drc
      BY DEF IInv, TypeOK
    <3> QED
      BY <1>2, <3>1, SMT DEF Drc
  <2> QED
    BY <1>1, <1>2, <2>1 DEF IInv, TypeOK, cache
<1>4. DrcInv'
  <2>1. drc' = [drc EXCEPT !.refcnt = drc.refcnt + 1] /\ drc \in Drc
    BY <1>2 DEF IInv, TypeOK
  <2>2. Cardinality(Calls') = Cardinality(Calls) + 1
    BY <1>1, CallsStep, SMT DEF Bit, InCall, Holding, Locations
  <2>3. drc.refcnt # 0
    BY <1>2, DrcBy
  <2> QED
    BY <1>2, <2>1, <2>2, <2>3, DrcBy, SMT DEF IInv, DrcInv, Drc
<1>5. RequestInv(r)'
  BY <1>1, <1>2 DEF IInv, Requests, RequestInv, cache, Locations, Holding, InCall, Early, Owning, Working
<1>6. Alone(r)
  BY <1>1, <1>2 DEF Alone
<1>7. /\ pc[r] # "suspended" /\ pc[r] # "delete3"
      /\ pc'[r] \in Holding <=> pc[r] \in Holding
      /\ pc'[r] \in Early => pc[r] \in Early
      /\ pc'[r] \in Owning => pc[r] \in Owning \/ entry[dv[r]].complete
  BY <1>1 DEF Locations, Holding, InCall, Early, Owning, Working
<1> QED
  BY <1>2, <1>3, <1>4, <1>5, <1>6, <1>7, MoveInv

\* nfs_dupreq_get_drc, for the first request of a connection.
LEMMA FindDrcInv ==
  ASSUME IInv, NEW r \in Reqs, FindDrc(r)
  PROVE  IInv'
<1>1. /\ pc[r] = "getdrc" /\ pc'[r] = "lookup"
      /\ pc' \in [Reqs -> Locations] /\ \A q \in Reqs \ {r} : pc'[q] = pc[q]
  BY TransitionStep DEF IInv, FindDrc, Locations
<1>2. /\ UNCHANGED <<dv, rc, cnt, pick, cache, xprt, executed, leaked>>
      /\ drc' = [drc EXCEPT !.live = TRUE, !.recycle = FALSE, !.refcnt = drc.refcnt + 2]
      /\ xpU2' = xpU2 \cup {Xprt[r]} /\ Xprt[r] \notin xpU2
  BY DEF FindDrc
<1>3. TypeOK'
  <2>1. drc' \in Drc
    <3>1. drc \in Drc
      BY DEF IInv, TypeOK
    <3>2. drc' = [live |-> TRUE, refcnt |-> drc.refcnt + 2, recycle |-> FALSE,
                  retwnd |-> drc.retwnd]
      BY <1>2, <3>1 DEF Drc
    <3> QED
      BY <3>1, <3>2, SMT DEF Drc
  <2>2. xpU2' \in SUBSET Xprts
    BY <1>2, DupReqAssumption, SMT DEF IInv, TypeOK
  <2> QED
    BY <1>1, <1>2, <2>1, <2>2 DEF IInv, TypeOK, cache
<1>4. DrcInv'
  <2>1. /\ drc' = [drc EXCEPT !.live = TRUE, !.recycle = FALSE, !.refcnt = drc.refcnt + 2]
        /\ drc \in Drc
    BY <1>2 DEF IInv, TypeOK
  <2>2. Cardinality(Calls') = Cardinality(Calls) + 1
    BY <1>1, CallsStep, SMT DEF Bit, InCall, Holding, Locations
  <2>3. Cardinality(xpU2') = Cardinality(xpU2) + 1
    BY <1>2, DrcBy, FS_AddElement
  <2> QED
    BY <1>2, <2>1, <2>2, <2>3, DrcBy, SMT DEF IInv, DrcInv, Drc
<1>5. RequestInv(r)'
  BY <1>1, <1>2 DEF IInv, Requests, RequestInv, cache, Locations, Holding, InCall, Early, Owning, Working
<1>6. Alone(r)
  BY <1>1, <1>2 DEF Alone
<1>7. /\ pc[r] # "suspended" /\ pc[r] # "delete3"
      /\ pc'[r] \in Holding <=> pc[r] \in Holding
      /\ pc'[r] \in Early => pc[r] \in Early
      /\ pc'[r] \in Owning => pc[r] \in Owning \/ entry[dv[r]].complete
  BY <1>1 DEF Locations, Holding, InCall, Early, Owning, Working
<1> QED
  BY <1>2, <1>3, <1>4, <1>5, <1>6, <1>7, MoveInv, SMT

\* process_dupreq, for a call that was completed.
LEMMA ResendReplyInv ==
  ASSUME IInv, NEW r \in Reqs, ResendReply(r)
  PROVE  IInv'
<1>1. /\ pc[r] = "exists" /\ pc'[r] = "rele"
      /\ pc' \in [Reqs -> Locations] /\ \A q \in Reqs \ {r} : pc'[q] = pc[q]
  BY TransitionStep DEF IInv, ResendReply, Locations
<1>2. UNCHANGED <<dv, rc, cnt, pick, cache, drc, xprt, xpU2, executed, leaked>>
  BY DEF ResendReply
<1>3. TypeOK'
  BY <1>1, <1>2 DEF IInv, TypeOK, cache
<1>4. DrcInv'
  BY <1>1, <1>2, DrcKept DEF InCall, Holding, Locations
<1>5. RequestInv(r)'
  BY <1>1, <1>2 DEF IInv, Requests, RequestInv, cache, Locations, Holding, InCall, Early, Owning, Working
<1>6. Alone(r)
  BY <1>1, <1>2 DEF Alone
<1>7. /\ pc[r] # "suspended" /\ pc[r] # "delete3"
      /\ pc'[r] \in Holding <=> pc[r] \in Holding
      /\ pc'[r] \in Early => pc[r] \in Early
      /\ pc'[r] \in Owning => pc[r] \in Owning \/ entry[dv[r]].complete
  BY <1>1 DEF IInv, Requests, RequestInv, Locations, Holding, InCall, Early, Owning, Working
<1> QED
  BY <1>2, <1>3, <1>4, <1>5, <1>6, <1>7, MoveInv

\* The service function drops the call or refuses it.
LEMMA RefuseInv ==
  ASSUME IInv, NEW r \in Reqs, Refuse(r)
  PROVE  IInv'
<1>1. /\ pc[r] = "process" /\ pc'[r] = "delete"
      /\ pc' \in [Reqs -> Locations] /\ \A q \in Reqs \ {r} : pc'[q] = pc[q]
  BY TransitionStep DEF IInv, Refuse, Locations
<1>2. /\ UNCHANGED <<dv, cnt, pick, cache, drc, xprt, xpU2, executed, leaked>>
      /\ rc' = [rc EXCEPT ![r] = "DROP"]
  BY DEF Refuse
<1>3. TypeOK'
  BY <1>1, <1>2 DEF IInv, TypeOK, cache, Results
<1>4. DrcInv'
  BY <1>1, <1>2, DrcKept DEF InCall, Holding, Locations
<1>5. RequestInv(r)'
  BY <1>1, <1>2 DEF IInv, TypeOK, Requests, RequestInv, cache, Locations, Holding, InCall,
                           Early, Owning, Working
<1>6. Alone(r)
  BY <1>1, <1>2 DEF Alone, IInv, TypeOK
<1>7. /\ pc[r] # "suspended" /\ pc[r] # "delete3"
      /\ pc'[r] \in Holding <=> pc[r] \in Holding
      /\ pc'[r] \in Early => pc[r] \in Early
      /\ pc'[r] \in Owning => pc[r] \in Owning \/ entry[dv[r]].complete
  BY <1>1 DEF Locations, Holding, InCall, Early, Owning, Working
<1> QED
  BY <1>2, <1>3, <1>4, <1>5, <1>6, <1>7, MoveInv

\* The reply is sent, or cannot be.
LEMMA SendReplyInv ==
  ASSUME IInv, NEW r \in Reqs, SendReply(r)
  PROVE  IInv'
<1>1. /\ pc[r] = "send" /\ pc'[r] = "finish"
      /\ pc' \in [Reqs -> Locations] /\ \A q \in Reqs \ {r} : pc'[q] = pc[q]
  BY TransitionStep DEF IInv, SendReply, Locations
<1>2. /\ UNCHANGED <<dv, cnt, pick, cache, drc, xprt, xpU2, executed, leaked>>
      /\ rc' \in [Reqs -> Results] /\ rc'[r] # "DROP"
      /\ \A q \in Reqs \ {r} : rc'[q] = rc[q]
  BY DEF SendReply, IInv, TypeOK, Results
<1>3. TypeOK'
  BY <1>1, <1>2 DEF IInv, TypeOK, cache
<1>4. DrcInv'
  BY <1>1, <1>2, DrcKept DEF InCall, Holding, Locations
<1>5. RequestInv(r)'
  <2>1. RequestInv(r) /\ "finish" \in InCall /\ "send" \in InCall /\ "send" \in Working
        /\ "finish" \in Holding /\ "finish" \notin Early
    BY DEF IInv, Requests, Locations, Holding, InCall, Early, Owning, Working
  <2> QED
    BY <1>1, <1>2, <2>1 DEF RequestInv, cache
<1>6. Alone(r)
  BY <1>1, <1>2 DEF Alone
<1>7. /\ pc[r] # "suspended" /\ pc[r] # "delete3"
      /\ pc'[r] \in Holding <=> pc[r] \in Holding
      /\ pc'[r] \in Early => pc[r] \in Early
      /\ pc'[r] \in Owning => pc[r] \in Owning \/ entry[dv[r]].complete
  BY <1>1 DEF Locations, Holding, InCall, Early, Owning, Working
<1> QED
  BY <1>2, <1>3, <1>4, <1>5, <1>6, <1>7, MoveInv

\* drc_resume: nobody is resumed for a call whose reply was not sent, and a
\* call that was dropped is not complete.
LEMMA ResumeInv ==
  ASSUME IInv, NEW r \in Reqs, Resume(r)
  PROVE  IInv'
<1>1. /\ pc[r] = "resume" /\ pc'[r] \in {"rele", "process"}
      /\ pc'[r] = "process" => ~entry[dv[r]].complete
      /\ pc' \in [Reqs -> Locations] /\ \A q \in Reqs \ {r} : pc'[q] = pc[q]
  <2>1. pc[r] = "resume" /\ pc' = [pc EXCEPT ![r] = ResumeTo(entry[dv[r]].rc)]
    BY DEF Resume, Transition
  <2>2. /\ entry[dv[r]].rc \in {"OK", "DROP"}
        /\ entry[dv[r]].rc = "DROP" => ~entry[dv[r]].complete
    BY <2>1, SMT DEF IInv, TypeOK, Entry, Results, Requests, RequestInv, Entries, EntryInv
  <2>3. /\ ResumeTo(entry[dv[r]].rc) \in {"rele", "process"}
        /\ ResumeTo(entry[dv[r]].rc) = "process" => ~entry[dv[r]].complete
    BY <2>2 DEF ResumeTo
  <2> QED
    BY <2>1, <2>3, TransitionStep, SMT DEF IInv, Resume, Locations
<1>2. UNCHANGED <<dv, rc, cnt, pick, cache, drc, xprt, xpU2, executed, leaked>>
  BY DEF Resume
<1>3. TypeOK'
  BY <1>1, <1>2 DEF IInv, TypeOK, cache
<1>4. DrcInv'
  BY <1>1, <1>2, DrcKept DEF InCall, Holding, Locations
<1>5. RequestInv(r)'
  BY <1>1, <1>2 DEF IInv, Requests, RequestInv, cache, Locations, Holding, InCall, Early, Owning, Working
<1>6. Alone(r)
  BY <1>1, <1>2 DEF Alone
<1>7. /\ pc[r] # "suspended" /\ pc[r] # "delete3"
      /\ pc'[r] \in Holding <=> pc[r] \in Holding
      /\ pc'[r] \in Early => pc[r] \in Early
      /\ pc'[r] \in Owning => pc[r] \in Owning \/ entry[dv[r]].complete
  BY <1>1 DEF Locations, Holding, InCall, Early, Owning, Working
<1> QED
  BY <1>2, <1>3, <1>4, <1>5, <1>6, <1>7, MoveInv

\* drc_should_retire.
LEMMA RetireCheckInv ==
  ASSUME IInv, NEW r \in Reqs, RetireCheck(r)
  PROVE  IInv'
<1>1. /\ pc[r] = "retire" /\ pc'[r] \in {"retire2", "rele"}
      /\ pc' \in [Reqs -> Locations] /\ \A q \in Reqs \ {r} : pc'[q] = pc[q]
  <2>1. PICK to \in {"retire2", "rele"} : Transition(r, "retire", to)
    BY DEF RetireCheck
  <2> QED
    BY <2>1, TransitionStep DEF IInv, Locations
<1>2. /\ UNCHANGED <<dv, rc, cnt, cache, xprt, xpU2, executed, leaked>>
      /\ drc' \in {drc, DecRetwnd(drc)} /\ pick' \in [Reqs -> Keys]
  <2>1. dupreqQ # <<>> => Key[Head(dupreqQ)] \in Keys
    BY DupReqAssumption, SMT DEF IInv, TypeOK
  <2> QED
    BY <2>1 DEF RetireCheck, IInv, TypeOK
<1>3. TypeOK'
  <2>1. drc' \in Drc
    <3>1. drc \in Drc
      BY DEF IInv, TypeOK
    <3> QED
      BY <1>2, <3>1, SMT DEF Drc, DecRetwnd
  <2> QED
    BY <1>1, <1>2, <2>1 DEF IInv, TypeOK, cache
<1>4. DrcInv'
  <2>1. drc \in Drc
    BY DEF IInv, TypeOK
  <2>2. drc'.refcnt = drc.refcnt /\ drc'.live = drc.live /\ drc'.recycle = drc.recycle
    BY <1>2, <2>1 DEF DecRetwnd, Drc
  <2> QED
    BY <1>1, <1>2, <2>2, DrcKept DEF InCall, Holding, Locations
<1>5. RequestInv(r)'
  BY <1>1, <1>2 DEF IInv, Requests, RequestInv, cache, Locations, Holding, InCall, Early, Owning, Working
<1>6. Alone(r)
  BY <1>1, <1>2 DEF Alone
<1>7. /\ pc[r] # "suspended" /\ pc[r] # "delete3"
      /\ pc'[r] \in Holding <=> pc[r] \in Holding
      /\ pc'[r] \in Early => pc[r] \in Early
      /\ pc'[r] \in Owning => pc[r] \in Owning \/ entry[dv[r]].complete
  BY <1>1 DEF IInv, Requests, RequestInv, Locations, Holding, InCall, Early, Owning, Working
<1> QED
  BY <1>2, <1>3, <1>4, <1>5, <1>6, <1>7, MoveInv

\* The first entry is another one by now.
LEMMA RetireChangedInv ==
  ASSUME IInv, NEW r \in Reqs, RetireChanged(r)
  PROVE  IInv'
<1>1. /\ pc[r] = "retire2" /\ pc'[r] = "rele"
      /\ pc' \in [Reqs -> Locations] /\ \A q \in Reqs \ {r} : pc'[q] = pc[q]
  BY TransitionStep DEF IInv, RetireChanged, Locations
<1>2. /\ UNCHANGED <<dv, rc, cnt, cache, drc, xprt, xpU2, executed, leaked>>
      /\ pick' = [pick EXCEPT ![r] = Key[r]]
  BY DEF RetireChanged
<1>3. TypeOK'
  <2>1. pick' \in [Reqs -> Keys]
    BY <1>2, DupReqAssumption DEF IInv, TypeOK
  <2> QED
    BY <1>1, <1>2, <2>1 DEF IInv, TypeOK, cache
<1>4. DrcInv'
  BY <1>1, <1>2, DrcKept DEF InCall, Holding, Locations
<1>5. RequestInv(r)'
  BY <1>1, <1>2 DEF IInv, Requests, RequestInv, cache, Locations, Holding, InCall, Early, Owning, Working
<1>6. Alone(r)
  BY <1>1, <1>2 DEF Alone
<1>7. /\ pc[r] # "suspended" /\ pc[r] # "delete3"
      /\ pc'[r] \in Holding <=> pc[r] \in Holding
      /\ pc'[r] \in Early => pc[r] \in Early
      /\ pc'[r] \in Owning => pc[r] \in Owning \/ entry[dv[r]].complete
  BY <1>1 DEF IInv, Requests, RequestInv, Locations, Holding, InCall, Early, Owning, Working
<1> QED
  BY <1>2, <1>3, <1>4, <1>5, <1>6, <1>7, MoveInv

\* nfs_dupreq_put_drc, at the end of a call.
LEMMA PutDrcInv ==
  ASSUME IInv, NEW r \in Reqs, PutDrc(r)
  PROVE  IInv'
<1>1. /\ pc[r] = "putdrc" /\ pc'[r] = "done"
      /\ pc' \in [Reqs -> Locations] /\ \A q \in Reqs \ {r} : pc'[q] = pc[q]
  BY TransitionStep DEF IInv, PutDrc, Locations
<1>2. /\ UNCHANGED <<dv, rc, cnt, pick, cache, xprt, xpU2, executed, leaked>>
      /\ drc' = [drc EXCEPT !.refcnt = @ - 1]
  BY DEF PutDrc
<1>3. TypeOK'
  <2>1. drc' \in Drc
    <3>1. drc \in Drc
      BY DEF IInv, TypeOK
    <3> QED
      BY <1>2, <3>1, SMT DEF Drc
  <2> QED
    BY <1>1, <1>2, <2>1 DEF IInv, TypeOK, cache
<1>4. DrcInv'
  <2>1. drc' = [drc EXCEPT !.refcnt = drc.refcnt - 1] /\ drc \in Drc
    BY <1>2 DEF IInv, TypeOK
  <2>2. Cardinality(Calls') = Cardinality(Calls) - 1 /\ Cardinality(Calls') \in Int
    BY <1>1, CallsStep, SMT DEF Bit, InCall, Holding, Locations
  <2>3. drc.refcnt > 1
    BY <1>1, DrcBy DEF InCall
  <2> QED
    BY <1>2, <2>1, <2>2, <2>3, DrcBy, SMT DEF IInv, DrcInv, Drc
<1>5. RequestInv(r)'
  BY <1>1, <1>2 DEF IInv, Requests, RequestInv, cache, Locations, Holding, InCall, Early, Owning, Working
<1>6. Alone(r)
  BY <1>1, <1>2 DEF Alone
<1>7. /\ pc[r] # "suspended" /\ pc[r] # "delete3"
      /\ pc'[r] \in Holding <=> pc[r] \in Holding
      /\ pc'[r] \in Early => pc[r] \in Early
      /\ pc'[r] \in Owning => pc[r] \in Owning \/ entry[dv[r]].complete
  BY <1>1 DEF Locations, Holding, InCall, Early, Owning, Working
<1> QED
  BY <1>2, <1>3, <1>4, <1>5, <1>6, <1>7, MoveInv

-----------------------------------------------------------------------------
(***************************************************************************)
(* The steps of a request that works for its entry                         *)
(***************************************************************************)

\* One entry is changed.
LEMMA EntryField ==
  ASSUME TypeOK, NEW e \in Reqs, NEW s \in Entry, entry' = [entry EXCEPT ![e] = s]
  PROVE  /\ entry' \in [Reqs -> Entry] /\ entry'[e] = s
         /\ \A x \in Reqs \ {e} : entry'[x] = entry[x]
<1>1. entry \in [Reqs -> Entry]
  BY DEF TypeOK
<1> HIDE DEF Entry
<1> QED
  BY <1>1

\* The one request that works for an entry changes it: whoever else has the
\* entry neither owns it nor takes it to be complete.
LEMMA WorkInv ==
  ASSUME IInv, NEW r \in Reqs, TypeOK', DrcInv', RequestInv(r)', EntryInv(dv[r])',
         Alone(r), dv'[r] = dv[r], tree' = tree, dupreqQ' = dupreqQ, xpU2' = xpU2,
         pc[r] \in Working, pc[r] # "delete3", pc'[r] \in Holding, pc'[r] \notin Early,
         entry'[dv[r]].refcnt = entry[dv[r]].refcnt,
         \A e \in Reqs \ {dv[r]} : entry'[e] = entry[e]
  PROVE  IInv'
<1>1. dv[r] \in Reqs /\ pc[r] \in Holding /\ pc[r] \in Owning /\ pc[r] # "suspended"
  BY DEF IInv, TypeOK, Working, Owning, Holding, Locations
<1>2. ~entry[dv[r]].complete
  BY DEF IInv, Requests, RequestInv
<1>3. ASSUME NEW q \in Reqs \ {r}, dv[q] = dv[r]
      PROVE  pc[q] \notin Owning /\ pc[q] \notin {"exists", "retire", "retire2"}
  <2>1. pc[q] \notin Owning
    BY <1>1, <1>2, <1>3 DEF IInv, Pairs, PairInv
  <2>2. pc[q] \notin {"exists", "retire", "retire2"}
    BY <1>2, <1>3 DEF IInv, Requests, RequestInv
  <2> QED
    BY <2>1, <2>2
<1>4. \A q \in Reqs \ {r} : dv[r] = q => pc[q] \notin Early
  BY DEF IInv, Pairs, PairInv
<1>5. EntryRefs'
  <2>1. \A q \in Reqs \ {r} : dv'[q] = dv[q] /\ (pc'[q] \in Holding <=> pc[q] \in Holding)
    BY DEF Alone
  <2>2. entry' \in [Reqs -> Entry] /\ \A e \in Reqs : entry'[e].refcnt = entry[e].refcnt
    BY DEF TypeOK
  <2> QED
    BY <1>1, <2>1, <2>2, RefsStep
<1>6. QueueInv'
  BY QueueKept DEF IInv, Alone
<1>7. Requests'
  <2>1. ASSUME NEW q \in Reqs \ {r} PROVE RequestInv(q)'
    <3>1. pc'[q] = pc[q] /\ dv'[q] = dv[q] /\ rc'[q] = rc[q] /\ RequestInv(q) /\ dv[q] \in Reqs
      BY DEF Alone, IInv, Requests, TypeOK
    <3>2. pc[q] \in Early => entry'[q] = entry[q]
      BY <1>4
    <3>3. pc[q] \in Owning \cup {"exists", "retire", "retire2"} => entry'[dv[q]] = entry[dv[q]]
      BY <1>3, <3>1
    <3> QED
      BY <3>1, <3>2, <3>3, RequestKept
  <2> QED
    BY <2>1 DEF Requests
<1>8. Entries'
  <2>1. ASSUME NEW e \in Reqs \ {dv[r]} PROVE EntryInv(e)'
    <3>1. \A d \in Reqs : pc[d] = "suspended" /\ dv[d] = e => pc'[d] = "suspended" /\ dv'[d] = e
      BY <1>1 DEF Alone
    <3> QED
      BY <3>1, EntryKept DEF IInv, Entries
  <2> QED
    BY <2>1 DEF Entries
<1>9. Pairs'
  <2>1. \A q \in Reqs \ {r} : dv[q] \in Reqs
    BY DEF IInv, TypeOK
  <2>2. \A q \in Reqs \ {r} : pc[q] \in Owning /\ entry[dv[q]].complete => entry'[dv[q]].complete
    BY <1>2, <2>1
  <2> QED
    BY <1>3, <1>4, <2>2, PairsStep
<1> QED
  BY <1>5, <1>6, <1>7, <1>8, <1>9 DEF IInv

\* The service function executes the call.
LEMMA ExecuteInv ==
  ASSUME IInv, NEW r \in Reqs, Execute(r)
  PROVE  IInv'
<1> DEFINE e == dv[r]
           s == [entry[e] EXCEPT !.ran = TRUE]
<1>1. /\ pc[r] = "process" /\ pc'[r] = "send"
      /\ pc' \in [Reqs -> Locations] /\ \A q \in Reqs \ {r} : pc'[q] = pc[q]
  BY TransitionStep DEF IInv, Execute, Locations
<1>2. UNCHANGED <<dv, rc, cnt, pick, tree, dupreqQ, drc, xprt, xpU2, leaked>>
  BY DEF Execute
<1>3. e \in Reqs /\ entry[e] \in Entry /\ RequestInv(r) /\ EntryInv(e) /\ rc[r] \in Results
  BY DEF IInv, TypeOK, Requests, Entries
<1>4. /\ s \in Entry
      /\ s.refcnt = entry[e].refcnt /\ s.complete = entry[e].complete /\ s.rc = entry[e].rc
      /\ s.dupes = entry[e].dupes /\ s.ran = TRUE
  BY <1>3 DEF Entry
<1>5. entry' = [entry EXCEPT ![e] = s]
  BY DEF Execute
<1> HIDE DEF s
<1>6. /\ entry' \in [Reqs -> Entry] /\ entry'[e] = s
      /\ \A x \in Reqs \ {e} : entry'[x] = entry[x]
  BY <1>3, <1>4, <1>5, EntryField DEF IInv
<1>7. TypeOK'
  <2>1. executed' \in [Keys -> Nat]
    <3>1. /\ executed' = [executed EXCEPT ![Key[r]] = executed[Key[r]] + 1]
          /\ executed \in [Keys -> Nat] /\ Key[r] \in Keys
      BY DupReqAssumption DEF Execute, IInv, TypeOK
    <3> QED
      BY <3>1, SMT
  <2> QED
    BY <1>1, <1>2, <1>6, <2>1 DEF IInv, TypeOK
<1>8. DrcInv'
  BY <1>1, <1>2, DrcKept DEF InCall, Holding, Locations
<1>9. RequestInv(r)'
  BY <1>1, <1>2, <1>3, <1>4, <1>6 DEF RequestInv, Locations, Holding, InCall, Early, Owning, Working
<1>10. EntryInv(e)'
  <2>1. Range(entry[e].dupes) \subseteq Reqs \ {r} /\ dv' = dv
    BY <1>1, <1>2, <1>3, DupesIn DEF EntryInv, IInv
  <2> QED
    BY <1>1, <1>3, <1>4, <1>6, <2>1, SMT DEF EntryInv
<1>11. Alone(r)
  BY <1>1, <1>2 DEF Alone
<1>12. pc[r] \in Working /\ pc[r] # "delete3" /\ pc'[r] \in Holding /\ pc'[r] \notin Early
  BY <1>1 DEF Locations, Holding, InCall, Early, Owning, Working
<1> QED
  BY <1>2, <1>4, <1>6, <1>7, <1>8, <1>9, <1>10, <1>11, <1>12, WorkInv

\* nfs_dupreq_finish, with duplicates to send the reply instead.
LEMMA FinishDiedInv ==
  ASSUME IInv, NEW r \in Reqs, FinishDied(r)
  PROVE  IInv'
<1> DEFINE e == dv[r]
           s == [entry[e] EXCEPT !.lost = TRUE, !.ran = FALSE]
<1>1. /\ pc[r] = "finish" /\ pc'[r] = "rele"
      /\ pc' \in [Reqs -> Locations] /\ \A q \in Reqs \ {r} : pc'[q] = pc[q]
  BY TransitionStep DEF IInv, FinishDied, Locations
<1>2. UNCHANGED <<dv, rc, cnt, pick, tree, dupreqQ, drc, xprt, xpU2, executed, leaked>>
  BY DEF FinishDied
<1>3. e \in Reqs /\ entry[e] \in Entry /\ RequestInv(r) /\ EntryInv(e) /\ rc[r] \in Results
  BY DEF IInv, TypeOK, Requests, Entries
<1>4. /\ s \in Entry
      /\ s.refcnt = entry[e].refcnt /\ s.complete = entry[e].complete /\ s.rc = entry[e].rc
      /\ s.dupes = entry[e].dupes /\ s.ran = FALSE
  BY <1>3 DEF Entry
<1>5. entry' = [entry EXCEPT ![e] = s]
  BY DEF FinishDied
<1> HIDE DEF s
<1>6. /\ entry' \in [Reqs -> Entry] /\ entry'[e] = s
      /\ \A x \in Reqs \ {e} : entry'[x] = entry[x]
  BY <1>3, <1>4, <1>5, EntryField DEF IInv
<1>7. TypeOK'
  BY <1>1, <1>2, <1>6 DEF IInv, TypeOK
<1>8. DrcInv'
  BY <1>1, <1>2, DrcKept DEF InCall, Holding, Locations
<1>9. RequestInv(r)'
  BY <1>1, <1>2, <1>3, <1>4, <1>6 DEF RequestInv, Locations, Holding, InCall, Early, Owning, Working
<1>10. EntryInv(e)'
  <2>1. Range(entry[e].dupes) \subseteq Reqs \ {r} /\ dv' = dv
    BY <1>1, <1>2, <1>3, DupesIn DEF EntryInv, IInv
  <2> QED
    BY <1>1, <1>3, <1>4, <1>6, <2>1, SMT DEF EntryInv
<1>11. Alone(r)
  BY <1>1, <1>2 DEF Alone
<1>12. pc[r] \in Working /\ pc[r] # "delete3" /\ pc'[r] \in Holding /\ pc'[r] \notin Early
  BY <1>1 DEF Locations, Holding, InCall, Early, Owning, Working
<1> QED
  BY <1>2, <1>4, <1>6, <1>7, <1>8, <1>9, <1>10, <1>11, <1>12, WorkInv

\* nfs_dupreq_finish: the entry is complete.
LEMMA FinishInv ==
  ASSUME IInv, NEW r \in Reqs, Finish(r)
  PROVE  IInv'
<1> DEFINE e == dv[r]
           s == [entry[e] EXCEPT !.complete = TRUE, !.rc = rc[r]]
<1>1. /\ pc[r] = "finish" /\ pc'[r] = "retire"
      /\ pc' \in [Reqs -> Locations] /\ \A q \in Reqs \ {r} : pc'[q] = pc[q]
  BY TransitionStep DEF IInv, Finish, Locations
<1>2. UNCHANGED <<dv, rc, pick, tree, dupreqQ, drc, xprt, xpU2, executed, leaked>>
  BY DEF Finish
<1>3. e \in Reqs /\ entry[e] \in Entry /\ RequestInv(r) /\ EntryInv(e) /\ rc[r] \in Results
  BY DEF IInv, TypeOK, Requests, Entries
<1>4. /\ s \in Entry
      /\ s.refcnt = entry[e].refcnt /\ s.complete = TRUE /\ s.rc = rc[r]
      /\ s.dupes = entry[e].dupes /\ s.ran = entry[e].ran
  BY <1>3 DEF Entry
<1>5. entry' = [entry EXCEPT ![e] = s]
  BY DEF Finish
<1> HIDE DEF s
<1>6. /\ entry' \in [Reqs -> Entry] /\ entry'[e] = s
      /\ \A x \in Reqs \ {e} : entry'[x] = entry[x]
  BY <1>3, <1>4, <1>5, EntryField DEF IInv
<1>7. TypeOK'
  <2>1. cnt' \in [Reqs -> Nat]
    BY DEF Finish, IInv, TypeOK
  <2> QED
    BY <1>1, <1>2, <1>6, <2>1 DEF IInv, TypeOK
<1>8. DrcInv'
  BY <1>1, <1>2, DrcKept DEF InCall, Holding, Locations
<1>9. RequestInv(r)'
  BY <1>1, <1>2, <1>3, <1>4, <1>6 DEF RequestInv, Locations, Holding, InCall, Early, Owning, Working
<1>10. EntryInv(e)'
  <2>1. Range(entry[e].dupes) \subseteq Reqs \ {r} /\ dv' = dv
    BY <1>1, <1>2, <1>3, DupesIn DEF EntryInv, IInv
  <2>2. rc[r] # "DROP" /\ (rc[r] = "XPRT_DIED" => entry[e].dupes = <<>>)
    BY <1>1, <1>3 DEF RequestInv, Finish
  <2> QED
    BY <1>1, <1>3, <1>4, <1>6, <2>1, <2>2, SMT DEF EntryInv
<1>11. Alone(r)
  BY <1>1, <1>2 DEF Alone
<1>12. pc[r] \in Working /\ pc[r] # "delete3" /\ pc'[r] \in Holding /\ pc'[r] \notin Early
  BY <1>1 DEF Locations, Holding, InCall, Early, Owning, Working
<1> QED
  BY <1>2, <1>4, <1>6, <1>7, <1>8, <1>9, <1>10, <1>11, <1>12, WorkInv

\* nfs_dupreq_delete: the result is recorded for the duplicates.
LEMMA DeleteCheckInv ==
  ASSUME IInv, NEW r \in Reqs, DeleteCheck(r)
  PROVE  IInv'
<1> DEFINE e == dv[r]
           s == [entry[e] EXCEPT !.rc = IF entry[dv[r]].dupes # <<>> THEN rc[r] ELSE @]
<1>1. /\ pc[r] = "delete" /\ pc'[r] \in {"rele", "delete2"}
      /\ pc' \in [Reqs -> Locations] /\ \A q \in Reqs \ {r} : pc'[q] = pc[q]
  <2>1. PICK to \in {"rele", "delete2"} : Transition(r, "delete", to)
    BY DEF DeleteCheck
  <2> QED
    BY <2>1, TransitionStep DEF IInv, Locations
<1>2. UNCHANGED <<dv, rc, cnt, pick, tree, dupreqQ, drc, xprt, xpU2, executed, leaked>>
  BY DEF DeleteCheck
<1>3. e \in Reqs /\ entry[e] \in Entry /\ RequestInv(r) /\ EntryInv(e) /\ rc[r] \in Results
  BY DEF IInv, TypeOK, Requests, Entries
<1>4. /\ s \in Entry
      /\ s.refcnt = entry[e].refcnt /\ s.complete = entry[e].complete /\ s.dupes = entry[e].dupes
      /\ s.ran = entry[e].ran
      /\ s.rc \in {"DROP", entry[e].rc}
  BY <1>1, <1>3 DEF Entry, RequestInv
<1>5. entry' = [entry EXCEPT ![e] = s]
  BY DEF DeleteCheck
<1> HIDE DEF s
<1>6. /\ entry' \in [Reqs -> Entry] /\ entry'[e] = s
      /\ \A x \in Reqs \ {e} : entry'[x] = entry[x]
  BY <1>3, <1>4, <1>5, EntryField DEF IInv
<1>7. TypeOK'
  BY <1>1, <1>2, <1>6 DEF IInv, TypeOK
<1>8. DrcInv'
  BY <1>1, <1>2, DrcKept DEF InCall, Holding, Locations
<1>9. RequestInv(r)'
  BY <1>1, <1>2, <1>3, <1>4, <1>6 DEF RequestInv, Locations, Holding, InCall, Early, Owning, Working
<1>10. EntryInv(e)'
  <2>1. Range(entry[e].dupes) \subseteq Reqs \ {r} /\ dv' = dv
    BY <1>1, <1>2, <1>3, DupesIn DEF EntryInv, IInv
  <2>2. ~entry[e].complete
    BY <1>1, <1>3 DEF RequestInv, Working
  <2> QED
    BY <1>1, <1>3, <1>4, <1>6, <2>1, <2>2 DEF EntryInv
<1>11. Alone(r)
  BY <1>1, <1>2 DEF Alone
<1>12. pc[r] \in Working /\ pc[r] # "delete3" /\ pc'[r] \in Holding /\ pc'[r] \notin Early
  BY <1>1 DEF Locations, Holding, InCall, Early, Owning, Working
<1> QED
  BY <1>2, <1>4, <1>6, <1>7, <1>8, <1>9, <1>10, <1>11, <1>12, WorkInv

-----------------------------------------------------------------------------
(***************************************************************************)
(* The steps that look an entry up                                         *)
(***************************************************************************)

\* A call finds an entry and takes part in it, or is dropped: what the entry
\* says about the call stays.
LEMMA FoundInv ==
  ASSUME IInv, NEW r \in Reqs, NEW e \in Cached(Key[r]),
         TypeOK', EntryRefs', DrcInv', RequestInv(r)', EntryInv(e)', Alone(r),
         tree' = tree, dupreqQ' = dupreqQ, xpU2' = xpU2,
         pc[r] = "lookup", pc'[r] \in {"suspended", "exists", "done"}, dv'[r] \in {r, e},
         \A x \in Reqs \ {e} : entry'[x] = entry[x],
         entry'[e].complete = entry[e].complete, entry'[e].ran = entry[e].ran,
         entry'[e].rc = entry[e].rc
  PROVE  IInv'
<1>1. /\ \A x \in Reqs : /\ entry'[x].complete = entry[x].complete
                         /\ entry'[x].ran = entry[x].ran /\ entry'[x].rc = entry[x].rc
      /\ e \in tree
  BY DEF Cached
<1>2. QueueInv'
  BY QueueKept DEF IInv, Alone
<1>3. Requests'
  <2>1. ASSUME NEW q \in Reqs, q # r PROVE RequestInv(q)'
    <3>1. pc'[q] = pc[q] /\ dv'[q] = dv[q] /\ rc'[q] = rc[q] /\ RequestInv(q) /\ dv[q] \in Reqs
      BY <2>1 DEF Alone, IInv, Requests, TypeOK
    <3> QED
      BY <1>1, <3>1, RequestKept
  <2> QED
    BY <2>1 DEF Requests
<1>4. Entries'
  <2>1. ASSUME NEW x \in Reqs \ {e} PROVE EntryInv(x)'
    <3>1. \A d \in Reqs : pc[d] = "suspended" /\ dv[d] = x => pc'[d] = "suspended" /\ dv'[d] = x
      BY DEF Alone
    <3> QED
      BY <3>1, EntryKept DEF IInv, Entries
  <2> QED
    BY <2>1 DEF Entries
<1>5. Pairs'
  <2>1. \A q \in Reqs \ {r} : dv'[r] = q => pc[q] \notin Early
    BY <1>1, SMT DEF IInv, Requests, RequestInv
  <2>2. pc'[r] \notin Early /\ pc'[r] \notin Owning
    BY DEF Early, Owning, Working
  <2>3. \A q \in Reqs \ {r} : dv[q] \in Reqs
    BY DEF IInv, TypeOK
  <2> QED
    BY <1>1, <2>1, <2>2, <2>3, PairsStep
<1> QED
  BY <1>2, <1>3, <1>4, <1>5 DEF IInv

\* drc_inc_retwnd changes the window alone.
LEMMA IncKept ==
  ASSUME drc \in Drc
  PROVE  /\ IncRetwnd(drc) \in Drc /\ IncRetwnd(drc).refcnt = drc.refcnt
         /\ IncRetwnd(drc).live = drc.live /\ IncRetwnd(drc).recycle = drc.recycle
<1>1. RetwndBias \in Nat
  BY DupReqAssumption
<1> DEFINE w == IF drc.retwnd = 0 THEN RetwndBias
                ELSE IF drc.retwnd < MaxSize THEN drc.retwnd + 2 ELSE drc.retwnd
<1>2. w \in Nat
  BY <1>1, SMT DEF Drc
<1>3. IncRetwnd(drc) = [drc EXCEPT !.retwnd = w]
  BY DEF IncRetwnd
<1> HIDE DEF w
<1> QED
  BY <1>2, <1>3 DEF Drc

\* nfs_dupreq_start: the duplicate is queued.
LEMMA LookupBusyInv ==
  ASSUME IInv, NEW r \in Reqs, LookupBusy(r)
  PROVE  IInv'
<1> PICK e \in Cached(Key[r]) :
      /\ ~entry[e].complete /\ entry[e].dupe_cnt + 1 <= MaxDupes
      /\ Transition(r, "lookup", "suspended")
      /\ dv' = [dv EXCEPT ![r] = e] /\ drc' = IncRetwnd(drc)
      /\ entry' = [entry EXCEPT ![e].dupe_cnt = @ + 1, ![e].refcnt = @ + 1, ![e].dupes = Append(@, r)]
      /\ UNCHANGED <<rc, cnt, pick, tree, dupreqQ, xprt, xpU2, executed, leaked>>
  BY DEF LookupBusy
<1> DEFINE s == [entry[e] EXCEPT !.dupe_cnt = entry[e].dupe_cnt + 1, !.refcnt = entry[e].refcnt + 1, !.dupes = Append(entry[e].dupes, r)]
<1>1. /\ pc[r] = "lookup" /\ pc'[r] = "suspended"
      /\ pc' \in [Reqs -> Locations] /\ \A q \in Reqs \ {r} : pc'[q] = pc[q]
  BY TransitionStep DEF IInv, Locations
<1>2. UNCHANGED <<rc, cnt, pick, tree, dupreqQ, xprt, xpU2, executed, leaked>>
      /\ dv' = [dv EXCEPT ![r] = e] /\ drc' = IncRetwnd(drc)
  OBVIOUS
<1>3. e \in Reqs /\ e \in tree /\ entry[e] \in Entry /\ RequestInv(r) /\ EntryInv(e) /\ dv \in [Reqs -> Reqs]
  BY DEF Cached, IInv, TypeOK, Requests, Entries
<1>4. /\ s \in Entry
      /\ s.refcnt = entry[e].refcnt + 1 /\ s.complete = entry[e].complete /\ s.rc = entry[e].rc
      /\ s.ran = entry[e].ran /\ s.dupes = Append(entry[e].dupes, r)
  <2>1. /\ entry[e].dupe_cnt + 1 \in Nat /\ entry[e].refcnt + 1 \in Int
        /\ Append(entry[e].dupes, r) \in Seq(Reqs)
    BY <1>3, SMT DEF Entry
  <2> QED
    BY <1>3, <2>1 DEF Entry
<1>5. entry' = [entry EXCEPT ![e] = s]
  OBVIOUS
<1> HIDE DEF s
<1>6. /\ entry' \in [Reqs -> Entry] /\ entry'[e] = s
      /\ \A x \in Reqs \ {e} : entry'[x] = entry[x]
  BY <1>3, <1>4, <1>5, EntryField DEF IInv
<1>7. TypeOK'
  <2>1. dv' \in [Reqs -> Reqs] /\ drc' \in Drc
    BY <1>2, <1>3, IncKept, SMT DEF IInv, TypeOK
  <2> QED
    BY <1>1, <1>2, <1>6, <2>1 DEF IInv, TypeOK
<1>8. dv'[r] = e /\ dv[r] = r /\ \A q \in Reqs \ {r} : dv'[q] = dv[q] /\ rc'[q] = rc[q]
  BY <1>1, <1>2, <1>3 DEF RequestInv, Holding
<1>9. EntryRefs'
  <2>1. /\ Bit(dv'[r] = e /\ pc'[r] \in Holding) = 1
        /\ Bit(dv[r] = e /\ pc[r] \in Holding) = 0
        /\ \A x \in Reqs \ {e} : Bit(dv'[r] = x /\ pc'[r] \in Holding) = 0
        /\ \A x \in Reqs \ {e} : Bit(dv[r] = x /\ pc[r] \in Holding) = 0
    BY <1>1, <1>8 DEF Bit, Holding, Locations
  <2>2. \A q \in Reqs \ {r} : pc'[q] \in Holding <=> pc[q] \in Holding
    BY <1>1
  <2>3. tree' = tree /\ entry[e].refcnt \in Int
    BY <1>2, <1>3 DEF Entry
  <2> QED
    BY <1>4, <1>6, <1>8, <2>1, <2>2, <2>3, RefsStep, SMTT(30)
<1>10. DrcInv'
  <2>1. drc \in Drc
    BY DEF IInv, TypeOK
  <2> QED
    BY <1>1, <1>2, <2>1, IncKept, DrcKept DEF InCall, Holding, Locations
<1>11. RequestInv(r)'
  BY <1>1, <1>2, <1>3, <1>4, <1>6, <1>8 DEF RequestInv, Locations, Holding, InCall, Early, Owning, Working
<1>12. EntryInv(e)'
  <2>1. /\ entry[e].dupes \in Seq(Reqs) /\ Distinct(entry[e].dupes)
        /\ r \notin Range(entry[e].dupes) /\ Range(entry[e].dupes) \subseteq Reqs
    BY <1>1, <1>3, DupesIn DEF EntryInv, IInv
  <2>2. /\ Distinct(Append(entry[e].dupes, r))
        /\ Range(Append(entry[e].dupes, r)) = Range(entry[e].dupes) \cup {r}
    BY <2>1, AppendList, SMT
  <2>3. ~entry[e].complete
    OBVIOUS
  <2> QED
    BY <1>1, <1>3, <1>4, <1>6, <1>8, <2>1, <2>2, <2>3, SMTT(30) DEF EntryInv
<1>13. Alone(r)
  BY <1>1, <1>8 DEF Alone
<1> QED
  BY <1>1, <1>2, <1>4, <1>6, <1>7, <1>8, <1>9, <1>10, <1>11, <1>12, <1>13, FoundInv

\* nfs_dupreq_start: too many duplicates are queued.
LEMMA LookupDropInv ==
  ASSUME IInv, NEW r \in Reqs, LookupDrop(r)
  PROVE  IInv'
<1> PICK e \in Cached(Key[r]) :
      /\ ~entry[e].complete /\ entry[e].dupe_cnt + 1 > MaxDupes
      /\ Transition(r, "lookup", "done")
      /\ leaked' = leaked + 1
      /\ entry' = [entry EXCEPT ![e].dupe_cnt = @ + 1]
      /\ UNCHANGED <<dv, rc, cnt, pick, tree, dupreqQ, drc, xprt, xpU2, executed>>
  BY DEF LookupDrop
<1> DEFINE s == [entry[e] EXCEPT !.dupe_cnt = entry[e].dupe_cnt + 1]
<1>1. /\ pc[r] = "lookup" /\ pc'[r] = "done"
      /\ pc' \in [Reqs -> Locations] /\ \A q \in Reqs \ {r} : pc'[q] = pc[q]
  BY TransitionStep DEF IInv, Locations
<1>2. UNCHANGED <<dv, rc, cnt, pick, tree, dupreqQ, drc, xprt, xpU2, executed>>
      /\ leaked' = leaked + 1
  OBVIOUS
<1>3. e \in Reqs /\ e \in tree /\ entry[e] \in Entry /\ RequestInv(r) /\ EntryInv(e) /\ dv \in [Reqs -> Reqs]
  BY DEF Cached, IInv, TypeOK, Requests, Entries
<1>4. /\ s \in Entry
      /\ s.refcnt = entry[e].refcnt /\ s.complete = entry[e].complete /\ s.rc = entry[e].rc
      /\ s.ran = entry[e].ran /\ s.dupes = entry[e].dupes
  <2>1. /\ entry[e].dupe_cnt + 1 \in Nat /\ entry[e].refcnt + 1 \in Int
        /\ Append(entry[e].dupes, r) \in Seq(Reqs)
    BY <1>3, SMT DEF Entry
  <2> QED
    BY <1>3, <2>1 DEF Entry
<1>5. entry' = [entry EXCEPT ![e] = s]
  OBVIOUS
<1> HIDE DEF s
<1>6. /\ entry' \in [Reqs -> Entry] /\ entry'[e] = s
      /\ \A x \in Reqs \ {e} : entry'[x] = entry[x]
  BY <1>3, <1>4, <1>5, EntryField DEF IInv
<1>7. TypeOK'
  <2>1. leaked' \in Nat
    BY <1>2, SMT DEF IInv, TypeOK
  <2> QED
    BY <1>1, <1>2, <1>6, <2>1 DEF IInv, TypeOK
<1>8. dv'[r] = r /\ dv[r] = r /\ \A q \in Reqs \ {r} : dv'[q] = dv[q] /\ rc'[q] = rc[q]
  BY <1>1, <1>2, <1>3 DEF RequestInv, Holding
<1>9. EntryRefs'
  <2>1. \A x \in Reqs : /\ Bit(dv'[r] = x /\ pc'[r] \in Holding) = 0
                        /\ Bit(dv[r] = x /\ pc[r] \in Holding) = 0
    BY <1>1, <1>8 DEF Bit, Holding, Locations
  <2>2. \A q \in Reqs \ {r} : pc'[q] \in Holding <=> pc[q] \in Holding
    BY <1>1
  <2>3. tree' = tree /\ entry[e].refcnt \in Int
    BY <1>2, <1>3 DEF Entry
  <2> QED
    BY <1>4, <1>6, <1>8, <2>1, <2>2, <2>3, RefsStep, SMTT(30)
<1>10. DrcInv'
  <2>1. Cardinality(Calls') = Cardinality(Calls) - 1 /\ Cardinality(Calls') \in Int
    BY <1>1, CallsStep, SMT DEF Bit, InCall, Holding, Locations
  <2> QED
    BY <1>2, <2>1, DrcBy, SMT DEF IInv, DrcInv
<1>11. RequestInv(r)'
  BY <1>1, <1>2, <1>3, <1>4, <1>6, <1>8 DEF RequestInv, Locations, Holding, InCall, Early, Owning, Working
<1>12. EntryInv(e)'
  <2>1. \A d \in Reqs : pc[d] = "suspended" /\ dv[d] = e => pc'[d] = "suspended" /\ dv'[d] = e
    BY <1>1, <1>8
  <2> QED
    BY <1>3, <1>4, <1>6, <2>1, EntryKept DEF IInv
<1>13. Alone(r)
  BY <1>1, <1>8 DEF Alone
<1> QED
  BY <1>1, <1>2, <1>4, <1>6, <1>7, <1>8, <1>9, <1>10, <1>11, <1>12, <1>13, FoundInv

\* nfs_dupreq_start: the call was completed.
LEMMA LookupHitInv ==
  ASSUME IInv, NEW r \in Reqs, LookupHit(r)
  PROVE  IInv'
<1> PICK e \in Cached(Key[r]) :
      /\ entry[e].complete
      /\ Transition(r, "lookup", "exists")
      /\ dv' = [dv EXCEPT ![r] = e] /\ drc' = IncRetwnd(drc)
      /\ entry' = [entry EXCEPT ![e].dupe_cnt = @ + 1, ![e].refcnt = @ + 1]
      /\ UNCHANGED <<rc, cnt, pick, tree, dupreqQ, xprt, xpU2, executed, leaked>>
  BY DEF LookupHit
<1> DEFINE s == [entry[e] EXCEPT !.dupe_cnt = entry[e].dupe_cnt + 1, !.refcnt = entry[e].refcnt + 1]
<1>1. /\ pc[r] = "lookup" /\ pc'[r] = "exists"
      /\ pc' \in [Reqs -> Locations] /\ \A q \in Reqs \ {r} : pc'[q] = pc[q]
  BY TransitionStep DEF IInv, Locations
<1>2. UNCHANGED <<rc, cnt, pick, tree, dupreqQ, xprt, xpU2, executed, leaked>>
      /\ dv' = [dv EXCEPT ![r] = e] /\ drc' = IncRetwnd(drc)
  OBVIOUS
<1>3. e \in Reqs /\ e \in tree /\ entry[e] \in Entry /\ RequestInv(r) /\ EntryInv(e) /\ dv \in [Reqs -> Reqs]
  BY DEF Cached, IInv, TypeOK, Requests, Entries
<1>4. /\ s \in Entry
      /\ s.refcnt = entry[e].refcnt + 1 /\ s.complete = entry[e].complete /\ s.rc = entry[e].rc
      /\ s.ran = entry[e].ran /\ s.dupes = entry[e].dupes
  <2>1. /\ entry[e].dupe_cnt + 1 \in Nat /\ entry[e].refcnt + 1 \in Int
        /\ Append(entry[e].dupes, r) \in Seq(Reqs)
    BY <1>3, SMT DEF Entry
  <2> QED
    BY <1>3, <2>1 DEF Entry
<1>5. entry' = [entry EXCEPT ![e] = s]
  OBVIOUS
<1> HIDE DEF s
<1>6. /\ entry' \in [Reqs -> Entry] /\ entry'[e] = s
      /\ \A x \in Reqs \ {e} : entry'[x] = entry[x]
  BY <1>3, <1>4, <1>5, EntryField DEF IInv
<1>7. TypeOK'
  <2>1. dv' \in [Reqs -> Reqs] /\ drc' \in Drc
    BY <1>2, <1>3, IncKept, SMT DEF IInv, TypeOK
  <2> QED
    BY <1>1, <1>2, <1>6, <2>1 DEF IInv, TypeOK
<1>8. dv'[r] = e /\ dv[r] = r /\ \A q \in Reqs \ {r} : dv'[q] = dv[q] /\ rc'[q] = rc[q]
  BY <1>1, <1>2, <1>3, SMT DEF RequestInv, Holding
<1>9. EntryRefs'
  <2>1. /\ Bit(dv'[r] = e /\ pc'[r] \in Holding) = 1
        /\ Bit(dv[r] = e /\ pc[r] \in Holding) = 0
        /\ \A x \in Reqs \ {e} : Bit(dv'[r] = x /\ pc'[r] \in Holding) = 0
        /\ \A x \in Reqs \ {e} : Bit(dv[r] = x /\ pc[r] \in Holding) = 0
    BY <1>1, <1>8 DEF Bit, Holding, Locations
  <2>2. \A q \in Reqs \ {r} : pc'[q] \in Holding <=> pc[q] \in Holding
    BY <1>1
  <2>3. tree' = tree /\ entry[e].refcnt \in Int
    BY <1>2, <1>3 DEF Entry
  <2> QED
    BY <1>4, <1>6, <1>8, <2>1, <2>2, <2>3, RefsStep, SMTT(30)
<1>10. DrcInv'
  <2>1. drc \in Drc
    BY DEF IInv, TypeOK
  <2> QED
    BY <1>1, <1>2, <2>1, IncKept, DrcKept DEF InCall, Holding, Locations
<1>11. RequestInv(r)'
  BY <1>1, <1>2, <1>3, <1>4, <1>6, <1>8 DEF RequestInv, Locations, Holding, InCall, Early, Owning, Working
<1>12. EntryInv(e)'
  <2>1. \A d \in Reqs : pc[d] = "suspended" /\ dv[d] = e => pc'[d] = "suspended" /\ dv'[d] = e
    BY <1>1, <1>8
  <2> QED
    BY <1>3, <1>4, <1>6, <2>1, EntryKept DEF IInv
<1>13. Alone(r)
  BY <1>1, <1>8 DEF Alone
<1> QED
  BY <1>1, <1>2, <1>4, <1>6, <1>7, <1>8, <1>9, <1>10, <1>11, <1>12, <1>13, FoundInv, SMTT(30)

-----------------------------------------------------------------------------
(***************************************************************************)
(* The steps that put entries into the cache and take them out             *)
(***************************************************************************)

\* An entry nobody holds, and that is not in the table, has no references.
LEMMA Unheld ==
  ASSUME IInv, NEW e \in Reqs, e \notin tree, \A r \in Reqs : dv[r] = e => pc[r] \notin Holding
  PROVE  entry[e].refcnt = 0
<1>1. Holders(e) = {}
  BY DEF Holders
<1>2. Cardinality(Holders(e)) = 0
  BY <1>1, FS_EmptySet
<1>3. entry[e].refcnt = Cardinality(Holders(e)) + 0
  BY DEF IInv, EntryRefs
<1> QED
  BY <1>2, <1>3, SMT

\* nfs_dupreq_start: a new entry.
LEMMA LookupMissInv ==
  ASSUME IInv, NEW r \in Reqs, LookupMiss(r)
  PROVE  IInv'
<1> DEFINE s == [NewEntry EXCEPT !.refcnt = 2]
<1>1. /\ pc[r] = "lookup" /\ pc'[r] = "process"
      /\ pc' \in [Reqs -> Locations] /\ \A q \in Reqs \ {r} : pc'[q] = pc[q]
  BY TransitionStep DEF IInv, LookupMiss, Locations
<1>2. /\ UNCHANGED <<rc, cnt, pick, drc, xprt, xpU2, executed, leaked>>
      /\ dv' = [dv EXCEPT ![r] = r] /\ entry' = [entry EXCEPT ![r] = s]
      /\ tree' = tree \cup {r} /\ dupreqQ' = Append(dupreqQ, r)
      /\ \A e \in tree : Key[e] # Key[r]
  BY DEF LookupMiss, Cached
<1>3. /\ s \in Entry /\ s.refcnt = 2 /\ ~s.complete /\ ~s.ran /\ s.rc = "OK" /\ s.dupes = <<>>
  <2>1. <<>> \in Seq(Reqs) /\ 0 \in Nat /\ 2 \in Int
    BY EmptyList, SMT
  <2> QED
    BY <2>1 DEF NewEntry, Entry, Results
<1> HIDE DEF s
<1>4. /\ entry' \in [Reqs -> Entry] /\ entry'[r] = s
      /\ \A x \in Reqs \ {r} : entry'[x] = entry[x]
  BY <1>2, <1>3, EntryField DEF IInv
<1>5. /\ dv' \in [Reqs -> Reqs] /\ dv'[r] = r /\ dv[r] = r /\ r \notin tree
      /\ \A q \in Reqs \ {r} : dv'[q] = dv[q] /\ dv[q] # r /\ dv[q] \in Reqs
  <2>1. dv \in [Reqs -> Reqs] /\ RequestInv(r) /\ \A q \in Reqs \ {r} : PairInv(r, q)
    BY DEF IInv, TypeOK, Requests, Pairs
  <2> QED
    BY <1>1, <1>2, <2>1 DEF RequestInv, PairInv, Early, Holding
<1>6. /\ dupreqQ' \in Seq(Reqs) /\ Distinct(dupreqQ') /\ Range(dupreqQ') = Range(dupreqQ) \cup {r}
  <2>1. dupreqQ \in Seq(Reqs) /\ Distinct(dupreqQ) /\ r \notin Range(dupreqQ)
    BY <1>5 DEF IInv, TypeOK, QueueInv
  <2> QED
    BY <1>2, <2>1, AppendList
<1>7. TypeOK'
  <2>1. tree' \in SUBSET Reqs
    BY <1>2 DEF IInv, TypeOK
  <2> QED
    BY <1>1, <1>2, <1>4, <1>5, <1>6, <2>1 DEF IInv, TypeOK
<1>8. EntryRefs'
  <2>1. entry[r].refcnt = 0
    BY <1>1, <1>5, Unheld DEF Holding
  <2>2. /\ Bit(dv'[r] = r /\ pc'[r] \in Holding) = 1 /\ Bit(dv[r] = r /\ pc[r] \in Holding) = 0
        /\ Bit(r \in tree') = 1 /\ Bit(r \in tree) = 0
        /\ \A x \in Reqs \ {r} : /\ Bit(dv'[r] = x /\ pc'[r] \in Holding) = 0
                                 /\ Bit(dv[r] = x /\ pc[r] \in Holding) = 0
                                 /\ Bit(x \in tree') = Bit(x \in tree)
    BY <1>1, <1>2, <1>5 DEF Bit, Holding, Locations
  <2>3. \A q \in Reqs \ {r} : pc'[q] \in Holding <=> pc[q] \in Holding
    BY <1>1
  <2> QED
    BY <1>3, <1>4, <1>5, <2>1, <2>2, <2>3, RefsStep, SMT
<1>9. DrcInv'
  BY <1>1, <1>2, DrcKept DEF InCall, Holding, Locations
<1>10. QueueInv'
  <2>1. \A e \in tree' \ Range(dupreqQ') : \E q \in Reqs : pc'[q] = "delete3" /\ dv'[q] = e
    <3> SUFFICES ASSUME NEW e \in tree' \ Range(dupreqQ')
                 PROVE  \E q \in Reqs : pc'[q] = "delete3" /\ dv'[q] = e
      OBVIOUS
    <3>1. PICK q \in Reqs : pc[q] = "delete3" /\ dv[q] = e
      BY <1>2, <1>6 DEF IInv, QueueInv
    <3> QED
      BY <1>1, <1>5, <3>1
  <2> QED
    BY <1>2, <1>6, <2>1 DEF IInv, QueueInv
<1>11. Requests'
  <2>1. RequestInv(r)'
    BY <1>1, <1>2, <1>3, <1>4, <1>5 DEF IInv, Requests, RequestInv, Locations, Holding, InCall, Early, Working
  <2>2. ASSUME NEW q \in Reqs \ {r} PROVE RequestInv(q)'
    <3>1. q \in tree' => q \in tree
      BY <1>2
    <3>2. dv[q] \in tree \ Range(dupreqQ) => dv[q] \in tree' \ Range(dupreqQ')
      BY <1>2, <1>5, <1>6
    <3>3. RequestInv(q)
      BY DEF IInv, Requests
    <3> QED
      BY <1>1, <1>2, <1>4, <1>5, <3>1, <3>2, <3>3, RequestKept
  <2> QED
    BY <2>1, <2>2 DEF Requests
<1>12. Entries'
  <2>1. EntryInv(r)'
    BY <1>3, <1>4, EmptyList DEF EntryInv
  <2>2. ASSUME NEW e \in Reqs \ {r} PROVE EntryInv(e)'
    <3>1. \A d \in Reqs : pc[d] = "suspended" /\ dv[d] = e => pc'[d] = "suspended" /\ dv'[d] = e
      BY <1>1, <1>5
    <3> QED
      BY <1>4, <3>1, EntryKept DEF IInv, Entries
  <2> QED
    BY <2>1, <2>2 DEF Entries
<1>13. Pairs'
  <2>1. Alone(r) /\ pc'[r] \notin Early
    BY <1>1, <1>2, <1>5 DEF Alone, Early
  <2> QED
    BY <1>4, <1>5, <2>1, PairsStep
<1> QED
  BY <1>7, <1>8, <1>9, <1>10, <1>11, <1>12, <1>13 DEF IInv

\* dupreq_entry_put: the last reference frees the entry.
LEMMA PutFields ==
  ASSUME NEW x \in Entry
  PROVE  /\ Put(x) \in Entry /\ Put(x).refcnt = x.refcnt - 1 /\ Put(x).ran = x.ran
         /\ x.refcnt # 1 => /\ Put(x).complete = x.complete
                            /\ Put(x).rc = x.rc /\ Put(x).dupes = x.dupes
         /\ x.refcnt = 1 => /\ ~Put(x).complete /\ Put(x).rc = "OK" /\ Put(x).dupes = <<>>
<1>1. CASE x.refcnt = 1
  <2>1. Put(x) = [NewEntry EXCEPT !.ran = x.ran]
    BY <1>1 DEF Put
  <2>2. <<>> \in Seq(Reqs) /\ 0 \in Nat /\ 0 \in Int /\ 0 = x.refcnt - 1 /\ x.ran \in BOOLEAN
    BY <1>1, EmptyList, SMT DEF Entry
  <2> QED
    BY <1>1, <2>1, <2>2 DEF NewEntry, Entry, Results
<1>2. CASE x.refcnt # 1
  <2>1. Put(x) = [x EXCEPT !.refcnt = x.refcnt - 1] /\ x.refcnt - 1 \in Int
    BY <1>2, SMT DEF Put, Entry
  <2> QED
    BY <1>2, <2>1 DEF Entry
<1> QED
  BY <1>1, <1>2

\* A reference on an entry is put: who uses the entry finds it as it was, for
\* it has another reference.
LEMMA PutStep ==
  ASSUME IInv, NEW e \in Reqs, entry' = [entry EXCEPT ![e] = Put(entry[e])],
         e \in tree \/ \E r \in Reqs : dv[r] = e /\ pc[r] \in Holding
  PROVE  /\ entry' \in [Reqs -> Entry] /\ entry'[e].refcnt = entry[e].refcnt - 1
         /\ \A x \in Reqs \ {e} : entry'[x] = entry[x]
         /\ \A x \in Reqs : entry'[x].ran = entry[x].ran
         /\ \A x \in Reqs :
              \/ /\ entry'[x].complete = entry[x].complete
                 /\ entry'[x].rc = entry[x].rc /\ entry'[x].dupes = entry[x].dupes
              \/ /\ ~entry'[x].complete /\ entry'[x].rc = "OK" /\ entry'[x].dupes = <<>>
         /\ \A q \in Reqs :
              pc[q] \in Holding /\ (\/ dv[q] # e \/ e \in tree
                                    \/ \E r \in Reqs \ {q} : dv[r] = e /\ pc[r] \in Holding) =>
                /\ entry'[dv[q]].complete = entry[dv[q]].complete
                /\ entry'[dv[q]].rc = entry[dv[q]].rc
<1>1. entry[e] \in Entry /\ \A q \in Reqs : dv[q] \in Reqs
  BY DEF IInv, TypeOK
<1>2. /\ Put(entry[e]) \in Entry /\ Put(entry[e]).refcnt = entry[e].refcnt - 1
      /\ Put(entry[e]).ran = entry[e].ran
      /\ entry[e].refcnt # 1 => /\ Put(entry[e]).complete = entry[e].complete
                                /\ Put(entry[e]).rc = entry[e].rc
                                /\ Put(entry[e]).dupes = entry[e].dupes
      /\ entry[e].refcnt = 1 => /\ ~Put(entry[e]).complete /\ Put(entry[e]).rc = "OK"
                                /\ Put(entry[e]).dupes = <<>>
  BY <1>1, PutFields
<1>3. /\ entry' \in [Reqs -> Entry] /\ entry'[e] = Put(entry[e])
      /\ \A x \in Reqs \ {e} : entry'[x] = entry[x]
  BY <1>2, EntryField DEF IInv
<1>4. ASSUME NEW q \in Reqs, pc[q] \in Holding, dv[q] = e,
             e \in tree \/ \E r \in Reqs \ {q} : dv[r] = e /\ pc[r] \in Holding
      PROVE  entry[e].refcnt # 1
  BY <1>4, HeldBy
<1>5. \A x \in Reqs : entry'[x].ran = entry[x].ran
  BY <1>2, <1>3
<1>6. \A x \in Reqs :
        \/ /\ entry'[x].complete = entry[x].complete
           /\ entry'[x].rc = entry[x].rc /\ entry'[x].dupes = entry[x].dupes
        \/ /\ ~entry'[x].complete /\ entry'[x].rc = "OK" /\ entry'[x].dupes = <<>>
  BY <1>2, <1>3
<1>7. ASSUME NEW q \in Reqs, pc[q] \in Holding,
             \/ dv[q] # e \/ e \in tree
             \/ \E r \in Reqs \ {q} : dv[r] = e /\ pc[r] \in Holding
      PROVE  /\ entry'[dv[q]].complete = entry[dv[q]].complete
             /\ entry'[dv[q]].rc = entry[dv[q]].rc
  <2>1. CASE dv[q] = e
    BY <1>2, <1>3, <1>4, <1>7, <2>1
  <2>2. CASE dv[q] # e
    BY <1>1, <1>3, <2>2
  <2> QED
    BY <2>1, <2>2
<1> QED
  BY <1>2, <1>3, <1>5, <1>6, <1>7

\* A request puts the reference of the table, or its own.
LEMMA PutInv ==
  ASSUME IInv, NEW r \in Reqs, NEW e \in Reqs, entry' = [entry EXCEPT ![e] = Put(entry[e])],
         e \in tree \/ dv[r] = e, pc[r] \in Holding,
         TypeOK', EntryRefs', DrcInv', QueueInv', RequestInv(r)', Alone(r),
         xpU2' = xpU2, tree' \subseteq tree,
         \A q \in Reqs \ {r} : pc[q] = "delete3" /\ dv[q] \in tree \ Range(dupreqQ) =>
                                 dv[q] \in tree' \ Range(dupreqQ'),
         pc[r] # "suspended", pc'[r] \notin Early, dv'[r] \in {r, dv[r]},
         pc'[r] \in Owning =>
           /\ dv'[r] = dv[r]
           /\ \/ entry'[dv'[r]].complete
              \/ \A q \in Reqs \ {r} : dv[q] = dv'[r] => pc[q] \notin Owning
  PROVE  IInv'
<1>1. e \in tree \/ \E x \in Reqs : dv[x] = e /\ pc[x] \in Holding
  OBVIOUS
<1>2. /\ \A x \in Reqs : entry'[x].ran = entry[x].ran
      /\ \A x \in Reqs :
           \/ /\ entry'[x].complete = entry[x].complete
              /\ entry'[x].rc = entry[x].rc /\ entry'[x].dupes = entry[x].dupes
           \/ /\ ~entry'[x].complete /\ entry'[x].rc = "OK" /\ entry'[x].dupes = <<>>
  BY <1>1, PutStep
<1>3. ASSUME NEW q \in Reqs, q # r, pc[q] \in Holding
      PROVE  /\ entry'[dv[q]].complete = entry[dv[q]].complete
             /\ entry'[dv[q]].rc = entry[dv[q]].rc
  <2>1. \/ dv[q] # e \/ e \in tree
        \/ \E x \in Reqs \ {q} : dv[x] = e /\ pc[x] \in Holding
    BY <1>3
  <2>2. pc[q] \in Holding /\ (\/ dv[q] # e \/ e \in tree
                              \/ \E x \in Reqs \ {q} : dv[x] = e /\ pc[x] \in Holding) =>
          /\ entry'[dv[q]].complete = entry[dv[q]].complete
          /\ entry'[dv[q]].rc = entry[dv[q]].rc
    BY <1>1, PutStep
  <2> QED
    BY <1>3, <2>1, <2>2
<1>4. \A q \in Reqs \ {r} : /\ pc'[q] = pc[q] /\ dv'[q] = dv[q] /\ rc'[q] = rc[q]
                            /\ RequestInv(q) /\ dv[q] \in Reqs
  BY DEF Alone, IInv, Requests, TypeOK
<1>5. \A l : l \in Owning \cup {"exists", "retire", "retire2"} => l \in Holding
  BY DEF Owning, Working, Holding, Locations
<1>6. Requests'
  <2>1. ASSUME NEW q \in Reqs \ {r} PROVE RequestInv(q)'
    <3>1. q \in tree' => q \in tree
      OBVIOUS
    <3>2. pc[q] \in Owning \cup {"exists", "retire", "retire2"} =>
            /\ entry'[dv[q]].complete = entry[dv[q]].complete
            /\ entry'[dv[q]].ran = entry[dv[q]].ran
            /\ entry'[dv[q]].rc = entry[dv[q]].rc
      BY <1>2, <1>3, <1>4, <1>5
    <3> QED
      BY <1>2, <1>4, <3>1, <3>2, RequestKept
  <2> QED
    BY <2>1 DEF Requests
<1>7. Entries'
  <2>1. ASSUME NEW x \in Reqs PROVE EntryInv(x)'
    <3>1. EntryInv(x)
      BY DEF IInv, Entries
    <3>2. CASE /\ entry'[x].complete = entry[x].complete
               /\ entry'[x].rc = entry[x].rc /\ entry'[x].dupes = entry[x].dupes
      <4>1. \A d \in Reqs : pc[d] = "suspended" /\ dv[d] = x => pc'[d] = "suspended" /\ dv'[d] = x
        BY <1>4
      <4> QED
        BY <3>1, <3>2, <4>1, EntryKept DEF IInv
    <3>3. CASE ~entry'[x].complete /\ entry'[x].rc = "OK" /\ entry'[x].dupes = <<>>
      BY <3>3, EmptyList DEF EntryInv
    <3> QED
      BY <1>2, <3>2, <3>3
  <2> QED
    BY <2>1 DEF Entries
<1>8. Pairs'
  <2>1. \A q \in Reqs \ {r} : dv'[r] = q => pc[q] \notin Early
    BY DEF IInv, Pairs, PairInv
  <2>2. \A q \in Reqs \ {r} : pc[q] \in Owning /\ entry[dv[q]].complete => entry'[dv[q]].complete
    BY <1>3, <1>5
  <2> QED
    BY <2>1, <2>2, PairsStep
<1> QED
  BY <1>6, <1>7, <1>8 DEF IInv

\* drc_should_retire: the first entry of the queue is retired.
LEMMA RetireFirstInv ==
  ASSUME IInv, NEW r \in Reqs, RetireFirst(r)
  PROVE  IInv'
<1> DEFINE e == Head(dupreqQ)
<1>1. /\ pc[r] = "retire2" /\ pc'[r] \in {"retire", "rele"}
      /\ pc' \in [Reqs -> Locations] /\ \A q \in Reqs \ {r} : pc'[q] = pc[q]
  <2>1. PICK to \in {"retire", "rele"} : Transition(r, "retire2", to)
    BY DEF RetireFirst
  <2> QED
    BY <2>1, TransitionStep DEF IInv, Locations
<1>2. /\ UNCHANGED <<dv, rc, drc, xprt, xpU2, executed, leaked>>
      /\ dupreqQ # <<>> /\ dupreqQ' = Tail(dupreqQ) /\ tree' = tree \ {e}
      /\ entry' = [entry EXCEPT ![e] = Put(entry[e])]
      /\ cnt' = [cnt EXCEPT ![r] = @ + 1] /\ pick' = [pick EXCEPT ![r] = Key[r]]
  BY DEF RetireFirst, FirstIs
<1>3. /\ dupreqQ' \in Seq(Reqs) /\ Distinct(dupreqQ') /\ e \in Reqs /\ e \in Range(dupreqQ)
      /\ Range(dupreqQ') = Range(dupreqQ) \ {e} /\ e \in tree
  BY <1>2, TailList DEF IInv, TypeOK, QueueInv
<1> HIDE DEF e
<1>4. e \in tree \/ \E x \in Reqs : dv[x] = e /\ pc[x] \in Holding
  BY <1>3
<1>5. /\ entry' \in [Reqs -> Entry] /\ entry'[e].refcnt = entry[e].refcnt - 1
      /\ \A x \in Reqs \ {e} : entry'[x] = entry[x]
      /\ \A x \in Reqs : entry'[x].ran = entry[x].ran
  BY <1>2, <1>3, <1>4, PutStep
<1>6. pc[r] \in Holding /\ dv[r] \in Reqs /\ RequestInv(r) /\ entry[dv[r]].complete
  BY <1>1 DEF Holding, Locations, IInv, TypeOK, Requests, RequestInv
<1>7. entry'[dv[r]].complete = entry[dv[r]].complete
  BY <1>2, <1>3, <1>4, <1>6, PutStep
<1>8. TypeOK'
  <2>1. cnt' \in [Reqs -> Nat] /\ pick' \in [Reqs -> Keys] /\ tree' \in SUBSET Reqs
    <3>1. cnt \in [Reqs -> Nat] /\ pick \in [Reqs -> Keys] /\ tree \in SUBSET Reqs /\ Key[r] \in Keys
      BY DupReqAssumption DEF IInv, TypeOK
    <3> QED
      BY <1>2, <3>1, SMT
  <2> QED
    BY <1>1, <1>2, <1>3, <1>5, <2>1 DEF IInv, TypeOK
<1>9. EntryRefs'
  <2>1. \A x \in Reqs : Bit(dv'[r] = x /\ pc'[r] \in Holding) = Bit(dv[r] = x /\ pc[r] \in Holding)
    BY <1>1, <1>2 DEF Bit, Holding, Locations
  <2>2. /\ Bit(e \in tree') = 0 /\ Bit(e \in tree) = 1
        /\ \A x \in Reqs \ {e} : Bit(x \in tree') = Bit(x \in tree)
    BY <1>2, <1>3 DEF Bit
  <2>3. \A q \in Reqs \ {r} : dv'[q] = dv[q] /\ (pc'[q] \in Holding <=> pc[q] \in Holding)
    BY <1>1, <1>2
  <2>4. \A x \in Reqs : entry[x].refcnt \in Int /\ Bit(dv[r] = x /\ pc[r] \in Holding) \in Int
    BY SMT DEF IInv, TypeOK, Entry, Bit
  <2>5. ASSUME NEW x \in Reqs
        PROVE  entry'[x].refcnt - Bit(dv'[r] = x /\ pc'[r] \in Holding) - Bit(x \in tree')
                 = entry[x].refcnt - Bit(dv[r] = x /\ pc[r] \in Holding) - Bit(x \in tree)
    <3>1. CASE x = e
      BY <1>5, <2>1, <2>2, <2>4, <3>1, SMT
    <3>2. CASE x # e
      BY <1>5, <2>1, <2>2, <3>2
    <3> QED
      BY <3>1, <3>2
  <2> QED
    BY <1>5, <2>3, <2>5, RefsStep
<1>10. DrcInv'
  BY <1>1, <1>2, DrcKept DEF InCall, Holding, Locations
<1>11. QueueInv'
  <2>1. \A x \in tree' \ Range(dupreqQ') : \E q \in Reqs : pc'[q] = "delete3" /\ dv'[q] = x
    <3> SUFFICES ASSUME NEW x \in tree' \ Range(dupreqQ')
                 PROVE  \E q \in Reqs : pc'[q] = "delete3" /\ dv'[q] = x
      OBVIOUS
    <3>1. PICK q \in Reqs : pc[q] = "delete3" /\ dv[q] = x
      BY <1>2, <1>3 DEF IInv, QueueInv
    <3> QED
      BY <1>1, <1>2, <3>1
  <2> QED
    BY <1>2, <1>3, <2>1 DEF IInv, QueueInv
<1>12. RequestInv(r)'
  <2>1. /\ pc'[r] \in InCall /\ pc'[r] \in Holding /\ pc'[r] \notin Early /\ pc'[r] \notin Working
        /\ pc[r] \in InCall
    BY <1>1 DEF Locations, Holding, InCall, Early, Working
  <2> QED
    BY <1>1, <1>2, <1>5, <1>6, <1>7, <2>1 DEF RequestInv
<1>13. \A q \in Reqs \ {r} : pc[q] = "delete3" /\ dv[q] \in tree \ Range(dupreqQ) =>
                               dv[q] \in tree' \ Range(dupreqQ')
  BY <1>2, <1>3
<1>14. Alone(r) /\ pc[r] # "suspended" /\ pc'[r] \notin Early
  BY <1>1, <1>2 DEF Alone, Early
<1> QED
  BY <1>2, <1>3, <1>6, <1>7, <1>8, <1>9, <1>10, <1>11, <1>12, <1>13, <1>14, PutInv

\* nfs_dupreq_delete: the entry is taken off the queue, unless it was retired.
LEMMA DeleteFromQueueInv ==
  ASSUME IInv, NEW r \in Reqs, DeleteFromQueue(r)
  PROVE  IInv'
<1>1. UNCHANGED <<dv, rc, cnt, pick, entry, tree, drc, xprt, xpU2, executed, leaked>>
  BY DEF DeleteFromQueue
<1>2. RequestInv(r) /\ dupreqQ \in Seq(Reqs) /\ QueueInv
  BY DEF IInv, Requests, TypeOK
<1>3. PICK to \in {"delete3", "rele"} :
        /\ Transition(r, "delete2", to) /\ dupreqQ' \in Seq(Reqs) /\ Distinct(dupreqQ')
        /\ \/ /\ to = "delete3" /\ dv[r] \in Range(dupreqQ)
              /\ Range(dupreqQ') = Range(dupreqQ) \ {dv[r]}
           \/ to = "rele" /\ dupreqQ' = dupreqQ
  <2>1. CASE dupreqQ' = dupreqQ /\ Transition(r, "delete2", "rele")
    BY <1>2, <2>1 DEF QueueInv
  <2>2. ASSUME NEW i \in 1..Len(dupreqQ), dupreqQ[i] = dv[r],
               Transition(r, "delete2", "delete3"), dupreqQ' = TailqRemove(dupreqQ, i)
        PROVE  /\ dupreqQ' \in Seq(Reqs) /\ Distinct(dupreqQ') /\ dv[r] \in Range(dupreqQ)
               /\ Range(dupreqQ') = Range(dupreqQ) \ {dv[r]}
    BY <1>2, <2>2, RemoveList, SMT DEF QueueInv
  <2> QED
    BY <2>1, <2>2 DEF DeleteFromQueue
<1>4. /\ pc[r] = "delete2" /\ pc'[r] = to
      /\ pc' \in [Reqs -> Locations] /\ \A q \in Reqs \ {r} : pc'[q] = pc[q]
  BY <1>3, TransitionStep DEF IInv, Locations
<1>5. TypeOK'
  BY <1>1, <1>3, <1>4 DEF IInv, TypeOK
<1>6. DrcInv'
  BY <1>1, <1>3, <1>4, DrcKept DEF InCall, Holding, Locations
<1>7. QueueInv'
  <2>1. \A e \in tree' \ Range(dupreqQ') : \E q \in Reqs : pc'[q] = "delete3" /\ dv'[q] = e
    <3> SUFFICES ASSUME NEW e \in tree' \ Range(dupreqQ')
                 PROVE  \E q \in Reqs : pc'[q] = "delete3" /\ dv'[q] = e
      OBVIOUS
    <3>1. CASE e \in Range(dupreqQ)
      BY <1>1, <1>3, <1>4, <3>1
    <3>2. CASE e \notin Range(dupreqQ)
      <4>1. PICK q \in Reqs : pc[q] = "delete3" /\ dv[q] = e
        BY <1>1, <1>2, <3>2 DEF QueueInv
      <4> QED
        BY <1>1, <1>4, <4>1
    <3> QED
      BY <3>1, <3>2
  <2>2. Range(dupreqQ') \subseteq tree'
    BY <1>1, <1>2, <1>3 DEF QueueInv
  <2> QED
    BY <1>1, <1>2, <1>3, <2>1, <2>2 DEF QueueInv
<1>8. /\ pc'[r] \in InCall /\ pc[r] \in InCall /\ pc'[r] \in Holding /\ pc[r] \in Holding
      /\ pc'[r] \notin Early /\ pc[r] \in Working /\ pc[r] \in Owning
  BY <1>3, <1>4 DEF Locations, Holding, InCall, Early, Owning, Working
<1>9. RequestInv(r)'
  <2>1. pc'[r] = "delete3" => dv'[r] \in tree' \ Range(dupreqQ')
    BY <1>1, <1>2, <1>3, <1>4 DEF QueueInv
  <2> QED
    BY <1>1, <1>2, <1>3, <1>4, <1>8, <2>1 DEF RequestInv
<1>10. Alone(r) /\ pc[r] # "suspended" /\ Range(dupreqQ') \subseteq Range(dupreqQ)
  BY <1>1, <1>3, <1>4 DEF Alone
<1> QED
  BY <1>1, <1>5, <1>6, <1>7, <1>8, <1>9, <1>10, ThreadInv

\* nfs_dupreq_delete: the entry is taken out of the table.
LEMMA DeleteFromTreeInv ==
  ASSUME IInv, NEW r \in Reqs, DeleteFromTree(r)
  PROVE  IInv'
<1> DEFINE e == dv[r]
<1>1. /\ pc[r] = "delete3" /\ pc'[r] = "rele"
      /\ pc' \in [Reqs -> Locations] /\ \A q \in Reqs \ {r} : pc'[q] = pc[q]
  BY TransitionStep DEF IInv, DeleteFromTree, Locations
<1>2. /\ UNCHANGED <<dv, rc, cnt, pick, dupreqQ, drc, xprt, xpU2, executed, leaked>>
      /\ tree' = tree \ {e} /\ entry' = [entry EXCEPT ![e] = Put(entry[e])]
  BY DEF DeleteFromTree
<1>3. RequestInv(r) /\ QueueInv /\ tree \in SUBSET Reqs /\ e \in Reqs
  BY DEF IInv, Requests, TypeOK
<1>4. /\ e \in tree \ Range(dupreqQ) /\ ~entry[e].complete /\ ~entry[e].ran
      /\ pc'[r] \in InCall /\ pc[r] \in InCall /\ pc'[r] \in Holding /\ pc[r] \in Holding
      /\ pc'[r] \notin Early /\ pc'[r] \notin Working /\ pc[r] \in Owning
  BY <1>1, <1>3 DEF RequestInv, Locations, Holding, InCall, Early, Owning, Working
<1>5. e \in tree \/ \E x \in Reqs : dv[x] = e /\ pc[x] \in Holding
  BY <1>4
<1>6. /\ entry' \in [Reqs -> Entry] /\ entry'[e].refcnt = entry[e].refcnt - 1
      /\ \A x \in Reqs \ {e} : entry'[x] = entry[x]
      /\ \A x \in Reqs : entry'[x].ran = entry[x].ran
  BY <1>2, <1>3, <1>5, PutStep
<1>7. entry'[e].complete = entry[e].complete
  BY <1>2, <1>3, <1>4, <1>5, PutStep
<1>8. TypeOK'
  <2>1. tree' \in SUBSET Reqs
    BY <1>2, <1>3
  <2> QED
    BY <1>1, <1>2, <1>6, <2>1 DEF IInv, TypeOK
<1>9. EntryRefs'
  <2>1. \A x \in Reqs : Bit(dv'[r] = x /\ pc'[r] \in Holding) = Bit(dv[r] = x /\ pc[r] \in Holding)
    BY <1>2, <1>4
  <2>2. /\ Bit(e \in tree') = 0 /\ Bit(e \in tree) = 1
        /\ \A x \in Reqs \ {e} : Bit(x \in tree') = Bit(x \in tree)
    BY <1>2, <1>4 DEF Bit
  <2>3. \A q \in Reqs \ {r} : dv'[q] = dv[q] /\ (pc'[q] \in Holding <=> pc[q] \in Holding)
    BY <1>1, <1>2
  <2>4. \A x \in Reqs : entry[x].refcnt \in Int /\ Bit(dv[r] = x /\ pc[r] \in Holding) \in Int
    BY SMT DEF IInv, TypeOK, Entry, Bit
  <2>5. ASSUME NEW x \in Reqs
        PROVE  entry'[x].refcnt - Bit(dv'[r] = x /\ pc'[r] \in Holding) - Bit(x \in tree')
                 = entry[x].refcnt - Bit(dv[r] = x /\ pc[r] \in Holding) - Bit(x \in tree)
    <3>1. CASE x = e
      BY <1>6, <2>1, <2>2, <2>4, <3>1, SMT
    <3>2. CASE x # e
      BY <1>6, <2>1, <2>2, <3>2
    <3> QED
      BY <3>1, <3>2
  <2> QED
    BY <1>6, <2>3, <2>5, RefsStep
<1>10. DrcInv'
  BY <1>1, <1>2, DrcKept DEF InCall, Holding, Locations
<1>11. QueueInv'
  <2>1. \A x \in tree' \ Range(dupreqQ') : \E q \in Reqs : pc'[q] = "delete3" /\ dv'[q] = x
    <3> SUFFICES ASSUME NEW x \in tree' \ Range(dupreqQ')
                 PROVE  \E q \in Reqs : pc'[q] = "delete3" /\ dv'[q] = x
      OBVIOUS
    <3>1. PICK q \in Reqs : pc[q] = "delete3" /\ dv[q] = x
      BY <1>2, <1>3 DEF QueueInv
    <3> QED
      BY <1>1, <1>2, <3>1
  <2> QED
    BY <1>2, <1>3, <1>4, <2>1, SMT DEF QueueInv
<1>12. RequestInv(r)'
  BY <1>1, <1>2, <1>3, <1>4, <1>6 DEF RequestInv
<1>13. ASSUME NEW q \in Reqs \ {r}, pc[q] = "delete3"
       PROVE  dv[q] # e /\ pc[q] \in Owning
  BY <1>4, <1>13 DEF IInv, Pairs, PairInv, Owning, Working
<1>14. \A q \in Reqs \ {r} : pc[q] = "delete3" /\ dv[q] \in tree \ Range(dupreqQ) =>
                               dv[q] \in tree' \ Range(dupreqQ')
  BY <1>2, <1>13
<1>15. \A q \in Reqs \ {r} : dv[q] = e => pc[q] \notin Owning
  BY <1>4 DEF IInv, Pairs, PairInv
<1>16. Alone(r) /\ pc[r] # "suspended" /\ xpU2' = xpU2 /\ dv'[r] = dv[r] /\ tree' \subseteq tree
  BY <1>1, <1>2 DEF Alone
<1> QED
  BY <1>2, <1>3, <1>4, <1>8, <1>9, <1>10, <1>11, <1>12, <1>14, <1>15, <1>16, PutInv

\* nfs_dupreq_rele: the reference of the request is put.
LEMMA PutEntryInv ==
  ASSUME IInv, NEW r \in Reqs, PutEntry(r)
  PROVE  IInv'
<1> DEFINE e == dv[r]
<1>1. /\ pc[r] = "put" /\ pc'[r] = "putdrc"
      /\ pc' \in [Reqs -> Locations] /\ \A q \in Reqs \ {r} : pc'[q] = pc[q]
  BY TransitionStep DEF IInv, PutEntry, Locations
<1>2. /\ UNCHANGED <<pick, tree, dupreqQ, drc, xprt, xpU2, executed, leaked>>
      /\ entry' = [entry EXCEPT ![e] = Put(entry[e])]
      /\ dv' = [dv EXCEPT ![r] = r] /\ rc' = [rc EXCEPT ![r] = "OK"] /\ cnt' = [cnt EXCEPT ![r] = 0]
  BY DEF PutEntry
<1>3. /\ RequestInv(r) /\ QueueInv /\ e \in Reqs
      /\ dv \in [Reqs -> Reqs] /\ rc \in [Reqs -> Results] /\ cnt \in [Reqs -> Nat]
  BY DEF IInv, Requests, TypeOK
<1>4. /\ pc'[r] \in InCall /\ pc[r] \in InCall /\ pc'[r] \notin Holding /\ pc[r] \in Holding
      /\ pc'[r] \notin Early /\ pc'[r] \notin Owning /\ pc'[r] \notin Working
  BY <1>1 DEF Locations, Holding, InCall, Early, Owning, Working
<1>5. /\ entry' \in [Reqs -> Entry] /\ entry'[e].refcnt = entry[e].refcnt - 1
      /\ \A x \in Reqs \ {e} : entry'[x] = entry[x]
  BY <1>2, <1>3, <1>4, PutStep
<1>6. /\ dv' \in [Reqs -> Reqs] /\ rc' \in [Reqs -> Results] /\ cnt' \in [Reqs -> Nat] /\ dv'[r] = r
      /\ \A q \in Reqs \ {r} : dv'[q] = dv[q] /\ rc'[q] = rc[q]
  BY <1>2, <1>3 DEF Results
<1>7. TypeOK'
  BY <1>1, <1>2, <1>5, <1>6 DEF IInv, TypeOK
<1>8. EntryRefs'
  <2>1. /\ \A x \in Reqs : Bit(dv'[r] = x /\ pc'[r] \in Holding) = 0
        /\ \A x \in Reqs \ {e} : Bit(dv[r] = x /\ pc[r] \in Holding) = 0
        /\ Bit(dv[r] = e /\ pc[r] \in Holding) = 1
    BY <1>4 DEF Bit
  <2>2. \A x \in Reqs : entry[x].refcnt \in Int /\ Bit(x \in tree) \in Int /\ Bit(x \in tree') = Bit(x \in tree)
    BY <1>2, SMT DEF IInv, TypeOK, Entry, Bit
  <2>3. \A q \in Reqs \ {r} : dv'[q] = dv[q] /\ (pc'[q] \in Holding <=> pc[q] \in Holding)
    BY <1>1, <1>6
  <2>4. ASSUME NEW x \in Reqs
        PROVE  entry'[x].refcnt - Bit(dv'[r] = x /\ pc'[r] \in Holding) - Bit(x \in tree')
                 = entry[x].refcnt - Bit(dv[r] = x /\ pc[r] \in Holding) - Bit(x \in tree)
    <3>1. CASE x = e
      BY <1>5, <2>1, <2>2, <3>1, SMT
    <3>2. CASE x # e
      BY <1>5, <2>1, <2>2, <3>2
    <3> QED
      BY <3>1, <3>2
  <2> QED
    BY <1>5, <2>3, <2>4, RefsStep
<1>9. DrcInv'
  <2>1. \A q \in Reqs : pc'[q] \in InCall <=> pc[q] \in InCall
    BY <1>1, <1>4
  <2> QED
    BY <1>2, <2>1, DrcKept
<1>10. QueueInv'
  <2>1. \A q \in Reqs : pc[q] = "delete3" => pc'[q] = "delete3" /\ dv'[q] = dv[q]
    BY <1>1, <1>6
  <2> QED
    BY <1>2, <1>3, <2>1, QueueKept
<1>11. RequestInv(r)'
  BY <1>1, <1>2, <1>3, <1>4, <1>6 DEF RequestInv
<1>12. Alone(r) /\ pc[r] # "suspended" /\ tree' \subseteq tree
  BY <1>1, <1>2, <1>6 DEF Alone
<1> QED
  BY <1>2, <1>3, <1>4, <1>6, <1>7, <1>8, <1>9, <1>10, <1>11, <1>12, PutInv

\* nfs_dupreq_rele hands an incomplete entry to the first duplicate.
LEMMA ReleInv ==
  ASSUME IInv, NEW r \in Reqs, Rele(r)
  PROVE  IInv'
<1> DEFINE e == dv[r]
           ds == entry[e].dupes
           s == [entry[e] EXCEPT !.dupes = IF ds = <<>> THEN ds ELSE Tail(ds)]
<1>1. /\ e \in Reqs /\ entry[e] \in Entry /\ RequestInv(r) /\ EntryInv(e) /\ QueueInv
      /\ dv \in [Reqs -> Reqs] /\ pc \in [Reqs -> Locations]
  BY DEF IInv, TypeOK, Requests, Entries
<1>2. /\ UNCHANGED <<dv, rc, cnt, pick, tree, dupreqQ, drc, xprt, xpU2, executed, leaked>>
      /\ pc[r] = "rele"
  BY DEF Rele
<1>3. entry' = [entry EXCEPT ![e] = s]
  BY DEF Rele
<1>4. PICK next \in SUBSET (Reqs \ {r}) :
        /\ pc' = [q \in Reqs |-> IF q = r THEN "put" ELSE IF q \in next THEN "resume" ELSE pc[q]]
        /\ \A d \in next : pc[d] = "suspended" /\ dv[d] = e /\ ds # <<>> /\ \A q \in next : q = d
        /\ s.dupes \in Seq(Reqs) /\ Distinct(s.dupes) /\ Range(s.dupes) = Range(ds) \ next
        /\ ds = <<>> => s.dupes = <<>>
  <2>1. ds \in Seq(Reqs) /\ Range(ds) \subseteq Reqs /\ Distinct(ds)
    BY <1>1, DupesIn DEF IInv, EntryInv
  <2>2. s.dupes = IF ds = <<>> THEN ds ELSE Tail(ds)
    BY <1>1 DEF Entry
  <2>3. CASE ds = <<>>
    <3>1. pc' = [q \in Reqs |-> IF q = r THEN "put" ELSE IF q \in {} THEN "resume" ELSE pc[q]]
      BY <2>3 DEF Rele
    <3> QED
      BY <2>1, <2>2, <2>3, <3>1, EmptyList
  <2>4. CASE ds # <<>>
    <3> DEFINE d == Head(ds)
    <3>1. /\ Tail(ds) \in Seq(Reqs) /\ Distinct(Tail(ds)) /\ d \in Range(ds)
          /\ Range(Tail(ds)) = Range(ds) \ {d}
      BY <2>1, <2>4, TailList
    <3>2. pc' = [q \in Reqs |-> IF q = r THEN "put" ELSE IF q \in {d} THEN "resume" ELSE pc[q]]
      BY <2>4 DEF Rele
    <3>3. s.dupes = Tail(ds)
      BY <2>2, <2>4
    <3> HIDE DEF d, ds, s
    <3>4. pc[d] = "suspended" /\ dv[d] = e /\ d \in Reqs \ {r}
      BY <1>1, <1>2, <2>1, <3>1 DEF EntryInv, ds
    <3> QED
      BY <2>4, <3>1, <3>2, <3>3, <3>4
  <2> QED
    BY <2>3, <2>4
<1>5. /\ s \in Entry /\ s.refcnt = entry[e].refcnt /\ s.complete = entry[e].complete
      /\ s.rc = entry[e].rc /\ s.ran = entry[e].ran
  <2>1. (IF ds = <<>> THEN ds ELSE Tail(ds)) \in Seq(Reqs)
    <3>1. s.dupes = IF ds = <<>> THEN ds ELSE Tail(ds)
      BY <1>1 DEF Entry
    <3> QED
      BY <1>4, <3>1
  <2> QED
    BY <1>1, <2>1 DEF Entry
<1> HIDE DEF s
<1>6. /\ entry' \in [Reqs -> Entry] /\ entry'[e] = s
      /\ \A x \in Reqs \ {e} : entry'[x] = entry[x]
  BY <1>1, <1>3, <1>5, EntryField DEF IInv
<1>7. \A x \in Reqs : /\ entry'[x].refcnt = entry[x].refcnt /\ entry'[x].complete = entry[x].complete
                      /\ entry'[x].rc = entry[x].rc /\ entry'[x].ran = entry[x].ran
  BY <1>5, <1>6
<1>8. /\ pc'[r] = "put" /\ \A d \in next : pc'[d] = "resume"
      /\ \A q \in Reqs \ {r} : q \notin next => pc'[q] = pc[q]
  BY <1>4
<1>9. TypeOK'
  <2>1. pc' \in [Reqs -> Locations]
    BY <1>1, <1>4 DEF Locations
  <2> QED
    BY <1>2, <1>6, <2>1 DEF IInv, TypeOK
<1>10. /\ pc[r] \in Holding /\ pc'[r] \in Holding /\ pc[r] \in InCall /\ pc'[r] \in InCall
       /\ pc[r] \in Owning /\ pc'[r] \notin Owning /\ pc'[r] \notin Early /\ pc'[r] \notin Working
       /\ "suspended" \in Holding /\ "resume" \in Holding /\ "suspended" \in InCall
       /\ "resume" \in InCall /\ "resume" \in Owning /\ "resume" \notin Early
       /\ "resume" \notin Working
  BY <1>2, <1>8 DEF Locations, Holding, InCall, Early, Owning, Working
<1>11. EntryRefs'
  <2>1. \A q \in Reqs \ {r} : dv'[q] = dv[q] /\ (pc'[q] \in Holding <=> pc[q] \in Holding)
    BY <1>2, <1>4, <1>8, <1>10
  <2>2. dv'[r] = dv[r] /\ tree' = tree
    BY <1>2
  <2> QED
    BY <1>6, <1>7, <1>10, <2>1, <2>2, RefsStep, SMT
<1>12. DrcInv'
  <2>1. \A q \in Reqs : pc'[q] \in InCall <=> pc[q] \in InCall
    BY <1>4, <1>8, <1>10
  <2> QED
    BY <1>2, <2>1, DrcKept
<1>13. QueueInv'
  <2>1. \A q \in Reqs : pc[q] = "delete3" => pc'[q] = "delete3" /\ dv'[q] = dv[q]
    BY <1>2, <1>4, <1>8
  <2> QED
    BY <1>1, <1>2, <2>1, QueueKept
<1>14. Requests'
  <2>1. RequestInv(r)'
    BY <1>1, <1>2, <1>8, <1>10 DEF RequestInv
  <2>2. ASSUME NEW d \in next PROVE RequestInv(d)'
    <3>1. d \in Reqs /\ dv[d] = e /\ pc[d] = "suspended" /\ pc'[d] = "resume" /\ ds # <<>> /\ RequestInv(d)
      BY <1>4, <1>8 DEF IInv, Requests
    <3>2. entry[e].complete \/ ~entry[e].ran
      BY <1>1, <1>2 DEF RequestInv
    <3>3. entry[e].rc # "XPRT_DIED"
      BY <1>1, <3>1 DEF EntryInv
    <3>4. /\ entry'[dv'[d]].rc = entry[e].rc /\ entry'[dv'[d]].complete = entry[e].complete
          /\ entry'[dv'[d]].ran = entry[e].ran
      BY <1>1, <1>2, <1>7, <3>1
    <3> QED
      BY <1>2, <1>10, <3>1, <3>2, <3>3, <3>4 DEF RequestInv
  <2>3. ASSUME NEW q \in Reqs, q # r, q \notin next PROVE RequestInv(q)'
    <3>1. pc'[q] = pc[q] /\ dv'[q] = dv[q] /\ rc'[q] = rc[q] /\ RequestInv(q) /\ dv[q] \in Reqs
      BY <1>1, <1>2, <1>8, <2>3 DEF IInv, Requests
    <3> QED
      BY <1>2, <1>7, <3>1, RequestKept
  <2> QED
    BY <2>1, <2>2, <2>3 DEF Requests
<1>15. Entries'
  <2>1. EntryInv(e)'
    <3>1. ASSUME NEW d \in Range(s.dupes) PROVE pc'[d] = "suspended" /\ dv'[d] = e
      <4>1. d \in Range(ds) /\ d \notin next /\ d \in Reqs
        BY <1>1, <1>4, DupesIn DEF IInv
      <4>2. pc[d] = "suspended" /\ dv[d] = e
        BY <1>1, <4>1 DEF EntryInv
      <4> QED
        BY <1>2, <1>8, <4>1, <4>2
    <3>2. s.rc = "XPRT_DIED" => s.complete /\ s.dupes = <<>>
      BY <1>1, <1>4, <1>5 DEF EntryInv
    <3>3. s.complete => s.rc # "DROP"
      BY <1>1, <1>5 DEF EntryInv
    <3> QED
      BY <1>2, <1>4, <1>6, <3>1, <3>2, <3>3 DEF EntryInv
  <2>2. ASSUME NEW x \in Reqs \ {e} PROVE EntryInv(x)'
    <3>1. \A d \in Reqs : pc[d] = "suspended" /\ dv[d] = x => pc'[d] = "suspended" /\ dv'[d] = x
      BY <1>2, <1>4, <1>8
    <3> QED
      BY <1>6, <3>1, EntryKept DEF IInv, Entries
  <2> QED
    BY <1>1, <1>2, <2>1, <2>2 DEF Entries
<1>16. Pairs'
  <2> SUFFICES ASSUME NEW a \in Reqs, NEW b \in Reqs, a # b
               PROVE  PairInv(a, b)'
    BY DEF Pairs
  <2>1. (PairInv(a, b) /\ PairInv(a, r) /\ PairInv(b, r)) \/ a = r \/ b = r
    BY DEF IInv, Pairs
  <2>2. PairInv(a, b)
    BY DEF IInv, Pairs
  <2>3. dv'[b] = a => pc'[a] \notin Early
    BY <1>2, <1>8, <1>10, <2>2 DEF PairInv
  <2>4. ASSUME dv'[a] = dv'[b], pc'[a] \in Owning, pc'[b] \in Owning
        PROVE  entry'[dv'[a]].complete
    <3>1. a # r /\ b # r /\ dv[a] = dv[b] /\ dv[a] \in Reqs /\ dv'[a] = dv[a]
      BY <1>1, <1>2, <1>8, <1>10, <2>4
    <3>2. CASE a \in next
      <4>1. dv[a] = e /\ b \notin next
        BY <1>4, <3>2
      <4>2. pc[b] \in Owning
        BY <1>8, <2>4, <3>1, <4>1
      <4> QED
        BY <1>7, <1>10, <2>1, <3>1, <4>1, <4>2 DEF PairInv
    <3>3. CASE b \in next
      <4>1. dv[b] = e /\ a \notin next
        BY <1>4, <3>3
      <4>2. pc[a] \in Owning
        BY <1>8, <2>4, <3>1, <4>1
      <4> QED
        BY <1>7, <1>10, <2>1, <3>1, <4>1, <4>2 DEF PairInv
    <3>4. CASE a \notin next /\ b \notin next
      BY <1>7, <1>8, <2>2, <2>4, <3>1, <3>4 DEF PairInv
    <3> QED
      BY <3>2, <3>3, <3>4
  <2> QED
    BY <2>3, <2>4 DEF PairInv
<1> QED
  BY <1>9, <1>11, <1>12, <1>13, <1>14, <1>15, <1>16 DEF IInv

-----------------------------------------------------------------------------
(***************************************************************************)
(* Connections, and the threads of other clients                           *)
(***************************************************************************)

\* The threads and the cache stay, and calls keep their connections.
LEMMA QuietInv ==
  ASSUME IInv, TypeOK', DrcInv', UNCHANGED <<thread, cache>>,
         \A q \in Reqs : pc[q] \in InCall /\ Xprt[q] \in xpU2 => Xprt[q] \in xpU2'
  PROVE  IInv'
<1>1. /\ pc' = pc /\ dv' = dv /\ rc' = rc
      /\ entry' = entry /\ tree' = tree /\ dupreqQ' = dupreqQ
  BY DEF thread, cache
<1>2. EntryRefs'
  BY <1>1 DEF IInv, EntryRefs, Holders
<1>3. QueueInv' /\ Entries' /\ Pairs'
  BY <1>1 DEF IInv, QueueInv, Entries, EntryInv, Pairs, PairInv
<1>4. Requests'
  <2>1. ASSUME NEW q \in Reqs PROVE RequestInv(q)'
    BY <1>1, RequestKept DEF IInv, Requests
  <2> QED
    BY <2>1 DEF Requests
<1> QED
  BY <1>2, <1>3, <1>4 DEF IInv

\* A connection breaks.
LEMMA DisconnectInv ==
  ASSUME IInv, NEW x \in Xprts, Disconnect(x)
  PROVE  IInv'
<1>1. UNCHANGED <<thread, cache, drc, xpU2, executed, leaked>> /\ xprt' = [xprt EXCEPT ![x] = "down"]
  BY DEF Disconnect
<1>2. TypeOK'
  <2>1. xprt' \in [Xprts -> {"up", "down", "recycle", "gone"}]
    BY <1>1 DEF IInv, TypeOK
  <2> QED
    BY <1>1, <2>1 DEF IInv, TypeOK, thread, cache
<1>3. DrcInv'
  <2>1. pc' = pc
    BY <1>1 DEF thread
  <2> QED
    BY <1>1, <2>1, DrcKept
<1> QED
  BY <1>1, <1>2, <1>3, QuietInv

\* nfs_rpc_free_user_data: the reference of the connection is put.
LEMMA FreeXprtInv ==
  ASSUME IInv, NEW x \in Xprts, FreeXprt(x)
  PROVE  IInv'
<1>1. /\ UNCHANGED <<thread, cache, executed, leaked>> /\ xpU2' = xpU2 \ {x}
      /\ \A r \in Reqs : Xprt[r] = x => pc[r] \in {"idle", "done"}
      /\ drc' = IF x \in xpU2 THEN [drc EXCEPT !.refcnt = @ - 1] ELSE drc
  BY DEF FreeXprt
<1>2. drc \in Drc /\ xpU2 \in SUBSET Xprts /\ pc' = pc
  BY <1>1 DEF IInv, TypeOK, thread
<1>3. TypeOK'
  <2>1. xprt' \in [Xprts -> {"up", "down", "recycle", "gone"}]
    BY DEF FreeXprt, IInv, TypeOK
  <2>2. drc' \in Drc
    BY <1>1, <1>2, SMT DEF Drc
  <2>3. xpU2' \in SUBSET Xprts
    BY <1>1, <1>2
  <2> QED
    BY <1>1, <2>1, <2>2, <2>3 DEF IInv, TypeOK, thread, cache
<1>4. DrcInv'
  <2>1. CASE x \notin xpU2
    <3>1. xpU2' = xpU2 /\ drc' = drc
      BY <1>1, <2>1
    <3> QED
      BY <1>1, <1>2, <3>1, DrcKept
  <2>2. CASE x \in xpU2
    <3>1. drc'.refcnt = drc.refcnt - 1 /\ drc'.live = drc.live /\ drc'.recycle = drc.recycle
      BY <1>1, <1>2, <2>2 DEF Drc
    <3>2. Cardinality(xpU2') = Cardinality(xpU2) - 1 /\ drc.refcnt # 0
      BY <1>1, <2>2, DrcBy, FS_RemoveElement
    <3>3. Calls' = Calls
      BY <1>2 DEF Calls
    <3> QED
      BY <1>1, <3>1, <3>2, <3>3, DrcBy, SMT DEF IInv, DrcInv
  <2> QED
    BY <2>1, <2>2
<1>5. \A q \in Reqs : pc[q] \in InCall /\ Xprt[q] \in xpU2 => Xprt[q] \in xpU2'
  <2>1. "idle" \notin InCall /\ "done" \notin InCall
    BY DEF InCall, Holding
  <2> QED
    BY <1>1, <2>1
<1> QED
  BY <1>1, <1>3, <1>4, <1>5, QuietInv

\* nfs_dupreq_put_drc: a DRC without references is put on the recycle queue.
LEMMA RecycleXprtDrcInv ==
  ASSUME IInv, NEW x \in Xprts, RecycleXprtDrc(x)
  PROVE  IInv'
<1> DEFINE b == drc.recycle \/ drc.refcnt = 0
<1>1. /\ UNCHANGED <<thread, cache, xpU2, executed, leaked>>
      /\ drc' = [drc EXCEPT !.recycle = b] /\ xprt' = [xprt EXCEPT ![x] = "gone"]
  BY DEF RecycleXprtDrc
<1>2. drc \in Drc /\ pc' = pc /\ b \in BOOLEAN
  BY <1>1 DEF IInv, TypeOK, thread
<1>3. TypeOK'
  <2>1. xprt' \in [Xprts -> {"up", "down", "recycle", "gone"}]
    BY <1>1 DEF IInv, TypeOK
  <2>2. drc' \in Drc
    BY <1>1, <1>2 DEF Drc
  <2> QED
    BY <1>1, <2>1, <2>2 DEF IInv, TypeOK, thread, cache
<1>4. DrcInv'
  <2>1. drc'.refcnt = drc.refcnt /\ drc'.live = drc.live /\ drc'.recycle = b
    BY <1>1, <1>2 DEF Drc
  <2>2. Calls' = Calls
    BY <1>2 DEF Calls
  <2>3. DrcInv
    BY DEF IInv
  <2> QED
    BY <1>1, <2>1, <2>2, <2>3 DEF DrcInv
<1> QED
  BY <1>1, <1>3, <1>4, QuietInv

\* drc_free_expired: a DRC that nobody refers to is freed with its entries,
\* which nobody holds.
LEMMA FreeExpiredInv ==
  ASSUME IInv, FreeExpired
  PROVE  IInv'
<1>1. /\ UNCHANGED <<thread, xprt, xpU2, executed, leaked>> /\ drc.recycle
      /\ drc' = NoDrc /\ tree' = {} /\ dupreqQ' = <<>>
      /\ entry' = [e \in Reqs |-> IF e \in Range(dupreqQ) THEN Put(entry[e]) ELSE entry[e]]
  BY DEF FreeExpired
<1>2. pc' = pc /\ dv' = dv /\ rc' = rc
  BY <1>1 DEF thread
<1>3. drc.refcnt = 0 /\ QueueInv /\ entry \in [Reqs -> Entry] /\ tree \in SUBSET Reqs
  BY <1>1 DEF IInv, DrcInv, TypeOK
<1>4. \A q \in Reqs : pc[q] \notin InCall
  BY <1>3, DrcBy, SMT
<1>5. \A l : (l \in Holding => l \in InCall) /\ (l \in Owning => l \in InCall)
  BY DEF InCall, Owning, Working, Holding, Locations
<1>6. \A q \in Reqs : pc[q] \notin Holding /\ pc[q] \notin Owning
  BY <1>4, <1>5
<1>7. tree = Range(dupreqQ)
  <2>1. "delete3" \in Holding
    BY DEF Holding, Locations
  <2> QED
    BY <1>3, <1>6, <2>1, SMT DEF QueueInv
<1>8. /\ entry' \in [Reqs -> Entry] /\ \A e \in Reqs : entry'[e].ran = entry[e].ran
      /\ \A e \in Reqs : entry'[e].refcnt = entry[e].refcnt - Bit(e \in tree)
      /\ \A e \in Reqs :
           \/ entry'[e] = entry[e]
           \/ entry[e].refcnt # 1 /\ entry'[e].dupes = entry[e].dupes
                /\ entry'[e].rc = entry[e].rc /\ entry'[e].complete = entry[e].complete
           \/ ~entry'[e].complete /\ entry'[e].rc = "OK" /\ entry'[e].dupes = <<>>
  <2>1. ASSUME NEW e \in Reqs, e \in tree
        PROVE  entry'[e] = Put(entry[e]) /\ entry[e] \in Entry
    BY <1>1, <1>3, <1>7, <2>1
  <2>2. ASSUME NEW e \in Reqs, e \notin tree
        PROVE  entry'[e] = entry[e] /\ entry[e] \in Entry
    BY <1>1, <1>3, <1>7, <2>2
  <2>3. ASSUME NEW e \in Reqs
        PROVE  /\ entry'[e] \in Entry /\ entry'[e].ran = entry[e].ran
               /\ entry'[e].refcnt = entry[e].refcnt - Bit(e \in tree)
               /\ \/ entry'[e] = entry[e]
                  \/ entry[e].refcnt # 1 /\ entry'[e].dupes = entry[e].dupes
                       /\ entry'[e].rc = entry[e].rc /\ entry'[e].complete = entry[e].complete
                  \/ ~entry'[e].complete /\ entry'[e].rc = "OK" /\ entry'[e].dupes = <<>>
    <3>1. CASE e \in tree
      <4>1. Bit(e \in tree) = 1
        BY <3>1 DEF Bit
      <4> QED
        BY <2>1, <3>1, <4>1, PutFields, SMT
    <3>2. CASE e \notin tree
      <4>1. Bit(e \in tree) = 0 /\ entry'[e] = entry[e] /\ entry[e] \in Entry
        BY <2>2, <3>2 DEF Bit
      <4>2. entry[e].refcnt \in Int
        BY <4>1 DEF Entry
      <4> QED
        BY <4>1, <4>2, SMT
    <3> QED
      BY <3>1, <3>2
  <2>4. entry' = [e \in Reqs |-> entry'[e]]
    BY <1>1
  <2> HIDE DEF Entry
  <2> QED
    BY <2>3, <2>4
<1>9. TypeOK'
  <2>1. drc' \in Drc /\ tree' \in SUBSET Reqs /\ dupreqQ' \in Seq(Reqs)
    BY <1>1, EmptyList, SMT DEF NoDrc, Drc
  <2> QED
    BY <1>1, <1>8, <2>1 DEF IInv, TypeOK, thread
<1>10. EntryRefs'
  <2> SUFFICES ASSUME NEW e \in Reqs
               PROVE  entry'[e].refcnt = Cardinality(Holders(e)') + Bit(e \in tree')
    BY DEF EntryRefs, Bit
  <2>1. Holders(e) = {} /\ Holders(e)' = {}
    BY <1>2, <1>6 DEF Holders
  <2>2. Cardinality(Holders(e)) = 0 /\ Cardinality(Holders(e)') = 0
    BY <2>1, FS_EmptySet
  <2>3. entry[e].refcnt = Cardinality(Holders(e)) + Bit(e \in tree)
    BY DEF IInv, EntryRefs, Bit
  <2>4. Bit(e \in tree') = 0 /\ Bit(e \in tree) \in Nat
    BY <1>1 DEF Bit
  <2> QED
    BY <1>8, <2>2, <2>3, <2>4, SMTT(30)
<1>11. DrcInv'
  <2>1. Calls' = Calls
    BY <1>2 DEF Calls
  <2>2. drc'.refcnt = 0 /\ drc'.live = FALSE /\ drc'.recycle = FALSE
    BY <1>1 DEF NoDrc
  <2> QED
    BY <1>1, <1>3, <2>1, <2>2, SMTT(30) DEF IInv, DrcInv
<1>12. QueueInv'
  BY <1>1, EmptyList DEF QueueInv
<1>13. Requests'
  <2>1. ASSUME NEW q \in Reqs PROVE RequestInv(q)'
    <3>1. pc[q] # "delete3" /\ pc[q] \notin {"exists", "retire", "retire2"}
      BY <1>6 DEF Holding, Locations
    <3>2. RequestInv(q)
      BY DEF IInv, Requests
    <3>3. pc'[q] = pc[q] /\ dv'[q] = dv[q] /\ rc'[q] = rc[q] /\ xpU2' = xpU2 /\ q \notin tree'
      BY <1>1, <1>2
    <3>4. pc[q] \notin Owning \cup {"exists", "retire", "retire2"}
      BY <1>6, <3>1
    <3> QED
      BY <1>8, <3>1, <3>2, <3>3, <3>4, RequestKept
  <2> QED
    BY <2>1 DEF Requests
<1>14. Entries'
  <2>1. ASSUME NEW e \in Reqs PROVE EntryInv(e)'
    <3>1. CASE /\ entry'[e].dupes = entry[e].dupes
               /\ entry'[e].rc = entry[e].rc /\ entry'[e].complete = entry[e].complete
      BY <1>2, <3>1, EntryKept DEF IInv, Entries
    <3>2. CASE ~entry'[e].complete /\ entry'[e].rc = "OK" /\ entry'[e].dupes = <<>>
      BY <3>2, EmptyList DEF EntryInv
    <3> QED
      BY <1>8, <3>1, <3>2
  <2> QED
    BY <2>1 DEF Entries
<1>15. Pairs'
  BY <1>2, <1>6 DEF IInv, Pairs, PairInv
<1> QED
  BY <1>9, <1>10, <1>11, <1>12, <1>13, <1>14, <1>15 DEF IInv

-----------------------------------------------------------------------------
(***************************************************************************)
(* The invariant, and what follows from it                                 *)
(***************************************************************************)

\* The invariant holds when the server starts.
LEMMA InitInv ==
  ASSUME Init
  PROVE  IInv
<1>1. /\ \A r \in Reqs : pc[r] = "idle" /\ dv[r] = r /\ entry[r] = NewEntry /\ rc[r] = "OK"
      /\ tree = {} /\ dupreqQ = <<>> /\ drc = NoDrc /\ xpU2 = {} /\ leaked = 0
  BY DEF Init
<1>2. NewEntry \in Entry /\ <<>> \in Seq(Reqs) /\ NoDrc \in Drc
  <2>1. <<>> \in Seq(Reqs) /\ 0 \in Nat /\ 0 \in Int
    BY EmptyList, SMT
  <2> QED
    BY <2>1 DEF NewEntry, Entry, Results, NoDrc, Drc
<1>3. TypeOK
  <2>1. /\ pc \in [Reqs -> Locations] /\ dv \in [Reqs -> Reqs] /\ rc \in [Reqs -> Results]
        /\ cnt \in [Reqs -> Nat] /\ pick \in [Reqs -> Keys]
    BY DupReqAssumption DEF Init, Locations, Results
  <2>2. /\ entry \in [Reqs -> Entry] /\ tree \in SUBSET Reqs /\ dupreqQ \in Seq(Reqs) /\ drc \in Drc
    <3> HIDE DEF Entry, Drc
    <3> QED
      BY <1>2 DEF Init
  <2>3. /\ xprt \in [Xprts -> {"up", "down", "recycle", "gone"}] /\ xpU2 \in SUBSET Xprts
        /\ executed \in [Keys -> Nat] /\ leaked \in Nat
    BY DEF Init
  <2> QED
    BY <2>1, <2>2, <2>3 DEF TypeOK
<1>4. "idle" \notin InCall /\ "idle" \notin Holding /\ "idle" \notin Working /\ "idle" \notin Owning
  BY DEF InCall, Holding, Working, Owning
<1>5. EntryRefs
  <2> SUFFICES ASSUME NEW e \in Reqs
               PROVE  entry[e].refcnt = Cardinality(Holders(e)) + 0
    BY <1>1 DEF EntryRefs
  <2>1. Holders(e) = {}
    BY <1>1, <1>4 DEF Holders
  <2>2. Cardinality(Holders(e)) = 0
    BY <2>1, FS_EmptySet
  <2>3. entry[e].refcnt = 0
    BY <1>1, SMT DEF NewEntry
  <2> QED
    BY <2>2, <2>3, SMT
<1>6. DrcInv
  <2>1. Calls = {}
    BY <1>1, <1>4 DEF Calls
  <2>2. Cardinality(Calls) = 0 /\ Cardinality(xpU2) = 0
    BY <1>1, <2>1, FS_EmptySet
  <2> QED
    BY <1>1, <2>2, SMT DEF DrcInv, NoDrc
<1>7. QueueInv
  BY <1>1, EmptyList DEF QueueInv
<1>8. Requests
  BY <1>1, <1>4, SMT DEF Requests, RequestInv, NewEntry
<1>9. Entries
  BY <1>1, EmptyList, SMT DEF Entries, EntryInv, NewEntry
<1>10. Pairs
  BY <1>1, <1>4 DEF Pairs, PairInv
<1> QED
  BY <1>3, <1>5, <1>6, <1>7, <1>8, <1>9, <1>10 DEF IInv

\* Every step of every thread preserves the invariant.
LEMMA NextInv ==
  ASSUME IInv, [Next]_vars
  PROVE  IInv'
<1>1. ASSUME NEW r \in Reqs, Arrive(r) \/ Step(r)
      PROVE  IInv'
  <2>1. CASE Arrive(r) \/ Start(r)
    BY <2>1, ArriveInv, RefDrcInv, FindDrcInv, LookupMissInv, LookupBusyInv, LookupDropInv,
       LookupHitInv DEF Start
  <2>2. CASE Process(r)
    BY <2>2, ResendReplyInv, ExecuteInv, RefuseInv, SendReplyInv, ResumeInv DEF Process
  <2>3. CASE Complete(r)
    BY <2>3, FinishDiedInv, FinishInv, RetireCheckInv, RetireFirstInv, RetireChangedInv,
       DeleteCheckInv, DeleteFromQueueInv, DeleteFromTreeInv DEF Complete
  <2>4. CASE Release(r)
    BY <2>4, ReleInv, PutEntryInv, PutDrcInv DEF Release
  <2> QED
    BY <1>1, <2>1, <2>2, <2>3, <2>4 DEF Step
<1>2. ASSUME NEW x \in Xprts, Disconnect(x) \/ FreeXprt(x) \/ RecycleXprtDrc(x)
      PROVE  IInv'
  BY <1>2, DisconnectInv, FreeXprtInv, RecycleXprtDrcInv
<1>3. CASE UNCHANGED vars
  <2>1. /\ UNCHANGED <<thread, cache, drc, xprt, xpU2, executed, leaked>> /\ pc' = pc
    BY <1>3 DEF vars, thread
  <2>2. TypeOK'
    BY <2>1 DEF IInv, TypeOK, thread, cache
  <2>3. DrcInv'
    BY <2>1, DrcKept
  <2> QED
    BY <2>1, <2>2, <2>3, QuietInv
<1> QED
  BY <1>1, <1>2, <1>3, FreeExpiredInv DEF Next

\* The invariant holds in every state of every behaviour.
LEMMA Invariant == Spec => []IInv
<1>1. Init => IInv
  BY InitInv
<1>2. IInv /\ [Next]_vars => IInv'
  BY NextInv
<1> QED
  BY <1>1, <1>2, PTL DEF Spec

\* Every variable keeps its type.
THEOREM TypeCorrect == Spec => []TypeOK
<1>1. IInv => TypeOK
  BY DEF IInv
<1> QED
  BY <1>1, Invariant, PTL

\* The reference count of an entry is exactly one for the hash table and one for
\* each request that holds it (dupreq_entry_get, dupreq_entry_put): no entry is
\* freed while a request will still look at it, and none is kept for ever.
THEOREM EntryRefsCorrect == Spec => []EntryRefs
<1>1. IInv => EntryRefs
  BY DEF IInv
<1> QED
  BY <1>1, Invariant, PTL

\* The reference count of the DRC is exact, a call never drops the last
\* reference, and the entries of a DRC on the recycle queue are referenced by
\* the table alone (nfs_dupreq_get_drc, nfs_dupreq_put_drc, drc_free_expired).
THEOREM DrcRefsCorrect == Spec => []DrcRefs
<1>1. ASSUME IInv PROVE DrcRefs
  <2>1. /\ drc.refcnt = Cardinality(xpU2) + leaked + Cardinality({r \in Reqs : pc[r] \in InCall})
        /\ drc.refcnt > 0 => drc.live
        /\ drc.recycle => drc.refcnt = 0
    BY <1>1 DEF IInv, DrcInv, Calls
  <2>2. \A r \in Reqs : pc[r] = "putdrc" => drc.refcnt > 1
    BY <1>1, DrcBy DEF InCall
  <2>3. ASSUME drc.recycle, NEW e \in Range(dupreqQ)
        PROVE  entry[e].refcnt = 1
    <3>1. e \in tree /\ e \in Reqs
      BY <1>1 DEF IInv, QueueInv, TypeOK
    <3>2. \A q \in Reqs : pc[q] \notin InCall
      BY <1>1, <2>1, <2>3, DrcBy, SMT
    <3>3. Holders(e) = {}
      BY <3>2 DEF Holders, InCall
    <3>4. Cardinality(Holders(e)) = 0
      BY <3>3, FS_EmptySet
    <3>5. entry[e].refcnt = Cardinality(Holders(e)) + 1
      BY <1>1, <3>1 DEF IInv, EntryRefs
    <3> QED
      BY <3>4, <3>5, SMT
  <2> QED
    BY <2>1, <2>2, <2>3 DEF DrcRefs
<1> QED
  BY <1>1, Invariant, PTL

\* One request at most works for an incomplete entry, and none for a complete
\* one: a resumed duplicate never processes a call beside another request
\* (nfs_dupreq_rele, drc_resume).
THEOREM OneOwnerCorrect == Spec => []OneOwner
<1>1. ASSUME IInv PROVE OneOwner
  <2> SUFFICES ASSUME NEW r \in Reqs, NEW q \in Reqs, r # q, dv[r] = dv[q], pc[r] \in Working
               PROVE  /\ pc[q] \notin Working \cup {"resume", "rele", "exists"}
                      /\ ~entry[dv[r]].complete
    BY DEF OneOwner
  <2>1. ~entry[dv[r]].complete /\ pc[q] # "exists"
    BY <1>1 DEF IInv, Requests, RequestInv
  <2>2. pc[q] \notin Owning
    <3>1. pc[r] \in Owning
      BY DEF Owning
    <3> QED
      BY <1>1, <2>1, <3>1 DEF IInv, Pairs, PairInv
  <2> QED
    BY <2>1, <2>2 DEF Owning
<1> QED
  BY <1>1, Invariant, PTL

-----------------------------------------------------------------------------
(***************************************************************************)
(* DupReq implements ReplyCache                                            *)
(***************************************************************************)

\* A request only ever has an entry of its own call.
KeyInv == dv \in [Reqs -> Reqs] /\ \A r \in Reqs : Key[dv[r]] = Key[r]

\* Every step preserves that: nfs_dupreq_start finds an entry by its key, and
\* no other step gives a request an entry.
LEMMA KeyStep ==
  ASSUME KeyInv, TypeOK, [Next]_vars
  PROVE  KeyInv'
<1>1. ASSUME NEW r \in Reqs, NEW e \in Reqs, Key[e] = Key[r], dv' = [dv EXCEPT ![r] = e]
      PROVE  KeyInv'
  BY <1>1 DEF KeyInv
<1>2. ASSUME NEW r \in Reqs, LookupBusy(r) \/ LookupHit(r) PROVE KeyInv'
  <2>1. PICK e \in Cached(Key[r]) : dv' = [dv EXCEPT ![r] = e]
    BY <1>2 DEF LookupBusy, LookupHit
  <2>2. e \in Reqs /\ Key[e] = Key[r]
    BY <2>1 DEF Cached, TypeOK
  <2> QED
    BY <1>1, <2>1, <2>2
<1>3. ASSUME NEW r \in Reqs, LookupMiss(r) \/ PutEntry(r) PROVE KeyInv'
  BY <1>1, <1>3 DEF LookupMiss, PutEntry
<1>4. ASSUME UNCHANGED dv PROVE KeyInv'
  BY <1>4 DEF KeyInv
<1>5. ASSUME NEW r \in Reqs, Arrive(r) \/ Start(r) \/ Process(r) PROVE KeyInv'
  BY <1>2, <1>3, <1>4, <1>5
  DEF Start, Process, Arrive, RefDrc, FindDrc, LookupDrop, ResendReply, Execute, Refuse,
      SendReply, Resume
<1>6. ASSUME NEW r \in Reqs, Complete(r) \/ Release(r) PROVE KeyInv'
  BY <1>3, <1>4, <1>6
  DEF Complete, Release, FinishDied, Finish, RetireCheck, RetireFirst, RetireChanged,
      DeleteCheck, DeleteFromQueue, DeleteFromTree, Rele, PutDrc
<1>7. ASSUME NEW x \in Xprts, Disconnect(x) \/ FreeXprt(x) \/ RecycleXprtDrc(x) PROVE KeyInv'
  BY <1>4, <1>7 DEF Disconnect, FreeXprt, RecycleXprtDrc, thread
<1>8. CASE FreeExpired
  BY <1>4, <1>8 DEF FreeExpired, thread
<1>9. CASE UNCHANGED vars
  BY <1>4, <1>9 DEF vars, thread
<1> QED
  BY <1>5, <1>6, <1>7, <1>8, <1>9 DEF Next, Step

\* A step that leaves the table, the executions and what is known of them as
\* they were is a stuttering step of ReplyCache.
LEMMA Stutter ==
  ASSUME tree' = tree, executed' = executed,
         \A e \in Reqs : entry'[e].ran = entry[e].ran
  PROVE  UNCHANGED RC!rcVars
<1>1. {e \in Reqs : entry[e].ran}' = {e \in Reqs : entry[e].ran}
  OBVIOUS
<1>2. [k \in Keys |-> Cached(k)]' = [k \in Keys |-> Cached(k)]
  BY DEF Cached
<1> QED
  BY <1>1, <1>2 DEF RC!rcVars

\* The entries of a set of calls leave the table: ReplyCache forgets the calls.
LEMMA Forgotten ==
  ASSUME TypeOK, NEW E \in SUBSET Reqs, E # {}, tree' = tree \ E, executed' = executed,
         \A e \in tree, f \in E : Key[e] = Key[f] => e \in E,
         \A e \in Reqs : entry'[e].ran = entry[e].ran
  PROVE  RC!Next
<1> DEFINE K == {Key[e] : e \in E}
<1>1. K \in SUBSET Keys /\ K # {}
  BY DupReqAssumption
<1>2. {e \in Reqs : entry[e].ran}' = {e \in Reqs : entry[e].ran}
  OBVIOUS
<1>3. ASSUME NEW k \in Keys
      PROVE  Cached(k)' = IF k \in K THEN {} ELSE Cached(k)
  BY DEF Cached
<1>4. [k \in Keys |-> Cached(k)]'
        = [k \in Keys |-> IF k \in K THEN {} ELSE [j \in Keys |-> Cached(j)][k]]
  <2> HIDE DEF K
  <2> QED
    BY <1>3
<1>5. RC!Forget(K)
  <2> HIDE DEF K
  <2> QED
    BY <1>1, <1>2, <1>4 DEF RC!Forget
<1> QED
  <2> HIDE DEF K
  <2> QED
    BY <1>1, <1>5 DEF RC!Next

\* A step that keeps the cache, or changes an entry but not what is known of its
\* execution, is a stuttering step.
LEMMA CacheKept ==
  ASSUME UNCHANGED <<cache, executed>>
  PROVE  UNCHANGED RC!rcVars
<1>1. tree' = tree /\ executed' = executed /\ entry' = entry
  BY DEF cache
<1> QED
  BY <1>1, Stutter

\* Dropping a reference on an entry leaves what is known of its execution: the
\* model keeps that when the entry is freed (dupreq_entry_put).
LEMMA PutRan ==
  ASSUME TypeOK, NEW e \in Reqs, entry' = [entry EXCEPT ![e] = Put(@)]
  PROVE  \A x \in Reqs : entry'[x].ran = entry[x].ran
<1>1. entry[e] \in Entry /\ entry' = [entry EXCEPT ![e] = Put(entry[e])]
  BY DEF TypeOK
<1>2. Put(entry[e]) \in Entry /\ Put(entry[e]).ran = entry[e].ran
  BY <1>1, PutFields
<1>3. entry'[e] = Put(entry[e]) /\ \A x \in Reqs \ {e} : entry'[x] = entry[x]
  BY <1>1, <1>2, EntryField
<1> QED
  BY <1>2, <1>3

\* nfs_dupreq_start.
LEMMA StartRefines ==
  ASSUME IInv, NEW r \in Reqs, Arrive(r) \/ Start(r)
  PROVE  [RC!Next]_RC!rcVars
<1>1. entry \in [Reqs -> Entry] /\ tree \subseteq Reqs
  BY DEF IInv, TypeOK
<1>2. CASE Arrive(r) \/ RefDrc(r) \/ FindDrc(r)
  BY <1>2, CacheKept DEF Arrive, RefDrc, FindDrc
<1>3. CASE LookupBusy(r) \/ LookupDrop(r) \/ LookupHit(r)
  <2>1. PICK e \in Cached(Key[r]) :
          \/ entry' = [entry EXCEPT ![e].dupe_cnt = @ + 1, ![e].refcnt = @ + 1,
                                    ![e].dupes = Append(@, r)]
          \/ entry' = [entry EXCEPT ![e].dupe_cnt = @ + 1]
          \/ entry' = [entry EXCEPT ![e].dupe_cnt = @ + 1, ![e].refcnt = @ + 1]
    BY <1>3 DEF LookupBusy, LookupDrop, LookupHit
  <2>2. \A x \in Reqs : entry'[x].ran = entry[x].ran
    <3> SUFFICES ASSUME NEW x \in Reqs PROVE entry'[x].ran = entry[x].ran
      OBVIOUS
    <3>1. e \in Reqs /\ entry[x] \in Entry
      BY <1>1, <2>1 DEF Cached
    <3>2. CASE entry' = [entry EXCEPT ![e].dupe_cnt = @ + 1, ![e].refcnt = @ + 1,
                                      ![e].dupes = Append(@, r)]
      BY <1>1, <3>1, <3>2 DEF Entry
    <3>3. CASE entry' = [entry EXCEPT ![e].dupe_cnt = @ + 1]
      BY <1>1, <3>1, <3>3 DEF Entry
    <3>4. CASE entry' = [entry EXCEPT ![e].dupe_cnt = @ + 1, ![e].refcnt = @ + 1]
      BY <1>1, <3>1, <3>4 DEF Entry
    <3> QED
      BY <2>1, <3>2, <3>3, <3>4
  <2>3. tree' = tree /\ executed' = executed
    BY <1>3 DEF LookupBusy, LookupDrop, LookupHit
  <2> QED
    BY <2>2, <2>3, Stutter
<1>4. CASE LookupMiss(r)
  <2>1. ~entry[r].ran
    BY <1>4 DEF IInv, Requests, RequestInv, LookupMiss, Transition, Early
  <2>2. /\ entry' = [entry EXCEPT ![r] = [NewEntry EXCEPT !.refcnt = 2]]
        /\ tree' = tree \cup {r} /\ executed' = executed /\ Cached(Key[r]) = {}
    BY <1>4 DEF LookupMiss
  <2>3. entry'[r].ran = FALSE /\ \A x \in Reqs \ {r} : entry'[x] = entry[x]
    BY <1>1, <2>2 DEF NewEntry
  <2>4. {e \in Reqs : entry[e].ran}' = {e \in Reqs : entry[e].ran}
    BY <2>1, <2>3
  <2>5. Key[r] \in Keys
    BY DupReqAssumption
  <2>6. ASSUME NEW k \in Keys
        PROVE  Cached(k)' = IF k = Key[r] THEN {r} ELSE Cached(k)
    BY <2>2 DEF Cached
  <2>7. [k \in Keys |-> Cached(k)]' = [[k \in Keys |-> Cached(k)] EXCEPT ![Key[r]] = {r}]
    <3>1. [k \in Keys |-> Cached(k)]' = [k \in Keys |-> IF k = Key[r] THEN {r} ELSE Cached(k)]
      BY <2>6
    <3> QED
      BY <2>5, <3>1
  <2>8. r \notin {e \in Reqs : entry[e].ran} /\ [k \in Keys |-> Cached(k)][Key[r]] = {}
    BY <2>1, <2>2, <2>5
  <2>9. RC!Admit(r)
    BY <2>2, <2>4, <2>7, <2>8 DEF RC!Admit
  <2> QED
    BY <2>9 DEF RC!Next
<1> QED
  BY <1>2, <1>3, <1>4 DEF Start

\* process_dupreq and nfs_dupreq_finish: the call runs, and what is known of it
\* is lost when the reply could not be sent.
LEMMA WorkRefines ==
  ASSUME IInv, KeyInv, NEW r \in Reqs,
         Process(r) \/ FinishDied(r) \/ Finish(r)
  PROVE  [RC!Next]_RC!rcVars
<1>1. entry \in [Reqs -> Entry] /\ dv[r] \in Reqs /\ Key[dv[r]] = Key[r]
  BY DEF IInv, TypeOK, KeyInv
<1>2. CASE ResendReply(r) \/ Refuse(r) \/ SendReply(r) \/ Resume(r)
  BY <1>2, CacheKept DEF ResendReply, Refuse, SendReply, Resume
<1>3. ASSUME tree' = tree
      PROVE  [k \in Keys |-> Cached(k)]' = [k \in Keys |-> Cached(k)]
  BY <1>3 DEF Cached
<1>4. CASE Execute(r)
  <2>1. ~entry[dv[r]].ran
    BY <1>4 DEF IInv, Requests, RequestInv, Execute, Transition
  <2>2. entry' = [entry EXCEPT ![dv[r]].ran = TRUE] /\ tree' = tree
    BY <1>4 DEF Execute
  <2>3. {e \in Reqs : entry[e].ran}' = {e \in Reqs : entry[e].ran} \cup {dv[r]}
    BY <1>1, <2>2 DEF Entry
  <2>4. executed' = [executed EXCEPT ![Key[dv[r]]] = executed[Key[dv[r]]] + 1]
    BY <1>1, <1>4 DEF Execute
  <2>5. dv[r] \notin {e \in Reqs : entry[e].ran}
    BY <2>1
  <2>6. PICK t \in Reqs : t = dv[r]
    BY <1>1
  <2>7. RC!Execute(t)
    BY <1>3, <2>2, <2>3, <2>4, <2>5, <2>6 DEF RC!Execute
  <2> QED
    BY <2>7 DEF RC!Next
<1>5. CASE FinishDied(r)
  <2>1. /\ entry' = [entry EXCEPT ![dv[r]].lost = TRUE, ![dv[r]].ran = FALSE]
        /\ tree' = tree /\ executed' = executed
    BY <1>5 DEF FinishDied
  <2>2. {e \in Reqs : entry[e].ran}' = {e \in Reqs : entry[e].ran} \ {dv[r]}
    BY <1>1, <2>1 DEF Entry
  <2>3. PICK t \in Reqs : t = dv[r]
    BY <1>1
  <2>4. RC!Lose(t)
    BY <1>3, <2>1, <2>2, <2>3 DEF RC!Lose
  <2> QED
    BY <2>4 DEF RC!Next
<1>6. CASE Finish(r)
  <2>1. /\ entry' = [entry EXCEPT ![dv[r]].complete = TRUE, ![dv[r]].rc = rc[r]]
        /\ tree' = tree /\ executed' = executed
    BY <1>6 DEF Finish
  <2>2. \A x \in Reqs : entry'[x].ran = entry[x].ran
    BY <1>1, <2>1 DEF Entry
  <2> QED
    BY <2>1, <2>2, Stutter
<1> QED
  BY <1>2, <1>4, <1>5, <1>6 DEF Process

\* nfs_dupreq_finish and nfs_dupreq_delete take entries out of the table;
\* nfs_dupreq_rele and nfs_dupreq_put_drc only give references back.
LEMMA ReleaseRefines ==
  ASSUME IInv, NEW r \in Reqs, Complete(r) \/ Release(r), ~FinishDied(r), ~Finish(r)
  PROVE  [RC!Next]_RC!rcVars
<1>1. /\ TypeOK /\ entry \in [Reqs -> Entry] /\ dv[r] \in Reqs /\ tree \subseteq Reqs
      /\ \A e, f \in tree : Key[e] = Key[f] => e = f
  BY DEF IInv, TypeOK, QueueInv
<1>2. CASE RetireCheck(r) \/ RetireChanged(r) \/ PutDrc(r)
  BY <1>2, CacheKept DEF RetireCheck, RetireChanged, PutDrc
<1>3. CASE DeleteFromQueue(r)
  <2>1. tree' = tree /\ executed' = executed /\ entry' = entry
    BY <1>3 DEF DeleteFromQueue
  <2> QED
    BY <2>1, Stutter
<1>4. CASE DeleteCheck(r)
  <2>1. PICK x : entry' = [entry EXCEPT ![dv[r]].rc = x] /\ tree' = tree /\ executed' = executed
    BY <1>4 DEF DeleteCheck
  <2>2. \A y \in Reqs : entry'[y].ran = entry[y].ran
    BY <1>1, <2>1 DEF Entry
  <2> QED
    BY <2>1, <2>2, Stutter
<1>5. CASE Rele(r)
  <2>1. PICK x : entry' = [entry EXCEPT ![dv[r]].dupes = x] /\ tree' = tree /\ executed' = executed
    BY <1>5 DEF Rele
  <2>2. \A y \in Reqs : entry'[y].ran = entry[y].ran
    BY <1>1, <2>1 DEF Entry
  <2> QED
    BY <2>1, <2>2, Stutter
<1>6. CASE PutEntry(r)
  <2>1. tree' = tree /\ executed' = executed /\ entry' = [entry EXCEPT ![dv[r]] = Put(@)]
    BY <1>6 DEF PutEntry
  <2> QED
    BY <1>1, <2>1, PutRan, Stutter
<1>7. ASSUME NEW e \in tree, tree' = tree \ {e}, executed' = executed,
             entry' = [entry EXCEPT ![e] = Put(@)]
      PROVE  RC!Next
  <2>1. e \in Reqs /\ {e} \in SUBSET Reqs /\ {e} # {}
    BY <1>1
  <2>2. \A x \in Reqs : entry'[x].ran = entry[x].ran
    BY <1>1, <1>7, <2>1, PutRan
  <2>3. \A x \in tree, f \in {e} : Key[x] = Key[f] => x \in {e}
    BY <1>1
  <2> QED
    BY <1>1, <1>7, <2>1, <2>2, <2>3, Forgotten
<1>8. CASE RetireFirst(r)
  <2>1. Head(dupreqQ) \in tree
    <3>1. dupreqQ # <<>> /\ dupreqQ \in Seq(Reqs)
      BY <1>8 DEF RetireFirst, FirstIs, IInv, TypeOK
    <3>2. Head(dupreqQ) \in Range(dupreqQ)
      <4>1. Len(dupreqQ) \in Nat \ {0} /\ DOMAIN dupreqQ = 1..Len(dupreqQ)
        BY <3>1, SMT
      <4> QED
        BY <3>1, <4>1, SMT DEF Range
    <3> QED
      BY <3>2 DEF IInv, QueueInv
  <2>2. /\ tree' = tree \ {Head(dupreqQ)} /\ executed' = executed
        /\ entry' = [entry EXCEPT ![Head(dupreqQ)] = Put(@)]
    BY <1>8 DEF RetireFirst
  <2> QED
    BY <1>7, <2>1, <2>2
<1>9. CASE DeleteFromTree(r)
  <2>1. dv[r] \in tree
    BY <1>9 DEF IInv, Requests, RequestInv, DeleteFromTree, Transition
  <2>2. /\ tree' = tree \ {dv[r]} /\ executed' = executed
        /\ entry' = [entry EXCEPT ![dv[r]] = Put(@)]
    BY <1>9 DEF DeleteFromTree
  <2> QED
    BY <1>7, <2>1, <2>2
<1> QED
  BY <1>2, <1>3, <1>4, <1>5, <1>6, <1>8, <1>9 DEF Complete, Release

\* drc_free_expired frees a DRC and all its entries: ReplyCache forgets every
\* call at once.
LEMMA ExpireRefines ==
  ASSUME IInv, FreeExpired
  PROVE  [RC!Next]_RC!rcVars
<1>1. TypeOK /\ entry \in [Reqs -> Entry] /\ tree \in SUBSET Reqs
  BY DEF IInv, TypeOK
<1>2. /\ entry' = [e \in Reqs |-> IF e \in Range(dupreqQ) THEN Put(entry[e]) ELSE entry[e]]
      /\ tree' = {} /\ executed' = executed
  BY DEF FreeExpired
<1>3. \A x \in Reqs : entry'[x].ran = entry[x].ran
  <2> SUFFICES ASSUME NEW x \in Reqs PROVE entry'[x].ran = entry[x].ran
    OBVIOUS
  <2>1. entry[x] \in Entry
    BY <1>1
  <2>2. Put(entry[x]).ran = entry[x].ran
    BY <2>1, PutFields
  <2> QED
    BY <1>2, <2>2
<1>4. CASE tree = {}
  BY <1>2, <1>3, <1>4, Stutter
<1>5. CASE tree # {}
  <2>1. tree' = tree \ tree /\ \A e \in tree, f \in tree : Key[e] = Key[f] => e \in tree
    BY <1>2
  <2> QED
    BY <1>1, <1>2, <1>3, <1>5, <2>1, Forgotten
<1> QED
  BY <1>4, <1>5

\* Every step of the cache is a step that ReplyCache allows.
LEMMA StepRefines ==
  ASSUME IInv, KeyInv, [Next]_vars
  PROVE  [RC!Next]_RC!rcVars
<1>1. ASSUME NEW r \in Reqs, Arrive(r) \/ Step(r)
      PROVE  [RC!Next]_RC!rcVars
  BY <1>1, StartRefines, WorkRefines, ReleaseRefines DEF Step
<1>2. ASSUME NEW x \in Xprts, Disconnect(x) \/ FreeXprt(x) \/ RecycleXprtDrc(x)
      PROVE  [RC!Next]_RC!rcVars
  BY <1>2, CacheKept DEF Disconnect, FreeXprt, RecycleXprtDrc
<1>3. CASE UNCHANGED vars
  BY <1>3, CacheKept DEF vars
<1> QED
  BY <1>1, <1>2, <1>3, ExpireRefines DEF Next

\* The cache of nfs_dupreq.c keeps the promise of ReplyCache: whatever requests,
\* connections and the recycle queue do, a call is not executed again while its
\* entry is in the table, unless nfs_dupreq_finish left the entry incomplete.
THEOREM ReplyCacheImplemented == Spec => ImplementsReplyCache
<1>1. Init => RC!Init
  <2> SUFFICES ASSUME Init PROVE RC!Init
    OBVIOUS
  <2>1. tree = {} /\ \A e \in Reqs : entry[e] = NewEntry
    BY DEF Init
  <2>2. [k \in Keys |-> Cached(k)] = [k \in Keys |-> {}]
    BY <2>1 DEF Cached
  <2>3. {e \in Reqs : entry[e].ran} = {}
    BY <2>1, SMT DEF NewEntry
  <2>4. executed = [k \in Keys |-> 0]
    BY DEF Init
  <2> QED
    BY <2>2, <2>3, <2>4 DEF RC!Init
<1>2. Init => KeyInv
  BY SMT DEF Init, KeyInv
<1>3. KeyInv /\ IInv /\ [Next]_vars => KeyInv'
  BY KeyStep DEF IInv
<1>4. IInv /\ KeyInv /\ [Next]_vars => [RC!Next]_RC!rcVars
  BY StepRefines
<1> QED
  BY <1>1, <1>2, <1>3, <1>4, Invariant, PTL DEF Spec, ImplementsReplyCache, RC!Spec
=============================================================================
