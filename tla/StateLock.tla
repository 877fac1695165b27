------------------------------ MODULE StateLock ------------------------------
(***************************************************************************)
(* The byte-range locks of a file, SAL/state_lock.c, and the granting of   *)
(* NLM locks that had to wait, Protocols/NLM/nlm_util.c and                *)
(* nlm_Granted_Res.c.                                                      *)
(*                                                                         *)
(* Every operation runs under the file's st_lock and is one step.  Only a  *)
(* grant cookie changes hands outside it: the thread that takes a cookie   *)
(* from the hash table is the one that ends the grant, in a later step.    *)
(* The FSAL is one without lock support, as FSAL_SIM is: do_lock_op        *)
(* succeeds and does nothing.                                              *)
(*                                                                         *)
(* A file has the offsets 0..MaxOff, which is UINT64_MAX; sums wrap there. *)
(***************************************************************************)
EXTENDS Integers, Sequences, SequencesExt, FiniteSets, FiniteSetsExt

CONSTANTS Owners,
          MaxOff,       \* UINT64_MAX
          MaxFileSize,  \* fs_maxfilesize
          Ranges,       \* the ranges clients ask for: start and length
          MaxLocks,     \* bound: locks in the list when one is asked for
          MaxTaken      \* bound: threads that end a grant

\* nlm_process_parameters: a range that leaves the largest file goes to the
\* end of the file, which is length 0.
FileRanges == {r \in (0..MaxFileSize) \X (0..MaxFileSize) :
                  r[2] = 0 \/ r[2] <= MaxFileSize - r[1]}

ASSUME StateLockAssumption ==
    /\ MaxOff \in Nat /\ MaxFileSize \in Nat
    /\ MaxLocks \in Nat /\ MaxTaken \in Nat
    /\ MaxFileSize < MaxOff
    /\ Ranges \subseteq FileRanges

VARIABLES lock_list,   \* ostate->file.lock_list
          cookies,     \* the cookies in ht_lock_cookies
          taken        \* the cookies a thread took from it, and the answer

vars == <<lock_list, cookies, taken>>

Bytes == 0..MaxOff
Types == {"R", "W"}

\* state_lock_entry_t.  cookie is sbd_blocked_cookie, 0 when there is none;
\* told is set when the lock was reported as granted while it is granting.
Entry == [owner : Owners, type : Types, start : Bytes, len : Bytes,
          blocked : {"NON_BLOCKING", "NLM_BLOCKING", "GRANTING"},
          cookie : Nat, told : BOOLEAN]

NewEntry(o, t, r, blocked) ==
    [owner |-> o, type |-> t, start |-> r[1], len |-> r[2],
     blocked |-> blocked, cookie |-> 0, told |-> FALSE]

Init ==
    /\ lock_list = <<>>
    /\ cookies = {}
    /\ taken = {}

Succ(x) == (x + 1) % (MaxOff + 1)

lock_end(e) == IF e.len = 0 THEN MaxOff ELSE e.start + e.len - 1

Overlap(e, f) == lock_end(e) >= f.start /\ e.start <= lock_end(f)

Conflict(e, f) ==
    /\ Overlap(e, f)
    /\ "W" \in {e.type, f.type}
    /\ e.owner # f.owner

SameLock(e, f) ==
    <<e.owner, e.type, e.start, e.len>> = <<f.owner, f.type, f.start, f.len>>

Granted(e) == e.blocked \in {"NON_BLOCKING", "GRANTING"}

Mut_get_overlapping_entry(list, f) ==
    {e \in Range(list) : e.blocked = "NON_BLOCKING" /\ Conflict(e, f)}

get_overlapping_entry(list, f) == {e \in Range(list) : Granted(e) /\ Conflict(e, f)}

----------------------------------------------------------------------------
(* merge_lock_entry: one entry c of the list against the entry e that is   *)
(* merged; m.kept is what is left of the list, m.tail what is added to it. *)

Splits(c, e) ==
    /\ c.type # e.type
    /\ lock_end(e) < lock_end(c) \/ c.start < e.start

ShrunkLeft(c, e) == [c EXCEPT !.len = e.start - c.start]

\* (A variant that leaves the length as it was.)
MutShrunkRight(c, e) == [c EXCEPT !.start = lock_end(e) + 1]

ShrunkRight(c, e) ==
    [c EXCEPT !.start = lock_end(e) + 1, !.len = lock_end(c) - lock_end(e)]

Expanded(c, e) ==
    LET start == Min({c.start, e.start})
        end == Max({lock_end(c), lock_end(e)})
    IN [e EXCEPT !.start = start, !.len = (end - start + 1) % (MaxOff + 1)]

MutApart(c, e) ==
    \/ c.blocked # "NON_BLOCKING"
    \/ Succ(lock_end(c)) < e.start
    \/ Succ(lock_end(e)) < c.start

Apart(c, e) ==
    \/ c.owner # e.owner
    \/ c.blocked # "NON_BLOCKING"
    \/ Succ(lock_end(c)) < e.start
    \/ Succ(lock_end(e)) < c.start

MergeStep(m, c) ==
    IF Apart(c, m.entry) THEN [m EXCEPT !.kept = Append(@, c)]
    ELSE IF ~Splits(c, m.entry) THEN [m EXCEPT !.entry = Expanded(c, @)]
    ELSE IF c.start >= m.entry.start
         THEN [m EXCEPT !.kept = Append(@, ShrunkRight(c, m.entry))]
    ELSE IF lock_end(m.entry) >= lock_end(c)
         THEN [m EXCEPT !.kept = Append(@, ShrunkLeft(c, m.entry))]
    ELSE [m EXCEPT !.kept = Append(@, ShrunkLeft(c, m.entry)),
                   !.tail = Append(@, ShrunkRight(c, m.entry))]

Visit(m, list) == FoldLeft(MergeStep, m, list)

\* What was split off is added at the end of the list and visited in its
\* turn, unless it is the first and came from the last entry: the loop has
\* read the end of the list by then.
VisitAll(m, list) ==
    LET a == Visit(m, list)
        b == Visit([entry |-> a.entry, kept |-> <<>>, tail |-> <<>>], a.tail)
    IN IF list # <<>> /\ Visit(m, Front(list)).tail = <<>> THEN a
       ELSE [a EXCEPT !.entry = b.entry, !.tail = b.kept]

\* The new entry goes to the end of the list.
MergeNew(list, e) ==
    LET m == VisitAll([entry |-> e, kept |-> <<>>, tail |-> <<>>], list)
    IN m.kept \o m.tail \o <<m.entry>>

\* The entry at place i is granted and stays in its place.
MergeAt(list, i) ==
    LET e == [list[i] EXCEPT !.blocked = "NON_BLOCKING", !.cookie = 0,
                             !.told = FALSE]
        before == Visit([entry |-> e, kept |-> <<>>, tail |-> <<>>],
                        SubSeq(list, 1, i - 1))
        after == VisitAll([before EXCEPT !.kept = <<>>],
                          SubSeq(list, i + 1, Len(list)))
    IN before.kept \o <<after.entry>> \o after.kept \o after.tail

----------------------------------------------------------------------------
(* subtract_lock_from_list *)

Left(e, r) ==
    IF r.start <= e.start THEN <<>>
    ELSE <<[e EXCEPT !.len = r.start - e.start]>>

MutRight(e, r) ==
    IF lock_end(r) >= lock_end(e) THEN <<>>
    ELSE <<[e EXCEPT !.start = lock_end(r), !.len = lock_end(e) - lock_end(r)]>>

Right(e, r) ==
    IF lock_end(r) >= lock_end(e) THEN <<>>
    ELSE <<[e EXCEPT !.start = lock_end(r) + 1,
                     !.len = IF lock_end(e) = MaxOff THEN 0
                             ELSE lock_end(e) - lock_end(r)]>>

\* subtract_lock_from_entry: what is left of e.
Subtract(e, r) == Left(e, r) \o Right(e, r)

Affected(e, r) ==
    e.owner = r.owner /\ e.blocked = "NON_BLOCKING" /\ Overlap(e, r)

subtract_lock_from_list(list, r) ==
    SelectSeq(list, LAMBDA e : ~Affected(e, r))
      \o FlattenSeq([i \in DOMAIN SelectSeq(list, LAMBDA e : Affected(e, r)) |->
                        Subtract(SelectSeq(list, LAMBDA e : Affected(e, r))[i], r)])

----------------------------------------------------------------------------
(* Granting.  f is the list and the cookies; sched are the waiting locks   *)
(* whose GRANTED message state_async_schedule accepts, if it comes to it.  *)

NewCookie(f) == CHOOSE c \in 1..(Cardinality(f.used) + 1) : c \notin f.used

Place(list, e) == CHOOSE i \in DOMAIN list : list[i] = e

\* try_to_grant_lock, nlm_granted_callback, state_add_grant_cookie
try_to_grant_lock(f, e, sched) ==
    IF e \in sched
    THEN [list |-> ReplaceAt(f.list, Place(f.list, e),
                       [e EXCEPT !.blocked = "GRANTING", !.cookie = NewCookie(f)]),
          cookies |-> f.cookies \cup {NewCookie(f)},
          used |-> f.used \cup {NewCookie(f)}]
    ELSE [f EXCEPT !.list = RemoveAt(@, Place(@, e))]

grant_blocked_locks(f, sched) ==
    FoldLeft(LAMBDA g, e :
                 IF e.blocked = "NLM_BLOCKING"
                      /\ get_overlapping_entry(g.list, e) = {}
                 THEN try_to_grant_lock(g, e, sched) ELSE g,
             f, f.list)

\* The step leaves the list with the cookies of tab in the hash table and
\* those of tak taken, and the locks that can be granted are.
Leave(list, tab, tak) ==
    \E sched \in SUBSET {e \in Range(list) : e.blocked = "NLM_BLOCKING"} :
        LET f == grant_blocked_locks(
                     [list |-> list, cookies |-> tab,
                      used |-> tab \cup {t.cookie : t \in tak}], sched)
        IN /\ lock_list' = f.list
           /\ cookies' = f.cookies
           /\ taken' = tak

MutCancelled(entries) ==
    {e.cookie : e \in {x \in entries : x.blocked = "NLM_BLOCKING"}}

\* cancel_blocked_lock: the cookies of the entries are freed, those that are
\* still in the hash table.
Cancelled(entries) == {e.cookie : e \in entries}

----------------------------------------------------------------------------
(* state_lock *)

Covers(e, f) ==
    /\ Granted(e) /\ e.type = f.type
    /\ lock_end(e) >= lock_end(f) /\ e.start <= f.start

\* The loop over the list ends at the first entry that conflicts, granted
\* or not, or that already is the lock; 0 if there is none.
Decisive(f) ==
    LET I == {i \in DOMAIN lock_list :
                 \/ Conflict(lock_list[i], f)
                 \/ Covers(lock_list[i], f) /\ lock_list[i].owner = f.owner}
    IN IF I = {} THEN 0 ELSE Min(I)

\* The client asks again for a lock that waits.
Waiting(f) == \E e \in Range(lock_list) :
                 SameLock(e, f) /\ e.blocked = "NLM_BLOCKING"

LockNew(f) ==
    /\ Decisive(f) = 0
    /\ Leave(MergeNew(lock_list, f), cookies, taken)

LockDenied(f) ==
    /\ Decisive(f) # 0
    /\ Conflict(lock_list[Decisive(f)], f)
    /\ UNCHANGED vars

LockBlocked(f) ==
    /\ Decisive(f) # 0
    /\ Conflict(lock_list[Decisive(f)], f)
    /\ lock_list' = Append(lock_list, [f EXCEPT !.blocked = "NLM_BLOCKING"])
    /\ UNCHANGED <<cookies, taken>>

LockExisting(f) ==
    /\ Decisive(f) # 0
    /\ ~Conflict(lock_list[Decisive(f)], f)
    /\ lock_list[Decisive(f)].blocked = "NON_BLOCKING"
    /\ UNCHANGED vars

\* grant_blocked_lock_immediate.  When another thread has the cookie the
\* lock is left as it is, and reported as granted.
LockGranting(f) ==
    LET i == Decisive(f)
        c == lock_list[i].cookie
    IN /\ i # 0
       /\ ~Conflict(lock_list[i], f)
       /\ lock_list[i].blocked = "GRANTING"
       /\ \/ /\ c \in cookies
             /\ Leave(MergeAt(lock_list, i), cookies \ {c}, taken)
          \/ /\ c \notin cookies
             /\ lock_list' = [lock_list EXCEPT ![i] = [@ EXCEPT !.told = TRUE]]
             /\ UNCHANGED <<cookies, taken>>

state_lock(o, t, r, blocking) ==
    LET f == NewEntry(o, t, r, "NON_BLOCKING")
    IN /\ blocking => ~Waiting(f)
       /\ Len(lock_list) < MaxLocks
       /\ \/ LockNew(f)
          \/ blocking /\ LockBlocked(f)
          \/ ~blocking /\ LockDenied(f)
          \/ LockExisting(f)
          \/ LockGranting(f)

----------------------------------------------------------------------------
(* state_unlock and state_cancel *)

\* cancel_blocked_locks_range and subtract_lock_from_list.
state_unlock(o, r) ==
    LET f == NewEntry(o, "R", r, "NON_BLOCKING")
        Cancel(e) == /\ e.owner = o /\ e.blocked # "NON_BLOCKING"
                     /\ Overlap(e, f)
    IN /\ lock_list # <<>>
       /\ Leave(subtract_lock_from_list(
                    SelectSeq(lock_list, LAMBDA e : ~Cancel(e)), f),
                cookies \ Cancelled({e \in Range(lock_list) : Cancel(e)}), taken)

Mut_state_cancel(o, t, r) ==
    LET f == NewEntry(o, t, r, "NON_BLOCKING")
        I == {i \in DOMAIN lock_list : SameLock(lock_list[i], f)
                 /\ lock_list[i].blocked # "NON_BLOCKING"}
    IN /\ I # {}
       /\ lock_list' = RemoveAt(lock_list, Min(I))
       /\ cookies' = cookies \ {lock_list[Min(I)].cookie}
       /\ UNCHANGED taken

state_cancel(o, t, r) ==
    LET f == NewEntry(o, t, r, "NON_BLOCKING")
        I == {i \in DOMAIN lock_list : SameLock(lock_list[i], f)
                 /\ lock_list[i].blocked # "NON_BLOCKING"}
    IN /\ I # {}
       /\ Leave(RemoveAt(lock_list, Min(I)),
                cookies \ Cancelled({lock_list[Min(I)]}), taken)

----------------------------------------------------------------------------
(* The end of a grant *)

\* state_find_grant, for nlm4_Granted_Res (the client accepts or not) or for
\* nlm4_send_grant_msg (the message could not be sent).
state_find_grant(c, accepted) ==
    /\ c \in cookies /\ Cardinality(taken) < MaxTaken
    /\ cookies' = cookies \ {c}
    /\ taken' = taken \cup {[cookie |-> c, accepted |-> accepted]}
    /\ UNCHANGED lock_list

Grants(t) == {i \in DOMAIN lock_list : lock_list[i].cookie = t.cookie}

\* When the lock was cancelled meanwhile only the cookie is freed.
state_complete_grant(t) ==
    /\ t.accepted
    /\ \/ /\ Grants(t) # {}
          /\ Leave(MergeAt(lock_list, Min(Grants(t))), cookies, taken \ {t})
       \/ /\ Grants(t) = {}
          /\ taken' = taken \ {t}
          /\ UNCHANGED <<lock_list, cookies>>

state_release_grant(t) ==
    /\ ~t.accepted
    /\ Leave(SelectSeq(lock_list, LAMBDA e : e.cookie # t.cookie),
             cookies, taken \ {t})

----------------------------------------------------------------------------
Next ==
    \/ \E o \in Owners, r \in Ranges :
           \/ \E t \in Types : \/ \E blocking \in BOOLEAN :
                                     state_lock(o, t, r, blocking)
                               \/ state_cancel(o, t, r)
           \/ state_unlock(o, r)
    \/ \E c \in cookies, accepted \in BOOLEAN : state_find_grant(c, accepted)
    \/ \E t \in taken : state_complete_grant(t) \/ state_release_grant(t)

Spec == Init /\ [][Next]_vars

----------------------------------------------------------------------------
(* Properties *)

\* Every variable has its type; however locks are split, shrunk, merged and cut
\* by unlocks, each lies within the largest file or goes to the end.
TypeOK ==
    /\ lock_list \in Seq(Entry)
    /\ \A e \in Range(lock_list) : lock_end(e) < MaxFileSize \/ lock_end(e) = MaxOff
    /\ cookies \in SUBSET Nat
    /\ taken \in SUBSET [cookie : Nat, accepted : BOOLEAN]

\* Two locks of different owners that are granted, or being granted, never
\* conflict, in whatever order locks are split, merged, queued, granted
\* and cancelled (get_overlapping_entry, merge_lock_entry).
NoConflict ==
    \A e, f \in Range(lock_list) : Granted(e) /\ Granted(f) => ~Conflict(e, f)

\* A lock does not wait for nothing: there is a lock of another owner, held
\* or itself waiting, that conflicts with it.  So no operation that removes
\* or shrinks a lock forgets to look at the queue (grant_blocked_locks).
NoIdleWaiter ==
    \A e \in Range(lock_list) : e.blocked = "NLM_BLOCKING" =>
        \E f \in Range(lock_list) : Conflict(e, f)

\* Every lock that is being granted has its cookie, one of its own, in the
\* hash table or with the thread that took it; every cookie in the table
\* has its lock in the list, so a late GRANTED_RES finds no freed lock
\* (free_cookie, cancel_blocked_lock).
CookiesMatch ==
    LET G == {i \in DOMAIN lock_list : lock_list[i].blocked = "GRANTING"}
        C == {lock_list[i].cookie : i \in G}
        T == {t.cookie : t \in taken}
    IN /\ Cardinality(C) = Cardinality(G)
       /\ C \subseteq cookies \cup T
       /\ cookies \subseteq C
       /\ cookies \cap T = {}
       /\ Cardinality(T) = Cardinality(taken)
       /\ \A i \in DOMAIN lock_list : i \notin G => lock_list[i].cookie = 0

EntryBytes(e) == e.start..lock_end(e)

\* The locks of a list that are fully granted, byte by byte.
HeldIn(list) ==
    UNION {{<<e.owner, b, e.type>> : b \in EntryBytes(e)} :
              e \in {x \in Range(list) : x.blocked = "NON_BLOCKING"}}

\* The locks that are held, byte by byte.
RL == INSTANCE RangeLocks WITH
          held <- HeldIn(lock_list),
          Asked <- {EntryBytes([start |-> r[1], len |-> r[2]]) : r \in Ranges}

\* Whatever may be asked of the file, the ranges no client uses in the run
\* included.
Requests(types) == {NewEntry(o, t, r, "NON_BLOCKING") :
                        o \in Owners, t \in types, r \in FileRanges}

\* In every list that can arise, and for every request that can be made of it,
\* splitting and merging is right byte by byte: an unlock takes exactly the bytes
\* it names from its owner; a lock that is given, at once or by the end of a
\* grant, replaces what its owner had on exactly the bytes it names.  The one
\* exception is RangeLocks' own, of locks to the end of the file
\* (subtract_lock_from_list, merge_lock_entry).
ExactBytes ==
    LET old == HeldIn(lock_list)
        Gives(list, f) == RL!Locked(old, HeldIn(list), f.owner, f.type, EntryBytes(f))
    IN /\ \A f \in Requests({"R"}) :
              RL!Unlocked(old, HeldIn(subtract_lock_from_list(lock_list, f)),
                          f.owner, EntryBytes(f))
       /\ \A f \in Requests(Types) :
              Decisive(f) = 0 => Gives(MergeNew(lock_list, f), f)
       /\ \A i \in DOMAIN lock_list : lock_list[i].blocked = "GRANTING" =>
              Gives(MergeAt(lock_list, i), lock_list[i])

\* "Need to handle locks of different types differently, may split an old lock.
\* If new lock totally overlaps old lock, the new lock will replace the old
\* lock": so nobody holds one byte for reading and for writing at once
\* (merge_lock_entry).
OneTypePerByte ==
    \A o \in Owners, b \in Bytes : RL!On(HeldIn(lock_list), o, b) # Types

\* The list of locks implements the byte-by-byte specification: every step, a
\* grant that ends and the walk over the waiting locks included, is one lock or
\* unlock of a range that was asked for, or changes no byte for anybody.
ImplementsRangeLocks == RL!Spec

\* A lock that state_lock has reported as granted is not taken away by the
\* end of a grant (grant_blocked_lock_immediate, state_release_grant).
ToldIsKept ==
    [][\A t \in taken : \A i \in Grants(t) :
           lock_list[i].told /\ state_release_grant(t) =>
               \E e \in Range(lock_list') : SameLock(e, lock_list[i])]_vars
=============================================================================
