----------------------------- MODULE RangeLocks -----------------------------
(***************************************************************************)
(* What byte-range locking promises, byte by byte: the types of lock each  *)
(* owner holds on each byte of a file.  A lock is given only where no other *)
(* owner's lock conflicts, and replaces what its owner had on the bytes it *)
(* names; neither a lock nor an unlock changes anything for another owner  *)
(* or for another byte.                                                    *)
(*                                                                         *)
(* The server keeps less than that in one case, and the specification says *)
(* how much less: a lock to the end of the file does not replace the other *)
(* locks of its owner, and is not replaced by them, but comes to lie beside *)
(* them; one of the two types on such a byte may go with a later lock.     *)
(***************************************************************************)
EXTENDS Integers

CONSTANTS Owners, MaxOff,
          Asked     \* the sets of bytes that requests name

VARIABLE held     \* held locks: owner, byte and type

Bytes == 0..MaxOff
Types == {"R", "W"}

Init == held = {}

\* The types of lock that o holds on byte b.
On(locks, o, b) == {t \in Types : <<o, b, t>> \in locks}

Compatible(t, types) == types = {} \/ (t = "R" /\ "W" \notin types)

OthersKept(old, new, o) == {l \in new : l[1] # o} = {l \in old : l[1] # o}

\* Only a lock to the end of the file holds the last byte.
ToTheEnd(old, o, B) == MaxOff \in B \/ On(old, o, MaxOff) # {}

\* From old to new, o locks the bytes B.
Locked(old, new, o, t, B) ==
    /\ OthersKept(old, new, o)
    /\ \A p \in Owners \ {o}, b \in B : Compatible(t, On(old, p, b))
    /\ \A b \in B :
         \/ On(new, o, b) = {t}
         \/ ToTheEnd(old, o, B) /\ On(new, o, b) = On(old, o, b) \cup {t}
    /\ \A b \in Bytes \ B :
         \/ On(new, o, b) = On(old, o, b)
         \/ On(old, o, b) = Types /\ \E u \in Types : On(new, o, b) = {u}

\* From old to new, o unlocks the bytes B.
Unlocked(old, new, o, B) == new = old \ ({o} \X B \X Types)

Lock(o, t, B) == Locked(held, held', o, t, B)
Unlock(o, B) == Unlocked(held, held', o, B)

Next ==
    \E o \in Owners, B \in Asked :
        \/ Unlock(o, B)
        \/ \E t \in Types : Lock(o, t, B)

Spec == Init /\ [][Next]_held
=============================================================================
