----------------------------- MODULE ReplyCache -----------------------------
(***************************************************************************)
(* What a duplicate request cache promises.  A call of the client (a key:  *)
(* its transaction id and checksum) is given a ticket, an entry of the     *)
(* cache.  While the ticket is in the table no other ticket is given for   *)
(* the call, and a ticket is executed at most once, for its own call.  A   *)
(* call may run again only when its ticket has been forgotten, or its      *)
(* outcome lost.                                                           *)
(***************************************************************************)
EXTENDS Naturals

CONSTANTS Keys, Tickets,
          CallOf    \* the call that each ticket can be given for

VARIABLES table,    \* the tickets in the cache for each call: none or one
          ran,      \* the tickets known to have been executed
          executed  \* how often each call was executed

rcVars == <<table, ran, executed>>

Init ==
    /\ table = [k \in Keys |-> {}]
    /\ ran = {}
    /\ executed = [k \in Keys |-> 0]

Admit(t) ==
    /\ table[CallOf[t]] = {}
    /\ t \notin ran
    /\ table' = [table EXCEPT ![CallOf[t]] = {t}]
    /\ UNCHANGED <<ran, executed>>

\* A ticket that was forgotten before it was executed is still executed.
Execute(t) ==
    /\ t \notin ran
    /\ ran' = ran \cup {t}
    /\ executed' = [executed EXCEPT ![CallOf[t]] = @ + 1]
    /\ UNCHANGED table

Forget(K) ==
    /\ K # {}
    /\ table' = [k \in Keys |-> IF k \in K THEN {} ELSE table[k]]
    /\ UNCHANGED <<ran, executed>>

Lose(t) ==
    /\ ran' = ran \ {t}
    /\ UNCHANGED <<table, executed>>

Next ==
    \/ \E t \in Tickets : Admit(t) \/ Execute(t) \/ Lose(t)
    \/ \E K \in SUBSET Keys : Forget(K)

Spec == Init /\ [][Next]_rcVars
=============================================================================
