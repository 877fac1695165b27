------------------------------ MODULE Backends ------------------------------
(***************************************************************************)
(* The stand-alone recovery backends of SAL/recovery: where a server keeps *)
(* the names of its clients, how the next instance finds them, and what a  *)
(* crash between any two steps leaves behind.                              *)
(*                                                                         *)
(*   fs, rados_kv      two directories (objects): clients are recorded in  *)
(*                     recov; at boot old is read and emptied, then recov  *)
(*                     is read and moved to old; old is emptied when grace *)
(*                     ends                                                *)
(*   fs_ng, rados_ng   a new directory (a spooled transaction), recov,     *)
(*                     that replaces the old one when grace ends           *)
(*                                                                         *)
(* A name is recorded and found whole: names that span several directories *)
(* are checked for their length when they are read.                        *)
(***************************************************************************)
EXTENDS Naturals, FiniteSets

CONSTANTS Clients,
          Backends,     \* the configured backend is one of these
          Peer,         \* the clients of a server that may be taken over
          MaxCrashes,   \* bound: how many crashes there are
          MaxEvents     \* bound: how many failover events there are

AllBackends == {"fs", "rados_kv", "fs_ng", "rados_ng"}

ASSUME BackendsAssumption ==
    /\ Backends \subseteq AllBackends /\ Peer \subseteq Clients
    /\ MaxCrashes \in Nat /\ MaxEvents \in Nat

VARIABLES
    backend,    \* nfsv4_param.recovery_backend
    old, recov, \* the two places where names are kept
    linked,     \* recov has replaced old (the symlink; the commit)
    gone,       \* the directory recov does not exist any more
    main,       \* down, reading old, reading recov, serving
    active,     \* in grace
    taking,     \* names still to be read for a failover event
    own,        \* they are the server's own (UPDATE_CLIENTS)
    ending,     \* end_grace: not running, deleting entries, done
    todo,       \* the entries it has yet to delete
    clids,      \* clid_list, as a set
    confirmed,  \* the confirmed clients; of these
    adding,     \*   those not yet recorded
    checking,   \*   those recorded and not yet looked up in clid_list
    allow,      \*   those with cid_allow_reclaim
    held,       \*   those with state
    removing,   \* expired clients whose record is still to be deleted
    crashes, events,
    owed,       \* history: who lost state in a crash and may still reclaim
    fragile,    \* history: names that are in no place but the list
    wiped       \* end_grace last went for the current directory

disk == <<old, recov, linked, gone>>
memory == <<main, active, taking, own, ending, todo, clids>>
clients == <<confirmed, adding, checking, allow, held, removing>>
bounds == <<crashes, events>>
history == <<owed, fragile, wiped>>
vars == <<backend, disk, memory, clients, bounds, history>>

\* fs and rados_kv keep names in two places, the others swap them.
TwoPlaces == backend \in {"fs", "rados_kv"}

\* The names the next instance would find.
Stored == IF TwoPlaces THEN old \cup recov
          ELSE IF linked THEN recov ELSE old

Init ==
    /\ backend \in Backends
    /\ old = {} /\ recov = {} /\ linked = FALSE /\ gone = FALSE
    /\ main = "down" /\ active = FALSE /\ taking = {} /\ ending = "no"
    /\ todo = {} /\ clids = {} /\ own = FALSE
    /\ confirmed = {} /\ adding = {} /\ checking = {} /\ allow = {}
    /\ held = {} /\ removing = {}
    /\ crashes = 0 /\ events = 0
    /\ owed = {} /\ fragile = {} /\ wiped = FALSE

----------------------------------------------------------------------------
(* Boot: recovery_init, and recovery_read_clids for the first period.      *)

\* The new directory is made (the transaction opened) before the old names
\* are read.
Boot ==
    /\ main = "down"
    /\ main' = IF TwoPlaces THEN "old" ELSE "recov"
    /\ active' = TRUE
    /\ IF TwoPlaces THEN UNCHANGED disk
       ELSE /\ old' = Stored /\ recov' = {}
            /\ linked' = FALSE /\ gone' = FALSE
    /\ UNCHANGED <<backend, taking, own, ending, todo, clids, clients, bounds,
                   history>>

\* fs, rados_kv: an entry of old is put on the list and deleted.
ReadOld(c) ==
    /\ main = "old" /\ c \in old
    /\ clids' = clids \cup {c}
    /\ old' = old \ {c}
    /\ fragile' = IF c \in recov THEN fragile ELSE fragile \cup {c}
    /\ UNCHANGED <<backend, recov, linked, gone, main, active, taking, own,
                   ending, todo, clients, bounds, owed, wiped>>

ReadOldDone ==
    /\ main = "old" /\ old = {}
    /\ main' = "recov"
    /\ UNCHANGED <<backend, disk, active, taking, own, ending, todo, clids,
                   clients, bounds, history>>

\* An entry of recov is made in old as well, then put on the list and deleted
\* from recov.  (The variant deletes it first.)
MutCopyToOld(c) ==
    /\ main = "recov" /\ TwoPlaces
    /\ c \in recov /\ recov \cap old = {}
    /\ recov' = recov \ {c}
    /\ clids' = clids \cup {c}
    /\ UNCHANGED <<backend, old, linked, gone, main, active, taking, own,
                   ending, todo, clients, bounds, history>>

CopyToOld(c) ==
    /\ main = "recov" /\ TwoPlaces
    /\ c \in recov /\ recov \cap old = {}
    /\ old' = old \cup {c}
    /\ UNCHANGED <<backend, recov, linked, gone, memory, clients, bounds,
                   history>>

DropRecov(c) ==
    /\ main = "recov" /\ TwoPlaces
    /\ c \in recov \cap old
    /\ recov' = recov \ {c}
    /\ clids' = clids \cup {c}
    /\ UNCHANGED <<backend, old, linked, gone, main, active, taking, own,
                   ending, todo, clients, bounds, history>>

\* fs_ng, rados_ng: the old names are only read.
ReadDone ==
    /\ main = "recov"
    /\ TwoPlaces => recov = {}
    /\ main' = "serving"
    /\ clids' = IF TwoPlaces THEN clids ELSE old
    /\ UNCHANGED <<backend, disk, active, taking, own, ending, todo, clients,
                   bounds, history>>

----------------------------------------------------------------------------
(* A failover event: nfs_start_grace(gsp) and recovery_read_clids(gsp).    *)

FailoverAllowed ==
    /\ main = "serving" /\ taking = {} /\ ending = "no"
    /\ events < MaxEvents

\* TAKE_IP, TAKE_NODEID, UPDATE_CLIENTS: the list is begun anew unless a period
\* is in force.  fs reads the directory of the failed server or, for the last
\* event, its own; rados_kv the object of an address, which may be nobody's;
\* the others read nothing.
Failover ==
    /\ FailoverAllowed
    /\ events' = events + 1
    /\ active' = TRUE
    /\ clids' = IF active THEN clids ELSE {}
    /\ \/ TwoPlaces /\ taking' = Peer /\ own' = FALSE
       \/ backend = "fs" /\ taking' = recov /\ own' = TRUE
       \/ backend # "fs" /\ UNCHANGED <<taking, own>>
    /\ UNCHANGED <<backend, disk, main, ending, todo, clients, crashes, history>>

\* JUST_GRACE, CLEAR_BLOCKED: a period with the list as it is.
JustGrace ==
    /\ FailoverAllowed
    /\ events' = events + 1
    /\ active' = TRUE
    /\ UNCHANGED <<backend, disk, main, taking, own, ending, todo, clids, clients,
                   crashes, history>>

\* A name is put on the list and copied to old.
TakeOver(c) ==
    /\ c \in taking /\ (own => c \in recov)
    /\ taking' = taking \ {c}
    /\ clids' = clids \cup {c}
    /\ old' = old \cup {c}
    /\ owed' = IF own THEN owed ELSE owed \cup {c}
    /\ fragile' = fragile \ {c}
    /\ UNCHANGED <<backend, recov, linked, gone, main, active, own, ending, todo,
                   clients, bounds, wiped>>

\* A name that was removed meanwhile may be seen all the same: it is made in
\* old before its directory is found missing, and does not get on the list.
TakeOverRemoved(c) ==
    /\ c \in taking /\ own /\ c \notin recov
    /\ taking' = taking \ {c}
    /\ old' \in {old, old \cup {c}}
    /\ UNCHANGED <<backend, recov, linked, gone, main, active, own, ending, todo,
                   clids, clients, bounds, history>>

----------------------------------------------------------------------------
(* The end of a period: end_grace, then the status.                        *)

\* Those who have not reclaimed are given up.  (The variant leaves the old
\* names where they are.)
MutEndGrace ==
    /\ main = "serving" /\ active /\ taking = {} /\ ending = "no"
    /\ ending' = "lift"
    /\ linked' = ~TwoPlaces
    /\ owed' = {} /\ fragile' = {}
    /\ UNCHANGED <<backend, old, recov, gone, main, active, taking, own, todo,
                   clids, clients, bounds, wiped>>

\* fs deletes the entries of old one by one, rados_kv clears the object.
\* fs_ng makes the symlink point to recov and deletes the directory it pointed
\* to; rados_ng commits the transaction, and there is none the second time.
EndGrace ==
    /\ main = "serving" /\ active /\ taking = {} /\ ending = "no"
    /\ backend = "rados_ng" => ~linked
    /\ ending' = IF backend \in {"fs", "fs_ng"} THEN "clean" ELSE "lift"
    /\ todo' = IF backend \in {"fs", "fs_ng"} THEN IF linked THEN recov ELSE old
               ELSE {}
    /\ old' = IF backend \in {"rados_kv", "rados_ng"} THEN {} ELSE old
    /\ linked' = ~TwoPlaces
    /\ wiped' = linked
    /\ owed' = {} /\ fragile' = {}
    /\ UNCHANGED <<backend, recov, gone, main, active, taking, own, clids,
                   clients, bounds>>

Clean(c) ==
    /\ ending = "clean" /\ c \in todo
    /\ todo' = todo \ {c}
    /\ IF wiped THEN recov' = recov \ {c} /\ UNCHANGED old
       ELSE old' = old \ {c} /\ UNCHANGED recov
    /\ UNCHANGED <<backend, linked, gone, main, active, taking, own, ending,
                   clids, clients, bounds, history>>

\* The directory itself goes as well, unless a name was recorded meanwhile.
CleanDone ==
    /\ ending = "clean" /\ todo = {}
    /\ ending' = "lift"
    /\ gone' = (gone \/ (wiped /\ recov = {}))
    /\ UNCHANGED <<backend, old, recov, linked, main, active, taking, own,
                   todo, clids, clients, bounds, history>>

\* From now on others may acquire what those who did not reclaim had.
Lift ==
    /\ ending = "lift"
    /\ ending' = "no" /\ active' = FALSE
    /\ UNCHANGED <<backend, disk, main, taking, own, todo, clids, clients,
                   bounds, owed, fragile, wiped>>

----------------------------------------------------------------------------
(* Clients.                                                                *)

\* nfs_client_id_confirm, up to nfs4_add_clid.
Confirm(c) ==
    /\ main = "serving"
    /\ c \notin confirmed \cup removing
    /\ confirmed' = confirmed \cup {c} /\ adding' = adding \cup {c}
    /\ UNCHANGED <<backend, disk, memory, checking, allow, held, removing, bounds,
                   history>>

\* add_clid.  mkdir fails in a directory that is gone.
AddClid(c) ==
    /\ c \in adding
    /\ adding' = adding \ {c} /\ checking' = checking \cup {c}
    /\ recov' = IF gone THEN recov ELSE recov \cup {c}
    /\ fragile' = IF gone THEN fragile ELSE fragile \ {c}
    /\ UNCHANGED <<backend, old, linked, gone, memory, confirmed, allow, held,
                   removing, bounds, owed, wiped>>

\* nfs4_chk_clid, which needs grace_mutex.
ChkClid(c) ==
    /\ c \in checking
    /\ taking = {} /\ ending = "no"
    /\ checking' = checking \ {c}
    /\ allow' = IF c \in clids THEN allow \cup {c} ELSE allow
    /\ UNCHANGED <<backend, disk, memory, confirmed, adding, held, removing,
                   bounds, history>>

\* The reply that makes the client's id usable comes last.
Ready(c) == c \in confirmed \ (adding \cup checking)

Acquire(c) ==
    /\ Ready(c) /\ c \notin held
    /\ ~active
    /\ held' = held \cup {c}
    /\ UNCHANGED <<backend, disk, memory, confirmed, adding, checking, allow,
                   removing, bounds, history>>

\* A reclaim is not admitted once the period is being lifted.
Reclaim(c) ==
    /\ c \in allow
    /\ active /\ ending = "no"
    /\ held' = held \cup {c} /\ owed' = owed \ {c}
    /\ UNCHANGED <<backend, disk, memory, confirmed, adding, checking, allow,
                   removing, bounds, fragile, wiped>>

Expire(c) ==
    /\ Ready(c)
    /\ confirmed' = confirmed \ {c} /\ held' = held \ {c} /\ allow' = allow \ {c}
    /\ removing' = removing \cup {c}
    /\ owed' = owed \ {c}
    /\ UNCHANGED <<backend, disk, memory, adding, checking, bounds, fragile,
                   wiped>>

\* rm_clid deletes the name from recov only.
RmClid(c) ==
    /\ c \in removing
    /\ removing' = removing \ {c}
    /\ recov' = recov \ {c}
    /\ UNCHANGED <<backend, old, linked, gone, memory, confirmed, adding, checking,
                   allow, held, bounds, owed, fragile, wiped>>

----------------------------------------------------------------------------
\* The process dies; what is in memory is lost.
Die ==
    /\ main' = "down" /\ active' = FALSE
    /\ taking' = {} /\ own' = FALSE /\ ending' = "no" /\ todo' = {} /\ clids' = {}
    /\ confirmed' = {} /\ adding' = {} /\ checking' = {} /\ allow' = {}
    /\ held' = {} /\ removing' = {}
    /\ owed' = owed \cup held
    /\ UNCHANGED <<backend, disk, events, fragile, wiped>>

Crash ==
    /\ main # "down"
    /\ crashes < MaxCrashes
    /\ crashes' = crashes + 1
    /\ Die

\* The second commit of rados_ng passes a null pointer to librados.
CommitNothing ==
    /\ backend = "rados_ng" /\ linked
    /\ main = "serving" /\ active /\ taking = {} /\ ending = "no"
    /\ Die
    /\ UNCHANGED crashes

Next ==
    \/ Boot \/ ReadOldDone \/ ReadDone \/ Failover \/ JustGrace
    \/ EndGrace \/ CleanDone \/ Lift \/ Crash \/ CommitNothing
    \/ \E c \in Clients :
         \/ ReadOld(c) \/ CopyToOld(c) \/ DropRecov(c)
         \/ TakeOver(c) \/ TakeOverRemoved(c) \/ Clean(c)
         \/ Confirm(c) \/ AddClid(c) \/ ChkClid(c) \/ Acquire(c) \/ Reclaim(c)
         \/ Expire(c) \/ RmClid(c)

Spec == Init /\ [][Next]_vars

----------------------------------------------------------------------------
\* The type invariant; only a client that was recorded and looked up has state.
TypeOK ==
    /\ backend \in Backends
    /\ old \subseteq Clients /\ recov \subseteq Clients
    /\ linked \in BOOLEAN /\ gone \in BOOLEAN /\ wiped \in BOOLEAN
    /\ main \in {"down", "old", "recov", "serving"}
    /\ active \in BOOLEAN /\ own \in BOOLEAN
    /\ taking \subseteq Clients /\ todo \subseteq Clients /\ clids \subseteq Clients
    /\ ending \in {"no", "clean", "lift"}
    /\ confirmed \subseteq Clients /\ removing \subseteq Clients \ confirmed
    /\ adding \subseteq confirmed /\ checking \subseteq confirmed \ adding
    /\ allow \subseteq confirmed /\ held \subseteq confirmed \ (adding \cup checking)
    /\ crashes \in 0..MaxCrashes /\ events \in 0..MaxEvents
    /\ owed \subseteq Clients /\ fragile \subseteq Clients

\* What fs_ng_swap_recov_dir cleans up is "the old link path", and fs_ng is the
\* file system backend with "better resiliency": whenever the server crashes,
\* the next instance finds every client that had state or was still to reclaim.
Recoverable == held \cup owed \subseteq Stored

\* The same but for names that fs and rados_kv deleted from old when they read
\* them, and for the directory fs_ng deletes in the second period.
RecoverableButTwice == ~wiped => (held \cup owed) \ fragile \subseteq Stored

\* In normal operation the names on disk are those of the confirmed clients.
\* So a client that expired, or was given up at the end of a period, is not
\* found by a later instance: others may have had its locks since.
RecordsExact ==
    main = "serving" /\ ~active /\ ~wiped =>
      LET open == adding \cup removing
      IN  Stored \ open = confirmed \ open
============================================================================
