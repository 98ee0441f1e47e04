---------------------------- MODULE SharedLock -----------------------------
(***************************************************************************)
(* What a lock in shared memory promises to the processes that use it: one *)
(* owner at a time, only the owner gives it back, and the lock of a dead   *)
(* owner is taken away from it, once it is known to be dead and never      *)
(* before.  Shmtx implements it.                                           *)
(***************************************************************************)
CONSTANTS Procs, NoOwner

VARIABLES
    owner,  \* who has the lock, or NoOwner
    dead    \* processes that died and were not replaced yet

Init == owner = NoOwner /\ dead = {}

Acquire(p) == p \notin dead /\ owner = NoOwner /\ owner' = p /\ UNCHANGED dead

Release(p) == p \notin dead /\ owner = p /\ owner' = NoOwner /\ UNCHANGED dead

Die(p) == p \notin dead /\ dead' = dead \cup {p} /\ UNCHANGED owner

\* A dead process is buried: if it was the owner, the lock is free again.
Bury(p) ==
    /\ p \in dead
    /\ dead' = dead \ {p}
    /\ owner' = IF owner = p THEN NoOwner ELSE owner

Next == \E p \in Procs : Acquire(p) \/ Release(p) \/ Die(p) \/ Bury(p)

Spec == Init /\ [][Next]_<<owner, dead>>
=============================================================================
