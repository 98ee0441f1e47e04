------------------------------- MODULE Rwlock -------------------------------
(***************************************************************************)
(* The read/write lock in shared memory that guards the peers of an        *)
(* upstream zone (src/src/core/bjrk-edge_rwlock.c).  The word is 0 when    *)
(* free, -1 (RWLOCK_WLOCK) with a writer, and otherwise the number of      *)
(* readers.  The grain is one step per access to the word; the value a     *)
(* reader saw and the decision unlock() took are state between two steps.  *)
(* As for the mutex, "*lock == 0 && cmp_set(lock, 0, W)" is one step.      *)
(*                                                                         *)
(* Nothing releases this lock for a process that died: ngx_unlock_mutexes  *)
(* frees only the mutexes of the zones.                                    *)
(***************************************************************************)
EXTENDS Integers, FiniteSets

CONSTANTS Procs,      \* the processes that share the zone
          MaxDeaths   \* bound: how many of them die

RwlockAssumption == IsFiniteSet(Procs) /\ MaxDeaths \in Nat

WLOCK == -1

VARIABLES lock,   \* the word
          pc,     \* where each process is
          hold,   \* history: what each process holds, "none", "read" or "write"
          seen    \* the local variable readers

vars == <<lock, pc, hold, seen>>

PCs == {"idle", "wlock", "rlock", "rcas", "holds", "unlock", "clear", "decrement",
        "downgrade", "store", "dead"}

Init ==
    /\ lock = 0
    /\ pc = [p \in Procs |-> "idle"]
    /\ hold = [p \in Procs |-> "none"]
    /\ seen = [p \in Procs |-> 0]

Goto(p, from, to) ==
    /\ pc[p] = from
    /\ pc' = [pc EXCEPT ![p] = to]

(***************************************************************************)
(* ngx_rwlock_wlock and ngx_rwlock_rlock.  A failed attempt is repeated.   *)
(***************************************************************************)
CallWlock(p) == Goto(p, "idle", "wlock") /\ UNCHANGED <<lock, hold, seen>>
CallRlock(p) == Goto(p, "idle", "rlock") /\ UNCHANGED <<lock, hold, seen>>

\* Mutant: a lock with readers is taken for writing.
WlockSharing(p) ==
    /\ Goto(p, "wlock", "holds")
    /\ lock # WLOCK
    /\ lock' = WLOCK
    /\ hold' = [hold EXCEPT ![p] = "write"]
    /\ UNCHANGED seen

Wlock(p) ==
    /\ Goto(p, "wlock", "holds")
    /\ lock = 0
    /\ lock' = WLOCK
    /\ hold' = [hold EXCEPT ![p] = "write"]
    /\ UNCHANGED seen

\* readers = *lock
RlockRead(p) ==
    /\ Goto(p, "rlock", "rcas")
    /\ seen' = [seen EXCEPT ![p] = lock]
    /\ UNCHANGED <<lock, hold>>

RlockCas(p) ==
    /\ Goto(p, "rcas", "holds")
    /\ seen[p] # WLOCK
    /\ lock = seen[p]
    /\ lock' = seen[p] + 1
    /\ hold' = [hold EXCEPT ![p] = "read"]
    /\ UNCHANGED seen

\* Mutant: the word is not read again.
RlockAgainStale(p) ==
    /\ Goto(p, "rcas", "rcas")
    /\ seen[p] = WLOCK \/ lock # seen[p]
    /\ UNCHANGED <<lock, hold, seen>>

\* There was a writer, or the word changed: try again.
RlockAgain(p) ==
    /\ Goto(p, "rcas", "rlock")
    /\ seen[p] = WLOCK \/ lock # seen[p]
    /\ UNCHANGED <<lock, hold, seen>>

(***************************************************************************)
(* ngx_rwlock_unlock decides by reading the word who is calling.           *)
(***************************************************************************)
CallUnlock(p) == Goto(p, "holds", "unlock") /\ UNCHANGED <<lock, hold, seen>>

\* Mutant: unlock takes every caller for a reader.
UnlockReadAsReader(p) == Goto(p, "unlock", "decrement") /\ UNCHANGED <<lock, hold, seen>>

UnlockRead(p) ==
    /\ Goto(p, "unlock", IF lock = WLOCK THEN "clear" ELSE "decrement")
    /\ UNCHANGED <<lock, hold, seen>>

UnlockClear(p) ==
    /\ Goto(p, "clear", "idle")
    /\ lock' = IF lock = WLOCK THEN 0 ELSE lock
    /\ hold' = [hold EXCEPT ![p] = "none"]
    /\ UNCHANGED seen

UnlockDecrement(p) ==
    /\ Goto(p, "decrement", "idle")
    /\ lock' = lock - 1
    /\ hold' = [hold EXCEPT ![p] = "none"]
    /\ UNCHANGED seen

(***************************************************************************)
(* ngx_rwlock_downgrade, for a writer.                                     *)
(***************************************************************************)
CallDowngrade(p) == Goto(p, "holds", "downgrade") /\ UNCHANGED <<lock, hold, seen>>

DowngradeRead(p) ==
    /\ Goto(p, "downgrade", IF lock = WLOCK THEN "store" ELSE "holds")
    /\ UNCHANGED <<lock, hold, seen>>

DowngradeStore(p) ==
    /\ Goto(p, "store", "holds")
    /\ lock' = 1
    /\ hold' = [hold EXCEPT ![p] = "read"]
    /\ UNCHANGED seen

\* The process dies, with what it holds.
Die(p) ==
    /\ pc[p] # "dead"
    /\ Cardinality({q \in Procs : pc[q] = "dead"}) < MaxDeaths
    /\ pc' = [pc EXCEPT ![p] = "dead"]
    /\ UNCHANGED <<lock, hold, seen>>

Step(p) ==
    \/ Wlock(p) \/ RlockRead(p) \/ RlockCas(p) \/ RlockAgain(p)
    \/ CallUnlock(p) \/ UnlockRead(p) \/ UnlockClear(p) \/ UnlockDecrement(p)
    \/ DowngradeRead(p) \/ DowngradeStore(p)

Next == \E p \in Procs : Step(p) \/ CallWlock(p) \/ CallRlock(p) \/ CallDowngrade(p) \/ Die(p)

Spec == Init /\ [][Next]_vars

\* A process inside a call goes on, and what it holds it gives back.
FairSpec == Spec /\ \A p \in Procs : WF_vars(Step(p))

(***************************************************************************)
(* Properties.                                                             *)
(***************************************************************************)
Readers == {p \in Procs : hold[p] = "read"}
Writers == {p \in Procs : hold[p] = "write"}

\* Every variable has its type.
TypeOK ==
    /\ lock \in Int
    /\ pc \in [Procs -> PCs]
    /\ hold \in [Procs -> {"none", "read", "write"}]
    /\ seen \in [Procs -> Int]

\* A writer is alone; readers may be together (ngx_rwlock_wlock, ngx_rwlock_rlock).
WriterExcludes ==
    \A p, q \in Procs : hold[p] = "write" /\ p # q => hold[q] = "none"

\* The word always says exactly who holds the lock, the dead included: also while a reader that
\* read the word long ago is about to compare it, and between the two halves of unlock and
\* downgrade.
WordCounts ==
    lock = IF Writers # {} THEN WLOCK ELSE Cardinality(Readers)

\* The branch that unlock and downgrade choose by reading the word stays the right one until
\* the write.
BranchStands ==
    \A p \in Procs : /\ pc[p] \in {"clear", "store"} => hold[p] = "write" /\ lock = WLOCK
                     /\ pc[p] = "decrement" => hold[p] = "read" /\ lock > 0

\* The word tells who holds the lock, to those who read it and to those who act on what they read.
HoldersExact == WriterExcludes /\ WordCounts /\ BranchStands

\* Whoever wants the lock, somebody gets on: while no one dies, a waiting process does not wait
\* at a lock that is free for ever.  (A particular writer may starve behind readers.)
Waiting == {p \in Procs : pc[p] \in {"wlock", "rlock", "rcas"}}
Progress == []<>(Waiting = {} \/ \E p \in Procs : pc[p] \in {"holds", "dead"})
=============================================================================
