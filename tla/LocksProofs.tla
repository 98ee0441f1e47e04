---------------------------- MODULE LocksProofs ----------------------------
(***************************************************************************)
(* Proofs about the mutex Shmtx, for every set of processes, with and      *)
(* without the semaphore and for any number of faults, and, after that,    *)
(* about the read/write lock Rwlock and the thread pool ThreadPool, which  *)
(* MCLocks puts beside it.                                                 *)
(***************************************************************************)
EXTENDS MCLocks, FiniteSetTheorems, SequenceTheorems, TLAPS

LEMMA TypeCorrect == Spec => []TypeOK
<1> USE DEF Actors, ProcPCs, ReaperPCs
<1>1. Init => TypeOK
  BY ShmtxAssumption DEF Init, TypeOK
<1>2. TypeOK /\ [Next]_vars => TypeOK'
  <2> SUFFICES ASSUME TypeOK, [Next]_vars PROVE TypeOK'
    OBVIOUS
  <2>0. semaphore' = semaphore
    BY DEF Next, vars
  <2> USE ShmtxAssumption, <2>0 DEF TypeOK, Goto
  <2>1. CASE UNCHANGED vars
    BY <2>1 DEF vars
  <2>2. ASSUME NEW p \in Procs, TryLock(p) \/ LockCall(p) PROVE TypeOK'
    BY <2>2 DEF TryLock, LockCall
  <2>3. ASSUME NEW p \in Procs, LockAcquire(p) \/ LockGiveUp(p) PROVE TypeOK'
    BY <2>3 DEF LockAcquire, LockGiveUp
  <2>4. ASSUME NEW p \in Procs, Enrol(p) \/ Recheck(p) PROVE TypeOK'
    BY <2>4 DEF Enrol, Recheck
  <2>5. ASSUME NEW p \in Procs, Unenrol(p) \/ SemWait(p) PROVE TypeOK'
    BY <2>5 DEF Unenrol, SemWait
  <2>6. ASSUME NEW p \in Procs, Unlock(p) PROVE TypeOK'
    BY <2>6 DEF Unlock
  <2>7. ASSUME NEW a \in Actors, WakeRead(a) PROVE TypeOK'
    BY <2>7 DEF WakeRead
  <2>8. ASSUME NEW a \in Actors, WakeCas(a) PROVE TypeOK'
    BY <2>8 DEF WakeCas
  <2>9. ASSUME NEW a \in Actors, SemPost(a) \/ SemPostFails(a) PROVE TypeOK'
    BY <2>9 DEF SemPost, SemPostFails, Fault
  <2>10. ASSUME NEW p \in Procs, SemWaitFails(p) PROVE TypeOK'
    BY <2>10 DEF SemWaitFails, Fault
  <2>11. ASSUME NEW p \in Procs, Crash(p) PROVE TypeOK'
    BY <2>11 DEF Crash, Fault
  <2>12. ASSUME NEW p \in Procs, Respawn(p) \/ Waitpid(p) PROVE TypeOK'
    BY <2>12 DEF Respawn, Waitpid
  <2>13. ASSUME ForceUnlock PROVE TypeOK'
    <3>1. pc' \in [Actors -> ProcPCs \cup ReaperPCs]
      BY <2>13 DEF ForceUnlock
    <3>2. \A p \in Procs : pc'[p] \in ProcPCs
      BY <2>13 DEF ForceUnlock
    <3>3. pc'[Reaper] \in ReaperPCs
      BY <2>13 DEF ForceUnlock
    <3> QED
      BY <2>13, <3>1, <3>2, <3>3 DEF ForceUnlock
  <2> QED
    BY <2>1, <2>2, <2>3, <2>4, <2>5, <2>6, <2>7, <2>8, <2>9, <2>10, <2>11, <2>12, <2>13
    DEF Next, ProcStep, ReaperStep, Wakeup
<1> QED
  BY <1>1, <1>2, PTL DEF Spec

-----------------------------------------------------------------------------
(***************************************************************************)
(* Mutual exclusion.  By itself it is not inductive: the reaper clears the *)
(* word of the process it works on, which must really be dead.             *)
(***************************************************************************)
OwnerInv == MutualExclusion /\ DeadOwnersPending

LEMMA OwnerStep == TypeOK /\ OwnerInv /\ [Next]_vars => OwnerInv'
<1> SUFFICES ASSUME TypeOK, OwnerInv, [Next]_vars PROVE OwnerInv'
  OBVIOUS
<1>0. semaphore' = semaphore
  BY DEF Next, vars
<1> USE ShmtxAssumption, <1>0 DEF TypeOK, OwnerInv, MutualExclusion, DeadOwnersPending,
      Goto, Actors, ProcPCs, ReaperPCs, Owning, Enrolled
<1>1. CASE UNCHANGED vars
  BY <1>1 DEF vars
<1>2. ASSUME NEW p \in Procs, TryLock(p) \/ LockCall(p) PROVE OwnerInv'
  BY <1>2 DEF TryLock, LockCall
<1>3. ASSUME NEW p \in Procs, LockAcquire(p) \/ LockGiveUp(p) PROVE OwnerInv'
  BY <1>3 DEF LockAcquire, LockGiveUp
<1>4. ASSUME NEW p \in Procs, Enrol(p) \/ Recheck(p) PROVE OwnerInv'
  BY <1>4 DEF Enrol, Recheck
<1>5. ASSUME NEW p \in Procs, Unenrol(p) \/ SemWait(p) PROVE OwnerInv'
  BY <1>5 DEF Unenrol, SemWait
<1>6. ASSUME NEW p \in Procs, Unlock(p) PROVE OwnerInv'
  BY <1>6 DEF Unlock
<1>7. ASSUME NEW a \in Actors, WakeRead(a) PROVE OwnerInv'
  BY <1>7 DEF WakeRead
<1>8. ASSUME NEW a \in Actors, WakeCas(a) PROVE OwnerInv'
  BY <1>8 DEF WakeCas
<1>9. ASSUME NEW a \in Actors, SemPost(a) \/ SemPostFails(a) PROVE OwnerInv'
  BY <1>9 DEF SemPost, SemPostFails, Fault
<1>10. ASSUME NEW p \in Procs, SemWaitFails(p) PROVE OwnerInv'
  BY <1>10 DEF SemWaitFails, Fault
<1>11. ASSUME NEW p \in Procs, Crash(p) PROVE OwnerInv'
  BY <1>11 DEF Crash, Fault
<1>12. ASSUME NEW p \in Procs, Respawn(p) \/ Waitpid(p) PROVE OwnerInv'
  BY <1>12 DEF Respawn, Waitpid
<1>13. ASSUME ForceUnlock PROVE OwnerInv'
  BY <1>13 DEF ForceUnlock
<1> QED
  BY <1>1, <1>2, <1>3, <1>4, <1>5, <1>6, <1>7, <1>8, <1>9, <1>10, <1>11, <1>12, <1>13
  DEF Next, ProcStep, ReaperStep, Wakeup

(***************************************************************************)
(* Two processes are never in the guarded section together, whatever dies  *)
(* and whatever the semaphore does.                                        *)
(***************************************************************************)
THEOREM MutexSafe == Spec => []MutualExclusion
<1>1. Init => OwnerInv
  BY ShmtxAssumption DEF Init, OwnerInv, MutualExclusion, DeadOwnersPending,
     Actors, Owning, Enrolled
<1> QED
  BY <1>1, OwnerStep, TypeCorrect, PTL DEF Spec, OwnerInv

-----------------------------------------------------------------------------
(***************************************************************************)
(* Conservation of waiters and tokens.  Only one actor moves in a step, so *)
(* both cardinalities change by what that actor contributes.               *)
(***************************************************************************)
Posters == {a \in Actors : pc[a] = "post"}
Waiters == {p \in Procs : pc[p] \in Enrolled}
Balance == wait + sem + Cardinality(Posters) = Cardinality(Waiters) + leak

\* How a cardinality changes when one element enters or leaves the set.
LEMMA MoveCount ==
  ASSUME NEW S, NEW T, NEW U, IsFiniteSet(U), S \subseteq U, T \subseteq U, NEW x
  PROVE  /\ Cardinality(S) \in Nat
         /\ T = S => Cardinality(T) = Cardinality(S)
         /\ x \notin S /\ T = S \cup {x} => Cardinality(T) = Cardinality(S) + 1
         /\ x \in S /\ T = S \ {x} => Cardinality(T) = Cardinality(S) - 1
<1>1. IsFiniteSet(S) /\ Cardinality(S) \in Nat
  BY FS_Subset, FS_CardinalityType
<1>2. x \notin S /\ T = S \cup {x} => Cardinality(T) = Cardinality(S) + 1
  BY <1>1, FS_AddElement
<1>3. x \in S /\ T = S \ {x} => Cardinality(T) = Cardinality(S) - 1
  BY <1>1, FS_RemoveElement
<1> QED
  BY <1>1, <1>2, <1>3

\* One actor moves: what that means for the two sets.
LEMMA OneMoves ==
  ASSUME TypeOK, NEW a \in Actors, NEW to \in ProcPCs \cup ReaperPCs,
         pc' = [pc EXCEPT ![a] = to]
  PROVE  /\ Cardinality(Posters) \in Nat /\ Cardinality(Waiters) \in Nat
         /\ Cardinality(Posters)' = Cardinality(Posters)
                + (IF to = "post" THEN 1 ELSE 0) - (IF pc[a] = "post" THEN 1 ELSE 0)
         /\ a \in Procs => Cardinality(Waiters)' = Cardinality(Waiters)
                + (IF to \in Enrolled THEN 1 ELSE 0) - (IF pc[a] \in Enrolled THEN 1 ELSE 0)
         /\ a = Reaper => Cardinality(Waiters)' = Cardinality(Waiters)
<1>1. IsFiniteSet(Actors) /\ IsFiniteSet(Procs)
  BY ShmtxAssumption, FS_AddElement DEF Actors
<1>2. /\ Posters \subseteq Actors /\ Posters' \subseteq Actors
      /\ Waiters \subseteq Procs /\ Waiters' \subseteq Procs
  BY DEF Posters, Waiters
<1>3. \/ Posters' = Posters /\ (to = "post" <=> pc[a] = "post")
      \/ a \notin Posters /\ Posters' = Posters \cup {a} /\ to = "post" /\ pc[a] # "post"
      \/ a \in Posters /\ Posters' = Posters \ {a} /\ to # "post" /\ pc[a] = "post"
  BY DEF Posters, TypeOK
<1>4. a \in Procs =>
      \/ Waiters' = Waiters /\ (to \in Enrolled <=> pc[a] \in Enrolled)
      \/ a \notin Waiters /\ Waiters' = Waiters \cup {a} /\ to \in Enrolled /\ pc[a] \notin Enrolled
      \/ a \in Waiters /\ Waiters' = Waiters \ {a} /\ to \notin Enrolled /\ pc[a] \in Enrolled
  BY ShmtxAssumption DEF Waiters, TypeOK, Actors, Enrolled
<1>5. a = Reaper => Waiters' = Waiters
  BY ShmtxAssumption DEF Waiters, TypeOK, Actors
<1>6. /\ Cardinality(Posters) \in Nat
      /\ Posters' = Posters => Cardinality(Posters') = Cardinality(Posters)
      /\ a \notin Posters /\ Posters' = Posters \cup {a} => Cardinality(Posters') = Cardinality(Posters) + 1
      /\ a \in Posters /\ Posters' = Posters \ {a} => Cardinality(Posters') = Cardinality(Posters) - 1
  BY <1>1, <1>2, MoveCount
<1>7. /\ Cardinality(Waiters) \in Nat
      /\ Waiters' = Waiters => Cardinality(Waiters') = Cardinality(Waiters)
      /\ a \notin Waiters /\ Waiters' = Waiters \cup {a} => Cardinality(Waiters') = Cardinality(Waiters) + 1
      /\ a \in Waiters /\ Waiters' = Waiters \ {a} => Cardinality(Waiters') = Cardinality(Waiters) - 1
  BY <1>1, <1>2, MoveCount
<1> QED
  BY <1>3, <1>4, <1>5, <1>6, <1>7

LEMMA BalanceStep == TypeOK /\ OwnerInv /\ Balance /\ [Next]_vars => Balance'
<1> SUFFICES ASSUME TypeOK, OwnerInv, Balance, [Next]_vars PROVE Balance'
  OBVIOUS
<1> DEFINE P == Cardinality(Posters)
           W == Cardinality(Waiters)
<1>0. P \in Nat /\ W \in Nat /\ wait \in Int /\ sem \in Nat /\ leak \in Int
      /\ wait + sem + P = W + leak
  <2>1. IsFiniteSet(Actors) /\ IsFiniteSet(Procs)
    BY ShmtxAssumption, FS_AddElement DEF Actors
  <2>2. P \in Nat
    BY <2>1, MoveCount DEF Posters
  <2>3. W \in Nat
    BY <2>1, MoveCount DEF Waiters
  <2> QED
    BY <2>2, <2>3 DEF TypeOK, Balance
<1>goal. SUFFICES wait' + sem' + P' = W' + leak'
  BY DEF Balance
<1>p. \A p \in Procs : p \in Actors /\ p # Reaper
  BY ShmtxAssumption DEF Actors
<1> HIDE DEF P, W
<1>m. ASSUME NEW a \in Actors, NEW to \in ProcPCs \cup ReaperPCs,
             pc' = [pc EXCEPT ![a] = to]
      PROVE  /\ P' = P + (IF to = "post" THEN 1 ELSE 0) - (IF pc[a] = "post" THEN 1 ELSE 0)
             /\ a \in Procs => W' = W + (IF to \in Enrolled THEN 1 ELSE 0)
                                     - (IF pc[a] \in Enrolled THEN 1 ELSE 0)
             /\ a = Reaper => W' = W
  BY <1>m, OneMoves DEF P, W
<1> USE <1>0 DEF Goto, Enrolled, ProcPCs, ReaperPCs
<1>1. CASE UNCHANGED vars
  <2>1. Posters' = Posters /\ Waiters' = Waiters
    BY <1>1 DEF vars, Posters, Waiters
  <2> QED
    BY <1>1, <2>1 DEF vars, P, W
<1>2. ASSUME NEW p \in Procs, TryLock(p) \/ LockCall(p) PROVE wait' + sem' + P' = W' + leak'
  BY <1>2, <1>p, <1>m DEF TryLock, LockCall
<1>3. ASSUME NEW p \in Procs, LockAcquire(p) \/ LockGiveUp(p) PROVE wait' + sem' + P' = W' + leak'
  BY <1>3, <1>p, <1>m DEF LockAcquire, LockGiveUp
<1>4. ASSUME NEW p \in Procs, Enrol(p) \/ Recheck(p) PROVE wait' + sem' + P' = W' + leak'
  BY <1>4, <1>p, <1>m DEF Enrol, Recheck
<1>5. ASSUME NEW p \in Procs, Unenrol(p) \/ SemWait(p) PROVE wait' + sem' + P' = W' + leak'
  BY <1>5, <1>p, <1>m DEF Unenrol, SemWait
<1>6. ASSUME NEW p \in Procs, Unlock(p) PROVE wait' + sem' + P' = W' + leak'
  BY <1>6, <1>p, <1>m DEF Unlock
<1>7. ASSUME NEW a \in Actors, WakeRead(a) PROVE wait' + sem' + P' = W' + leak'
  BY <1>7, <1>p, <1>m DEF WakeRead, Actors
<1>8. ASSUME NEW a \in Actors, WakeCas(a) PROVE wait' + sem' + P' = W' + leak'
  BY <1>8, <1>p, <1>m DEF WakeCas, Actors
<1>9. ASSUME NEW a \in Actors, SemPost(a) \/ SemPostFails(a) PROVE wait' + sem' + P' = W' + leak'
  BY <1>9, <1>p, <1>m DEF SemPost, SemPostFails, Actors
<1>10. ASSUME NEW p \in Procs, SemWaitFails(p) PROVE wait' + sem' + P' = W' + leak'
  <2>1. /\ "contend" \in ProcPCs \cup ReaperPCs
        /\ pc[p] = "sleep" /\ pc' = [pc EXCEPT ![p] = "contend"]
    BY <1>10 DEF SemWaitFails
  <2>2. /\ P' = P + (IF "contend" = "post" THEN 1 ELSE 0) - (IF pc[p] = "post" THEN 1 ELSE 0)
        /\ W' = W + (IF "contend" \in Enrolled THEN 1 ELSE 0)
                  - (IF pc[p] \in Enrolled THEN 1 ELSE 0)
    BY <2>1, <1>p, <1>m
  <2> QED
    BY <1>10, <2>1, <2>2 DEF SemWaitFails
<1>11. ASSUME NEW p \in Procs, Crash(p) PROVE wait' + sem' + P' = W' + leak'
  <2>1. "dead" \in ProcPCs \cup ReaperPCs /\ pc' = [pc EXCEPT ![p] = "dead"]
    BY <1>11 DEF Crash
  <2>2. /\ P' = P + (IF "dead" = "post" THEN 1 ELSE 0) - (IF pc[p] = "post" THEN 1 ELSE 0)
        /\ W' = W + (IF "dead" \in Enrolled THEN 1 ELSE 0)
                  - (IF pc[p] \in Enrolled THEN 1 ELSE 0)
    BY <2>1, <1>p, <1>m
  <2> QED
    BY <1>11, <2>2 DEF Crash
<1>12. ASSUME NEW p \in Procs, Respawn(p) \/ Waitpid(p) PROVE wait' + sem' + P' = W' + leak'
  BY <1>12, <1>p, <1>m DEF Respawn, Waitpid, Actors
<1>13. ASSUME ForceUnlock PROVE wait' + sem' + P' = W' + leak'
  <2>1. Posters' = Posters
    BY <1>13, ShmtxAssumption DEF ForceUnlock, Posters, OwnerInv, DeadOwnersPending, TypeOK, Actors
  <2>2. Waiters' = Waiters
    BY <1>13, ShmtxAssumption DEF ForceUnlock, Waiters, OwnerInv, DeadOwnersPending, TypeOK, Actors
  <2> QED
    BY <1>13, <2>1, <2>2 DEF ForceUnlock, P, W
<1> QED
  BY <1>1, <1>2, <1>3, <1>4, <1>5, <1>6, <1>7, <1>8, <1>9, <1>10, <1>11, <1>12, <1>13
  DEF Next, ProcStep, ReaperStep, Wakeup, Actors

(***************************************************************************)
(* mtx->wait and the semaphore account for every registered waiter, for    *)
(* any number of processes and of faults.                                  *)
(***************************************************************************)
THEOREM WaitersConserved == Spec => []WaiterConservation
<1>1. Init => OwnerInv
  BY ShmtxAssumption DEF Init, OwnerInv, MutualExclusion, DeadOwnersPending,
     Actors, Owning, Enrolled
<1>2. Init => Balance
  <2> SUFFICES ASSUME Init PROVE Balance
    OBVIOUS
  <2>1. Posters = {} /\ Waiters = {}
    BY DEF Init, Posters, Waiters, Actors, Enrolled
  <2> QED
    BY <2>1, FS_EmptySet DEF Init, Balance
<1>3. Balance <=> WaiterConservation
  BY DEF Balance, WaiterConservation, Posters, Waiters
<1> QED
  BY <1>1, <1>2, <1>3, OwnerStep, BalanceStep, TypeCorrect, PTL DEF Spec

-----------------------------------------------------------------------------
(***************************************************************************)
(* No lost wakeup.  The one delicate step is a waker that finds wait <= 0  *)
(* and leaves: by the balance, the tokens posted or about to be posted     *)
(* then cover every sleeping process.                                      *)
(***************************************************************************)
LEMMA SleeperCovered ==
  ASSUME TypeOK, Balance, leak = 0, wait <= 0, NEW p \in Procs, pc[p] = "sleep"
  PROVE  sem > 0 \/ \E a \in Actors : pc[a] = "post"
<1>1. IsFiniteSet(Posters) /\ IsFiniteSet(Waiters)
  BY ShmtxAssumption, FS_AddElement, FS_Subset DEF Actors, Posters, Waiters
<1>2. Cardinality(Posters) \in Nat /\ Cardinality(Waiters) \in Nat
  BY <1>1, FS_CardinalityType
<1>3. Cardinality(Waiters) # 0
  <2>1. p \in Waiters
    BY DEF Waiters, Enrolled
  <2> QED
    BY <1>1, <2>1, FS_EmptySet
<1>4. sem + Cardinality(Posters) > 0
  BY <1>2, <1>3 DEF Balance, TypeOK
<1>5. sem = 0 => Cardinality(Posters) # 0
  BY <1>2, <1>4
<1>6. Cardinality(Posters) # 0 => \E a \in Actors : pc[a] = "post"
  BY <1>1, FS_EmptySet DEF Posters
<1> QED
  BY <1>5, <1>6 DEF TypeOK

LEMMA WakeupStep ==
  TypeOK /\ OwnerInv /\ Balance /\ NoLostWakeup /\ [Next]_vars => NoLostWakeup'
<1> SUFFICES ASSUME TypeOK, OwnerInv, Balance, NoLostWakeup, [Next]_vars,
                    faults' = 0, lock' = NoOwner, NEW s \in Procs, pc'[s] = "sleep"
             PROVE  \/ sem' > 0
                    \/ \E a \in Actors : pc'[a] \in {"contend", "wake", "wakecas", "post"}
  BY DEF NoLostWakeup
<1> DEFINE Busy == \E a \in Actors : pc'[a] \in {"contend", "wake", "wakecas", "post"}
<1> USE ShmtxAssumption DEF TypeOK, Goto, Actors, ProcPCs, ReaperPCs
<1>1. CASE UNCHANGED vars
  BY <1>1 DEF vars, NoLostWakeup
<1>2. ASSUME NEW p \in Procs, TryLock(p) \/ LockAcquire(p) \/ LockGiveUp(p) \/ Recheck(p)
      PROVE  FALSE
  BY <1>2 DEF TryLock, LockAcquire, LockGiveUp, Recheck
<1>3. ASSUME NEW p \in Procs, LockCall(p) \/ SemWait(p) PROVE Busy
  BY <1>3 DEF LockCall, SemWait
<1>4. ASSUME NEW p \in Procs, Enrol(p) PROVE sem' > 0 \/ Busy
  BY <1>4 DEF Enrol, NoLostWakeup
<1>5. ASSUME NEW p \in Procs, Unenrol(p) PROVE FALSE
  BY <1>5 DEF Unenrol, OwnerInv, MutualExclusion, Owning
<1>6. ASSUME NEW p \in Procs, Unlock(p) PROVE Busy
  BY <1>6 DEF Unlock, OwnerInv, MutualExclusion, Owning
<1>7. ASSUME NEW a \in Actors, WakeRead(a) PROVE sem' > 0 \/ Busy
  <2>1. pc[s] = "sleep" /\ faults = 0 /\ sem' = sem
    BY <1>7 DEF WakeRead
  <2>2. semaphore /\ leak = 0
    BY <2>1 DEF OwnerInv, DeadOwnersPending, Enrolled
  <2>3. CASE wait > 0
    BY <1>7, <2>2, <2>3 DEF WakeRead
  <2>4. CASE wait <= 0
    <3>1. sem > 0 \/ \E b \in Actors : pc[b] = "post"
      BY <2>1, <2>2, <2>4, SleeperCovered
    <3>2. \A b \in Actors : pc[b] = "post" => pc'[b] = "post"
      BY <1>7 DEF WakeRead
    <3> QED
      BY <2>1, <3>1, <3>2
  <2> QED
    BY <2>3, <2>4
<1>8. ASSUME NEW a \in Actors, WakeCas(a) PROVE Busy
  BY <1>8 DEF WakeCas
<1>9. ASSUME NEW a \in Actors, SemPost(a) PROVE sem' > 0
  BY <1>9 DEF SemPost
<1>10. ASSUME Fault PROVE FALSE
  BY <1>10 DEF Fault
<1>11. ASSUME NEW p \in Procs, Respawn(p) \/ Waitpid(p) PROVE FALSE
  BY <1>11 DEF Respawn, Waitpid, OwnerInv, DeadOwnersPending
<1>12. ASSUME ForceUnlock PROVE FALSE
  BY <1>12 DEF ForceUnlock, OwnerInv, DeadOwnersPending
<1> QED
  BY <1>1, <1>2, <1>3, <1>4, <1>5, <1>6, <1>7, <1>8, <1>9, <1>10, <1>11, <1>12
  DEF Next, ProcStep, ReaperStep, Wakeup, SemWaitFails, SemPostFails, Crash

(***************************************************************************)
(* In a run without faults no process sleeps for ever beside a free lock.  *)
(***************************************************************************)
THEOREM WakeupsNotLost == Spec => []NoLostWakeup
<1>1. Init => OwnerInv
  BY ShmtxAssumption DEF Init, OwnerInv, MutualExclusion, DeadOwnersPending,
     Actors, Owning, Enrolled
<1>2. Init => NoLostWakeup
  BY DEF Init, NoLostWakeup, Actors
<1>3. Balance <=> WaiterConservation
  BY DEF Balance, WaiterConservation, Posters, Waiters
<1> QED
  BY <1>1, <1>2, <1>3, OwnerStep, WakeupStep, WaitersConserved, TypeCorrect, PTL DEF Spec


(***************************************************************************)
(* Waiters and tokens are balanced, and wakeups are not lost.              *)
(***************************************************************************)
THEOREM WakeupsAreExact == Spec => []WakeupsExact
  BY WaitersConserved, WakeupsNotLost, PTL DEF WakeupsExact
-----------------------------------------------------------------------------
(***************************************************************************)
(* The mutex implements the abstract lock in shared memory.                *)
(***************************************************************************)
THEOREM RefinesSharedLock == Spec => ImplementsSharedLock
<1> DEFINE Dead == {p \in Procs : pc[p] = "dead"}
           Ok == Abstract!Next \/ UNCHANGED <<lock, Dead>>
<1>1. Init => Abstract!Init
  BY DEF Init, Abstract!Init, Actors
<1>2. TypeOK /\ OwnerInv /\ [Next]_vars => Ok
  <2> SUFFICES ASSUME TypeOK, OwnerInv, [Next]_vars
               PROVE  Ok
    OBVIOUS
  <2> USE ShmtxAssumption DEF TypeOK, Goto, Actors
  <2>1. CASE UNCHANGED vars
    BY <2>1 DEF vars
  <2>2. ASSUME NEW p \in Procs, TryLock(p) \/ LockAcquire(p) PROVE Ok
    <3>1. Abstract!Acquire(p)
      BY <2>2 DEF TryLock, LockAcquire, Abstract!Acquire
    <3> QED
      BY <3>1 DEF Abstract!Next
  <2>3. ASSUME NEW p \in Procs, LockCall(p) \/ LockGiveUp(p) \/ Enrol(p) \/ Unenrol(p)
                                 \/ SemWait(p) \/ SemWaitFails(p) \/ Respawn(p)
        PROVE  Ok
    BY <2>3 DEF LockCall, LockGiveUp, Enrol, Unenrol, SemWait, SemWaitFails, Respawn
  <2>4. ASSUME NEW p \in Procs, Recheck(p) PROVE Ok
    <3>1. Abstract!Acquire(p) \/ UNCHANGED <<lock, Dead>>
      BY <2>4 DEF Recheck, Abstract!Acquire
    <3> QED
      BY <3>1 DEF Abstract!Next
  <2>5. ASSUME NEW p \in Procs, Unlock(p) PROVE Ok
    <3>1. Abstract!Release(p)
      BY <2>5 DEF Unlock, Abstract!Release, OwnerInv, MutualExclusion, Owning
    <3> QED
      BY <3>1 DEF Abstract!Next
  <2>6. ASSUME NEW a \in Actors, Wakeup(a) \/ SemPostFails(a) PROVE Ok
    BY <2>6 DEF Wakeup, WakeRead, WakeCas, SemPost, SemPostFails
  <2>7. ASSUME NEW p \in Procs, Crash(p) PROVE Ok
    <3>1. Abstract!Die(p)
      BY <2>7 DEF Crash, Abstract!Die
    <3> QED
      BY <3>1 DEF Abstract!Next
  <2>8. ASSUME NEW p \in Procs, Waitpid(p) PROVE Ok
    BY <2>8 DEF Waitpid
  <2>9. ASSUME ForceUnlock PROVE Ok
    <3>1. PICK p \in Procs : p = victim
      BY <2>9 DEF ForceUnlock, OwnerInv, DeadOwnersPending
    <3>2. Abstract!Bury(p)
      BY <2>9, <3>1 DEF ForceUnlock, Abstract!Bury, OwnerInv, DeadOwnersPending
    <3> QED
      BY <3>2 DEF Abstract!Next
  <2> HIDE DEF Ok
  <2> QED
    BY <2>1, <2>2, <2>3, <2>4, <2>5, <2>6, <2>7, <2>8, <2>9
    DEF Next, ProcStep, ReaperStep
<1>3. Init => OwnerInv
  BY ShmtxAssumption DEF Init, OwnerInv, MutualExclusion, DeadOwnersPending,
     Actors, Owning, Enrolled
<1> QED
  BY <1>1, <1>2, <1>3, OwnerStep, TypeCorrect, PTL DEF Spec, ImplementsSharedLock, Abstract!Spec
-----------------------------------------------------------------------------
(***************************************************************************)
(* The read/write lock, for every finite set of processes: a writer is     *)
(* alone, and the word counts the holders.  The invariant that is          *)
(* inductive joins the two to what a program point says of what the        *)
(* process holds, and to the branch that unlock and downgrade have chosen. *)
(***************************************************************************)
\* FiniteSets as Rwlock has it is FiniteSets.
LEMMA SameSets ==
    \A S : /\ Rw!IsFiniteSet(S) <=> IsFiniteSet(S)
           /\ Rw!Cardinality(S) = Cardinality(S)
<1>1. \A S : Rw!IsFiniteSet(S) <=> IsFiniteSet(S)
  BY DEF Rw!IsFiniteSet, IsFiniteSet
<1>2. \A S : Rw!Cardinality(S) = Cardinality(S)
  BY DEF Rw!Cardinality, Cardinality
<1> QED
  BY <1>1, <1>2

RwOutside == {"idle", "wlock", "rlock", "rcas"}
RwInside  == {"holds", "unlock", "clear", "decrement", "downgrade", "store"}

\* What a living process holds follows from where it is.
HoldsByPC ==
    \A p \in Procs : /\ rwpc[p] \in RwOutside => hold[p] = "none"
                     /\ rwpc[p] \in RwInside => hold[p] # "none"

RwInv ==
    /\ Rw!RwlockAssumption
    /\ Rw!TypeOK
    /\ Rw!WriterExcludes
    /\ Rw!WordCounts
    /\ Rw!BranchStands
    /\ HoldsByPC

\* The holders are finitely many, so they can be counted.
LEMMA HoldersFinite ==
    ASSUME Rw!RwlockAssumption
    PROVE  /\ IsFiniteSet(Rw!Readers)
           /\ Cardinality(Rw!Readers) \in Nat
           /\ Rw!Readers = {} <=> Cardinality(Rw!Readers) = 0
<1>1. Rw!Readers \subseteq Procs
  BY DEF Rw!Readers
<1>2. IsFiniteSet(Rw!Readers)
  BY <1>1, FS_Subset, SameSets DEF Rw!RwlockAssumption
<1> QED
  BY <1>2, FS_CardinalityType, FS_EmptySet DEF Rw!Readers

\* The word is -1 exactly with a writer, and positive exactly with readers and no writer.
LEMMA WordMeaning ==
    ASSUME Rw!RwlockAssumption, Rw!WordCounts
    PROVE  /\ word = Rw!WLOCK <=> Rw!Writers # {}
           /\ word = 0 <=> Rw!Writers = {} /\ Rw!Readers = {}
BY HoldersFinite, SameSets DEF Rw!WordCounts, Rw!WLOCK

\* A process that starts reading adds one reader.
LEMMA ReaderAdded ==
    ASSUME Rw!RwlockAssumption, Rw!TypeOK, NEW p \in Procs, hold[p] # "read",
           hold' = [hold EXCEPT ![p] = "read"]
    PROVE  Cardinality(Rw!Readers') = Cardinality(Rw!Readers) + 1
<1>1. Rw!Readers' = Rw!Readers \cup {p} /\ p \notin Rw!Readers
  BY DEF Rw!Readers, Rw!TypeOK
<1> QED
  BY <1>1, HoldersFinite, FS_AddElement

\* A process that stops reading takes one away.
LEMMA ReaderRemoved ==
    ASSUME Rw!RwlockAssumption, Rw!TypeOK, NEW p \in Procs, hold[p] = "read",
           hold' = [hold EXCEPT ![p] = "none"]
    PROVE  Cardinality(Rw!Readers') = Cardinality(Rw!Readers) - 1
<1>1. Rw!Readers' = Rw!Readers \ {p} /\ p \in Rw!Readers
  BY DEF Rw!Readers, Rw!TypeOK
<1> QED
  BY <1>1, HoldersFinite, FS_RemoveElement

\* Steps that change neither the word nor the holders.
LEMMA RwQuietStep ==
    ASSUME RwInv, UNCHANGED <<word, hold>>
    PROVE  Rw!WriterExcludes' /\ Rw!WordCounts'
BY SameSets DEF RwInv, Rw!WriterExcludes, Rw!WordCounts, Rw!Writers, Rw!Readers

LEMMA RwInitially ==
    ASSUME Rw!RwlockAssumption, Rw!Init PROVE RwInv
<1>1. Rw!TypeOK /\ Rw!WriterExcludes /\ Rw!BranchStands /\ HoldsByPC
  BY DEF Rw!Init, Rw!TypeOK, Rw!PCs, Rw!WriterExcludes, Rw!BranchStands, HoldsByPC, RwOutside,
         RwInside
<1>2. Rw!Writers = {} /\ Rw!Readers = {}
  BY DEF Rw!Init, Rw!Writers, Rw!Readers
<1>3. Rw!WordCounts
  BY <1>2, FS_EmptySet, SameSets DEF Rw!Init, Rw!WordCounts
<1> QED
  BY <1>1, <1>3 DEF RwInv

LEMMA WlockStep ==
    ASSUME RwInv, NEW p \in Procs, Rw!Wlock(p) PROVE RwInv'
<1>1. Rw!Writers = {} /\ Rw!Readers = {}
  BY WordMeaning DEF Rw!Wlock, RwInv
<1>2. \A q \in Procs : hold[q] = "none"
  BY <1>1 DEF Rw!Writers, Rw!Readers, RwInv, Rw!TypeOK
<1>3. Rw!TypeOK' /\ HoldsByPC'
  BY DEF RwInv, Rw!Wlock, Rw!Goto, Rw!TypeOK, Rw!PCs, HoldsByPC, RwOutside, RwInside, Rw!WLOCK
<1>4. Rw!WriterExcludes'
  BY <1>2 DEF Rw!WriterExcludes, Rw!Wlock, RwInv, Rw!TypeOK
<1>5. p \in Rw!Writers'
  BY DEF Rw!Writers, Rw!Wlock, RwInv, Rw!TypeOK
<1>6. Rw!WordCounts'
  BY <1>5, SameSets DEF Rw!WordCounts, Rw!Wlock
<1>7. Rw!BranchStands'
  BY <1>2 DEF Rw!BranchStands, Rw!Wlock, Rw!Goto, RwInv, Rw!TypeOK, Rw!WLOCK
<1> QED
  BY <1>3, <1>4, <1>6, <1>7 DEF RwInv

LEMMA RlockCasStep ==
    ASSUME RwInv, NEW p \in Procs, Rw!RlockCas(p) PROVE RwInv'
<1>1. word # Rw!WLOCK /\ hold[p] = "none"
  BY DEF Rw!RlockCas, Rw!Goto, RwInv, HoldsByPC, RwOutside
<1>2. Rw!Writers = {} /\ word = Cardinality(Rw!Readers)
  BY <1>1, WordMeaning, SameSets DEF RwInv, Rw!WordCounts
<1>3. Rw!TypeOK' /\ HoldsByPC'
  BY DEF RwInv, Rw!RlockCas, Rw!Goto, Rw!TypeOK, Rw!PCs, HoldsByPC, RwOutside, RwInside
<1>4. Rw!Writers' = {} /\ Rw!WriterExcludes'
  BY <1>2 DEF Rw!Writers, Rw!WriterExcludes, Rw!RlockCas, RwInv, Rw!TypeOK
<1>5. Cardinality(Rw!Readers') = Cardinality(Rw!Readers) + 1
  BY <1>1, ReaderAdded DEF Rw!RlockCas, RwInv
<1>6. Rw!WordCounts'
  BY <1>2, <1>4, <1>5, SameSets DEF Rw!WordCounts, Rw!RlockCas
<1>7. Rw!BranchStands'
  BY <1>1, <1>2, HoldersFinite DEF Rw!BranchStands, Rw!RlockCas, Rw!Goto, RwInv, Rw!TypeOK, Rw!WLOCK
<1> QED
  BY <1>3, <1>4, <1>6, <1>7 DEF RwInv

\* The branch of unlock and of downgrade.
LEMMA DecisionStep ==
    ASSUME RwInv, NEW p \in Procs, Rw!UnlockRead(p) \/ Rw!DowngradeRead(p) PROVE RwInv'
<1>1. hold[p] # "none"
  BY DEF Rw!UnlockRead, Rw!DowngradeRead, Rw!Goto, RwInv, HoldsByPC, RwInside
<1>2. word = Rw!WLOCK => hold[p] = "write"
  BY <1>1, WordMeaning DEF RwInv, Rw!WriterExcludes, Rw!Writers, Rw!TypeOK
<1>3. word # Rw!WLOCK => hold[p] = "read" /\ word > 0
  <2>1. word # Rw!WLOCK => p \in Rw!Readers /\ word = Cardinality(Rw!Readers)
    BY <1>1, WordMeaning, SameSets DEF RwInv, Rw!Readers, Rw!Writers, Rw!TypeOK, Rw!WordCounts
  <2> QED
    BY <2>1, HoldersFinite DEF Rw!Readers, RwInv
<1>4. Rw!TypeOK' /\ HoldsByPC'
  BY DEF RwInv, Rw!UnlockRead, Rw!DowngradeRead, Rw!Goto, Rw!TypeOK, Rw!PCs, HoldsByPC,
         RwOutside, RwInside
<1>5. Rw!BranchStands'
  BY <1>2, <1>3 DEF Rw!BranchStands, Rw!UnlockRead, Rw!DowngradeRead, Rw!Goto, RwInv, Rw!TypeOK
<1>6. Rw!WriterExcludes' /\ Rw!WordCounts'
  BY RwQuietStep DEF Rw!UnlockRead, Rw!DowngradeRead
<1> QED
  BY <1>4, <1>5, <1>6 DEF RwInv

LEMMA UnlockClearStep ==
    ASSUME RwInv, NEW p \in Procs, Rw!UnlockClear(p) PROVE RwInv'
<1>1. hold[p] = "write" /\ word = Rw!WLOCK
  BY DEF Rw!UnlockClear, Rw!Goto, RwInv, Rw!BranchStands
<1>2. \A q \in Procs \ {p} : hold[q] = "none"
  BY <1>1 DEF RwInv, Rw!WriterExcludes
<1>3. \A q \in Procs : hold'[q] = "none"
  BY <1>2 DEF Rw!UnlockClear, RwInv, Rw!TypeOK
<1>4. Rw!Writers' = {} /\ Rw!Readers' = {}
  BY <1>3 DEF Rw!Writers, Rw!Readers
<1>5. word' = 0
  BY <1>1 DEF Rw!UnlockClear
<1>6. Rw!WordCounts'
  BY <1>4, <1>5, FS_EmptySet, SameSets DEF Rw!WordCounts
<1>7. Rw!TypeOK' /\ HoldsByPC'
  BY <1>5 DEF RwInv, Rw!UnlockClear, Rw!Goto, Rw!TypeOK, Rw!PCs, HoldsByPC, RwOutside, RwInside
<1>8. Rw!WriterExcludes'
  BY <1>3 DEF Rw!WriterExcludes
<1>9. Rw!BranchStands'
  BY <1>2, <1>5 DEF Rw!BranchStands, Rw!UnlockClear, Rw!Goto, RwInv, Rw!TypeOK, Rw!WLOCK
<1> QED
  BY <1>6, <1>7, <1>8, <1>9 DEF RwInv

LEMMA UnlockDecrementStep ==
    ASSUME RwInv, NEW p \in Procs, Rw!UnlockDecrement(p) PROVE RwInv'
<1>1. hold[p] = "read" /\ word > 0
  BY DEF Rw!UnlockDecrement, Rw!Goto, RwInv, Rw!BranchStands
<1>2. Rw!Writers = {} /\ word = Cardinality(Rw!Readers)
  BY <1>1, WordMeaning, SameSets DEF RwInv, Rw!WordCounts, Rw!WLOCK
<1>3. Cardinality(Rw!Readers') = Cardinality(Rw!Readers) - 1
  BY <1>1, ReaderRemoved DEF Rw!UnlockDecrement, RwInv
<1>4. Rw!Writers' = {} /\ Rw!WriterExcludes'
  BY <1>2 DEF Rw!Writers, Rw!WriterExcludes, Rw!UnlockDecrement, RwInv, Rw!TypeOK
<1>5. Rw!WordCounts'
  BY <1>2, <1>3, <1>4, SameSets DEF Rw!WordCounts, Rw!UnlockDecrement
<1>6. Rw!TypeOK' /\ HoldsByPC'
  BY DEF RwInv, Rw!UnlockDecrement, Rw!Goto, Rw!TypeOK, Rw!PCs, HoldsByPC, RwOutside, RwInside
<1>7. ASSUME NEW q \in Procs, rwpc'[q] = "decrement"
      PROVE  hold'[q] = "read" /\ word' > 0
  <2>1. q # p /\ hold'[q] = "read"
    BY <1>7 DEF Rw!UnlockDecrement, Rw!Goto, RwInv, Rw!TypeOK, Rw!BranchStands
  <2>2. q \in Rw!Readers'
    BY <2>1 DEF Rw!Readers
  <2>3. IsFiniteSet(Rw!Readers')
    <3>1. Rw!Readers' \subseteq Procs
      BY DEF Rw!Readers
    <3> QED
      BY <3>1, FS_Subset, SameSets DEF RwInv, Rw!RwlockAssumption
  <2>4. Cardinality(Rw!Readers') # 0 /\ Cardinality(Rw!Readers') \in Nat
    BY <2>2, <2>3, FS_EmptySet, FS_CardinalityType
  <2> QED
    BY <2>1, <2>4, <1>5, <1>4, SameSets DEF Rw!WordCounts
<1>8. Rw!BranchStands'
  BY <1>7, <1>1 DEF Rw!BranchStands, Rw!UnlockDecrement, Rw!Goto, RwInv, Rw!TypeOK, Rw!WLOCK
<1> QED
  BY <1>4, <1>5, <1>6, <1>8 DEF RwInv

LEMMA DowngradeStoreStep ==
    ASSUME RwInv, NEW p \in Procs, Rw!DowngradeStore(p) PROVE RwInv'
<1>1. hold[p] = "write" /\ word = Rw!WLOCK
  BY DEF Rw!DowngradeStore, Rw!Goto, RwInv, Rw!BranchStands
<1>2. \A q \in Procs \ {p} : hold[q] = "none"
  BY <1>1 DEF RwInv, Rw!WriterExcludes
<1>3. Rw!Readers' = {p} /\ Rw!Writers' = {}
  BY <1>2 DEF Rw!DowngradeStore, RwInv, Rw!TypeOK, Rw!Readers, Rw!Writers
<1>4. Rw!WordCounts'
  BY <1>3, FS_Singleton, SameSets DEF Rw!WordCounts, Rw!DowngradeStore
<1>5. Rw!TypeOK' /\ HoldsByPC'
  BY DEF RwInv, Rw!DowngradeStore, Rw!Goto, Rw!TypeOK, Rw!PCs, HoldsByPC, RwOutside, RwInside
<1>6. Rw!WriterExcludes'
  BY <1>2 DEF Rw!WriterExcludes, Rw!DowngradeStore, RwInv, Rw!TypeOK
<1>7. Rw!BranchStands'
  BY <1>2 DEF Rw!BranchStands, Rw!DowngradeStore, Rw!Goto, RwInv, Rw!TypeOK, Rw!WLOCK
<1> QED
  BY <1>4, <1>5, <1>6, <1>7 DEF RwInv

\* Calls, the read of a reader, a failed attempt and a death touch neither the word nor a holder.
LEMMA OtherSteps ==
    ASSUME RwInv, NEW p \in Procs,
           Rw!CallWlock(p) \/ Rw!CallRlock(p) \/ Rw!RlockRead(p) \/ Rw!RlockAgain(p)
               \/ Rw!CallUnlock(p)
               \/ Rw!CallDowngrade(p) \/ Rw!Die(p)
    PROVE  RwInv'
<1>1. Rw!WriterExcludes' /\ Rw!WordCounts'
  BY RwQuietStep DEF Rw!CallWlock, Rw!CallRlock, Rw!RlockRead, Rw!RlockAgain, Rw!CallUnlock,
                     Rw!CallDowngrade, Rw!Die
<1>2. Rw!TypeOK' /\ HoldsByPC' /\ Rw!BranchStands'
  BY DEF RwInv, Rw!CallWlock, Rw!CallRlock, Rw!RlockRead, Rw!RlockAgain, Rw!CallUnlock,
         Rw!CallDowngrade, Rw!Die, Rw!Goto,
         Rw!TypeOK, Rw!PCs, HoldsByPC, RwOutside, RwInside, Rw!BranchStands
<1> QED
  BY <1>1, <1>2 DEF RwInv

(***************************************************************************)
(* The invariant of the read/write lock, for every number of processes and *)
(* deaths.                                                                 *)
(***************************************************************************)
THEOREM RwInvariant == Rw!Spec => []RwInv
<1>1. Rw!Init => RwInv
  BY PartsAssumption, RwInitially
<1>2. ASSUME RwInv, [Rw!Next]_Rw!vars PROVE RwInv'
  <2>1. CASE UNCHANGED Rw!vars
    BY <2>1, <1>2 DEF Rw!vars, RwInv, Rw!TypeOK, Rw!WriterExcludes, Rw!WordCounts,
                      Rw!BranchStands, HoldsByPC, Rw!Readers, Rw!Writers
  <2>2. ASSUME NEW p \in Procs, Rw!Step(p) PROVE RwInv'
    BY <1>2, <2>2, WlockStep, RlockCasStep, DecisionStep, UnlockClearStep, UnlockDecrementStep,
       DowngradeStoreStep, OtherSteps DEF Rw!Step
  <2>3. ASSUME NEW p \in Procs,
               Rw!CallWlock(p) \/ Rw!CallRlock(p) \/ Rw!CallDowngrade(p) \/ Rw!Die(p)
        PROVE  RwInv'
    BY <1>2, <2>3, OtherSteps
  <2> QED
    BY <1>2, <2>1, <2>2, <2>3 DEF Rw!Next
<1> QED
  BY <1>1, <1>2, PTL DEF Rw!Spec

(***************************************************************************)
(* The parts put together: what happens to the read/write lock is a    *)
(* behaviour of Rwlock.                                                    *)
(***************************************************************************)
THEOREM RwlockPart == MCSpec => Rw!Spec
<1>1. MCInit => Rw!Init
  BY DEF MCInit
<1>2. [MCNext]_all => [Rw!Next]_Rw!vars
  BY DEF MCNext, Mutexing, Rwlocking, Pooling, all, rwlockVars, Rw!vars
<1> QED
  BY <1>1, <1>2, PTL DEF MCSpec, Rw!Spec

(* A writer holds ngx_rwlock alone, the word counts the holders, and what  *)
(* ngx_rwlock_unlock and ngx_rwlock_downgrade decided from the word still  *)
(* holds when they write it.                                               *)
THEOREM HoldersAreExact == MCSpec => []HoldersExact
<1>1. RwInv => HoldersExact
  BY DEF RwInv, HoldersExact, Rw!HoldersExact
<1> QED
  BY <1>1, RwInvariant, RwlockPart, PTL

-----------------------------------------------------------------------------
(***************************************************************************)
(* The thread pool, for every finite set of threads, any tasks and any     *)
(* max_queue: the counter of the pool is exact, the limit holds, and no    *)
(* wake-up is lost (the three are inductive together with the types of the *)
(* variables they mention); and a task that was posted is in one place     *)
(* until it has completed.                                                 *)
(***************************************************************************)
\* What is assumed of the constants, and FiniteSets as ThreadPool has it.
LEMMA PoolSets == \A S : Pool!Cardinality(S) = Cardinality(S)
BY DEF Pool!Cardinality, Cardinality

LEMMA PoolGiven ==
    /\ IsFiniteSet(Procs)
    /\ Exit \notin Tasks
    /\ NoTask \notin Tasks \cup {Exit}
    /\ MaxQueue \in Nat /\ MaxPosts \in Nat /\ MaxSpurious \in Nat
<1>1. \A S : Pool!IsFiniteSet(S) <=> IsFiniteSet(S)
  BY DEF Pool!IsFiniteSet, IsFiniteSet
<1> QED
  BY <1>1, PartsAssumption DEF Pool!ThreadPoolAssumption

\* The types the argument needs.
PoolTypes ==
    /\ queue \in Seq(Pool!AllTasks)
    /\ waiting \in Int
    /\ th \in [Procs -> {"top", "wait", "woken", "run", "notify", "gone"}]

PoolInv == PoolTypes /\ Pool!WaitingCounts /\ Pool!NoLostSignal /\ Pool!QueueBounded

LEMMA IdleFinite ==
    /\ IsFiniteSet(Pool!Idle) /\ Cardinality(Pool!Idle) \in Nat
    /\ IsFiniteSet(Pool!Woken) /\ Cardinality(Pool!Woken) \in Nat
<1>1. Pool!Idle \subseteq Procs /\ Pool!Woken \subseteq Procs
  BY DEF Pool!Idle, Pool!Woken
<1>2. IsFiniteSet(Pool!Idle) /\ IsFiniteSet(Pool!Woken)
  BY <1>1, PoolGiven, FS_Subset
<1> QED
  BY <1>2, FS_CardinalityType

\* A sleeping thread that is woken stays idle.
LEMMA Wakes ==
    ASSUME PoolTypes, NEW t \in Procs, th[t] = "wait", th' = [th EXCEPT ![t] = "woken"]
    PROVE  /\ Pool!Idle' = Pool!Idle
           /\ Cardinality(Pool!Woken') = Cardinality(Pool!Woken) + 1
<1>1. Pool!Idle' = Pool!Idle /\ Pool!Woken' = Pool!Woken \cup {t} /\ t \notin Pool!Woken
  BY DEF PoolTypes, Pool!Idle, Pool!Woken
<1>2. Cardinality(Pool!Woken \cup {t}) = Cardinality(Pool!Woken) + 1
  BY <1>1, IdleFinite, FS_AddElement
<1> QED
  BY <1>1, <1>2

\* A thread that moves between places outside the wait leaves the counts alone.
LEMMA Elsewhere ==
    ASSUME PoolTypes, NEW t \in Procs, NEW to \in {"top", "run", "notify", "gone"},
           th[t] \in {"top", "run", "notify", "gone"}, th' = [th EXCEPT ![t] = to]
    PROVE  Pool!Idle' = Pool!Idle /\ Pool!Woken' = Pool!Woken /\ Pool!Asleep' = Pool!Asleep
BY DEF PoolTypes, Pool!Idle, Pool!Woken, Pool!Asleep

LEMMA PoolInitially == ASSUME Pool!Init PROVE PoolInv
<1>1. Pool!Idle = {} /\ Pool!Asleep = {}
  BY DEF Pool!Init, Pool!Idle, Pool!Asleep
<1>2. Cardinality(Pool!Idle) = 0
  BY <1>1, FS_EmptySet
<1> QED
  BY <1>1, <1>2, PoolGiven, PoolSets DEF Pool!Init, PoolInv, PoolTypes, Pool!WaitingCounts,
     Pool!NoLostSignal, Pool!QueueBounded

LEMMA EnqueueStep ==
    ASSUME PoolInv, NEW task \in Pool!AllTasks, Pool!Enqueue(task) PROVE PoolInv'
<1>1. /\ queue' \in Seq(Pool!AllTasks)
      /\ Len(queue') = Len(queue) + 1
      /\ waiting' = waiting + 1
      /\ Len(queue) \in Nat
  BY DEF Pool!Enqueue, PoolInv, PoolTypes
<1>2. Pool!QueueBounded'
  BY <1>1, PoolGiven DEF Pool!Enqueue, Pool!MayPost, Pool!QueueBounded, PoolInv, PoolTypes
<1>3. CASE Pool!Asleep = {} /\ UNCHANGED th
  BY <1>1, <1>2, <1>3, IdleFinite, PoolSets DEF PoolInv, PoolTypes, Pool!WaitingCounts,
     Pool!NoLostSignal, Pool!Idle, Pool!Asleep, Pool!Woken
<1>4. ASSUME NEW t \in Pool!Asleep, th' = [th EXCEPT ![t] = "woken"] PROVE PoolInv'
  <2>1. t \in Procs /\ th[t] = "wait"
    BY <1>4 DEF Pool!Asleep
  <2>2. Pool!Idle' = Pool!Idle /\ Cardinality(Pool!Woken') = Cardinality(Pool!Woken) + 1
    BY <1>4, <2>1, Wakes DEF PoolInv
  <2>3. PoolTypes'
    BY <1>1, <1>4, <2>1 DEF PoolInv, PoolTypes
  <2>4. Pool!WaitingCounts'
    BY <1>1, <2>2, IdleFinite, PoolSets DEF PoolInv, PoolTypes, Pool!WaitingCounts
  <2>5. Pool!NoLostSignal'
    BY <1>1, <1>4, <2>2, IdleFinite, PoolSets DEF PoolInv, Pool!NoLostSignal
  <2> QED
    BY <1>2, <2>3, <2>4, <2>5 DEF PoolInv
<1> QED
  BY <1>3, <1>4 DEF Pool!Enqueue, Pool!CondSignal

LEMMA TopStep == ASSUME PoolInv, NEW t \in Procs, Pool!ThreadTop(t) PROVE PoolInv'
<1>1. waiting' = waiting - 1 /\ th[t] = "top" /\ Len(queue) \in Nat
  BY DEF Pool!ThreadTop, PoolInv, PoolTypes
<1>2. Pool!QueueBounded'
  BY <1>1, PoolGiven DEF Pool!QueueBounded, PoolInv, PoolTypes
<1>3. CASE queue # <<>> /\ th' = [th EXCEPT ![t] = "run"] /\ queue' = Tail(queue)
  <2>1. Len(queue') = Len(queue) - 1 /\ queue' \in Seq(Pool!AllTasks)
    BY <1>3 DEF PoolInv, PoolTypes
  <2>2. Pool!Idle' = Pool!Idle /\ Pool!Woken' = Pool!Woken /\ Pool!Asleep' = Pool!Asleep
    BY <1>1, <1>3, Elsewhere DEF PoolInv
  <2> QED
    BY <1>1, <1>2, <1>3, <2>1, <2>2, IdleFinite, PoolSets DEF PoolInv, PoolTypes,
       Pool!WaitingCounts, Pool!NoLostSignal
<1>4. CASE queue = <<>> /\ th' = [th EXCEPT ![t] = "wait"] /\ queue' = queue
  <2>1. Pool!Idle' = Pool!Idle \cup {t} /\ t \notin Pool!Idle
    BY <1>1, <1>4 DEF PoolInv, PoolTypes, Pool!Idle
  <2>2. Cardinality(Pool!Idle') = Cardinality(Pool!Idle) + 1
    BY <2>1, IdleFinite, FS_AddElement
  <2>3. Cardinality(Pool!Woken') \in Nat
    <3>1. Pool!Woken' = Pool!Woken
      BY <1>1, <1>4 DEF PoolInv, PoolTypes, Pool!Woken
    <3> QED
      BY <3>1, IdleFinite
  <2> QED
    BY <1>1, <1>2, <1>4, <2>2, <2>3, IdleFinite, PoolSets DEF PoolInv, PoolTypes,
       Pool!WaitingCounts, Pool!NoLostSignal
<1> QED
  BY <1>3, <1>4 DEF Pool!ThreadTop, Pool!TakeOrWait

LEMMA WokenStep == ASSUME PoolInv, NEW t \in Procs, Pool!ThreadWoken(t) PROVE PoolInv'
<1>1. waiting' = waiting /\ th[t] = "woken" /\ Len(queue) \in Nat
  BY DEF Pool!ThreadWoken, PoolInv, PoolTypes
<1>2. Pool!QueueBounded'
  BY <1>1 DEF Pool!QueueBounded, PoolInv
<1>3. CASE queue # <<>> /\ th' = [th EXCEPT ![t] = "run"] /\ queue' = Tail(queue)
  <2>1. Len(queue') = Len(queue) - 1 /\ queue' \in Seq(Pool!AllTasks)
    BY <1>3 DEF PoolInv, PoolTypes
  <2>2. /\ Pool!Idle' = Pool!Idle \ {t} /\ t \in Pool!Idle
        /\ Pool!Woken' = Pool!Woken \ {t} /\ t \in Pool!Woken
        /\ Pool!Asleep' = Pool!Asleep
    BY <1>1, <1>3 DEF PoolInv, PoolTypes, Pool!Idle, Pool!Woken, Pool!Asleep
  <2>3. /\ Cardinality(Pool!Idle') = Cardinality(Pool!Idle) - 1
        /\ Cardinality(Pool!Woken') = Cardinality(Pool!Woken) - 1
    BY <2>2, IdleFinite, FS_RemoveElement
  <2> QED
    BY <1>1, <1>2, <1>3, <2>1, <2>2, <2>3, IdleFinite, PoolSets DEF PoolInv, PoolTypes,
       Pool!WaitingCounts, Pool!NoLostSignal
<1>4. CASE queue = <<>> /\ th' = [th EXCEPT ![t] = "wait"] /\ queue' = queue
  <2>1. Pool!Idle' = Pool!Idle /\ Pool!Woken' = Pool!Woken \ {t} /\ t \in Pool!Woken
    BY <1>1, <1>4 DEF PoolInv, PoolTypes, Pool!Idle, Pool!Woken
  <2>2. Cardinality(Pool!Woken') \in Nat
    BY <2>1, IdleFinite, FS_RemoveElement, FS_CardinalityType
  <2> QED
    BY <1>1, <1>2, <1>4, <2>1, <2>2, IdleFinite, PoolSets DEF PoolInv, PoolTypes,
       Pool!WaitingCounts, Pool!NoLostSignal
<1> QED
  BY <1>3, <1>4 DEF Pool!ThreadWoken, Pool!TakeOrWait

LEMMA SpuriousStep == ASSUME PoolInv, NEW t \in Procs, Pool!SpuriousWakeup(t) PROVE PoolInv'
<1>1. Pool!Idle' = Pool!Idle /\ Cardinality(Pool!Woken') = Cardinality(Pool!Woken) + 1
  BY Wakes DEF Pool!SpuriousWakeup, PoolInv
<1>2. Pool!Asleep # {}
  BY DEF Pool!SpuriousWakeup, Pool!Asleep
<1>3. PoolTypes' /\ Pool!WaitingCounts' /\ Pool!QueueBounded'
  BY <1>1, PoolSets DEF Pool!SpuriousWakeup, PoolInv, PoolTypes, Pool!WaitingCounts,
     Pool!QueueBounded
<1>4. Pool!NoLostSignal'
  BY <1>1, <1>2, IdleFinite, PoolSets DEF Pool!SpuriousWakeup, PoolInv, PoolTypes, Pool!NoLostSignal
<1> QED
  BY <1>3, <1>4 DEF PoolInv

\* What a thread does outside the mutex.
LEMMA RunStep ==
    ASSUME PoolInv, NEW t \in Procs, Pool!RunTask(t) \/ Pool!RunExit(t) \/ Pool!Notify(t)
    PROVE PoolInv'
<1>1. Pool!Idle' = Pool!Idle /\ Pool!Woken' = Pool!Woken /\ Pool!Asleep' = Pool!Asleep
  BY Elsewhere DEF Pool!RunTask, Pool!RunExit, Pool!Notify, PoolInv
<1> QED
  BY <1>1, PoolSets DEF Pool!RunTask, Pool!RunExit, Pool!Notify, PoolInv, PoolTypes,
     Pool!WaitingCounts, Pool!NoLostSignal, Pool!QueueBounded

\* Steps of the main thread that do not touch the queue.
LEMMA PoolMainStep ==
    ASSUME PoolInv,
           \/ Pool!Detach \/ Pool!Complete \/ Pool!HandlerEnds \/ Pool!DestroyEnds
           \/ Pool!DestroyCall \/ UNCHANGED Pool!vars
    PROVE  PoolInv'
BY PoolSets DEF Pool!Detach, Pool!Complete, Pool!HandlerEnds, Pool!DestroyEnds, Pool!DestroyCall,
   Pool!vars, PoolInv, PoolTypes, Pool!WaitingCounts,
       Pool!NoLostSignal, Pool!QueueBounded, Pool!Idle, Pool!Asleep, Pool!Woken

\* The invariant of the pool.
THEOREM PoolInvariant == Pool!Spec => []PoolInv
<1>1. Pool!Init => PoolInv
  BY PoolInitially
<1>2. ASSUME PoolInv, [Pool!Next]_Pool!vars PROVE PoolInv'
  <2>1. ASSUME NEW task \in Tasks, Pool!Post(task) PROVE PoolInv'
    BY <1>2, <2>1, EnqueueStep DEF Pool!Post, Pool!AllTasks
  <2>2. ASSUME NEW t \in Procs, Pool!Thread(t) \/ Pool!SpuriousWakeup(t) PROVE PoolInv'
    BY <1>2, <2>2, TopStep, WokenStep, RunStep, SpuriousStep DEF Pool!Thread
  <2>3. CASE Pool!DestroyPost
    BY <1>2, <2>3, EnqueueStep DEF Pool!DestroyPost, Pool!AllTasks
  <2>4. CASE \/ Pool!Detach \/ Pool!Complete \/ Pool!HandlerEnds \/ Pool!DestroyEnds
             \/ Pool!DestroyCall \/ UNCHANGED Pool!vars
    BY <1>2, <2>4, PoolMainStep
  <2> QED
    BY <1>2, <2>1, <2>2, <2>3, <2>4 DEF Pool!Next, Pool!Main
<1> QED
  BY <1>1, <1>2, PTL DEF Pool!Spec

\* tp->waiting is the length of the queue minus the idle threads, at every instant.
THEOREM WaitingIsExact == Pool!Spec => []Pool!WaitingCounts
BY PoolInvariant, PTL DEF PoolInv

\* The signal of ngx_thread_task_post is never lost.
THEOREM SignalsNotLost == Pool!Spec => []Pool!NoLostSignal
BY PoolInvariant, PTL DEF PoolInv

\* The limit of ngx_thread_task_post holds.
THEOREM LimitHolds == Pool!Spec => []Pool!QueueBounded
BY PoolInvariant, PTL DEF PoolInv

\* What happens to the pool in MCLocks is a behaviour of ThreadPool.
THEOREM PoolPart == MCSpec => Pool!Spec
<1>1. MCInit => Pool!Init
  BY DEF MCInit
<1>2. [MCNext]_all => [Pool!Next]_Pool!vars
  BY DEF MCNext, Mutexing, Rwlocking, Pooling, all, poolVars, Pool!vars
<1> QED
  BY <1>1, <1>2, PTL DEF MCSpec, Pool!Spec

\* Signals and the limit together.
THEOREM SignalsAreExact == MCSpec => []SignalsExact
<1>1. PoolInv => SignalsExact
  BY DEF PoolInv, SignalsExact, Pool!SignalsExact
<1> QED
  BY <1>1, PoolInvariant, PoolPart, PTL

-----------------------------------------------------------------------------
(***************************************************************************)
(* Where the tasks are.  A step that moves a task takes it out of one      *)
(* place and puts it in another; Detach moves a whole list, which is right *)
(* because nothing is left of the last batch when the loop runs.           *)
(***************************************************************************)
Positions(q, x) == {i \in DOMAIN q : q[i] = x}
Runners(x) == {t \in Procs : cur[t] = x}
OneIf(b) == IF b THEN 1 ELSE 0

\* A thread has a task while it runs one and at no other time.
Loaded == \A t \in Procs : cur[t] # NoTask <=> th[t] = "run"

\* The batch is finished when the main thread goes back to the loop.
BatchFinished == main = "loop" => batch = <<>>

PlaceInv == Pool!TypeOK /\ Loaded /\ BatchFinished /\ Pool!OnePlace

LEMMA PositionsFinite ==
    ASSUME NEW S, NEW q \in Seq(S), NEW x
    PROVE  IsFiniteSet(Positions(q, x)) /\ Cardinality(Positions(q, x)) \in Nat
<1>1. Positions(q, x) \subseteq 1 .. Len(q)
  BY DEF Positions
<1>2. IsFiniteSet(1 .. Len(q))
  BY FS_Interval
<1> QED
  BY <1>1, <1>2, FS_Subset, FS_CardinalityType

LEMMA NoPositions == ASSUME NEW x PROVE Cardinality(Positions(<<>>, x)) = 0
<1>1. Positions(<<>>, x) = {}
  BY DEF Positions
<1> QED
  BY <1>1, FS_EmptySet

\* What Append adds to the count of an element.
LEMMA CountAppend ==
    ASSUME NEW S, NEW q \in Seq(S), NEW y \in S, NEW x
    PROVE  Cardinality(Positions(Append(q, y), x))
               = Cardinality(Positions(q, x)) + OneIf(x = y)
<1> DEFINE n == Len(q) + 1
<1>1. n \in Nat /\ n \notin DOMAIN q /\ DOMAIN Append(q, y) = DOMAIN q \cup {n}
  OBVIOUS
<1>2. \A i \in DOMAIN q : Append(q, y)[i] = q[i]
  OBVIOUS
<1>3. Append(q, y)[n] = y
  OBVIOUS
<1>4. CASE x = y
  <2>1. Positions(Append(q, y), x) = Positions(q, x) \cup {n} /\ n \notin Positions(q, x)
    BY <1>1, <1>2, <1>3, <1>4, Zenon DEF Positions
  <2>2. Cardinality(Positions(q, x) \cup {n}) = Cardinality(Positions(q, x)) + 1
    BY <2>1, PositionsFinite, FS_AddElement
  <2> QED
    BY <1>4, <2>1, <2>2 DEF OneIf
<1>5. CASE x # y
  <2>1. Positions(Append(q, y), x) = Positions(q, x)
    BY <1>1, <1>2, <1>3, <1>5, Zenon DEF Positions
  <2> QED
    BY <1>5, <2>1, PositionsFinite DEF OneIf
<1> QED
  BY <1>4, <1>5

\* A finite set of numbers keeps its size when it is shifted.
LEMMA Shifted ==
    ASSUME NEW T, T \subseteq Int, IsFiniteSet(T)
    PROVE  LET U == {i + 1 : i \in T} IN IsFiniteSet(U) /\ Cardinality(U) = Cardinality(T)
<1> DEFINE U == {i + 1 : i \in T}
           shift == [i \in T |-> i + 1]
<1>1. shift \in [T -> U] /\ \A j \in U : \E i \in T : shift[i] = j
  OBVIOUS
<1>2. \A i, j \in T : shift[i] = shift[j] => i = j
  OBVIOUS
<1>3. DOMAIN shift = T
  OBVIOUS
<1> HIDE DEF shift, U
<1>4. shift \in Bijection(T, U)
  BY <1>1, <1>2, <1>3 DEF Bijection, Surjection, Injection, IsInjective
<1> QED
  BY <1>4, FS_Bijection DEF ExistsBijection, U

\* What Tail takes from the count of an element.
LEMMA CountTail ==
    ASSUME NEW S, NEW q \in Seq(S), q # <<>>, NEW x
    PROVE  Cardinality(Positions(q, x))
               = Cardinality(Positions(Tail(q), x)) + OneIf(x = Head(q))
<1> DEFINE T == Positions(Tail(q), x)
           U == {i + 1 : i \in T}
<1>1. Tail(q) \in Seq(S) /\ Len(q) \in Nat \ {0} /\ Len(Tail(q)) = Len(q) - 1
  OBVIOUS
<1>2. /\ \A i \in 1 .. Len(Tail(q)) : Tail(q)[i] = q[i + 1]
      /\ Head(q) = q[1] /\ DOMAIN q = 1 .. Len(q) /\ DOMAIN Tail(q) = 1 .. (Len(q) - 1)
  BY <1>1
<1>3. IsFiniteSet(T) /\ Cardinality(T) \in Nat /\ T \subseteq Int
  <2>1. T \subseteq Int
    BY <1>1, <1>2 DEF Positions
  <2> QED
    BY <1>1, <2>1, PositionsFinite
<1>4. IsFiniteSet(U) /\ Cardinality(U) = Cardinality(T)
  <2> HIDE DEF T
  <2> QED
    BY <1>3, Shifted
<1>5. U = Positions(q, x) \ {1}
  <2>1. ASSUME NEW i \in T PROVE i + 1 \in Positions(q, x) \ {1}
    BY <1>1, <1>2, <2>1 DEF Positions
  <2>2. ASSUME NEW j \in Positions(q, x) \ {1} PROVE j \in U
    <3>1. j \in 2 .. Len(q) /\ q[j] = x
      BY <1>1, <1>2, <2>2 DEF Positions
    <3>2. j - 1 \in T
      BY <1>1, <1>2, <3>1 DEF Positions
    <3>3. j = (j - 1) + 1
      BY <3>1
    <3> QED
      BY <3>2, <3>3
  <2> HIDE DEF T
  <2> QED
    BY <2>1, <2>2
<1> HIDE DEF T, U
<1>6. CASE x = Head(q)
  <2>1. 1 \in Positions(q, x)
    BY <1>1, <1>2, <1>6 DEF Positions
  <2>2. Cardinality(U) = Cardinality(Positions(q, x)) - 1
    BY <1>5, <2>1, PositionsFinite, FS_RemoveElement
  <2> QED
    BY <1>4, <1>6, <2>2, PositionsFinite DEF OneIf, T
<1>7. CASE x # Head(q)
  <2>1. 1 \notin Positions(q, x)
    BY <1>1, <1>2, <1>7 DEF Positions
  <2>2. U = Positions(q, x)
    BY <1>5, <2>1
  <2> QED
    BY <1>3, <1>4, <1>7, <2>2 DEF OneIf, T
<1> QED
  BY <1>6, <1>7

\* What a thread's taking a task adds, and its letting one go takes.
LEMMA RunnersFinite ==
    ASSUME NEW x PROVE IsFiniteSet(Runners(x)) /\ Cardinality(Runners(x)) \in Nat
BY PoolGiven, FS_Subset, FS_CardinalityType DEF Runners

LEMMA CountLoad ==
    ASSUME Pool!TypeOK, NEW t \in Procs, cur[t] = NoTask, NEW y \in Pool!AllTasks,
           cur' = [cur EXCEPT ![t] = y], NEW x \in Pool!AllTasks
    PROVE  Cardinality(Runners(x)') = Cardinality(Runners(x)) + OneIf(x = y)
<1>1. cur[t] # x
  BY PoolGiven DEF Pool!AllTasks
<1>2. CASE x = y
  <2>1. Runners(x)' = Runners(x) \cup {t} /\ t \notin Runners(x)
    BY <1>1, <1>2 DEF Runners, Pool!TypeOK
  <2> QED
    BY <1>2, <2>1, RunnersFinite, FS_AddElement DEF OneIf
<1>3. CASE x # y
  <2>1. Runners(x)' = Runners(x)
    BY <1>1, <1>3 DEF Runners, Pool!TypeOK
  <2> QED
    BY <1>3, <2>1, RunnersFinite DEF OneIf
<1> QED
  BY <1>2, <1>3

LEMMA CountUnload ==
    ASSUME Pool!TypeOK, NEW t \in Procs, cur' = [cur EXCEPT ![t] = NoTask], NEW x \in Pool!AllTasks
    PROVE  Cardinality(Runners(x)') = Cardinality(Runners(x)) - OneIf(x = cur[t])
<1>1. NoTask # x
  BY PoolGiven DEF Pool!AllTasks
<1>2. CASE x = cur[t]
  <2>1. Runners(x)' = Runners(x) \ {t} /\ t \in Runners(x)
    BY <1>1, <1>2 DEF Runners, Pool!TypeOK
  <2> QED
    BY <1>2, <2>1, RunnersFinite, FS_RemoveElement DEF OneIf
<1>3. CASE x # cur[t]
  <2>1. Runners(x)' = Runners(x)
    BY <1>1, <1>3 DEF Runners, Pool!TypeOK
  <2> QED
    BY <1>3, <2>1, RunnersFinite DEF OneIf
<1> QED
  BY <1>2, <1>3

\* Where a task is, in these terms.
LEMMA PlacesAre ==
    ASSUME NEW x
    PROVE  Pool!Places(x) = Cardinality(Positions(queue, x)) + Cardinality(Runners(x))
                       + Cardinality(Positions(done, x)) + Cardinality(Positions(batch, x))
BY PoolSets DEF Pool!Places, Positions, Runners

LEMMA CountsAreNumbers ==
    ASSUME Pool!TypeOK, NEW x
    PROVE  /\ Cardinality(Positions(queue, x)) \in Nat
           /\ Cardinality(Runners(x)) \in Nat
           /\ Cardinality(Positions(done, x)) \in Nat
           /\ Cardinality(Positions(batch, x)) \in Nat
BY PositionsFinite, RunnersFinite DEF Pool!TypeOK

\* The same of the next state.
LEMMA PlacesWillBe ==
    ASSUME NEW x
    PROVE  Pool!Places(x)' = Cardinality(Positions(queue', x)) + Cardinality(Runners(x)')
                        + Cardinality(Positions(done', x)) + Cardinality(Positions(batch', x))
BY PoolSets DEF Pool!Places, Positions, Runners

LEMMA InitPlaceInv == ASSUME Pool!Init PROVE PlaceInv
<1>1. Pool!TypeOK
  <2>1. queue \in Seq(Pool!AllTasks) /\ done \in Seq(Tasks) /\ batch \in Seq(Tasks)
    BY DEF Pool!Init
  <2>2. /\ th \in [Procs -> {"top", "wait", "woken", "run", "notify", "gone"}]
        /\ cur \in [Procs -> Pool!AllTasks \cup {NoTask}]
    BY DEF Pool!Init
  <2>3. notify \in BOOLEAN
    BY Zenon DEF Pool!Init
  <2> QED
    BY <2>1, <2>2, <2>3 DEF Pool!Init, Pool!TypeOK
<1>2. Loaded /\ BatchFinished
  BY DEF Pool!Init, Loaded, BatchFinished
<1>3. ASSUME NEW x \in Pool!AllTasks PROVE Pool!Places(x) = 0 /\ x \notin active
  <2>1. Runners(x) = {}
    BY PoolGiven DEF Pool!Init, Runners, Pool!AllTasks
  <2>2. Cardinality(Runners(x)) = 0
    BY <2>1, FS_EmptySet
  <2>3. /\ Cardinality(Positions(queue, x)) = 0
        /\ Cardinality(Positions(done, x)) = 0
        /\ Cardinality(Positions(batch, x)) = 0
    BY NoPositions DEF Pool!Init
  <2> QED
    BY <2>2, <2>3, PlacesAre DEF Pool!Init
<1> QED
  BY <1>1, <1>2, <1>3 DEF PlaceInv, Pool!OnePlace

LEMMA EnqueuePlace ==
    ASSUME PlaceInv, NEW task \in Pool!AllTasks, Pool!Enqueue(task),
           UNCHANGED <<cur, done, batch>>
    PROVE  Pool!OnePlace'
<1> SUFFICES ASSUME NEW x \in Pool!AllTasks
             PROVE  Pool!Places(x)' = IF x \in active' THEN 1 ELSE 0
  BY DEF Pool!OnePlace
<1>1. Cardinality(Positions(queue', x)) = Cardinality(Positions(queue, x)) + OneIf(x = task)
  BY CountAppend DEF Pool!Enqueue, PlaceInv, Pool!TypeOK
<1>2. Runners(x)' = Runners(x)
  BY DEF Runners
<1>3. Pool!Places(x)' = Pool!Places(x) + OneIf(x = task)
  BY <1>1, <1>2, PlacesAre, PlacesWillBe, CountsAreNumbers DEF PlaceInv, OneIf
<1>4. task \notin active /\ active' = active \cup {task}
  BY DEF Pool!Enqueue, Pool!MayPost
<1> QED
  BY <1>3, <1>4 DEF PlaceInv, Pool!OnePlace, OneIf

\* A thread takes the first task of the queue.
LEMMA TakePlace ==
    ASSUME PlaceInv, NEW t \in Procs, th[t] # "run", Pool!TakeOrWait(t),
           UNCHANGED <<active, done, batch>>
    PROVE  Pool!OnePlace' /\ Loaded'
<1>1. cur[t] = NoTask
  BY DEF PlaceInv, Loaded
<1>2. CASE queue = <<>>
  <2>1. UNCHANGED <<cur, queue>> /\ th' = [th EXCEPT ![t] = "wait"]
    BY <1>2 DEF Pool!TakeOrWait
  <2> QED
    BY <2>1, <1>1, PoolSets DEF PlaceInv, Pool!TypeOK, Pool!OnePlace, Loaded, Pool!Places
<1>3. CASE queue # <<>>
  <2>1. /\ th' = [th EXCEPT ![t] = "run"]
        /\ cur' = [cur EXCEPT ![t] = Head(queue)]
        /\ queue' = Tail(queue)
    BY <1>3 DEF Pool!TakeOrWait
  <2>2. Head(queue) \in Pool!AllTasks /\ NoTask \notin Pool!AllTasks
    BY <1>3, PoolGiven DEF PlaceInv, Pool!TypeOK, Pool!AllTasks
  <2>3. Loaded'
    BY <2>1, <2>2 DEF PlaceInv, Pool!TypeOK, Loaded
  <2>4. ASSUME NEW x \in Pool!AllTasks PROVE Pool!Places(x)' = Pool!Places(x)
    <3>1. Cardinality(Positions(queue, x))
              = Cardinality(Positions(queue', x)) + OneIf(x = Head(queue))
      BY <1>3, <2>1, CountTail DEF PlaceInv, Pool!TypeOK
    <3>2. Cardinality(Runners(x)') = Cardinality(Runners(x)) + OneIf(x = Head(queue))
      BY <1>1, <2>1, <2>2, CountLoad DEF PlaceInv
    <3>3. queue' \in Seq(Pool!AllTasks)
      BY <1>3, <2>1 DEF PlaceInv, Pool!TypeOK
    <3>4. Cardinality(Positions(queue', x)) \in Nat
      BY <3>3, PositionsFinite
    <3> QED
      BY <3>1, <3>2, <3>4, PlacesAre, PlacesWillBe, CountsAreNumbers DEF PlaceInv, OneIf
  <2> QED
    BY <2>3, <2>4 DEF PlaceInv, Pool!OnePlace
<1> QED
  BY <1>2, <1>3

\* A thread is done with its task: it puts it in the done list.
LEMMA RunTaskPlace == ASSUME PlaceInv, NEW t \in Procs, Pool!RunTask(t) PROVE PlaceInv'
<1>1. cur[t] \in Tasks
  BY DEF Pool!RunTask, PlaceInv, Pool!TypeOK, Loaded, Pool!AllTasks
<1>2. Pool!TypeOK' /\ Loaded' /\ BatchFinished'
  BY <1>1 DEF Pool!RunTask, PlaceInv, Pool!TypeOK, Loaded, BatchFinished
<1>3. ASSUME NEW x \in Pool!AllTasks PROVE Pool!Places(x)' = Pool!Places(x)
  <2>1. Cardinality(Positions(done', x)) = Cardinality(Positions(done, x)) + OneIf(x = cur[t])
    BY <1>1, CountAppend DEF Pool!RunTask, PlaceInv, Pool!TypeOK
  <2>2. Cardinality(Runners(x)') = Cardinality(Runners(x)) - OneIf(x = cur[t])
    BY CountUnload DEF Pool!RunTask, PlaceInv
  <2> QED
    BY <2>1, <2>2, PlacesAre, PlacesWillBe, CountsAreNumbers DEF Pool!RunTask, PlaceInv, OneIf
<1> QED
  BY <1>2, <1>3 DEF Pool!RunTask, PlaceInv, Pool!OnePlace

\* A thread ends with the exit task.
LEMMA RunExitPlace == ASSUME PlaceInv, NEW t \in Procs, Pool!RunExit(t) PROVE PlaceInv'
<1>1. Pool!TypeOK' /\ Loaded' /\ BatchFinished'
  BY DEF Pool!RunExit, PlaceInv, Pool!TypeOK, Loaded, BatchFinished
<1>2. ASSUME NEW x \in Pool!AllTasks PROVE Pool!Places(x)' = IF x \in active' THEN 1 ELSE 0
  <2>1. Cardinality(Runners(x)') = Cardinality(Runners(x)) - OneIf(x = Exit)
    BY CountUnload DEF Pool!RunExit, PlaceInv
  <2>2. Pool!Places(x)' = Pool!Places(x) - OneIf(x = Exit)
    BY <2>1, PlacesAre, PlacesWillBe, CountsAreNumbers DEF Pool!RunExit, PlaceInv, OneIf
  <2>3. Pool!Places(x) = IF x \in active THEN 1 ELSE 0
    BY DEF PlaceInv, Pool!OnePlace
  <2>4. CASE x = Exit
    <3>1. t \in Runners(x)
      BY <2>4 DEF Pool!RunExit, Runners
    <3>2. Cardinality(Runners(x)) > 0
      BY <3>1, RunnersFinite, FS_EmptySet
    <3>3. Pool!Places(x) # 0
      BY <3>2, PlacesAre, CountsAreNumbers DEF PlaceInv
    <3> QED
      BY <2>2, <2>3, <2>4, <3>3 DEF Pool!RunExit, OneIf
  <2>5. CASE x # Exit
    BY <2>2, <2>3, <2>5 DEF Pool!RunExit, OneIf
  <2> QED
    BY <2>4, <2>5
<1> QED
  BY <1>1, <1>2 DEF PlaceInv, Pool!OnePlace

\* The whole done list becomes the batch.
LEMMA DetachPlace == ASSUME PlaceInv, Pool!Detach PROVE PlaceInv'
<1>1. batch = <<>> /\ batch' = done /\ done' = <<>>
  BY DEF Pool!Detach, PlaceInv, BatchFinished
<1>2. Pool!TypeOK' /\ Loaded' /\ BatchFinished'
  BY <1>1 DEF Pool!Detach, PlaceInv, Pool!TypeOK, Loaded, BatchFinished
<1>3. ASSUME NEW x \in Pool!AllTasks PROVE Pool!Places(x)' = Pool!Places(x)
  <2>1. Runners(x)' = Runners(x)
    BY DEF Pool!Detach, Runners
  <2> QED
    BY <1>1, <2>1, NoPositions, PlacesAre, PlacesWillBe, CountsAreNumbers DEF Pool!Detach, PlaceInv
<1> QED
  BY <1>2, <1>3 DEF Pool!Detach, PlaceInv, Pool!OnePlace

\* The first task of the batch is completed.
LEMMA CompletePlace == ASSUME PlaceInv, Pool!Complete PROVE PlaceInv'
<1>1. batch # <<>> /\ batch' = Tail(batch) /\ batch \in Seq(Tasks) /\ Head(batch) \in Pool!AllTasks
  BY DEF Pool!Complete, PlaceInv, Pool!TypeOK, Pool!AllTasks
<1>2. Pool!TypeOK' /\ Loaded' /\ BatchFinished'
  BY <1>1 DEF Pool!Complete, PlaceInv, Pool!TypeOK, Loaded, BatchFinished
<1>3. ASSUME NEW x \in Pool!AllTasks PROVE Pool!Places(x)' = IF x \in active' THEN 1 ELSE 0
  <2>1. Cardinality(Positions(batch, x)) = Cardinality(Positions(batch',
     x)) + OneIf(x = Head(batch))
    BY <1>1, CountTail
  <2>2. Runners(x)' = Runners(x)
    BY DEF Pool!Complete, Runners
  <2>3. Cardinality(Positions(batch', x)) \in Nat
    BY <1>2, PositionsFinite DEF Pool!TypeOK
  <2>4. /\ Pool!Places(x)' = Pool!Places(x) - OneIf(x = Head(batch))
        /\ x = Head(batch) => Pool!Places(x) >= 1
    BY <2>1, <2>2, <2>3, PlacesAre, PlacesWillBe, CountsAreNumbers DEF Pool!Complete, PlaceInv,
       OneIf
  <2>5. Pool!Places(x) = IF x \in active THEN 1 ELSE 0
    BY DEF PlaceInv, Pool!OnePlace
  <2> QED
    BY <2>4, <2>5 DEF Pool!Complete, OneIf
<1> QED
  BY <1>2, <1>3 DEF PlaceInv, Pool!OnePlace

\* Posts, threads that take a task or wait, and steps that move none.
LEMMA PostPlace ==
    ASSUME PlaceInv, (\E task \in Tasks : Pool!Post(task)) \/ Pool!DestroyPost PROVE PlaceInv'
<1>1. PICK task \in Pool!AllTasks : Pool!Enqueue(task)
  BY DEF Pool!Post, Pool!DestroyPost, Pool!AllTasks
<1>2. UNCHANGED <<cur, done, batch>>
  BY DEF Pool!Post, Pool!DestroyPost
<1>3. Pool!OnePlace'
  BY <1>1, <1>2, EnqueuePlace
<1>4. /\ th' \in [Procs -> {"top", "wait", "woken", "run", "notify", "gone"}]
      /\ \A t \in Procs : th[t] = "run" <=> th'[t] = "run"
  BY <1>1 DEF Pool!Enqueue, Pool!CondSignal, Pool!Asleep, PlaceInv, Pool!TypeOK
<1>5. queue' \in Seq(Pool!AllTasks) /\ waiting' \in Int /\ active' \subseteq Pool!AllTasks
  BY <1>1 DEF Pool!Enqueue, PlaceInv, Pool!TypeOK
<1>6. Pool!TypeOK'
  BY <1>2, <1>4, <1>5 DEF Pool!Post, Pool!DestroyPost, PlaceInv, Pool!TypeOK
<1>7. Loaded' /\ BatchFinished'
  BY <1>2, <1>4 DEF Pool!Post, Pool!DestroyPost, PlaceInv, Loaded, BatchFinished
<1> QED
  BY <1>3, <1>6, <1>7 DEF PlaceInv

LEMMA TakesPlace ==
    ASSUME PlaceInv, NEW t \in Procs, Pool!ThreadTop(t) \/ Pool!ThreadWoken(t) PROVE PlaceInv'
<1>1. Pool!TakeOrWait(t) /\ th[t] # "run" /\ UNCHANGED <<active, done, batch, main>>
  BY DEF Pool!ThreadTop, Pool!ThreadWoken
<1>2. Pool!OnePlace' /\ Loaded'
  BY <1>1, TakePlace
<1>3. waiting' \in Int
  BY DEF Pool!ThreadTop, Pool!ThreadWoken, PlaceInv, Pool!TypeOK
<1>4. /\ queue' \in Seq(Pool!AllTasks)
      /\ th' \in [Procs -> {"top", "wait", "woken", "run", "notify", "gone"}]
      /\ cur' \in [Procs -> Pool!AllTasks \cup {NoTask}]
  <2>1. CASE queue # <<>>
    <3>1. Head(queue) \in Pool!AllTasks /\ Tail(queue) \in Seq(Pool!AllTasks)
      BY <2>1 DEF PlaceInv, Pool!TypeOK
    <3> QED
      BY <1>1, <2>1, <3>1 DEF Pool!TakeOrWait, PlaceInv, Pool!TypeOK
  <2>2. CASE queue = <<>>
    BY <1>1, <2>2 DEF Pool!TakeOrWait, PlaceInv, Pool!TypeOK
  <2> QED
    BY <2>1, <2>2
<1>5. Pool!TypeOK'
  BY <1>3, <1>4 DEF Pool!ThreadTop, Pool!ThreadWoken, PlaceInv, Pool!TypeOK
<1> QED
  BY <1>1, <1>2, <1>5 DEF PlaceInv, BatchFinished

LEMMA OtherPlace ==
    ASSUME PlaceInv,
           \/ \E t \in Procs : Pool!SpuriousWakeup(t) \/ Pool!Notify(t)
           \/ Pool!HandlerEnds \/ Pool!DestroyEnds \/ Pool!DestroyCall \/ UNCHANGED Pool!vars
    PROVE  PlaceInv'
<1>1. UNCHANGED <<queue, cur, active, done, batch>>
  BY PoolSets DEF Pool!SpuriousWakeup, Pool!Notify, Pool!HandlerEnds, Pool!DestroyEnds,
     Pool!DestroyCall, Pool!vars
<1>2. Pool!OnePlace'
  BY <1>1, PoolSets DEF PlaceInv, Pool!OnePlace, Pool!Places
<1>3. Cardinality(Procs) \in Int
  BY PoolGiven, FS_CardinalityType
<1>4. Pool!TypeOK' /\ Loaded' /\ BatchFinished'
  <2>1. ASSUME NEW t \in Procs, Pool!SpuriousWakeup(t) \/ Pool!Notify(t)
        PROVE  Pool!TypeOK' /\ Loaded' /\ BatchFinished'
    <3>1. /\ th' \in [Procs -> {"top", "wait", "woken", "run", "notify", "gone"}]
          /\ \A u \in Procs : th[u] = "run" <=> th'[u] = "run"
      BY <2>1 DEF Pool!SpuriousWakeup, Pool!Notify, PlaceInv, Pool!TypeOK
    <3>2. notify' \in BOOLEAN
      BY <2>1, Zenon DEF Pool!SpuriousWakeup, Pool!Notify, PlaceInv, Pool!TypeOK
    <3>3. Pool!TypeOK'
      BY <2>1, <3>1, <3>2 DEF Pool!SpuriousWakeup, Pool!Notify, PlaceInv, Pool!TypeOK
    <3>4. Loaded' /\ BatchFinished'
      BY <2>1, <3>1 DEF Pool!SpuriousWakeup, Pool!Notify, PlaceInv, Loaded, BatchFinished
    <3> QED
      BY <3>3, <3>4
  <2>2. CASE Pool!HandlerEnds \/ Pool!DestroyEnds \/ Pool!DestroyCall \/ UNCHANGED Pool!vars
    BY <1>3, <2>2, PoolSets DEF Pool!HandlerEnds, Pool!DestroyEnds, Pool!DestroyCall, Pool!vars,
       PlaceInv, Pool!TypeOK, Loaded,
       BatchFinished
  <2> QED
    BY <2>1, <2>2
<1> QED
  BY <1>2, <1>4 DEF PlaceInv

\* Where the tasks are, together with their types, holds at every step of the pool.
THEOREM PlaceInvHolds == Pool!Spec => []PlaceInv
<1>1. Pool!Init => PlaceInv
  BY InitPlaceInv
<1>2. ASSUME PlaceInv, [Pool!Next]_Pool!vars PROVE PlaceInv'
  <2>1. ASSUME NEW t \in Procs, Pool!Thread(t) PROVE PlaceInv'
    BY <1>2, <2>1, TakesPlace, RunTaskPlace, RunExitPlace, OtherPlace DEF Pool!Thread
  <2>2. CASE (\E task \in Tasks : Pool!Post(task)) \/ Pool!DestroyPost
    BY <1>2, <2>2, PostPlace
  <2>3. CASE Pool!Detach \/ Pool!Complete
    BY <1>2, <2>3, DetachPlace, CompletePlace
  <2>4. CASE \/ \E t \in Procs : Pool!SpuriousWakeup(t)
             \/ Pool!HandlerEnds \/ Pool!DestroyEnds \/ Pool!DestroyCall \/ UNCHANGED Pool!vars
    BY <1>2, <2>4, OtherPlace
  <2> QED
    BY <1>2, <2>1, <2>2, <2>3, <2>4 DEF Pool!Next, Pool!Main
<1> QED
  BY <1>1, <1>2, PTL DEF Pool!Spec

\* Every variable has its type.
THEOREM PoolTypesHold == Pool!Spec => []Pool!TypeOK
BY PlaceInvHolds, PTL DEF PlaceInv

\* An active task is in one place, any other in none: none is lost, run twice or completed twice.
THEOREM TasksInOnePlace == MCSpec => []OnePlace
<1>1. PlaceInv => OnePlace
  BY DEF PlaceInv, OnePlace
<1> QED
  BY <1>1, PlaceInvHolds, PoolPart, PTL
=============================================================================
