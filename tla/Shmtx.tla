------------------------------- MODULE Shmtx -------------------------------
(***************************************************************************)
(* The mutex in shared memory that the worker processes, the cache         *)
(* processes and the master use for every shared zone and for the accept   *)
(* mutex (src/src/core/bjrk-edge_shmtx.c, the build with atomic operations *)
(* and POSIX semaphores), together with the recovery the master performs   *)
(* when a process dies (ngx_unlock_mutexes in                              *)
(* src/src/os/unix/bjrk-edge_process.c).                                   *)
(*                                                                         *)
(* The grain of atomicity is the shared access: one step per               *)
(* compare-and-set, fetch-and-add, read of the waiters counter and         *)
(* semaphore operation.  "*lock == 0 && cmp_set(lock, 0, pid)" is a single *)
(* step: it succeeds at the instant of the compare-and-set, and when it    *)
(* fails there is an instant inside it at which the word was not 0.        *)
(***************************************************************************)
EXTENDS Integers, FiniteSets

CONSTANTS
    Procs,      \* the processes that lock and unlock (the master's own locking is one of them)
    NoOwner,    \* the value 0 of the lock word
    Reaper,     \* the SIGCHLD handler of the master, which runs ngx_unlock_mutexes
    MaxFaults   \* bound: how many deaths and semaphore failures a behaviour has,
                \* without and with the semaphore

ASSUME ShmtxAssumption ==
    /\ IsFiniteSet(Procs)
    /\ NoOwner \notin Procs
    /\ Reaper \notin Procs
    /\ MaxFaults \in [BOOLEAN -> Nat]

Actors == Procs \cup {Reaper}

VARIABLES
    semaphore,  \* mtx->semaphore: FALSE for the accept mutex and when sem_init() failed
    lock,     \* *mtx->lock: the pid of the owner, or NoOwner
    wait,     \* *mtx->wait read as a signed number, as ngx_shmtx_wakeup reads it
    sem,      \* value of mtx->sem
    pc,       \* where each actor is
    seen,     \* the local variable "wait" of ngx_shmtx_wakeup
    victim,   \* the dead process whose mutexes the reaper is releasing
    held,     \* processes that died with the lock and are not released yet
    faults,   \* how many deaths and semaphore failures have happened
    leak      \* history: registrations as a waiter minus posts that a failure cut short

vars == <<semaphore, lock, wait, sem, pc, seen, victim, held, faults, leak>>

(***************************************************************************)
(* Program points.  "contend" is the head of the loop of ngx_shmtx_lock,   *)
(* with its spinning; "enrol" is before fetch_add(wait, 1), "recheck"      *)
(* after it, "unenrol" before fetch_add(wait, -1), "sleep" in sem_wait().  *)
(* "wake", "wakecas" and "post" are the three shared accesses of           *)
(* ngx_shmtx_wakeup.                                                       *)
(***************************************************************************)
ProcPCs   == {"idle", "contend", "enrol", "recheck", "unenrol", "sleep", "cs",
              "wake", "wakecas", "post", "dead", "reaped"}
ReaperPCs == {"idle", "force", "wake", "wakecas", "post"}

Owning   == {"unenrol", "cs"}               \* the lock word holds the pid
Enrolled == {"recheck", "unenrol", "sleep"} \* counted in mtx->wait

Init ==
    /\ semaphore \in BOOLEAN
    /\ lock = NoOwner
    /\ wait = 0
    /\ sem = 0
    /\ pc = [a \in Actors |-> "idle"]
    /\ seen = [a \in Actors |-> 0]
    /\ victim = NoOwner
    /\ held = {}
    /\ faults = 0
    /\ leak = 0

Goto(a, from, to) ==
    /\ pc[a] = from
    /\ pc' = [pc EXCEPT ![a] = to]

(***************************************************************************)
(* Acquiring.                                                              *)
(***************************************************************************)

\* Mutant: the lock of a dead owner is taken without waiting for the master.
TryLockSteals(p) ==
    /\ Goto(p, "idle", "cs")
    /\ lock = NoOwner \/ lock \in held
    /\ lock' = p
    /\ held' = held \ {lock}
    /\ UNCHANGED <<wait, sem, seen, victim, faults, leak>>

\* ngx_shmtx_trylock() that succeeds; one that fails changes nothing.
TryLock(p) ==
    /\ Goto(p, "idle", "cs")
    /\ lock = NoOwner
    /\ lock' = p
    /\ UNCHANGED <<wait, sem, seen, victim, held, faults, leak>>

\* ngx_shmtx_lock() is called.
LockCall(p) ==
    /\ Goto(p, "idle", "contend")
    /\ UNCHANGED <<lock, wait, sem, seen, victim, held, faults, leak>>

\* The first or a spinning attempt of ngx_shmtx_lock() succeeds.
LockAcquire(p) ==
    /\ Goto(p, "contend", "cs")
    /\ lock = NoOwner
    /\ lock' = p
    /\ UNCHANGED <<wait, sem, seen, victim, held, faults, leak>>

\* The last attempt of a round failed.  Without the semaphore the process
\* yields the CPU and starts another round, which changes nothing.
LockGiveUp(p) ==
    /\ Goto(p, "contend", "enrol")
    /\ semaphore
    /\ lock # NoOwner
    /\ UNCHANGED <<lock, wait, sem, seen, victim, held, faults, leak>>

\* fetch_add(wait, 1).
Enrol(p) ==
    /\ Goto(p, "enrol", "recheck")
    /\ wait' = wait + 1
    /\ UNCHANGED <<lock, sem, seen, victim, held, faults, leak>>

\* Mutant: the process sleeps without trying again.
RecheckSkipped(p) ==
    /\ Goto(p, "recheck", "sleep")
    /\ UNCHANGED <<lock, wait, sem, seen, victim, held, faults, leak>>

\* The attempt made once the process is counted as a waiter.
Recheck(p) ==
    /\ \/ /\ lock = NoOwner
          /\ lock' = p
          /\ Goto(p, "recheck", "unenrol")
       \/ /\ lock # NoOwner
          /\ lock' = lock
          /\ Goto(p, "recheck", "sleep")
    /\ UNCHANGED <<wait, sem, seen, victim, held, faults, leak>>

\* Mutant: the registration is not taken back.
UnenrolForgotten(p) ==
    /\ Goto(p, "unenrol", "cs")
    /\ UNCHANGED <<lock, wait, sem, seen, victim, held, faults, leak>>

\* fetch_add(wait, -1) after that attempt succeeded.
Unenrol(p) ==
    /\ Goto(p, "unenrol", "cs")
    /\ wait' = wait - 1
    /\ UNCHANGED <<lock, sem, seen, victim, held, faults, leak>>

\* sem_wait() returns 0; an EINTR only repeats the call.
SemWait(p) ==
    /\ Goto(p, "sleep", "contend")
    /\ sem > 0
    /\ sem' = sem - 1
    /\ UNCHANGED <<lock, wait, seen, victim, held, faults, leak>>

(***************************************************************************)
(* Releasing.                                                              *)
(***************************************************************************)

\* cmp_set(lock, ngx_pid, 0) of ngx_shmtx_unlock(): the wakeup runs only when
\* it succeeds.
Unlock(p) ==
    /\ pc[p] = "cs"
    /\ \/ /\ lock = p
          /\ lock' = NoOwner
          /\ Goto(p, "cs", "wake")
       \/ /\ lock # p
          /\ lock' = lock
          /\ Goto(p, "cs", "idle")
    /\ UNCHANGED <<wait, sem, seen, victim, held, faults, leak>>

\* ngx_shmtx_wakeup(): read the counter, return when nobody waits.
WakeRead(a) ==
    /\ \/ /\ semaphore /\ wait > 0
          /\ Goto(a, "wake", "wakecas")
          /\ seen' = [seen EXCEPT ![a] = wait]
       \/ /\ ~semaphore \/ wait <= 0
          /\ Goto(a, "wake", "idle")
          /\ seen' = seen
    /\ UNCHANGED <<lock, wait, sem, victim, held, faults, leak>>

\* cmp_set(wait, seen, seen - 1), and around the loop again when it fails.
WakeCas(a) ==
    /\ \/ /\ wait = seen[a]
          /\ wait' = wait - 1
          /\ Goto(a, "wakecas", "post")
       \/ /\ wait # seen[a]
          /\ wait' = wait
          /\ Goto(a, "wakecas", "wake")
    /\ seen' = [seen EXCEPT ![a] = 0]
    /\ UNCHANGED <<lock, sem, victim, held, faults, leak>>

\* sem_post().
SemPost(a) ==
    /\ Goto(a, "post", "idle")
    /\ sem' = sem + 1
    /\ UNCHANGED <<lock, wait, seen, victim, held, faults, leak>>

(***************************************************************************)
(* Failures: a semaphore call fails, which is only logged; a process dies  *)
(* at any point, and the master recovers.                                  *)
(***************************************************************************)
Fault == faults < MaxFaults[semaphore] /\ faults' = faults + 1

\* sem_wait() fails with an error other than EINTR: the loop goes on, and the
\* registration stays in mtx->wait.
SemWaitFails(p) ==
    /\ Fault
    /\ Goto(p, "sleep", "contend")
    /\ leak' = leak + 1
    /\ UNCHANGED <<lock, wait, sem, seen, victim, held>>

\* sem_post() fails: the registration it answers is already gone.
SemPostFails(a) ==
    /\ Fault
    /\ Goto(a, "post", "idle")
    /\ leak' = leak - 1
    /\ UNCHANGED <<lock, wait, sem, seen, victim, held>>

Crash(p) ==
    /\ Fault
    /\ pc[p] \notin {"dead", "reaped"}
    /\ pc' = [pc EXCEPT ![p] = "dead"]
    /\ held' = IF pc[p] \in Owning THEN held \cup {p} ELSE held
    /\ leak' = leak + (IF pc[p] \in Enrolled THEN 1 ELSE 0)
                    - (IF pc[p] = "post" THEN 1 ELSE 0)
    /\ seen' = [seen EXCEPT ![p] = 0]
    /\ UNCHANGED <<lock, wait, sem, victim>>

\* waitpid() hands the next exited process to ngx_process_get_status(),
\* which calls ngx_unlock_mutexes() for it.
Waitpid(p) ==
    /\ Goto(Reaper, "idle", "force")
    /\ pc[p] = "dead"
    /\ victim' = p
    /\ UNCHANGED <<lock, wait, sem, seen, held, faults, leak>>

\* Mutant: the dead process is forgotten and keeps the word.
ForceUnlockNone ==
    /\ pc[Reaper] = "force"
    /\ pc' = [pc EXCEPT ![Reaper] = "idle"]
    /\ victim' = NoOwner
    /\ UNCHANGED <<lock, wait, sem, seen, held, faults, leak>>

\* cmp_set(lock, pid, 0) of ngx_shmtx_force_unlock(); the wakeup follows only
\* when the dead process was the owner.
ForceUnlock ==
    /\ pc[Reaper] = "force"
    /\ IF lock = victim
       THEN /\ lock' = NoOwner
            /\ pc' = [pc EXCEPT ![Reaper] = "wake", ![victim] = "reaped"]
       ELSE /\ lock' = lock
            /\ pc' = [pc EXCEPT ![Reaper] = "idle", ![victim] = "reaped"]
    /\ held' = held \ {victim}
    /\ victim' = NoOwner
    /\ UNCHANGED <<wait, sem, seen, faults, leak>>

\* ngx_reap_children() starts a new process in the place of the dead one; it
\* may get the pid again, since the master has already released it.
Respawn(p) ==
    /\ Goto(p, "reaped", "idle")
    /\ UNCHANGED <<lock, wait, sem, seen, victim, held, faults, leak>>

Wakeup(a) == WakeRead(a) \/ WakeCas(a) \/ SemPost(a)

ProcStep(p) ==
    \/ LockAcquire(p) \/ LockGiveUp(p)
    \/ Enrol(p) \/ Recheck(p) \/ Unenrol(p) \/ SemWait(p)
    \/ Unlock(p)
    \/ Wakeup(p)

ReaperStep == (\E p \in Procs : Waitpid(p)) \/ ForceUnlock \/ Wakeup(Reaper)

Next ==
    /\ \/ \E p \in Procs :
           TryLock(p) \/ LockCall(p) \/ ProcStep(p)
           \/ SemWaitFails(p) \/ Crash(p) \/ Respawn(p)
       \/ \E a \in Actors : SemPostFails(a)
       \/ ReaperStep
    /\ UNCHANGED semaphore

\* A running process keeps executing its code, and the kernel delivers SIGCHLD:
\* calling the lock, dying and being respawned are left to chance.
Fairness ==
    /\ \A p \in Procs : WF_vars(ProcStep(p) /\ UNCHANGED semaphore)
    /\ WF_vars(ReaperStep /\ UNCHANGED semaphore)

Spec     == Init /\ [][Next]_vars
FairSpec == Spec /\ Fairness

-----------------------------------------------------------------------------
TypeOK ==
    /\ semaphore \in BOOLEAN
    /\ lock \in Procs \cup {NoOwner}
    /\ wait \in Int
    /\ sem \in Nat
    /\ pc \in [Actors -> ProcPCs \cup ReaperPCs]
    /\ \A p \in Procs : pc[p] \in ProcPCs
    /\ pc[Reaper] \in ReaperPCs
    /\ seen \in [Actors -> Int]
    /\ victim \in Procs \cup {NoOwner}
    /\ held \subseteq Procs
    /\ faults \in Nat
    /\ leak \in Int

\* The lock word names exactly the process that is between a successful
\* acquisition and its release, or that died there and was not reaped yet: two
\* processes are never in the section the mutex guards, not even while a dead
\* owner is being replaced (ngx_shmtx_lock, ngx_shmtx_force_unlock).
MutualExclusion ==
    \A p \in Procs : lock = p <=> (pc[p] \in Owning \/ p \in held)

\* The counter and the semaphore never lose track of a waiter: the registered
\* count plus the tokens posted or about to be posted is the number of
\* processes between fetch_add(wait, 1) and their return from sem_wait(),
\* corrected for the processes that died there and for failed semaphore calls.
\* The counter may go below 0, which is why ngx_shmtx_wakeup() compares it as a signed number.
WaiterConservation ==
    wait + sem + Cardinality({a \in Actors : pc[a] = "post"})
        = Cardinality({p \in Procs : pc[p] \in Enrolled}) + leak

\* No wakeup is lost: while the lock is free and a process sleeps in sem_wait(),
\* a token is available, or some process is still going to try the lock or to
\* post a token (unlock before reading mtx->wait against registering before the
\* last attempt).  Holds as long as no process dies and the semaphore works.
NoLostWakeup ==
    (faults = 0 /\ lock = NoOwner /\ \E p \in Procs : pc[p] = "sleep")
        => \/ sem > 0
           \/ \E a \in Actors : pc[a] \in {"contend", "wake", "wakecas", "post"}

\* What MutualExclusion and NoLostWakeup rest on.  A process that died with the
\* lock is still to be reaped, and so is the one the reaper works on; only the
\* code under "if (mtx->semaphore)" registers a waiter; and without a fault
\* nothing is dead and nothing has leaked.
DeadOwnersPending ==
    /\ \A p \in held : pc[p] = "dead"
    /\ pc[Reaper] = "force" => victim \in Procs /\ pc[victim] = "dead"
    /\ \A p \in Procs : pc[p] \in Enrolled \cup {"enrol"} => semaphore
    /\ faults = 0 => /\ leak = 0
                     /\ pc[Reaper] = "idle"
                     /\ \A p \in Procs : pc[p] \notin {"dead", "reaped"}

\* The lock is handed over: while some process waits for it, some process gets
\* it again and again (ngx_shmtx_lock against ngx_shmtx_wakeup), unless every
\* waiting process dies.  With the semaphore this ends with the first fault: a
\* process that dies with a token takes the wakeup with it.
Waiting  == \E p \in Procs : pc[p] \in {"contend", "enrol", "recheck", "sleep"}
Progress == []<>(\/ ~Waiting
                 \/ \E p \in Procs : pc[p] \in Owning
                 \/ semaphore /\ faults > 0)

\* A lock whose owner died is always taken from it by the master, so that no
\* death blocks the others for good (ngx_unlock_mutexes).
DeadOwnerReleased ==
    \A p \in Procs : []<>(lock # p \/ pc[p] \notin {"dead", "reaped"})

\* The mutex implements the abstract lock: every change of the lock word is an
\* acquisition of a free lock, a release by its live owner, or the burial of a
\* dead one.
Abstract == INSTANCE SharedLock
                WITH owner <- lock, dead <- {p \in Procs : pc[p] = "dead"}

ImplementsSharedLock == Abstract!Spec

\* Nobody waits for good, whoever dies: the lock is handed on, and taken from the dead.
LockMovesOn == Progress /\ DeadOwnerReleased

\* Who waits is known to those who post, and no wakeup is lost without a fault.
WakeupsExact == WaiterConservation /\ NoLostWakeup
=============================================================================
