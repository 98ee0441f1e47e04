------------------------------ MODULE MCLocks ------------------------------
(***************************************************************************)
(* What processes and threads wait for, for TLC: the mutex and the         *)
(* read/write lock of shared memory, and the queue of a thread pool with   *)
(* its condition variable.  A behaviour is one of a part, and the others   *)
(* rest.                                                                   *)
(***************************************************************************)
EXTENDS Shmtx

CONSTANT MaxDeaths
VARIABLES word, rwpc, hold, readers
CONSTANTS Tasks, Exit, NoTask, MaxQueue, MaxPosts, MaxSpurious
VARIABLES queue, waiting, th, cur, active, done, notify, batch, main, left, posts, spurious
VARIABLE part

rwlockVars == <<word, rwpc, hold, readers>>
poolVars == <<queue, waiting, th, cur, active, done, notify, batch, main, left, posts, spurious>>
all == <<vars, rwlockVars, poolVars, part>>
OneOrTwo == [with \in BOOLEAN |-> IF with THEN 1 ELSE 2]

Rw == INSTANCE Rwlock WITH lock <- word, pc <- rwpc, seen <- readers
Pool == INSTANCE ThreadPool WITH Threads <- Procs

ASSUME PartsAssumption == Rw!RwlockAssumption /\ Pool!ThreadPoolAssumption

MCInit ==
    /\ part \in {"mutex", "rwlock", "pool"}
    /\ Init /\ Rw!Init /\ Pool!Init
    /\ part # "mutex" => semaphore

Mutexing(A) == part = "mutex" /\ A /\ UNCHANGED <<rwlockVars, poolVars, part>>
Rwlocking(A) == part = "rwlock" /\ A /\ UNCHANGED <<vars, poolVars, part>>
Pooling(A) == part = "pool" /\ A /\ UNCHANGED <<vars, rwlockVars, part>>

MCNext == Mutexing(Next) \/ Rwlocking(Rw!Next) \/ Pooling(Pool!Next)

(***************************************************************************)
(* The fairness of the three.  What rests has no step, so that conditions  *)
(* of different parts can share a formula.                                 *)
(***************************************************************************)
MCFairness ==
    /\ \A p \in Procs : WF_all(\/ Mutexing(ProcStep(p) /\ UNCHANGED semaphore)
                               \/ Rwlocking(Rw!Step(p))
                               \/ Pooling(Pool!Thread(p)))
    /\ WF_all(Mutexing(ReaperStep /\ UNCHANGED semaphore) \/ Pooling(Pool!Main))

MCSpec == MCInit /\ [][MCNext]_all /\ MCFairness

(* The word of the read/write lock tells who holds it, to those who read   *)
(* it and to those who act on what they read.                              *)
HoldersExact == Rw!HoldersExact

(* The count of waiting tasks and the signals agree with the queue of the  *)
(* pool, for posts that are refused and threads that sleep.                *)
SignalsExact == Pool!SignalsExact

(* An active task is in exactly one place: none is lost, run or completed  *)
(* twice, even if it is posted again from its own completion.              *)
OnePlace == Pool!OnePlace

(* Somebody who waits for a lock gets on: also after deaths, but for those *)
(* with a token of the semaphore or with the read/write lock.  What is     *)
(* handed to the pool ends.                                                *)
WaitersMoveOn == LockMovesOn /\ Rw!Progress /\ Pool!TasksEnd
=============================================================================
