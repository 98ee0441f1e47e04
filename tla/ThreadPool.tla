----------------------------- MODULE ThreadPool -----------------------------
(***************************************************************************)
(* A thread pool of a worker process: the main thread posts tasks, pool    *)
(* threads run them, and completions come back to the main thread through  *)
(* a list and an eventfd (src/src/core/bjrk-edge_thread_pool.c, and        *)
(* ngx_epoll_notify in src/src/event/modules/bjrk-edge_epoll_module.c).    *)
(*                                                                         *)
(* A section under tp->mtx, or under the spin lock of the done list, is    *)
(* one step.  A thread in pthread_cond_wait() is in "wait" until it is     *)
(* signalled or wakes spuriously, then in "woken" until it has the mutex   *)
(* again.  The pthread calls do not fail.                                  *)
(***************************************************************************)
EXTENDS Integers, Sequences, FiniteSets

CONSTANTS
    Threads,     \* the threads of the pool
    Tasks,       \* the tasks requests may post
    Exit,        \* the task ngx_thread_pool_destroy posts
    NoTask,
    MaxQueue,    \* tp->max_queue
    MaxPosts,    \* bound: how many posts of requests succeed
    MaxSpurious  \* bound: how many spurious wake-ups happen

ThreadPoolAssumption ==
    /\ IsFiniteSet(Threads)
    /\ Exit \notin Tasks
    /\ NoTask \notin Tasks \cup {Exit}
    /\ MaxQueue \in Nat
    /\ MaxPosts \in Nat
    /\ MaxSpurious \in Nat

AllTasks == Tasks \cup {Exit}

VARIABLES
    queue,    \* tp->queue
    waiting,  \* tp->waiting
    th,       \* where each thread is
    cur,      \* the task each thread has taken
    active,   \* the tasks whose event.active is set
    done,     \* ngx_thread_pool_done
    notify,   \* the eventfd has been written since the last event of it
    batch,    \* completions that ngx_thread_pool_handler has detached
    main,     \* the main thread: "loop", "handler", "destroy", "spin" or "down"
    left,     \* threads that ngx_thread_pool_destroy has yet to stop
    posts,    \* how many posts have succeeded
    spurious  \* how many spurious wake-ups have happened

vars == <<queue, waiting, th, cur, active, done, notify, batch, main, left, posts, spurious>>

Idle  == {t \in Threads : th[t] \in {"wait", "woken"}}
Asleep == {t \in Threads : th[t] = "wait"}
Woken == {t \in Threads : th[t] = "woken"}

Init ==
    /\ queue = <<>>
    /\ waiting = 0
    /\ th = [t \in Threads |-> "top"]
    /\ cur = [t \in Threads |-> NoTask]
    /\ active = {}
    /\ done = <<>>
    /\ notify = FALSE
    /\ batch = <<>>
    /\ main = "loop"
    /\ left = 0
    /\ posts = 0
    /\ spurious = 0

(***************************************************************************)
(* ngx_thread_task_post.                                                   *)
(***************************************************************************)

\* Mutant: the signal is forgotten.
CondSignalNone == UNCHANGED th

\* pthread_cond_signal(): one of the threads that wait, if there is one.
CondSignal ==
    \/ Asleep = {} /\ UNCHANGED th
    \/ \E t \in Asleep : th' = [th EXCEPT ![t] = "woken"]

\* Mutant: the limit is off by one.
MayPostOneMore(task) == task \notin active /\ waiting <= MaxQueue

MayPost(task) == task \notin active /\ waiting < MaxQueue

Enqueue(task) ==
    /\ MayPost(task)
    /\ active' = active \cup {task}
    /\ CondSignal
    /\ queue' = Append(queue, task)
    /\ waiting' = waiting + 1

\* A request posts a task, from the event loop or from a completion.
Post(task) ==
    /\ main \in {"loop", "handler"}
    /\ posts < MaxPosts
    /\ Enqueue(task)
    /\ posts' = posts + 1
    /\ UNCHANGED <<cur, done, notify, batch, main, left, spurious>>

(***************************************************************************)
(* ngx_thread_pool_cycle.                                                  *)
(***************************************************************************)

\* With the mutex: take the first task, or wait.
TakeOrWait(t) ==
    \/ /\ queue # <<>>
       /\ th' = [th EXCEPT ![t] = "run"]
       /\ cur' = [cur EXCEPT ![t] = Head(queue)]
       /\ queue' = Tail(queue)
    \/ /\ queue = <<>>
       /\ th' = [th EXCEPT ![t] = "wait"]
       /\ UNCHANGED <<cur, queue>>

ThreadTop(t) ==
    /\ th[t] = "top"
    /\ waiting' = waiting - 1
    /\ TakeOrWait(t)
    /\ UNCHANGED <<active, done, notify, batch, main, left, posts, spurious>>

ThreadWoken(t) ==
    /\ th[t] = "woken"
    /\ TakeOrWait(t)
    /\ UNCHANGED <<waiting, active, done, notify, batch, main, left, posts, spurious>>

SpuriousWakeup(t) ==
    /\ th[t] = "wait"
    /\ spurious < MaxSpurious
    /\ spurious' = spurious + 1
    /\ th' = [th EXCEPT ![t] = "woken"]
    /\ UNCHANGED <<queue, waiting, cur, active, done, notify, batch, main, left, posts>>

\* task->handler() has run, and the task is put in the done list.
RunTask(t) ==
    /\ th[t] = "run"
    /\ cur[t] # Exit
    /\ done' = Append(done, cur[t])
    /\ cur' = [cur EXCEPT ![t] = NoTask]
    /\ th' = [th EXCEPT ![t] = "notify"]
    /\ UNCHANGED <<queue, waiting, active, notify, batch, main, left, posts, spurious>>

\* Mutant: the flag is cleared and the thread goes on.
RunExitGoesOn(t) ==
    /\ th[t] = "run"
    /\ cur[t] = Exit
    /\ cur' = [cur EXCEPT ![t] = NoTask]
    /\ th' = [th EXCEPT ![t] = "top"]
    /\ main' = IF main = "spin" THEN "destroy" ELSE main
    /\ active' = active \ {Exit}
    /\ left' = left - 1
    /\ UNCHANGED <<queue, waiting, done, notify, batch, posts, spurious>>

\* ngx_thread_pool_exit_handler: the thread ends, and the main thread, spinning, sees lock = 0.
RunExit(t) ==
    /\ th[t] = "run"
    /\ cur[t] = Exit
    /\ cur' = [cur EXCEPT ![t] = NoTask]
    /\ th' = [th EXCEPT ![t] = "gone"]
    /\ main' = IF main = "spin" THEN "destroy" ELSE main
    /\ active' = active \ {Exit}
    /\ left' = left - 1
    /\ UNCHANGED <<queue, waiting, done, notify, batch, posts, spurious>>

\* Mutant: the eventfd is written only by the thread that finds its task alone in the list.
NotifyIfFirst(t) ==
    /\ th[t] = "notify"
    /\ notify' = (notify \/ Len(done) = 1)
    /\ th' = [th EXCEPT ![t] = "top"]
    /\ UNCHANGED <<queue, waiting, cur, active, done, batch, main, left, posts, spurious>>

\* ngx_notify(), the write to the eventfd.
Notify(t) ==
    /\ th[t] = "notify"
    /\ notify' = TRUE
    /\ th' = [th EXCEPT ![t] = "top"]
    /\ UNCHANGED <<queue, waiting, cur, active, done, batch, main, left, posts, spurious>>

(***************************************************************************)
(* ngx_epoll_notify_handler and ngx_thread_pool_handler.  The eventfd is   *)
(* edge-triggered: writes before the event is taken are one event.         *)
(***************************************************************************)
\* Mutant: the done list is not emptied.
DetachKeeps ==
    /\ main = "loop"
    /\ notify
    /\ notify' = FALSE
    /\ batch' = done
    /\ main' = "handler"
    /\ UNCHANGED <<queue, waiting, th, cur, active, done, left, posts, spurious>>

Detach ==
    /\ main = "loop"
    /\ notify
    /\ notify' = FALSE
    /\ batch' = done
    /\ done' = <<>>
    /\ main' = "handler"
    /\ UNCHANGED <<queue, waiting, th, cur, active, left, posts, spurious>>

\* The completion of one task; the task may be posted again from here on.
Complete ==
    /\ main = "handler"
    /\ batch # <<>>
    /\ active' = active \ {Head(batch)}
    /\ batch' = Tail(batch)
    /\ UNCHANGED <<queue, waiting, th, cur, done, notify, main, left, posts, spurious>>

HandlerEnds ==
    /\ main = "handler"
    /\ batch = <<>>
    /\ main' = "loop"
    /\ UNCHANGED <<queue, waiting, th, cur, active, done, notify, batch, left, posts, spurious>>

(***************************************************************************)
(* ngx_thread_pool_destroy: one exit task for each thread, one at a time.  *)
(***************************************************************************)
DestroyCall ==
    /\ main = "loop"
    /\ main' = "destroy"
    /\ left' = Cardinality(Threads)
    /\ UNCHANGED <<queue, waiting, th, cur, active, done, notify, batch, posts, spurious>>

DestroyPost ==
    /\ main = "destroy"
    /\ left > 0
    /\ Enqueue(Exit)
    /\ main' = "spin"
    /\ UNCHANGED <<cur, done, notify, batch, left, posts, spurious>>

\* Every thread is gone, or the queue is full and destroy gives up.
DestroyEnds ==
    /\ main = "destroy"
    /\ left = 0 \/ ~MayPost(Exit)
    /\ main' = "down"
    /\ UNCHANGED <<queue, waiting, th, cur, active, done, notify, batch, left, posts, spurious>>

Thread(t) == ThreadTop(t) \/ ThreadWoken(t) \/ RunTask(t) \/ RunExit(t) \/ Notify(t)

Main == Detach \/ Complete \/ HandlerEnds \/ DestroyPost \/ DestroyEnds

Next ==
    \/ \E task \in Tasks : Post(task)
    \/ \E t \in Threads : Thread(t) \/ SpuriousWakeup(t)
    \/ Main
    \/ DestroyCall

Spec == Init /\ [][Next]_vars

\* Threads are scheduled, handlers of tasks end, and the event loop goes round.
FairSpec == Spec /\ WF_vars(Main) /\ \A t \in Threads : WF_vars(Thread(t))

(***************************************************************************)
(* Properties.                                                             *)
(***************************************************************************)

\* Every variable has its type.
TypeOK ==
    /\ queue \in Seq(AllTasks)
    /\ waiting \in Int
    /\ th \in [Threads -> {"top", "wait", "woken", "run", "notify", "gone"}]
    /\ cur \in [Threads -> AllTasks \cup {NoTask}]
    /\ active \subseteq AllTasks
    /\ done \in Seq(Tasks)
    /\ notify \in BOOLEAN
    /\ batch \in Seq(Tasks)
    /\ main \in {"loop", "handler", "destroy", "spin", "down"}
    /\ left \in Int
    /\ posts \in Nat
    /\ spurious \in Nat

\* tp->waiting, which the comment says may become negative, is the length of the queue minus the
\* number of idle threads; it is what the limit of ngx_thread_task_post is compared with.
WaitingCounts == waiting = Len(queue) - Cardinality(Idle)

\* No wake-up is lost: while a thread sleeps in pthread_cond_wait(), every task in the queue has
\* a thread that was woken for it, although the signal is sent before the task is in the queue.
NoLostSignal == Asleep # {} => Len(queue) <= Cardinality(Woken)

\* The queue never holds more than max_queue tasks that no idle thread is there for.
QueueBounded == waiting <= MaxQueue

\* Where a task is.
Places(task) ==
    Cardinality({i \in DOMAIN queue : queue[i] = task})
    + Cardinality({t \in Threads : cur[t] = task})
    + Cardinality({i \in DOMAIN done : done[i] = task})
    + Cardinality({i \in DOMAIN batch : batch[i] = task})

\* An active task is in exactly one place, and no other is anywhere: no task is lost, run twice
\* or completed twice, even if it is posted again from its own completion.
OnePlace == \A task \in AllTasks : Places(task) = IF task \in active THEN 1 ELSE 0

\* Every task that is posted completes, unless the pool is destroyed: a completion appended while
\* the handler runs is never left without a notification.
Completes == \A task \in Tasks : []<>(task \notin active \/ main \in {"destroy", "spin", "down"})

\* ngx_thread_pool_destroy ends, and if it did not give up, no thread is left.
DestroyStops == []<>(/\ main \notin {"destroy", "spin"}
                     /\ main = "down" /\ left = 0 => \A t \in Threads : th[t] = "gone")

\* What is handed to the pool ends: every task completes, and so does the destruction.
TasksEnd == Completes /\ DestroyStops

\* The count of waiting tasks and the signals agree with the queue, for posts that are refused
\* and threads that sleep.
SignalsExact == NoLostSignal /\ QueueBounded
=============================================================================
