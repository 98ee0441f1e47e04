---------------------------- MODULE AcceptMutex ----------------------------
(***************************************************************************)
(* Workers that accept from one shared listening socket: the accept mutex, *)
(* the flag ngx_accept_mutex_held that outlives the mutex itself, the back *)
(* off of a worker that is nearly full (ngx_accept_disabled), the handling *)
(* of EMFILE and ENFILE, and the workers that quit or die.  The mutex is   *)
(* the abstract lock of SharedLock, which Shmtx implements.                *)
(*                                                                         *)
(* An iteration of a worker's loop is top (lock, enable or disable), wait  *)
(* (epoll_wait), accept (the accept handler), unlock and serve (timers and *)
(* the other events).                                                      *)
(***************************************************************************)
EXTENDS Integers, FiniteSets

CONSTANTS
    Workers,
    ConnN,        \* worker_connections
    AcceptShare,  \* the back off starts below ConnN / AcceptShare free ones (8)
    MaxClients,   \* bound: clients that ever arrive
    MaxErrors,    \* bound: failed system calls
    MaxCrashes,   \* bound: workers that die
    MaxQuits      \* bound: workers told to quit

SizesAssumption ==
    /\ IsFiniteSet(Workers)
    /\ ConnN \in Nat \ {0} /\ AcceptShare \in Nat \ {0}
    /\ {MaxClients, MaxErrors, MaxCrashes, MaxQuits} \subseteq Nat

None == "none"
NoneAssumption == None \notin Workers

VARIABLES
    mutex,     \* accept_mutex is on, and there is more than one worker
    multi,     \* multi_accept
    owner,     \* the accept mutex: a worker, or None
    pc,        \* where each worker is
    held,      \* ngx_accept_mutex_held
    disabled,  \* ngx_accept_disabled
    enabled,   \* c->read->active of the listening socket
    use,       \* ngx_use_accept_mutex
    timer,     \* the listening event waits in the timer tree after an error
    timedout,  \* ev->timedout of the listening event, left set by a failed retry
    posting,   \* flags & POST_EVENTS of this iteration
    capped,    \* the timeout of epoll_wait is at most accept_mutex_delay
    free,      \* free_connection_n
    backlog,   \* clients waiting to be accepted
    clients, errors, crashes, quits  \* what the bounds count

locals == <<held, disabled, enabled, use, timer, timedout, posting, capped, free>>
bounds == <<clients, errors, crashes, quits>>
config == <<mutex, multi>>
vars == <<config, owner, pc, locals, backlog, bounds>>

(* ngx_event_process_init *)
Init ==
    /\ mutex \in BOOLEAN /\ multi \in BOOLEAN
    /\ owner = None
    /\ pc = [w \in Workers |-> "top"]
    /\ held = [w \in Workers |-> FALSE]
    /\ disabled = [w \in Workers |-> 0]
    /\ enabled = [w \in Workers |-> ~mutex]
    /\ use = [w \in Workers |-> mutex]
    /\ timer = [w \in Workers |-> FALSE]
    /\ timedout = [w \in Workers |-> FALSE]
    /\ posting = [w \in Workers |-> FALSE]
    /\ capped = [w \in Workers |-> FALSE]
    /\ free = [w \in Workers |-> ConnN]
    /\ backlog = 0
    /\ clients = 0 /\ errors = 0 /\ crashes = 0 /\ quits = 0

Goto(w, label) == pc' = [pc EXCEPT ![w] = label]
Listens(w) == pc[w] \in {"top", "wait", "accept", "unlock", "serve"}

(* ngx_shmtx_unlock stores only over the caller's own pid: it does nothing *)
(* for a worker that does not own the mutex.                               *)
UnlockAny(w) == owner' = None
Unlock(w) == owner' = IF owner = w THEN None ELSE owner

Fails == errors < MaxErrors /\ errors' = errors + 1

-----------------------------------------------------------------------------
(* The head of ngx_process_events_and_timers.                              *)

NoMutex(w) ==
    /\ pc[w] = "top" /\ ~use[w]
    /\ posting' = [posting EXCEPT ![w] = FALSE]
    /\ capped' = [capped EXCEPT ![w] = FALSE]
    /\ Goto(w, "wait")
    /\ UNCHANGED <<owner, held, disabled, enabled, use, timer, timedout, free, backlog, bounds>>

BackOff(w) ==
    /\ pc[w] = "top" /\ use[w] /\ disabled[w] > 0
    /\ disabled' = [disabled EXCEPT ![w] = @ - 1]
    /\ posting' = [posting EXCEPT ![w] = FALSE]
    /\ capped' = [capped EXCEPT ![w] = FALSE]
    /\ Goto(w, "wait")
    /\ UNCHANGED <<owner, held, enabled, use, timer, timedout, free, backlog, bounds>>

(* ngx_trylock_accept_mutex takes the mutex; the events need enabling only *)
(* if another worker has had it in between.                                *)
TryLock(w) ==
    /\ pc[w] = "top" /\ use[w] /\ disabled[w] <= 0 /\ owner = None
    /\ owner' = w
    /\ enabled' = [enabled EXCEPT ![w] = held[w] => @]
    /\ held' = [held EXCEPT ![w] = TRUE]
    /\ posting' = [posting EXCEPT ![w] = TRUE]
    /\ capped' = [capped EXCEPT ![w] = FALSE]
    /\ Goto(w, "wait")
    /\ UNCHANGED <<disabled, use, timer, timedout, free, backlog, bounds>>

(* ngx_enable_accept_events fails: the mutex is released again and the     *)
(* iteration ends.                                                         *)
TryLockEnableFails(w) ==
    /\ pc[w] = "top" /\ use[w] /\ disabled[w] <= 0 /\ owner = None /\ ~held[w]
    /\ Fails
    /\ UNCHANGED <<owner, pc, locals, backlog, clients, crashes, quits>>

TryLockFailsKeepingEvents(w) ==
    /\ pc[w] = "top" /\ use[w] /\ disabled[w] <= 0 /\ owner # None
    /\ held' = [held EXCEPT ![w] = FALSE]
    /\ posting' = [posting EXCEPT ![w] = FALSE]
    /\ capped' = [capped EXCEPT ![w] = TRUE]
    /\ Goto(w, "wait")
    /\ UNCHANGED <<owner, disabled, use, timer, timedout, free, backlog, bounds, enabled>>

(* Another worker has the mutex: the events this worker kept enabled since *)
(* its last turn are disabled.                                             *)
TryLockFails(w) ==
    /\ pc[w] = "top" /\ use[w] /\ disabled[w] <= 0 /\ owner # None
    /\ enabled' = [enabled EXCEPT ![w] = @ /\ ~held[w]]
    /\ held' = [held EXCEPT ![w] = FALSE]
    /\ posting' = [posting EXCEPT ![w] = FALSE]
    /\ capped' = [capped EXCEPT ![w] = TRUE]
    /\ Goto(w, "wait")
    /\ UNCHANGED <<owner, disabled, use, timer, timedout, free, backlog, bounds>>

(* ngx_disable_accept_events fails: the iteration ends with the flag set.  *)
TryLockDisableFails(w) ==
    /\ pc[w] = "top" /\ use[w] /\ disabled[w] <= 0 /\ owner # None /\ held[w]
    /\ Fails
    /\ UNCHANGED <<owner, pc, locals, backlog, clients, crashes, quits>>

-----------------------------------------------------------------------------
(* ngx_process_events and the accept handler.                              *)

Ready(w) == enabled[w] /\ backlog > 0

(* A worker with a connection has events and timers of its own to wake it. *)
Wakes(w) == Ready(w) \/ capped[w] \/ timer[w] \/ free[w] < ConnN

Wait(w) ==
    /\ pc[w] = "wait" /\ Wakes(w)
    /\ Goto(w, IF Ready(w) THEN "accept" ELSE "unlock")
    /\ UNCHANGED <<owner, locals, backlog, bounds>>

(* accept() returned EAGAIN: another worker was faster.                    *)
AcceptAgain(w) ==
    /\ pc[w] = "accept" /\ backlog = 0
    /\ Goto(w, "unlock")
    /\ UNCHANGED <<owner, locals, backlog, bounds>>

(* A client is accepted, or its socket is closed if ngx_get_connection     *)
(* finds no connection; the back off is computed from the free connections *)
(* before that call.  multi_accept stays in the loop.                      *)
Accept(w) ==
    /\ pc[w] = "accept" /\ backlog > 0
    /\ backlog' = backlog - 1
    /\ disabled' = [disabled EXCEPT ![w] = ConnN \div AcceptShare - free[w]]
    /\ free' = [free EXCEPT ![w] = IF @ > 0 THEN @ - 1 ELSE 0]
    /\ Goto(w, IF multi /\ free[w] > 0 THEN "accept" ELSE "unlock")
    /\ UNCHANGED <<owner, held, enabled, use, timer, timedout, posting, capped, bounds>>

(* EMFILE or ENFILE: the events are disabled, and come back when the       *)
(* worker locks the mutex next, after a back off of one iteration, or,     *)
(* without the mutex, when the timer fires.                                *)
AcceptFailsNoTimer(w) ==
    /\ pc[w] = "accept" /\ backlog > 0 /\ Fails
    /\ enabled' = [enabled EXCEPT ![w] = FALSE]
    /\ IF use[w]
         THEN /\ Unlock(w)
              /\ held' = [held EXCEPT ![w] = FALSE]
              /\ disabled' = [disabled EXCEPT ![w] = 1]
         ELSE UNCHANGED <<owner, held, disabled>>
    /\ Goto(w, "unlock")
    /\ UNCHANGED <<timer, use, timedout, posting, capped, free, backlog, clients, crashes, quits>>

AcceptFails(w) ==
    /\ pc[w] = "accept" /\ backlog > 0 /\ Fails
    /\ enabled' = [enabled EXCEPT ![w] = FALSE]
    /\ IF use[w]
         THEN /\ IF held[w] THEN Unlock(w) ELSE UNCHANGED owner
              /\ held' = [held EXCEPT ![w] = FALSE]
              /\ disabled' = [disabled EXCEPT ![w] = 1]
              /\ UNCHANGED timer
         ELSE /\ timer' = [timer EXCEPT ![w] = TRUE]
              /\ UNCHANGED <<owner, held, disabled>>
    /\ Goto(w, "unlock")
    /\ UNCHANGED <<use, timedout, posting, capped, free, backlog, clients, crashes, quits>>

(* ngx_disable_accept_events fails in its turn: the events stay enabled,   *)
(* and nothing is released or set.                                         *)
AcceptDisableFails(w) ==
    /\ pc[w] = "accept" /\ backlog > 0 /\ Fails
    /\ Goto(w, "unlock")
    /\ UNCHANGED <<owner, locals, backlog, clients, crashes, quits>>

(* if (ngx_accept_mutex_held) ngx_shmtx_unlock: also reached by a worker   *)
(* that backed off and does not own the mutex.                             *)
ReleaseMutex(w) ==
    /\ pc[w] = "unlock"
    /\ IF held[w] THEN Unlock(w) ELSE UNCHANGED owner
    /\ Goto(w, "serve")
    /\ UNCHANGED <<locals, backlog, bounds>>

(* ngx_event_expire_timers runs the accept handler of the event that timed *)
(* out: ngx_enable_accept_events, ev->timedout is cleared, and an attempt  *)
(* to accept.                                                              *)
RetryTimer(w) ==
    /\ pc[w] = "serve" /\ timer[w]
    /\ timer' = [timer EXCEPT ![w] = FALSE]
    /\ timedout' = [timedout EXCEPT ![w] = FALSE]
    /\ enabled' = [enabled EXCEPT ![w] = TRUE]
    /\ Goto(w, IF backlog > 0 THEN "accept" ELSE "serve")
    /\ UNCHANGED <<owner, held, disabled, use, posting, capped, free, backlog, bounds>>

(* ngx_enable_accept_events fails there: the handler returns with the      *)
(* events disabled, ev->timedout set and no new timer.                     *)
RetryTimerFails(w) ==
    /\ pc[w] = "serve" /\ timer[w] /\ Fails
    /\ timer' = [timer EXCEPT ![w] = FALSE]
    /\ timedout' = [timedout EXCEPT ![w] = TRUE]
    /\ UNCHANGED <<owner, pc, held, disabled, enabled, use, posting, capped, free, backlog,
                    clients, crashes, quits>>

(* The timers and the posted events of the connections, some of which      *)
(* close.                                                                  *)
Serve(w) ==
    /\ pc[w] = "serve" /\ ~timer[w]
    /\ \E n \in free[w] .. ConnN : free' = [free EXCEPT ![w] = n]
    /\ Goto(w, "top")
    /\ UNCHANGED <<owner, held, disabled, enabled, use, timer, timedout, posting, capped,
                    backlog, bounds>>

-----------------------------------------------------------------------------
(* Clients, and workers that come and go.                                  *)

Connect ==
    /\ clients < MaxClients
    /\ clients' = clients + 1 /\ backlog' = backlog + 1
    /\ UNCHANGED <<owner, pc, locals, errors, crashes, quits>>

(* ngx_quit in the worker's cycle: ngx_close_listening_sockets clears the  *)
(* flags between two iterations.                                           *)
Quit(w) ==
    /\ pc[w] = "top" /\ quits < MaxQuits
    /\ quits' = quits + 1
    /\ held' = [held EXCEPT ![w] = FALSE]
    /\ use' = [use EXCEPT ![w] = FALSE]
    /\ enabled' = [enabled EXCEPT ![w] = FALSE]
    /\ timer' = [timer EXCEPT ![w] = FALSE]
    /\ Goto(w, "quit")
    /\ UNCHANGED <<owner, disabled, timedout, posting, capped, free, backlog, clients, errors,
                    crashes>>

Die(w) ==
    /\ Listens(w) /\ crashes < MaxCrashes
    /\ crashes' = crashes + 1
    /\ Goto(w, "dead")
    /\ enabled' = [enabled EXCEPT ![w] = FALSE]
    /\ UNCHANGED <<owner, held, disabled, use, timer, timedout, posting, capped, free, backlog,
                    clients, errors, quits>>

(* The master: ngx_unlock_mutexes releases what the dead worker held, then *)
(* a new worker is started in its place.                                   *)
Respawn(w) ==
    /\ pc[w] = "dead"
    /\ Unlock(w)
    /\ held' = [held EXCEPT ![w] = FALSE]
    /\ disabled' = [disabled EXCEPT ![w] = 0]
    /\ enabled' = [enabled EXCEPT ![w] = ~mutex]
    /\ use' = [use EXCEPT ![w] = mutex]
    /\ timer' = [timer EXCEPT ![w] = FALSE]
    /\ timedout' = [timedout EXCEPT ![w] = FALSE]
    /\ posting' = [posting EXCEPT ![w] = FALSE]
    /\ capped' = [capped EXCEPT ![w] = FALSE]
    /\ free' = [free EXCEPT ![w] = ConnN]
    /\ Goto(w, "top")
    /\ UNCHANGED <<backlog, bounds>>

Lock(w) ==
    \/ NoMutex(w) \/ BackOff(w) \/ TryLock(w) \/ TryLockFails(w)

Turn(w) ==
    \/ Lock(w) \/ Wait(w) \/ AcceptAgain(w) \/ Accept(w) \/ ReleaseMutex(w)
    \/ RetryTimer(w) \/ Serve(w) \/ Respawn(w)

Fault(w) ==
    \/ TryLockEnableFails(w) \/ TryLockDisableFails(w)
    \/ AcceptFails(w) \/ AcceptDisableFails(w) \/ RetryTimerFails(w) \/ Die(w)

Next ==
    /\ \/ \E w \in Workers : Turn(w) \/ Fault(w) \/ Quit(w)
       \/ Connect
    /\ UNCHANGED config

(* A runnable process runs, and the master respawns the dead: each         *)
(* worker's turn is weakly fair.  Nothing is assumed of clients, errors,   *)
(* crashes and quits.                                                      *)
Spec == Init /\ [][Next]_vars /\ \A w \in Workers : WF_vars(Turn(w) /\ UNCHANGED config)
-----------------------------------------------------------------------------
(* Properties.                                                             *)

(* The mutex is free of a worker while it serves its connections and       *)
(* between iterations: it is held across epoll_wait and the accept handler *)
(* only, on every path through the loop and through the error handling.    *)
MutexOnlyWhileAccepting ==
    \A w \in Workers : owner = w => pc[w] \in {"wait", "accept", "unlock", "dead"}

(* Whatever a worker assumes from ngx_accept_mutex_held is true of its     *)
(* registration: with the mutex in use, the accept events are enabled      *)
(* exactly while the flag is set, though the flag outlives the mutex.      *)
HeldMeansEnabled ==
    \A w \in Workers : Listens(w) /\ use[w] => (held[w] <=> enabled[w])

(* A worker that posts its events, because it locked the mutex in this     *)
(* iteration, owns the mutex until it has handled its accept events: no    *)
(* worker that backed off with the flag still set, or that failed, or died *)
(* releases a mutex that another one owns.                                 *)
PostsAsOwner ==
    \A w \in Workers : posting[w] /\ pc[w] \in {"wait", "accept"} => owner = w

(* A worker stalls when it sleeps in epoll_wait with the accept events     *)
(* disabled and nothing that could wake it: an error (ENFILE) caught it    *)
(* without a connection of its own.                                        *)
Stalled(w) == pc[w] = "wait" /\ ~Wakes(w)

(* A worker is deaf when the retry of its accept events has failed: they   *)
(* stay disabled, and neither a timer nor a lock of the mutex will enable  *)
(* them again.                                                             *)
Deaf(w) == Listens(w) /\ timedout[w] /\ ~enabled[w]

(* A client in the backlog is accepted, or refused for want of a           *)
(* connection, through back offs, errors, quits and deaths of mutex        *)
(* holders, as long as a worker listens: unless every worker still         *)
(* listening has stalled, with the mutex, or is deaf, without it.          *)
BacklogDrains ==
    [](backlog > 0 =>
         <>(\/ backlog = 0
            \/ \A w \in Workers : \/ pc[w] = "quit"
                                   \/ IF mutex THEN Stalled(w) ELSE Deaf(w)))

(* What the flags of a worker say about the mutex and about the accept     *)
(* events is true whenever the worker acts on them.                        *)
FlagsExact == HeldMeansEnabled /\ PostsAsOwner
=============================================================================
