---------------------------- MODULE Connections ----------------------------
(***************************************************************************)
(* The connection table of one worker and the event loop that drives it:   *)
(* the free list, the queue of reusable connections and its draining, the  *)
(* posted events, the timers, and the batch of events epoll_wait returned, *)
(* which is walked while handlers close and reuse the very connections the *)
(* rest of the batch points at.                                            *)
(*                                                                         *)
(* Handlers belong to other modules; here a handler is any sequence of the *)
(* calls a handler makes on this table.  Sockets are numbered in the order *)
(* they are created and never again, so that a socket names one use of a   *)
(* connection; NoFd stands for (ngx_socket_t) -1.                          *)
(***************************************************************************)
EXTENDS Naturals, FiniteSets, Queues

CONSTANTS
    N,          \* worker_connections
    Listening,  \* number of listening sockets, the first sockets of all
    MaxSockets, \* bound: sockets ever created
    LowShare,   \* connections are reused below connection_n / LowShare free ones (16)
    ReuseShare, \* a drain closes one reusable connection in ReuseShare (8) ...
    ReuseMax,   \* ... and at most ReuseMax of them (32)
    CallSets    \* bound: which of the calls below the handlers of one behaviour make

ConnectionsAssumption ==
    /\ N \in Nat \ {0} /\ Listening \in 0 .. N /\ MaxSockets \in Nat
    /\ MaxSockets >= Listening
    /\ UNION CallSets \subseteq {"reusable", "write", "post", "timer", "emfile", "quit"}
    /\ LowShare \in Nat \ {0} /\ ReuseShare \in Nat \ {0} /\ ReuseMax \in Nat \ {0}

Conn == 1 .. N
NoFd == 0
NoConn == 0
Event == Conn \X {"read", "write"}
NoEvent == <<NoConn, "read">>
EventsOf(c) == {<<c, "read">>, <<c, "write">>}

VARIABLES
    calls,      \* the calls that the handlers make (member of CallSets)
    fd,         \* c->fd
    instance,   \* rev->instance, wev->instance
    active,     \* events registered with epoll
    freelist,       \* free_connections, the head first
    freeN,      \* free_connection_n
    queue,      \* reusable_connections_queue, the head first
    reusable,   \* c->reusable
    lingering,  \* the first reuse has moved the connection to lingering close
    posted,     \* ngx_posted_events
    next,       \* ngx_posted_next_events
    isPosted,   \* ev->posted
    timers,     \* events in the timer tree
    post,       \* flags & POST_EVENTS of this iteration
    batch,      \* what is left of event_list
    stage,         \* where the loop is
    running,    \* the event whose handler runs
    drain,      \* the call of ngx_get_connection under way
    sockets,    \* sockets created so far
    delivered,  \* the last event of the batch that was taken as valid (ghost)
    reuses      \* allocations of each connection since epoll_wait returned (ghost)

table == <<fd, instance, active, freelist, freeN, queue, reusable, lingering, sockets, reuses>>
queues == <<posted, next, isPosted, timers>>
loop == <<post, batch, stage, running, delivered>>
vars == <<table, queues, loop, drain, calls>>

NoDrain == [at |-> "no", left |-> 0, last |-> NoConn, could |-> FALSE]
NoDelivery == [event |-> NoFd, socket |-> NoFd, conn |-> NoConn]

(* ngx_event_process_init: the free list in the order of the array, then   *)
(* one connection per listening socket.                                    *)
Init ==
    /\ calls \in CallSets
    /\ fd = [c \in Conn |-> IF c <= Listening THEN c ELSE NoFd]
    /\ instance = [c \in Conn |-> IF c <= Listening THEN 0 ELSE 1]
    /\ active = {<<c, "read">> : c \in 1 .. Listening}
    /\ freelist = [i \in 1 .. N - Listening |-> Listening + i]
    /\ freeN = N - Listening
    /\ queue = <<>> /\ reusable = [c \in Conn |-> FALSE] /\ lingering = {}
    /\ posted = <<>> /\ next = <<>> /\ isPosted = [e \in Event |-> FALSE]
    /\ timers = {}
    /\ post = FALSE /\ batch = <<>> /\ stage = "wait" /\ running = NoEvent
    /\ drain = NoDrain
    /\ sockets = Listening /\ delivered = NoDelivery
    /\ reuses = [c \in Conn |-> 0]

Open(c) == fd[c] # NoFd
IsListening(c) == fd[c] \in 1 .. Listening
Client(c) == fd[c] > Listening  \* open, and not to listen
Idle == running = NoEvent /\ drain = NoDrain

-----------------------------------------------------------------------------
(* The calls a handler makes.                                              *)

(* ngx_reusable_connection(c, r)                                           *)
SetReusable(c, r) ==
    LET rest == IF reusable[c] THEN Without(queue, c) ELSE queue IN
    /\ queue' = IF r THEN <<c>> \o rest ELSE rest
    /\ reusable' = [reusable EXCEPT ![c] = r]

WithoutEvents(q, c) == Without(Without(q, <<c, "read">>), <<c, "write">>)

DropEventsNotPosted(c) ==
    /\ timers' = timers \ EventsOf(c)
    /\ active' = active \ EventsOf(c)
    /\ UNCHANGED <<posted, next, isPosted>>

DropEventsNotTimers(c) ==
    /\ active' = active \ EventsOf(c)
    /\ posted' = WithoutEvents(posted, c)
    /\ next' = WithoutEvents(next, c)
    /\ isPosted' = [e \in Event |-> isPosted[e] /\ e \notin EventsOf(c)]
    /\ UNCHANGED timers

(* What ngx_close_connection does with the events of the connection: the   *)
(* timers and the posted events are removed, the registration goes with    *)
(* the descriptor.                                                         *)
DropEvents(c) ==
    /\ timers' = timers \ EventsOf(c)
    /\ active' = active \ EventsOf(c)
    /\ posted' = WithoutEvents(posted, c)
    /\ next' = WithoutEvents(next, c)
    /\ isPosted' = [e \in Event |-> isPosted[e] /\ e \notin EventsOf(c)]

(* ngx_free_connection                                                     *)
FreeConnection(c) ==
    /\ freelist' = <<c>> \o freelist
    /\ freeN' = freeN + 1
    /\ fd' = [fd EXCEPT ![c] = NoFd]

CloseConnectionReusable(c) ==
    /\ DropEvents(c)
    /\ FreeConnection(c)
    /\ lingering' = lingering \ {c}
    /\ UNCHANGED <<instance, sockets, reuses, queue, reusable>>

CloseConnection(c) ==
    /\ DropEvents(c)
    /\ SetReusable(c, FALSE)
    /\ FreeConnection(c)
    /\ lingering' = lingering \ {c}
    /\ UNCHANGED <<instance, sockets, reuses>>

(* A handler closes its own connection or another one, its peer's.  A      *)
(* listening connection is not closed this way.                            *)
HandlerCloses(c) ==
    /\ running # NoEvent /\ drain = NoDrain
    /\ Client(c)
    /\ CloseConnection(c)
    /\ UNCHANGED <<loop, drain>>

(* A handler parks its own connection as idle, or takes it back.           *)
HandlerSetsReusable(c, r) ==
    /\ "reusable" \in calls
    /\ running # NoEvent /\ drain = NoDrain
    /\ running[1] = c /\ Client(c) /\ reusable[c] # r
    /\ SetReusable(c, r)
    /\ UNCHANGED <<fd, instance, active, freelist, freeN, lingering, sockets, reuses, queues, loop, drain>>

(* ngx_add_event of the write event of an open connection.                 *)
HandlerRegisters(e) ==
    /\ "write" \in calls
    /\ running # NoEvent /\ drain = NoDrain
    /\ Client(e[1]) /\ e \notin active /\ e[2] = "write"
    /\ active' = active \cup {e}
    /\ UNCHANGED <<fd, instance, freelist, freeN, queue, reusable, lingering, sockets, reuses, queues, loop, drain>>

(* ngx_post_event(e, &ngx_posted_events) and (e, &ngx_posted_next_events)  *)
PostEvent(e, q) == IF isPosted[e] THEN q ELSE Append(q, e)

HandlerPosts(e, soon) ==
    /\ "post" \in calls
    /\ running # NoEvent /\ drain = NoDrain
    /\ Client(e[1])
    /\ posted' = IF soon THEN PostEvent(e, posted) ELSE posted
    /\ next' = IF soon THEN next ELSE PostEvent(e, next)
    /\ isPosted' = [isPosted EXCEPT ![e] = TRUE]
    /\ UNCHANGED <<table, timers, loop, drain>>

HandlerSetsTimer(e) ==
    /\ "timer" \in calls
    /\ running # NoEvent /\ drain = NoDrain
    /\ Client(e[1])
    /\ timers' = timers \cup {e}
    /\ UNCHANGED <<table, posted, next, isPosted, loop, drain>>

HandlerDeletesTimer(e) ==
    /\ running # NoEvent /\ drain = NoDrain /\ e \in timers
    /\ timers' = timers \ {e}
    /\ UNCHANGED <<table, posted, next, isPosted, loop, drain>>

(* ngx_event_accept without the accept mutex: after EMFILE or ENFILE the    *)
(* accept events are disabled and the listening event waits in the timer   *)
(* tree; when it times out they are enabled again.                         *)
ListeningReads == {<<c, "read">> : c \in {d \in 1 .. Listening : fd[d] = d}}

HandlerFailsToAccept ==
    /\ "emfile" \in calls
    /\ running \in ListeningReads /\ running \in active /\ drain = NoDrain
    /\ active' = active \ ListeningReads
    /\ timers' = timers \cup {running}
    /\ running' = NoEvent
    /\ UNCHANGED <<fd, instance, freelist, freeN, queue, reusable, lingering, sockets, reuses,
                   posted, next, isPosted, post, batch, stage, delivered, drain>>

HandlerEnablesAccept ==
    /\ running \in ListeningReads \ active /\ drain = NoDrain
    /\ active' = active \cup ListeningReads
    /\ UNCHANGED <<fd, instance, freelist, freeN, queue, reusable, lingering, sockets, reuses, queues, loop, drain>>

HandlerReturns ==
    /\ running # NoEvent /\ drain = NoDrain
    /\ running' = NoEvent
    /\ UNCHANGED <<table, queues, post, batch, stage, delivered, drain>>

-----------------------------------------------------------------------------
(* ngx_get_connection: ngx_drain_connections, then the head of the list.   *)

Least(a, b) == IF a <= b THEN a ELSE b
AtLeastOne(n) == IF n = 0 THEN 1 ELSE n

(* The early return of ngx_drain_connections, and the number of            *)
(* connections it tries otherwise.                                         *)
DrainCount ==
    IF freeN > N \div LowShare \/ queue = <<>> THEN 0
    ELSE AtLeastOne(Least(ReuseMax, Len(queue) \div ReuseShare))

(* Handlers take their connection off the queue before they ask for        *)
(* another one, so the connection being served is never drained.           *)
HandlerGets ==
    /\ running # NoEvent /\ drain = NoDrain
    /\ ~reusable[running[1]]
    /\ sockets < MaxSockets
    /\ drain' = [at |-> IF DrainCount = 0 THEN "take" ELSE "loop", left |-> DrainCount,
                 last |-> NoConn, could |-> freelist # <<>> \/ queue # <<>>]
    /\ UNCHANGED <<table, queues, loop>>

(* A reusable connection told to close (c->close = 1) closes, or flushes   *)
(* what it has and stays reusable in lingering close: only once.           *)
ReadHandlerCloses(c) ==
    \/ CloseConnection(c)
    \/ /\ c \notin lingering
       /\ lingering' = lingering \cup {c}
       /\ SetReusable(c, TRUE)
       /\ timers' = timers \cup {<<c, "read">>}
       /\ UNCHANGED <<fd, instance, active, freelist, freeN, sockets, reuses, posted, next, isPosted>>

DrainOne ==
    /\ drain.at = "loop" /\ drain.left > 0 /\ queue # <<>>
    /\ LET c == Last(queue) IN
        /\ ReadHandlerCloses(c)
        /\ drain' = [drain EXCEPT !.left = @ - 1, !.last = c]
    /\ UNCHANGED loop

DrainLoopEnds ==
    /\ drain.at = "loop" /\ (drain.left = 0 \/ queue = <<>>)
    /\ drain' = [drain EXCEPT !.at = "again"]
    /\ UNCHANGED <<table, queues, loop>>

(* Nothing was freed: the last connection is reused once more.             *)
NeedsAgain == freeN = 0 /\ drain.last # NoConn /\ reusable[drain.last]

DrainAgainNever ==
    /\ drain.at = "again"
    /\ drain' = [drain EXCEPT !.at = "take"]
    /\ UNCHANGED <<table, queues, loop>>

DrainAgain ==
    /\ drain.at = "again"
    /\ IF NeedsAgain
         THEN ReadHandlerCloses(drain.last)
         ELSE UNCHANGED <<table, queues>>
    /\ drain' = [drain EXCEPT !.at = "take"]
    /\ UNCHANGED loop

(* The socket is closed when there is no connection for it.                *)
TakeFails ==
    /\ drain.at = "take" /\ freelist = <<>>
    /\ drain' = NoDrain
    /\ sockets' = sockets + 1
    /\ UNCHANGED <<fd, instance, active, freelist, freeN, queue, reusable, lingering, reuses, queues, loop>>

TakeLeaksCount ==
    /\ drain.at = "take" /\ freelist # <<>>
    /\ LET c == Head(freelist) IN
        /\ freelist' = Tail(freelist) /\ freeN' = freeN
        /\ fd' = [fd EXCEPT ![c] = sockets + 1]
        /\ instance' = [instance EXCEPT ![c] = 1 - @]
        /\ active' = active \cup {<<c, "read">>}
        /\ reuses' = [reuses EXCEPT ![c] = @ + 1]
    /\ sockets' = sockets + 1
    /\ drain' = NoDrain
    /\ UNCHANGED <<queue, reusable, lingering, queues, loop>>

(* The caller registers the read event at once: ngx_handle_read_event of   *)
(* the accepted connection, ngx_event_connect_peer.                        *)
Take ==
    /\ drain.at = "take" /\ freelist # <<>>
    /\ LET c == Head(freelist) IN
        /\ freelist' = Tail(freelist) /\ freeN' = freeN - 1
        /\ fd' = [fd EXCEPT ![c] = sockets + 1]
        /\ instance' = [instance EXCEPT ![c] = 1 - @]
        /\ active' = active \cup {<<c, "read">>}
        /\ reuses' = [reuses EXCEPT ![c] = @ + 1]
    /\ sockets' = sockets + 1
    /\ drain' = NoDrain
    /\ UNCHANGED <<queue, reusable, lingering, queues, loop>>

-----------------------------------------------------------------------------
(* The loop: ngx_process_events_and_timers.                                *)

(* The kernel's side of epoll: what is registered is the address of the    *)
(* connection and its instance bit, under the socket; one entry per socket *)
(* with the directions that are ready.                                     *)
Registered == {c \in Conn : EventsOf(c) \cap active # {}}
Entries == {[conn |-> c, instance |-> instance[c], socket |-> fd[c], ready |-> r] :
               c \in Registered, r \in SUBSET {"read", "write"}}
Reported == {e \in Entries : e.ready # {} /\ \A d \in e.ready : <<e.conn, d>> \in active}

(* ngx_event_move_posted_next, then epoll_wait returns some of the ready   *)
(* sockets, in any order.                                                  *)
EpollWait ==
    /\ stage = "wait" /\ Idle
    /\ \E s \in SUBSET Registered, p \in BOOLEAN :
         \E b \in [1 .. Cardinality(s) -> {e \in Reported : e.conn \in s}] :
            /\ {b[i].conn : i \in DOMAIN b} = s
            /\ batch' = b
            /\ post' = p
    /\ posted' = posted \o next
    /\ next' = <<>>
    /\ stage' = "read"
    /\ reuses' = [c \in Conn |-> 0]
    /\ delivered' = NoDelivery
    /\ UNCHANGED <<fd, instance, active, freelist, freeN, queue, reusable, lingering, sockets,
                   isPosted, timers, running, drain>>

StaleClosedOnly(e) == fd[e.conn] = NoFd

(* c->fd == -1 || rev->instance != instance                                *)
Stale(e) == fd[e.conn] = NoFd \/ instance[e.conn] # e.instance

Deliver(e, d) ==
    /\ delivered' = [event |-> e.socket, socket |-> fd[e.conn], conn |-> e.conn]
    /\ IF post
         THEN /\ posted' = PostEvent(<<e.conn, d>>, posted)
              /\ isPosted' = [isPosted EXCEPT ![<<e.conn, d>>] = TRUE]
              /\ UNCHANGED running
         ELSE /\ running' = <<e.conn, d>>
              /\ UNCHANGED <<posted, isPosted>>

DropStale ==
    /\ stage = "read" /\ Idle /\ batch # <<>> /\ Stale(Head(batch))
    /\ batch' = Tail(batch)
    /\ UNCHANGED <<table, queues, post, stage, running, delivered, drain>>

ReadPart ==
    /\ stage = "read" /\ Idle /\ batch # <<>> /\ ~Stale(Head(batch))
    /\ LET e == Head(batch) IN
         IF "read" \in e.ready /\ <<e.conn, "read">> \in active
           THEN Deliver(e, "read")
           ELSE UNCHANGED <<delivered, posted, isPosted, running>>
    /\ stage' = "write"
    /\ UNCHANGED <<table, next, timers, post, batch, drain>>

(* The connection is checked again: the read handler may have closed it.   *)
WritePart ==
    /\ stage = "write" /\ Idle
    /\ LET e == Head(batch) IN
         IF "write" \in e.ready /\ <<e.conn, "write">> \in active /\ ~Stale(e)
           THEN Deliver(e, "write")
           ELSE UNCHANGED <<delivered, posted, isPosted, running>>
    /\ batch' = Tail(batch)
    /\ stage' = "read"
    /\ UNCHANGED <<table, next, timers, post, drain>>

BatchEnds ==
    /\ stage = "read" /\ Idle /\ batch = <<>>
    /\ stage' = "timers"
    /\ UNCHANGED <<table, queues, post, batch, running, delivered, drain>>

(* ngx_event_expire_timers: any timer may be the next one due.             *)
ExpireTimer(e) ==
    /\ stage = "timers" /\ Idle /\ e \in timers
    /\ timers' = timers \ {e}
    /\ running' = e
    /\ UNCHANGED <<table, posted, next, isPosted, post, batch, stage, delivered, drain>>

TimersEnd ==
    /\ stage = "timers" /\ Idle
    /\ stage' = "posted"
    /\ UNCHANGED <<table, queues, post, batch, running, delivered, drain>>

(* ngx_event_process_posted                                                *)
ProcessPosted ==
    /\ stage = "posted" /\ Idle /\ posted # <<>>
    /\ posted' = Tail(posted)
    /\ isPosted' = [isPosted EXCEPT ![Head(posted)] = FALSE]
    /\ running' = Head(posted)
    /\ UNCHANGED <<table, next, timers, post, batch, stage, delivered, drain>>

IterationEnds ==
    /\ stage = "posted" /\ Idle /\ posted = <<>>
    /\ stage' = "wait"
    /\ UNCHANGED <<table, queues, post, batch, running, delivered, drain>>

(* ngx_close_listening_sockets, called between two iterations: the events  *)
(* are deleted and the connections freed without ngx_close_connection,     *)
(* with their timers.  It is called once, for all of them.                 *)
CloseListening ==
    /\ "quit" \in calls
    /\ stage = "wait" /\ Idle
    /\ Listening > 0 /\ \A c \in 1 .. Listening : fd[c] = c
    /\ active' = active \ UNION {EventsOf(c) : c \in 1 .. Listening}
    /\ fd' = [c \in Conn |-> IF c <= Listening THEN NoFd ELSE fd[c]]
    /\ freelist' = [i \in 1 .. Listening |-> Listening + 1 - i] \o freelist
    /\ freeN' = freeN + Listening
    /\ UNCHANGED <<instance, queue, reusable, lingering, sockets, reuses, queues, loop, drain>>

Handler ==
    \/ \E c \in Conn : HandlerCloses(c) \/ \E r \in BOOLEAN : HandlerSetsReusable(c, r)
    \/ \E e \in Event : \/ HandlerRegisters(e) \/ HandlerSetsTimer(e) \/ HandlerDeletesTimer(e)
                        \/ \E soon \in BOOLEAN : HandlerPosts(e, soon)
    \/ HandlerGets \/ DrainOne \/ DrainLoopEnds \/ DrainAgain \/ Take \/ TakeFails
    \/ HandlerFailsToAccept \/ HandlerEnablesAccept \/ HandlerReturns

Loop ==
    \/ EpollWait \/ DropStale \/ ReadPart \/ WritePart \/ BatchEnds
    \/ (\E e \in Event : ExpireTimer(e)) \/ TimersEnd
    \/ ProcessPosted \/ IterationEnds \/ CloseListening

Next == (Handler \/ Loop) /\ UNCHANGED calls

Spec == Init /\ [][Next]_vars
-----------------------------------------------------------------------------
(* Properties.                                                             *)

(* The free list holds each connection without a socket once, and          *)
(* free_connection_n, which decides on draining and on accepting, is its   *)
(* length, whatever the order of closes, drains and failures.              *)
FreeListExact ==
    /\ ToSet(freelist) = {c \in Conn : fd[c] = NoFd}
    /\ IsInjective(freelist)
    /\ freeN = Len(freelist)

(* The queue of reusable connections holds the open connections marked     *)
(* reusable, each once: a drain never closes a connection twice and never  *)
(* one that is being served.                                               *)
ReusableExact ==
    /\ ToSet(queue) = {c \in Conn : reusable[c]}
    /\ IsInjective(queue)
    /\ \A c \in Conn : reusable[c] => Open(c)

(* A posted event belongs to an open connection, is in one queue, once,    *)
(* and ev->posted says so: no handler runs later for a connection that was *)
(* closed, or reused, in between.                                          *)
PostedAlive ==
    /\ \A e \in Event : isPosted[e] => Open(e[1])
    /\ ToSet(posted \o next) = {e \in Event : isPosted[e]}
    /\ IsInjective(posted \o next)

(* A timer in the tree belongs to an open connection: ngx_get_connection   *)
(* clears the events of the connection it returns, the links of the timer  *)
(* tree among them.  The exception is the timer that retries a failed      *)
(* accept: ngx_close_listening_sockets frees the connection and leaves it. *)
AcceptRetry == {<<c, "read">> : c \in 1 .. Listening}
TimersAlive == \A e \in timers : Open(e[1]) \/ (e \in AcceptRetry /\ ~IsListening(e[1]))

(* An event that epoll reported reaches the connection it was registered   *)
(* for.  The instance bit is one bit: the exception the code leaves is a   *)
(* connection that handlers of the same batch have reused twice.           *)
EventReachesItsSocket ==
    delivered.event # delivered.socket => ~post /\ reuses[delivered.conn] >= 2

(* ngx_get_connection fails only if there was neither a free nor a         *)
(* reusable connection when it was called, even if every drained           *)
(* connection chose to linger.                                             *)
FailsOnlyWhenExhausted == drain.at = "take" /\ freelist = <<>> => ~drain.could

(* The table of connections and its queues hold what is open, and nothing  *)
(* that is closed: in a posted queue or in the timer tree it would reach   *)
(* the next user of the connection.  A connection is refused only when     *)
(* there is none left.                                                     *)
TableExact ==
    /\ FreeListExact /\ ReusableExact /\ FailsOnlyWhenExhausted
    /\ PostedAlive /\ TimersAlive
=============================================================================
