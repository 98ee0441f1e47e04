---------------------------- MODULE AcceptProofs ----------------------------
(***************************************************************************)
(* For every number of connections, sockets and workers: the connection    *)
(* table and its queues are exact whatever the handlers do and epoll       *)
(* reports, an event reaches the socket it was reported for, and the flags *)
(* of the accept mutex are right.                                          *)
(***************************************************************************)
EXTENDS MCAccept, QueueProofs, FiniteSetTheorems

Stages == {"wait", "read", "write", "timers", "posted"}
BatchEntry == [conn : Conn, instance : {0, 1}, socket : Nat, ready : SUBSET {"read", "write"}]

TableTypes ==
    /\ fd \in [Conn -> Nat] /\ sockets \in Nat /\ sockets >= Listening
    /\ freelist \in Seq(Conn) /\ queue \in Seq(Conn)
    /\ reusable \in [Conn -> BOOLEAN] /\ lingering \subseteq Conn

EventTypes ==
    /\ timers \subseteq Event /\ active \subseteq Event
    /\ isPosted \in [Event -> BOOLEAN]
    /\ posted \in Seq(Event) /\ next \in Seq(Event)

LoopTypes ==
    /\ post \in BOOLEAN /\ stage \in Stages /\ running \in Event \cup {NoEvent}
    /\ batch \in Seq(BatchEntry)
    /\ instance \in [Conn -> {0, 1}] /\ reuses \in [Conn -> Nat]
    /\ delivered \in [event : Nat, socket : Nat, conn : Conn \cup {NoConn}]
    /\ drain \in [at : {"no", "loop", "again", "take"}, left : Nat, last : Conn \cup {NoConn},
                  could : BOOLEAN]

(* Only the connections of clients are parked as reusable.                 *)
TableInv ==
    /\ TableTypes /\ FreeListExact /\ ReusableExact
    /\ \A c \in Conn : reusable[c] => Client(c)

(* Each posted event is in one of the two queues.  No event of a listening *)
(* connection waits for the next iteration, where it could be closed, and  *)
(* only the read event of one is in the timer tree.                        *)
EventInv ==
    /\ EventTypes /\ TimersAlive
    /\ IsInjective(posted) /\ IsInjective(next)
    /\ ToSet(posted) \cap ToSet(next) = {}
    /\ ToSet(posted) \cup ToSet(next) = {e \in Event : isPosted[e]}
    /\ \A e \in Event : isPosted[e] => Open(e[1])
    /\ \A e \in ToSet(next) : Client(e[1])
    /\ \A e \in timers : IsListening(e[1]) => e \in AcceptRetry

(* What is left of the batch points at the connection as it was, or one    *)
(* that is closed or has the other instance, or was reused twice.          *)
Points(e) ==
    /\ reuses[e.conn] = 0 => e.instance = instance[e.conn] /\ fd[e.conn] \in {e.socket, NoFd}
    /\ reuses[e.conn] = 1 => e.instance # instance[e.conn]

LoopInv ==
    /\ LoopTypes /\ EventReachesItsSocket
    /\ stage = "wait" => posted = <<>> /\ Idle
    /\ stage = "write" => batch # <<>>
    /\ post /\ stage \in {"read", "write"} => Idle /\ \A c \in Conn : reuses[c] = 0
    /\ \A i \in DOMAIN batch : Points(batch[i])

(* The table was full and something could be reused: there is a connection *)
(* to drain yet, or the last one drained lingers, which it does once only. *)
Promising ==
    \/ drain.at = "loop" /\ drain.last = NoConn /\ drain.left > 0 /\ queue # <<>>
    \/ drain.last # NoConn /\ reusable[drain.last] /\ drain.last \in lingering

DrainInv ==
    /\ FailsOnlyWhenExhausted
    /\ drain.at = "no" => drain = NoDrain
    /\ drain.at \in {"loop", "again"} /\ drain.could /\ freelist = <<>> => Promising

IInv == TableInv /\ EventInv /\ LoopInv /\ DrainInv

-----------------------------------------------------------------------------
(* Events of connections.                                                  *)

LEMMA EventParts ==
    /\ \A e \in Event : e[1] \in Conn /\ e # NoEvent
    /\ \A e \in Event, c \in Conn : e \in EventsOf(c) <=> e[1] = c
    /\ \A c \in Conn : <<c, "read">> \in Event /\ <<c, "write">> \in Event /\ EventsOf(c) \subseteq Event
    /\ \A c \in Conn : <<c, "read">>[1] = c /\ <<c, "write">>[1] = c
    /\ \A c \in Conn : c \in Nat /\ c # NoConn
<1>1. \A c \in Conn : c \in Nat /\ c # NoConn
  BY PartsAssumption DEF ConnectionsAssumption, Conn, NoConn
<1>2. ASSUME NEW e \in Event PROVE e[1] \in Conn /\ e # NoEvent
  BY <1>1 DEF Event, NoEvent
<1>3. ASSUME NEW e \in Event, NEW c \in Conn PROVE e \in EventsOf(c) <=> e[1] = c
  BY DEF Event, EventsOf
<1>4. ASSUME NEW c \in Conn PROVE EventsOf(c) \subseteq Event
  BY DEF Event, EventsOf
<1>5. ASSUME NEW c \in Conn PROVE <<c, "read">> \in Event /\ <<c, "write">> \in Event
  BY DEF Event
<1> QED
  BY <1>1, <1>2, <1>3, <1>4, <1>5

(* A posted queue without the events of a connection.                      *)
LEMMA QueueCleared ==
    ASSUME NEW q \in Seq(Event), IsInjective(q), NEW c \in Conn
    PROVE  /\ WithoutEvents(q, c) \in Seq(Event) /\ IsInjective(WithoutEvents(q, c))
           /\ ToSet(WithoutEvents(q, c)) = {e \in ToSet(q) : e[1] # c}
<1> DEFINE p == Without(q, <<c, "read">>)
           w == Without(p, <<c, "write">>)
<1>1. p \in Seq(Event) /\ IsInjective(p) /\ ToSet(p) = ToSet(q) \ {<<c, "read">>}
  BY QueueWithout
<1> HIDE DEF p
<1>2. w \in Seq(Event) /\ IsInjective(w) /\ ToSet(w) = ToSet(p) \ {<<c, "write">>}
  BY <1>1, QueueWithout
<1>3. ToSet(q) \subseteq Event
  BY DEF ToSet
<1>4. \A e \in Event : e[1] # c <=> e # <<c, "read">> /\ e # <<c, "write">>
  BY EventParts DEF EventsOf
<1>5. WithoutEvents(q, c) = w
  BY DEF WithoutEvents, p
<1> HIDE DEF w
<1> QED
  BY <1>1, <1>2, <1>3, <1>4, <1>5

(* ngx_reusable_connection                                                 *)
LEMMA ReusableSet ==
    ASSUME TableInv, NEW c \in Conn, NEW r \in BOOLEAN, SetReusable(c, r)
    PROVE  /\ queue' \in Seq(Conn) /\ IsInjective(queue')
           /\ reusable' = [reusable EXCEPT ![c] = r]
           /\ ToSet(queue') = {d \in Conn : reusable'[d]}
<1> DEFINE rest == IF reusable[c] THEN Without(queue, c) ELSE queue
<1>1. /\ queue' = IF r THEN <<c>> \o rest ELSE rest
      /\ reusable' = [reusable EXCEPT ![c] = r]
  BY DEF SetReusable
<1>2. /\ queue \in Seq(Conn) /\ IsInjective(queue) /\ reusable \in [Conn -> BOOLEAN]
      /\ ToSet(queue) = {d \in Conn : reusable[d]}
  BY DEF TableInv, TableTypes, ReusableExact
<1>3. rest \in Seq(Conn) /\ IsInjective(rest) /\ ToSet(rest) = ToSet(queue) \ {c}
  <2>1. CASE reusable[c]
    BY <1>2, <2>1, QueueWithout
  <2>2. CASE ~reusable[c]
    BY <1>2, <2>2
  <2> QED
    BY <2>1, <2>2
<1> HIDE DEF rest
<1>4. CASE r
  <2>1. queue' = <<c>> \o rest
    BY <1>1, <1>4
  <2>2. /\ queue' \in Seq(Conn) /\ IsInjective(queue')
        /\ ToSet(queue') = ToSet(rest) \cup {c}
    BY <1>3, <2>1, QueueInsert
  <2>3. ToSet(queue') = {d \in Conn : reusable'[d]}
    BY <1>1, <1>2, <1>3, <1>4, <2>2
  <2> QED
    BY <1>1, <2>2, <2>3
<1>5. CASE ~r
  <2>1. queue' = rest
    BY <1>1, <1>5
  <2>2. ToSet(queue') = {d \in Conn : reusable'[d]}
    BY <1>1, <1>2, <1>3, <1>5, <2>1
  <2> QED
    BY <1>1, <1>3, <2>1, <2>2
<1> QED
  BY <1>4, <1>5

(* The table after a change of the queue alone.                            *)
LEMMA ReusableKept ==
    ASSUME TableInv, NEW c \in Conn, NEW r \in BOOLEAN, SetReusable(c, r), Client(c),
           UNCHANGED <<fd, freelist, freeN, sockets>>, lingering' \subseteq Conn
    PROVE  TableInv'
<1>1. /\ queue' \in Seq(Conn) /\ IsInjective(queue')
      /\ reusable' = [reusable EXCEPT ![c] = r]
      /\ ToSet(queue') = {d \in Conn : reusable'[d]}
  BY ReusableSet
<1>2. TableTypes' /\ FreeListExact'
  BY <1>1 DEF TableInv, TableTypes, FreeListExact
<1>3. \A d \in Conn : reusable'[d] => Client(d)' /\ Open(d)'
  <2>1. \A d \in Conn : reusable'[d] => reusable[d] \/ d = c
    BY <1>1 DEF TableInv, TableTypes
  <2>2. \A d \in Conn : reusable'[d] => Client(d)
    BY <2>1 DEF TableInv
  <2> QED
    BY <2>2, PartsAssumption DEF TableInv, TableTypes, Client, Open, NoFd, ConnectionsAssumption
<1> QED
  BY <1>1, <1>2, <1>3 DEF TableInv, ReusableExact

(* ngx_close_connection: the connection is free, and nothing of it waits.  *)
LEMMA CloseStep ==
    ASSUME TableInv, EventInv, NEW c \in Conn, Client(c), CloseConnection(c)
    PROVE  TableInv' /\ EventInv' /\ freelist' # <<>>
<1>1. /\ queue' \in Seq(Conn) /\ IsInjective(queue')
      /\ reusable' = [reusable EXCEPT ![c] = FALSE]
      /\ ToSet(queue') = {d \in Conn : reusable'[d]}
  BY ReusableSet DEF CloseConnection
<1>2. /\ fd' = [fd EXCEPT ![c] = NoFd] /\ freelist' = <<c>> \o freelist /\ freeN' = freeN + 1
      /\ lingering' = lingering \ {c} /\ sockets' = sockets
  BY DEF CloseConnection, FreeConnection
<1>3. fd \in [Conn -> Nat] /\ fd[c] # NoFd /\ Listening \in Nat /\ NoFd \in Nat
  BY PartsAssumption DEF TableInv, TableTypes, Client, NoFd, ConnectionsAssumption
<1>4. /\ freelist' \in Seq(Conn) /\ IsInjective(freelist')
      /\ ToSet(freelist') = ToSet(freelist) \cup {c}
      /\ freelist' # <<>> /\ Len(freelist') = Len(freelist) + 1
  <2>1. freelist \in Seq(Conn) /\ IsInjective(freelist) /\ c \notin ToSet(freelist)
    BY <1>3 DEF TableInv, TableTypes, FreeListExact
  <2>2. /\ <<c>> \o freelist \in Seq(Conn) /\ IsInjective(<<c>> \o freelist)
        /\ ToSet(<<c>> \o freelist) = ToSet(freelist) \cup {c}
    BY <2>1, QueueInsert
  <2>3. <<c>> \o freelist # <<>> /\ Len(<<c>> \o freelist) = Len(freelist) + 1
    BY <2>1
  <2> QED
    BY <1>2, <2>2, <2>3
<1>5. FreeListExact'
  BY <1>2, <1>3, <1>4 DEF FreeListExact, TableInv
<1>6. \A d \in Conn : reusable'[d] => Client(d)' /\ Open(d)'
  <2>1. \A d \in Conn : reusable'[d] => reusable[d] /\ d # c
    BY <1>1 DEF TableInv, TableTypes
  <2> QED
    BY <1>2, <1>3, <2>1 DEF TableInv, Client, Open, NoFd
<1>7. TableInv'
  BY <1>1, <1>2, <1>3, <1>4, <1>5, <1>6 DEF TableInv, TableTypes, ReusableExact
<1>8. EventInv'
  <2>1. /\ timers' = timers \ EventsOf(c) /\ active' = active \ EventsOf(c)
        /\ posted' = WithoutEvents(posted, c) /\ next' = WithoutEvents(next, c)
        /\ isPosted' = [e \in Event |-> isPosted[e] /\ e \notin EventsOf(c)]
    BY DEF CloseConnection, DropEvents
  <2>2. /\ posted' \in Seq(Event) /\ IsInjective(posted')
        /\ ToSet(posted') = {e \in ToSet(posted) : e[1] # c}
    BY <2>1, QueueCleared DEF EventInv, EventTypes
  <2>3. /\ next' \in Seq(Event) /\ IsInjective(next')
        /\ ToSet(next') = {e \in ToSet(next) : e[1] # c}
    BY <2>1, QueueCleared DEF EventInv, EventTypes
  <2>4. \A d \in Conn \ {c} : fd'[d] = fd[d]
    BY <1>2, <1>3
  <2>5. \A e \in Event : isPosted'[e] <=> isPosted[e] /\ e[1] # c
    BY <2>1, EventParts
  <2>6. \A e \in timers' : e \in timers /\ e \in Event /\ e[1] \in Conn \ {c}
    BY <2>1, EventParts DEF EventInv, EventTypes
  <2>7. EventTypes'
    <3>1. isPosted' \in [Event -> BOOLEAN]
      BY <2>1
    <3> QED
      BY <2>1, <2>2, <2>3, <3>1 DEF EventInv, EventTypes
  <2>8. TimersAlive' /\ (\A e \in timers : IsListening(e[1]) => e \in AcceptRetry)'
    BY <2>4, <2>6 DEF EventInv, TimersAlive, IsListening, Open, AcceptRetry
  <2>9. ToSet(posted') \cup ToSet(next') = {e \in Event : isPosted'[e]}
    BY <2>2, <2>3, <2>5 DEF EventInv
  <2>10. (\A e \in Event : isPosted[e] => Open(e[1]))'
    BY <2>4, <2>5, EventParts DEF EventInv, Open
  <2>11. (\A e \in ToSet(next) : Client(e[1]))'
    <3>1. ASSUME NEW e \in ToSet(next') PROVE e \in ToSet(next) /\ e[1] \in Conn \ {c}
      BY <2>3, EventParts DEF ToSet, EventInv, EventTypes
    <3> QED
      BY <2>4, <3>1 DEF EventInv, Client
  <2> QED
    BY <2>2, <2>3, <2>7, <2>8, <2>9, <2>10, <2>11 DEF EventInv
<1> QED
  BY <1>4, <1>7, <1>8

(* What leaves the table, the events or the loop as they are.              *)
LEMMA TableSame ==
    ASSUME TableInv, UNCHANGED <<fd, freelist, freeN, queue, reusable, lingering, sockets>>
    PROVE  TableInv'
BY DEF TableInv, TableTypes, FreeListExact, ReusableExact, Client, Open

LEMMA EventsSame ==
    ASSUME EventInv, UNCHANGED queues, active' \subseteq Event,
           \A c \in Conn : fd'[c] = fd[c] \/ (fd[c] = NoFd /\ Client(c)')
    PROVE  EventInv'
<1>1. \A c \in Conn : /\ Client(c) => Client(c)'
                      /\ Open(c) => Open(c)'
                      /\ IsListening(c)' => IsListening(c)
  BY PartsAssumption DEF Client, Open, IsListening, NoFd, ConnectionsAssumption
<1>2. EventTypes'
  BY DEF EventInv, EventTypes, queues
<1>3. \A e \in timers \cup ToSet(next) : e[1] \in Conn
  BY EventParts DEF EventInv, EventTypes, ToSet
<1>4. \A e \in Event : e[1] \in Conn
  BY EventParts
<1>5. TimersAlive' /\ (\A e \in timers : IsListening(e[1]) => e \in AcceptRetry)'
  BY <1>1, <1>3 DEF EventInv, TimersAlive, queues, AcceptRetry
<1>6. (\A e \in ToSet(next) : Client(e[1]))'
  BY <1>1, <1>3 DEF EventInv, queues
<1>7. (\A e \in Event : isPosted[e] => Open(e[1]))'
  BY <1>1, <1>4 DEF EventInv, queues
<1> QED
  BY <1>2, <1>5, <1>6, <1>7 DEF EventInv, queues

LEMMA LoopSame ==
    ASSUME LoopInv, ~Idle, UNCHANGED <<post, batch, stage, delivered, reuses, instance>>,
           running' \in Event \cup {NoEvent},
           drain' \in [at : {"no", "loop", "again", "take"}, left : Nat,
                       last : Conn \cup {NoConn}, could : BOOLEAN],
           \A c \in Conn : fd'[c] = fd[c] \/ fd'[c] = NoFd
    PROVE  LoopInv'
<1>1. LoopTypes' /\ EventReachesItsSocket'
  BY DEF LoopInv, LoopTypes, EventReachesItsSocket
<1>2. stage # "wait" /\ ~(post /\ stage \in {"read", "write"})
  BY DEF LoopInv
<1>3. (\A i \in DOMAIN batch : Points(batch[i]))'
  <2>1. ASSUME NEW i \in DOMAIN batch PROVE Points(batch[i])'
    <3>1. batch[i] \in BatchEntry
      BY DEF LoopInv, LoopTypes
    <3>2. batch[i].conn \in Conn
      BY <3>1 DEF BatchEntry
    <3> QED
      BY <3>2 DEF LoopInv, Points
  <2> QED
    BY <2>1
<1> QED
  BY <1>1, <1>2, <1>3 DEF LoopInv

LEMMA NotDraining ==
    ASSUME drain' = NoDrain PROVE DrainInv'
BY DEF DrainInv, FailsOnlyWhenExhausted, NoDrain

(* The calls of a handler that do not ask for a connection.                *)
LEMMA HandlerQuiet ==
    ASSUME LoopInv, DrainInv, running # NoEvent, drain = NoDrain, drain' = drain,
           running' \in {running, NoEvent},
           UNCHANGED <<post, batch, stage, delivered, reuses, instance>>,
           \A c \in Conn : fd'[c] = fd[c] \/ fd'[c] = NoFd
    PROVE  LoopInv' /\ DrainInv'
<1>1. ~Idle
  BY DEF Idle
<1>2. running' \in Event \cup {NoEvent}
  BY DEF LoopInv, LoopTypes
<1>3. drain' \in [at : {"no", "loop", "again", "take"}, left : Nat, last : Conn \cup {NoConn},
                  could : BOOLEAN]
  BY DEF LoopInv, LoopTypes
<1> QED
  BY <1>1, <1>2, <1>3, LoopSame, NotDraining

LEMMA HandlerSteps ==
    ASSUME IInv, NEW c \in Conn,
           HandlerCloses(c) \/ \E r \in BOOLEAN : HandlerSetsReusable(c, r)
    PROVE  IInv'
<1> USE DEF IInv
<1>1. CASE HandlerCloses(c)
  <2>1. TableInv' /\ EventInv'
    BY <1>1, CloseStep DEF HandlerCloses
  <2>2. fd' = [fd EXCEPT ![c] = NoFd] /\ UNCHANGED <<instance, reuses>>
    BY <1>1 DEF HandlerCloses, CloseConnection, FreeConnection
  <2>3. \A d \in Conn : fd'[d] = fd[d] \/ fd'[d] = NoFd
    BY <2>2 DEF TableInv, TableTypes
  <2>4. LoopInv' /\ DrainInv'
    BY <1>1, <2>2, <2>3, HandlerQuiet DEF HandlerCloses, loop
  <2> QED
    BY <2>1, <2>4
<1>2. ASSUME NEW r \in BOOLEAN, HandlerSetsReusable(c, r) PROVE IInv'
  <2>1. TableInv'
    <3>1. SetReusable(c, r) /\ Client(c) /\ UNCHANGED <<fd, freelist, freeN, sockets, lingering>>
      BY <1>2 DEF HandlerSetsReusable
    <3>2. lingering' \subseteq Conn
      BY <3>1 DEF TableInv, TableTypes
    <3> QED
      BY <3>1, <3>2, ReusableKept
  <2>2. EventInv'
    BY <1>2, EventsSame DEF HandlerSetsReusable, EventInv, EventTypes
  <2>3. LoopInv' /\ DrainInv'
    BY <1>2, HandlerQuiet DEF HandlerSetsReusable, loop
  <2> QED
    BY <2>1, <2>2, <2>3
<1> QED
  BY <1>1, <1>2

(* ngx_post_event: the event is in the queue, if it was in none.           *)
LEMMA Posting ==
    ASSUME NEW e \in Event, EventInv, NEW q \in {posted, next}
    PROVE  /\ PostEvent(e, q) \in Seq(Event) /\ IsInjective(PostEvent(e, q))
           /\ ToSet(PostEvent(e, q)) = IF isPosted[e] THEN ToSet(q) ELSE ToSet(q) \cup {e}
<1>1. q \in Seq(Event) /\ IsInjective(q)
  BY DEF EventInv, EventTypes
<1>2. CASE isPosted[e]
  BY <1>1, <1>2 DEF PostEvent
<1>3. CASE ~isPosted[e]
  <2>1. e \notin ToSet(q)
    BY <1>3 DEF EventInv
  <2>2. PostEvent(e, q) = Append(q, e)
    BY <1>3 DEF PostEvent
  <2> QED
    BY <1>1, <1>3, <2>1, <2>2, QueueAppend
<1> QED
  BY <1>2, <1>3

LEMMA PostedSoon ==
    ASSUME NEW e \in Event, EventInv, Open(e[1]), posted' = PostEvent(e, posted),
           isPosted' = [isPosted EXCEPT ![e] = TRUE], UNCHANGED <<fd, active, timers, next>>
    PROVE  EventInv'
<1>1. /\ posted' \in Seq(Event) /\ IsInjective(posted')
      /\ ToSet(posted') = IF isPosted[e] THEN ToSet(posted) ELSE ToSet(posted) \cup {e}
  BY Posting
<1>2. isPosted' \in [Event -> BOOLEAN] /\ \A d \in Event : isPosted'[d] <=> isPosted[d] \/ d = e
  BY DEF EventInv, EventTypes
<1>3. EventTypes' /\ TimersAlive'
  BY <1>1, <1>2 DEF EventInv, EventTypes, TimersAlive, IsListening, Open
<1>4. /\ ToSet(posted') \cap ToSet(next') = {}
      /\ ToSet(posted') \cup ToSet(next') = {d \in Event : isPosted'[d]}
  BY <1>1, <1>2 DEF EventInv
<1>5. (\A d \in Event : isPosted[d] => Open(d[1]))'
  BY <1>2 DEF EventInv, Open
<1> QED
  BY <1>1, <1>3, <1>4, <1>5 DEF EventInv, Client, IsListening

LEMMA PostedNext ==
    ASSUME NEW e \in Event, EventInv, Client(e[1]), Open(e[1]), next' = PostEvent(e, next),
           isPosted' = [isPosted EXCEPT ![e] = TRUE], UNCHANGED <<fd, active, timers, posted>>
    PROVE  EventInv'
<1>1. /\ next' \in Seq(Event) /\ IsInjective(next')
      /\ ToSet(next') = IF isPosted[e] THEN ToSet(next) ELSE ToSet(next) \cup {e}
  BY Posting
<1>2. isPosted' \in [Event -> BOOLEAN] /\ \A d \in Event : isPosted'[d] <=> isPosted[d] \/ d = e
  BY DEF EventInv, EventTypes
<1>3. EventTypes' /\ TimersAlive'
  BY <1>1, <1>2 DEF EventInv, EventTypes, TimersAlive, IsListening, Open
<1>4. /\ ToSet(posted') \cap ToSet(next') = {}
      /\ ToSet(posted') \cup ToSet(next') = {d \in Event : isPosted'[d]}
  BY <1>1, <1>2 DEF EventInv
<1>5. (\A d \in Event : isPosted[d] => Open(d[1]))'
  BY <1>2 DEF EventInv, Open
<1>6. (\A d \in ToSet(next) : Client(d[1]))'
  BY <1>1 DEF EventInv, Client
<1> QED
  BY <1>1, <1>3, <1>4, <1>5, <1>6 DEF EventInv, IsListening

(* A timer is set or deleted.                                              *)
LEMMA TimerSet ==
    ASSUME EventInv, UNCHANGED <<fd, posted, next, isPosted>>, active' \subseteq Event,
           timers' \subseteq Event,
           \A e \in timers' : e \in timers \/ (Open(e[1]) /\ (Client(e[1]) \/ e \in AcceptRetry))
    PROVE  EventInv'
<1>1. EventTypes'
  BY DEF EventInv, EventTypes
<1>2. TimersAlive' /\ (\A e \in timers : IsListening(e[1]) => e \in AcceptRetry)'
  <2>1. ASSUME NEW e \in timers'
        PROVE  /\ Open(e[1])' \/ (e \in AcceptRetry /\ ~IsListening(e[1])')
               /\ IsListening(e[1])' => e \in AcceptRetry
    <3>1. CASE e \in timers
      BY <3>1 DEF EventInv, TimersAlive, Open, IsListening
    <3>2. CASE Open(e[1]) /\ Client(e[1])
      BY <3>2, PartsAssumption DEF Client, Open, IsListening, ConnectionsAssumption
    <3>3. CASE Open(e[1]) /\ e \in AcceptRetry
      BY <3>3 DEF Open
    <3> QED
      BY <2>1, <3>1, <3>2, <3>3
  <2> QED
    BY <2>1 DEF TimersAlive, AcceptRetry
<1> QED
  BY <1>1, <1>2 DEF EventInv, Open, Client

LEMMA ClientIsOpen ==
    ASSUME NEW c, Client(c) PROVE Open(c)
BY PartsAssumption DEF Client, Open, NoFd, ConnectionsAssumption

LEMMA HandlerEventSteps ==
    ASSUME IInv, NEW e \in Event,
           \/ HandlerRegisters(e) \/ HandlerSetsTimer(e) \/ HandlerDeletesTimer(e)
           \/ \E soon \in BOOLEAN : HandlerPosts(e, soon)
    PROVE  IInv'
<1> USE DEF IInv
<1>0. e[1] \in Conn
  BY EventParts
<1>1. CASE HandlerRegisters(e)
  <2>1. TableInv'
    BY <1>1, TableSame DEF HandlerRegisters
  <2>2. EventInv'
    BY <1>1, EventsSame DEF HandlerRegisters, EventInv, EventTypes
  <2>3. LoopInv' /\ DrainInv'
    BY <1>1, HandlerQuiet DEF HandlerRegisters, loop
  <2> QED
    BY <2>1, <2>2, <2>3
<1>2. CASE HandlerSetsTimer(e)
  <2>1. TableInv'
    BY <1>2, TableSame DEF HandlerSetsTimer, table
  <2>2. EventInv'
    BY <1>2, TimerSet, ClientIsOpen DEF HandlerSetsTimer, table, EventInv, EventTypes
  <2>3. LoopInv' /\ DrainInv'
    BY <1>2, HandlerQuiet DEF HandlerSetsTimer, loop, table
  <2> QED
    BY <2>1, <2>2, <2>3
<1>3. CASE HandlerDeletesTimer(e)
  <2>1. TableInv'
    BY <1>3, TableSame DEF HandlerDeletesTimer, table
  <2>2. EventInv'
    BY <1>3, TimerSet DEF HandlerDeletesTimer, table, EventInv, EventTypes
  <2>3. LoopInv' /\ DrainInv'
    BY <1>3, HandlerQuiet DEF HandlerDeletesTimer, loop, table
  <2> QED
    BY <2>1, <2>2, <2>3
<1>4. ASSUME NEW soon \in BOOLEAN, HandlerPosts(e, soon) PROVE IInv'
  <2>1. TableInv'
    BY <1>4, TableSame DEF HandlerPosts, table
  <2>2. EventInv'
    <3>1. Client(e[1]) /\ Open(e[1])
      BY <1>4, ClientIsOpen DEF HandlerPosts
    <3>2. CASE soon
      BY <1>4, <3>1, <3>2, PostedSoon DEF HandlerPosts, table
    <3>3. CASE ~soon
      BY <1>4, <3>1, <3>3, PostedNext DEF HandlerPosts, table
    <3> QED
      BY <3>2, <3>3
  <2>3. LoopInv' /\ DrainInv'
    BY <1>4, HandlerQuiet DEF HandlerPosts, loop, table
  <2> QED
    BY <2>1, <2>2, <2>3
<1> QED
  BY <1>1, <1>2, <1>3, <1>4

(* ngx_event_accept fails for want of descriptors, and is enabled again.   *)
LEMMA AcceptFailure ==
    ASSUME IInv, HandlerFailsToAccept \/ HandlerEnablesAccept \/ HandlerReturns PROVE IInv'
<1> USE DEF IInv
<1>0. \A e \in ListeningReads : e \in Event /\ e \in AcceptRetry /\ Open(e[1])
  <2>1. ASSUME NEW c \in 1 .. Listening, fd[c] = c
        PROVE  <<c, "read">> \in Event /\ <<c, "read">> \in AcceptRetry /\ Open(c)
    <3>1. c \in Conn /\ c # NoFd
      BY PartsAssumption DEF Conn, NoFd, ConnectionsAssumption
    <3> QED
      BY <2>1, <3>1 DEF Event, AcceptRetry, Open
  <2> QED
    BY <2>1 DEF ListeningReads
<1>1. CASE HandlerFailsToAccept
  <2>1. TableInv'
    BY <1>1, TableSame DEF HandlerFailsToAccept
  <2>2. EventInv'
    <3>1. /\ running \in ListeningReads /\ timers' = timers \cup {running}
          /\ active' = active \ ListeningReads /\ UNCHANGED <<fd, posted, next, isPosted>>
      BY <1>1 DEF HandlerFailsToAccept
    <3>2. running \in Event /\ running \in AcceptRetry /\ Open(running[1])
      BY <1>0, <3>1
    <3>3. timers \subseteq Event /\ active \subseteq Event
      BY DEF EventInv, EventTypes
    <3> QED
      BY <3>1, <3>2, <3>3, TimerSet
  <2>3. LoopInv' /\ DrainInv'
    <3>1. running # NoEvent
      BY <1>0, <1>1, EventParts DEF HandlerFailsToAccept
    <3> QED
      BY <1>1, <3>1, HandlerQuiet DEF HandlerFailsToAccept
  <2> QED
    BY <2>1, <2>2, <2>3
<1>2. CASE HandlerEnablesAccept
  <2>1. TableInv'
    BY <1>2, TableSame DEF HandlerEnablesAccept
  <2>2. EventInv'
    BY <1>0, <1>2, EventsSame DEF HandlerEnablesAccept, EventInv, EventTypes
  <2>3. LoopInv' /\ DrainInv'
    <3>1. running # NoEvent
      BY <1>0, <1>2, EventParts DEF HandlerEnablesAccept
    <3> QED
      BY <1>2, <3>1, HandlerQuiet DEF HandlerEnablesAccept, loop
  <2> QED
    BY <2>1, <2>2, <2>3
<1>3. CASE HandlerReturns
  <2>1. TableInv'
    BY <1>3, TableSame DEF HandlerReturns, table
  <2>2. EventInv'
    BY <1>3, EventsSame DEF HandlerReturns, table, queues, EventInv, EventTypes
  <2>3. LoopInv' /\ DrainInv'
    BY <1>3, HandlerQuiet DEF HandlerReturns, table
  <2> QED
    BY <2>1, <2>2, <2>3
<1> QED
  BY <1>1, <1>2, <1>3

-----------------------------------------------------------------------------
(* ngx_get_connection.                                                     *)

(* How many connections ngx_drain_connections tries: none only if there is *)
(* a free one or nothing to drain.                                         *)
LEMMA Counting ==
    ASSUME TableInv
    PROVE  DrainCount \in Nat /\ (DrainCount = 0 => freelist # <<>> \/ queue = <<>>)
<1>1. /\ N \in Nat /\ LowShare \in Nat \ {0} /\ ReuseShare \in Nat \ {0} /\ ReuseMax \in Nat \ {0}
      /\ Len(queue) \in Nat /\ freeN = Len(freelist) /\ Len(freelist) \in Nat
  BY PartsAssumption DEF TableInv, TableTypes, FreeListExact, ConnectionsAssumption
<1>2. N \div LowShare \in Nat /\ Len(queue) \div ReuseShare \in Nat
  BY <1>1
<1> DEFINE a == N \div LowShare
           b == Len(queue) \div ReuseShare
<1>3. DrainCount = IF freeN > a \/ queue = <<>> THEN 0 ELSE AtLeastOne(Least(ReuseMax, b))
  BY DEF DrainCount
<1>4. a \in Nat /\ b \in Nat
  BY <1>2
<1> HIDE DEF a, b
<1>5. AtLeastOne(Least(ReuseMax, b)) \in Nat \ {0}
  BY <1>1, <1>4 DEF AtLeastOne, Least
<1>6. freelist = <<>> => ~(freeN > a)
  BY <1>1, <1>4
<1> QED
  BY <1>3, <1>5, <1>6

LEMMA GetsStep ==
    ASSUME IInv, HandlerGets PROVE IInv'
<1> USE DEF IInv
<1>1. TableInv' /\ EventInv'
  BY TableSame, EventsSame DEF HandlerGets, table, EventInv, EventTypes
<1>2. drain' = [at |-> IF DrainCount = 0 THEN "take" ELSE "loop", left |-> DrainCount,
                last |-> NoConn, could |-> freelist # <<>> \/ queue # <<>>]
  BY DEF HandlerGets
<1>3. DrainCount \in Nat /\ (DrainCount = 0 => freelist # <<>> \/ queue = <<>>)
  BY Counting
<1>4. LoopInv'
  <2>1. drain' \in [at : {"no", "loop", "again", "take"}, left : Nat,
                    last : Conn \cup {NoConn}, could : BOOLEAN]
    BY <1>2, <1>3
  <2>2. ~Idle
    BY DEF HandlerGets, Idle
  <2> QED
    BY <2>1, <2>2, LoopSame DEF HandlerGets, table, loop, LoopInv, LoopTypes
<1>5. DrainInv'
  <2>1. UNCHANGED <<freelist, queue, reusable, lingering>>
    BY DEF HandlerGets, table
  <2>2. CASE DrainCount = 0
    <3>1. drain'.at = "take" /\ (drain'.could <=> freelist # <<>> \/ queue # <<>>)
      BY <1>2, <2>2
    <3>2. FailsOnlyWhenExhausted'
      BY <1>3, <2>1, <2>2, <3>1 DEF FailsOnlyWhenExhausted
    <3> QED
      BY <3>1, <3>2 DEF DrainInv
  <2>3. CASE DrainCount # 0
    <3>1. drain' = [at |-> "loop", left |-> DrainCount, last |-> NoConn,
                    could |-> freelist # <<>> \/ queue # <<>>]
      BY <1>2, <2>3
    <3>2. drain'.could <=> freelist # <<>> \/ queue # <<>>
      BY <3>1
    <3>3. drain'.at = "loop" /\ drain'.last = NoConn /\ drain'.left = DrainCount
      BY <3>1
    <3>4. DrainCount > 0
      BY <1>3, <2>3
    <3>5. drain'.could /\ freelist' = <<>> => Promising'
      BY <2>1, <3>2, <3>3, <3>4 DEF Promising
    <3> QED
      BY <3>3, <3>5 DEF DrainInv, FailsOnlyWhenExhausted
  <2> QED
    BY <2>2, <2>3
<1> QED
  BY <1>1, <1>4, <1>5

(* A drained connection closes, or lingers and stays reusable.             *)
LEMMA DrainedStep ==
    ASSUME TableInv, EventInv, LoopInv, ~Idle, NEW c \in Conn, reusable[c], ReadHandlerCloses(c),
           UNCHANGED loop,
           drain' \in [at : {"no", "loop", "again", "take"}, left : Nat,
                       last : Conn \cup {NoConn}, could : BOOLEAN]
    PROVE  /\ TableInv' /\ EventInv' /\ LoopInv'
           /\ \/ freelist' # <<>>
              \/ freelist' = freelist /\ c \notin lingering /\ c \in lingering' /\ reusable'[c]
<1>0. Client(c)
  BY DEF TableInv
<1>1. CASE CloseConnection(c)
  <2>1. TableInv' /\ EventInv' /\ freelist' # <<>>
    BY <1>0, <1>1, CloseStep
  <2>2. fd' = [fd EXCEPT ![c] = NoFd] /\ UNCHANGED <<instance, reuses>>
    BY <1>1 DEF CloseConnection, FreeConnection
  <2>3. \A d \in Conn : fd'[d] = fd[d] \/ fd'[d] = NoFd
    BY <2>2 DEF TableInv, TableTypes
  <2>4. LoopInv'
    BY <2>2, <2>3, LoopSame DEF loop, LoopInv, LoopTypes
  <2> QED
    BY <2>1, <2>4
<1>2. CASE ~CloseConnection(c)
  <2>1. /\ c \notin lingering /\ lingering' = lingering \cup {c} /\ SetReusable(c, TRUE)
        /\ timers' = timers \cup {<<c, "read">>}
        /\ UNCHANGED <<fd, instance, active, freelist, freeN, sockets, reuses, posted, next, isPosted>>
    BY <1>2 DEF ReadHandlerCloses
  <2>2. TableInv'
    <3>1. lingering' \subseteq Conn
      BY <2>1 DEF TableInv, TableTypes
    <3> QED
      BY <1>0, <2>1, <3>1, ReusableKept
  <2>3. EventInv'
    <3>1. <<c, "read">> \in Event /\ <<c, "read">>[1] = c /\ Open(c)
      BY <1>0, EventParts, ClientIsOpen
    <3>2. timers' \subseteq Event /\ active' \subseteq Event
      BY <2>1, <3>1 DEF EventInv, EventTypes
    <3>3. \A e \in timers' : e \in timers \/ (Open(e[1]) /\ (Client(e[1]) \/ e \in AcceptRetry))
      BY <1>0, <2>1, <3>1
    <3> QED
      BY <2>1, <3>2, <3>3, TimerSet
  <2>4. LoopInv'
    BY <2>1, LoopSame DEF loop, LoopInv, LoopTypes
  <2>5. reusable'[c]
    <3>1. reusable' = [reusable EXCEPT ![c] = TRUE] /\ reusable \in [Conn -> BOOLEAN]
      BY <2>1 DEF SetReusable, TableInv, TableTypes
    <3> QED
      BY <3>1
  <2> QED
    BY <2>1, <2>2, <2>3, <2>4, <2>5
<1> QED
  BY <1>1, <1>2

LEMMA DrainOneStep ==
    ASSUME IInv, DrainOne PROVE IInv'
<1> USE DEF IInv
<1> DEFINE c == Last(queue)
<1>1. /\ drain.at = "loop" /\ drain.left > 0 /\ queue # <<>> /\ ReadHandlerCloses(c)
      /\ drain' = [drain EXCEPT !.left = @ - 1, !.last = c] /\ UNCHANGED loop
  BY DEF DrainOne
<1>2. c \in Conn /\ reusable[c]
  <2>1. queue \in Seq(Conn) /\ IsInjective(queue) /\ ToSet(queue) = {d \in Conn : reusable[d]}
    BY DEF TableInv, TableTypes, ReusableExact
  <2>2. c \in ToSet(queue)
    BY <1>1, <2>1, QueueFront
  <2> QED
    BY <2>1, <2>2
<1> HIDE DEF c
<1>3. drain \in [at : {"no", "loop", "again", "take"}, left : Nat, last : Conn \cup {NoConn},
                 could : BOOLEAN]
  BY DEF LoopInv, LoopTypes
<1>4. /\ drain' \in [at : {"no", "loop", "again", "take"}, left : Nat, last : Conn \cup {NoConn},
                     could : BOOLEAN]
      /\ drain'.at = "loop" /\ drain'.last = c
  <2>1. drain.left - 1 \in Nat
    BY <1>1, <1>3
  <2>2. drain' = [at |-> drain.at, left |-> drain.left - 1, last |-> c, could |-> drain.could]
    BY <1>1, <1>3
  <2> QED
    BY <1>1, <1>2, <1>3, <2>1, <2>2
<1>5. ~Idle
  BY <1>1 DEF Idle, NoDrain
<1>6. /\ TableInv' /\ EventInv' /\ LoopInv'
      /\ \/ freelist' # <<>>
         \/ freelist' = freelist /\ c \notin lingering /\ c \in lingering' /\ reusable'[c]
  BY <1>1, <1>2, <1>4, <1>5, DrainedStep
<1>7. DrainInv'
  <2>1. c # NoConn
    BY <1>2, EventParts
  <2>2. freelist' = <<>> => Promising'
    BY <1>4, <1>6, <2>1 DEF Promising
  <2> QED
    BY <1>4, <2>2 DEF DrainInv, FailsOnlyWhenExhausted
<1> QED
  BY <1>6, <1>7

LEMMA DrainEndsStep ==
    ASSUME IInv, DrainLoopEnds PROVE IInv'
<1> USE DEF IInv
<1>1. /\ drain.at = "loop" /\ (drain.left = 0 \/ queue = <<>>)
      /\ drain' = [drain EXCEPT !.at = "again"] /\ UNCHANGED <<table, queues, loop>>
  BY DEF DrainLoopEnds
<1>2. TableInv' /\ EventInv'
  BY <1>1, TableSame, EventsSame DEF table, EventInv, EventTypes
<1>3. /\ drain' \in [at : {"no", "loop", "again", "take"}, left : Nat, last : Conn \cup {NoConn},
                     could : BOOLEAN]
      /\ drain'.at = "again" /\ drain'.last = drain.last /\ drain'.could = drain.could
      /\ drain.left \in Nat
  BY <1>1 DEF LoopInv, LoopTypes
<1>4. LoopInv'
  <2>1. ~Idle
    BY <1>1 DEF Idle, NoDrain
  <2> QED
    BY <1>1, <1>3, <2>1, LoopSame DEF table, loop, LoopInv, LoopTypes
<1>5. drain.could /\ freelist = <<>> => drain.last # NoConn /\ reusable[drain.last] /\ drain.last \in lingering
  BY <1>1, <1>3 DEF DrainInv, Promising
<1>6. DrainInv'
  BY <1>1, <1>3, <1>5 DEF DrainInv, Promising, FailsOnlyWhenExhausted, table
<1> QED
  BY <1>2, <1>4, <1>6

(* The last connection drained once more: if it still blocks the table, it *)
(* has lingered and now it closes.                                         *)
LEMMA DrainAgainStep ==
    ASSUME IInv, DrainAgain PROVE IInv'
<1> USE DEF IInv
<1>1. /\ drain.at = "again" /\ drain' = [drain EXCEPT !.at = "take"] /\ UNCHANGED loop
      /\ IF NeedsAgain THEN ReadHandlerCloses(drain.last) ELSE UNCHANGED <<table, queues>>
  BY DEF DrainAgain
<1>2. /\ drain' \in [at : {"no", "loop", "again", "take"}, left : Nat, last : Conn \cup {NoConn},
                     could : BOOLEAN]
      /\ drain'.at = "take" /\ drain'.could = drain.could /\ drain.last \in Conn \cup {NoConn}
  BY <1>1 DEF LoopInv, LoopTypes
<1>3. ~Idle
  BY <1>1 DEF Idle, NoDrain
<1>4. drain.could /\ freelist = <<>> => drain.last # NoConn /\ reusable[drain.last] /\ drain.last \in lingering
  BY <1>1 DEF DrainInv, Promising
<1>5. CASE NeedsAgain
  <2>1. drain.last \in Conn /\ reusable[drain.last]
    BY <1>2, <1>5 DEF NeedsAgain
  <2>2. /\ TableInv' /\ EventInv' /\ LoopInv'
        /\ \/ freelist' # <<>>
           \/ freelist' = freelist /\ drain.last \notin lingering
    BY <1>1, <1>2, <1>3, <1>5, <2>1, DrainedStep
  <2>3. FailsOnlyWhenExhausted'
    BY <1>2, <1>4, <2>2 DEF FailsOnlyWhenExhausted
  <2> QED
    BY <1>2, <2>2, <2>3 DEF DrainInv
<1>6. CASE ~NeedsAgain
  <2>1. UNCHANGED <<table, queues>>
    BY <1>1, <1>6
  <2>2. TableInv' /\ EventInv'
    BY <2>1, TableSame, EventsSame DEF table, EventInv, EventTypes
  <2>3. LoopInv'
    BY <1>1, <1>2, <1>3, <2>1, LoopSame DEF table, loop, LoopInv, LoopTypes
  <2>4. freelist = <<>> => freeN = 0
    BY DEF TableInv, FreeListExact
  <2>5. FailsOnlyWhenExhausted'
    BY <1>2, <1>4, <1>6, <2>1, <2>4 DEF FailsOnlyWhenExhausted, NeedsAgain, table
  <2> QED
    BY <1>2, <2>2, <2>3, <2>5 DEF DrainInv
<1> QED
  BY <1>5, <1>6

LEMMA TakeFailsStep ==
    ASSUME IInv, TakeFails PROVE IInv'
<1> USE DEF IInv
<1>1. TableInv'
  <2>1. UNCHANGED <<fd, freelist, freeN, queue, reusable, lingering>> /\ sockets' = sockets + 1
    BY DEF TakeFails
  <2>2. TableTypes'
    BY <2>1, PartsAssumption DEF TableInv, TableTypes, ConnectionsAssumption
  <2> QED
    BY <2>1, <2>2 DEF TableInv, FreeListExact, ReusableExact, Client, Open
<1>2. EventInv'
  BY EventsSame DEF TakeFails, EventInv, EventTypes
<1>3. LoopInv' /\ DrainInv'
  <2>1. drain' = NoDrain /\ ~Idle
    BY DEF TakeFails, Idle, NoDrain
  <2>2. drain' \in [at : {"no", "loop", "again", "take"}, left : Nat, last : Conn \cup {NoConn},
                    could : BOOLEAN]
    BY <2>1 DEF NoDrain
  <2> QED
    BY <2>1, <2>2, LoopSame, NotDraining DEF TakeFails, loop, LoopInv, LoopTypes
<1> QED
  BY <1>1, <1>2, <1>3

(* A connection is reused: what the batch still says of it is recognised   *)
(* as stale until it is reused once more.                                  *)
LEMMA TakeStep ==
    ASSUME IInv, Take PROVE IInv'
<1> USE DEF IInv
<1> DEFINE c == Head(freelist)
<1>1. /\ drain.at = "take" /\ freelist # <<>>
      /\ freelist' = Tail(freelist) /\ freeN' = freeN - 1
      /\ fd' = [fd EXCEPT ![c] = sockets + 1]
      /\ instance' = [instance EXCEPT ![c] = 1 - instance[c]]
      /\ active' = active \cup {<<c, "read">>}
      /\ reuses' = [reuses EXCEPT ![c] = reuses[c] + 1]
      /\ sockets' = sockets + 1 /\ drain' = NoDrain
      /\ UNCHANGED <<queue, reusable, lingering, queues, loop>>
  BY DEF Take
<1>2. /\ freelist \in Seq(Conn) /\ IsInjective(freelist)
      /\ ToSet(freelist) = {d \in Conn : fd[d] = NoFd} /\ freeN = Len(freelist)
      /\ fd \in [Conn -> Nat] /\ sockets \in Nat /\ sockets >= Listening /\ Listening \in Nat
  BY PartsAssumption DEF TableInv, TableTypes, FreeListExact, ConnectionsAssumption
<1>3. /\ c \in Conn /\ fd[c] = NoFd
      /\ freelist' \in Seq(Conn) /\ IsInjective(freelist')
      /\ ToSet(freelist') = ToSet(freelist) \ {c}
  BY <1>1, <1>2, QueueHead
<1>4. Len(freelist') = Len(freelist) - 1
  BY <1>1, <1>2
<1> HIDE DEF c
<1>5. /\ fd'[c] = sockets + 1 /\ fd'[c] # NoFd /\ fd'[c] > Listening
      /\ \A d \in Conn \ {c} : fd'[d] = fd[d]
      /\ fd' \in [Conn -> Nat] /\ sockets' \in Nat /\ sockets' >= Listening
  BY <1>1, <1>2, <1>3 DEF NoFd
<1>6. FreeListExact'
  <2>1. ToSet(freelist') = {d \in Conn : fd'[d] = NoFd}
    BY <1>2, <1>3, <1>5
  <2> QED
    BY <1>1, <1>2, <1>3, <1>4, <2>1 DEF FreeListExact
<1>7. TableInv'
  <2>1. ReusableExact' /\ (\A d \in Conn : reusable[d] => Client(d))'
    BY <1>1, <1>5 DEF TableInv, ReusableExact, Open, Client
  <2>2. TableTypes'
    BY <1>1, <1>3, <1>5 DEF TableInv, TableTypes
  <2> QED
    BY <1>6, <2>1, <2>2 DEF TableInv
<1>8. EventInv'
  <2>1. active' \subseteq Event
    <3>1. <<c, "read">> \in Event
      BY <1>3, EventParts
    <3>2. active \subseteq Event
      BY DEF EventInv, EventTypes
    <3> QED
      BY <1>1, <3>1, <3>2
  <2>2. \A d \in Conn : fd'[d] = fd[d] \/ (fd[d] = NoFd /\ Client(d)')
    BY <1>3, <1>5 DEF Client
  <2> QED
    BY <1>1, <2>1, <2>2, EventsSame
<1>9. LoopInv'
  <2>1. /\ instance \in [Conn -> {0, 1}] /\ reuses \in [Conn -> Nat]
        /\ delivered \in [event : Nat, socket : Nat, conn : Conn \cup {NoConn}]
        /\ batch \in Seq(BatchEntry)
    BY DEF LoopInv, LoopTypes
  <2>2. /\ instance' \in [Conn -> {0, 1}] /\ reuses' \in [Conn -> Nat]
        /\ instance'[c] # instance[c] /\ reuses'[c] = reuses[c] + 1
        /\ \A d \in Conn \ {c} : instance'[d] = instance[d] /\ reuses'[d] = reuses[d]
    <3>1. /\ 1 - instance[c] \in {0, 1} /\ 1 - instance[c] # instance[c]
          /\ reuses[c] + 1 \in Nat
      <4>1. c \in Conn /\ (instance[c] = 0 \/ instance[c] = 1) /\ reuses[c] \in Nat
        BY <1>3, <2>1
      <4> QED
        BY <4>1
    <3> QED
      BY <1>1, <1>3, <2>1, <3>1
  <2>3. LoopTypes'
    <3>1. drain' \in [at : {"no", "loop", "again", "take"}, left : Nat,
                      last : Conn \cup {NoConn}, could : BOOLEAN]
      BY <1>1 DEF NoDrain
    <3> QED
      BY <1>1, <2>2, <3>1 DEF LoopInv, LoopTypes, loop
  <2>4. EventReachesItsSocket'
    <3>1. delivered' = delivered /\ post' = post
      BY <1>1 DEF loop
    <3>2. CASE delivered.event = delivered.socket
      BY <3>1, <3>2 DEF EventReachesItsSocket
    <3>3. CASE delivered.event # delivered.socket
      <4>1. ~post /\ reuses[delivered.conn] >= 2
        BY <3>3 DEF LoopInv, EventReachesItsSocket
      <4>2. CASE delivered.conn \in Conn
        <5>1. PICK d \in Conn : d = delivered.conn
          BY <4>2
        <5>2. reuses'[d] = reuses[d] \/ reuses'[d] = reuses[d] + 1
          BY <2>2
        <5>3. reuses'[d] >= 2
          BY <2>1, <4>1, <5>1, <5>2
        <5> QED
          BY <3>1, <4>1, <5>1, <5>3 DEF EventReachesItsSocket
      <4>3. CASE delivered.conn \notin Conn
        <5>1. reuses'[delivered.conn] = reuses[delivered.conn]
          BY <1>1, <1>3, <2>1, <4>3
        <5> QED
          BY <3>1, <4>1, <5>1 DEF EventReachesItsSocket
      <4> QED
        BY <4>2, <4>3
    <3> QED
      BY <3>2, <3>3
  <2>5. stage # "wait" /\ ~(post /\ stage \in {"read", "write"})
    BY <1>1 DEF LoopInv, Idle, NoDrain
  <2>6. UNCHANGED <<batch, stage, post>>
    BY <1>1 DEF loop
  <2>7. ASSUME NEW i \in DOMAIN batch PROVE Points(batch[i])'
    <3>1. PICK e \in BatchEntry : e = batch[i] /\ Points(e)
      BY <2>1 DEF LoopInv
    <3>2. e.conn \in Conn /\ e.instance \in {0, 1}
      BY DEF BatchEntry
    <3>3. CASE e.conn = c
      <4>1. reuses'[c] # 0
        BY <1>3, <2>1, <2>2
      <4>2. reuses'[c] = 1 => e.instance # instance'[c]
        <5>1. reuses'[c] = 1 => reuses[c] = 0
          BY <1>3, <2>1, <2>2
        <5>2. reuses[c] = 0 => e.instance = instance[c]
          BY <3>1, <3>3 DEF Points
        <5> QED
          BY <2>2, <5>1, <5>2
      <4> QED
        BY <2>6, <3>1, <3>3, <4>1, <4>2 DEF Points
    <3>4. CASE e.conn # c
      <4>1. /\ reuses'[e.conn] = reuses[e.conn] /\ instance'[e.conn] = instance[e.conn]
            /\ fd'[e.conn] = fd[e.conn]
        BY <1>5, <2>2, <3>2, <3>4
      <4> QED
        BY <2>6, <3>1, <4>1 DEF Points
    <3> QED
      BY <3>3, <3>4
  <2> QED
    BY <2>3, <2>4, <2>5, <2>6, <2>7 DEF LoopInv
<1> QED
  BY <1>1, <1>7, <1>8, <1>9, NotDraining

-----------------------------------------------------------------------------
(* The loop.                                                               *)

(* A step of the loop with no drain under way, which leaves the table.     *)
LEMMA LoopTable ==
    ASSUME IInv, UNCHANGED <<fd, freelist, freeN, queue, reusable, lingering, sockets>>,
           Idle, drain' = drain
    PROVE  TableInv' /\ DrainInv'
BY TableSame, NotDraining DEF IInv, Idle

LEMMA EpollStep ==
    ASSUME IInv, EpollWait PROVE IInv'
<1> USE DEF IInv
<1>1. /\ stage = "wait" /\ Idle /\ posted' = posted \o next /\ next' = <<>> /\ stage' = "read"
      /\ reuses' = [c \in Conn |-> 0] /\ delivered' = NoDelivery
      /\ UNCHANGED <<fd, instance, active, freelist, freeN, queue, reusable, lingering, sockets,
                     isPosted, timers, running, drain>>
  BY DEF EpollWait
<1>2. TableInv' /\ DrainInv'
  BY <1>1, LoopTable
<1>3. EventInv'
  <2>1. /\ posted \in Seq(Event) /\ next \in Seq(Event) /\ IsInjective(posted) /\ IsInjective(next)
        /\ ToSet(posted) \cap ToSet(next) = {}
    BY DEF EventInv, EventTypes
  <2>2. /\ posted' \in Seq(Event) /\ IsInjective(posted')
        /\ ToSet(posted') = ToSet(posted) \cup ToSet(next)
    BY <1>1, <2>1, QueueJoin
  <2>3. next' \in Seq(Event) /\ IsInjective(next') /\ ToSet(next') = {}
    BY <1>1 DEF IsInjective, ToSet
  <2>4. EventTypes' /\ TimersAlive'
    BY <1>1, <2>2, <2>3 DEF EventInv, EventTypes, TimersAlive, IsListening, Open
  <2> QED
    BY <1>1, <2>2, <2>3, <2>4 DEF EventInv, IsListening, Open
<1>4. PICK s \in SUBSET Registered, p \in BOOLEAN :
        \E b \in [1 .. Cardinality(s) -> {e \in Reported : e.conn \in s}] : batch' = b /\ post' = p
  BY DEF EpollWait
<1>5. Cardinality(s) \in Nat
  <2>1. IsFiniteSet(Conn)
    BY FS_Interval, PartsAssumption DEF Conn, ConnectionsAssumption
  <2>2. s \subseteq Conn
    BY DEF Registered
  <2> QED
    BY <2>1, <2>2, FS_Subset, FS_CardinalityType
<1>6. ASSUME NEW e \in Reported PROVE e \in BatchEntry /\ Points(e)'
  <2>1. PICK c \in Registered, r \in SUBSET {"read", "write"} :
          e = [conn |-> c, instance |-> instance[c], socket |-> fd[c], ready |-> r]
    BY DEF Reported, Entries
  <2>2. c \in Conn /\ instance[c] \in {0, 1} /\ fd[c] \in Nat
    BY DEF Registered, LoopInv, LoopTypes, TableInv, TableTypes
  <2>3. e.conn = c /\ e.instance = instance[c] /\ e.socket = fd[c] /\ e \in BatchEntry
    BY <2>1, <2>2 DEF BatchEntry
  <2>4. reuses'[c] = 0 /\ instance'[c] = instance[c] /\ fd'[c] = fd[c]
    BY <1>1, <2>2
  <2> QED
    BY <2>3, <2>4 DEF Points
<1>7. PICK b \in [1 .. Cardinality(s) -> {e \in Reported : e.conn \in s}] : batch' = b /\ post' = p
  BY <1>4
<1>8. batch' \in Seq(BatchEntry) /\ (\A i \in DOMAIN batch : Points(batch[i]))'
  <2>1. \A i \in 1 .. Cardinality(s) : b[i] \in Reported
    OBVIOUS
  <2>2. \A i \in 1 .. Cardinality(s) : b[i] \in BatchEntry /\ Points(b[i])'
    BY <1>6, <2>1
  <2>3. b \in [1 .. Cardinality(s) -> BatchEntry] /\ DOMAIN b = 1 .. Cardinality(s)
    BY <2>2
  <2>4. b \in Seq(BatchEntry)
    BY <1>5, <2>3
  <2> QED
    BY <1>7, <2>2, <2>3, <2>4
<1>9. LoopInv'
  <2>1. LoopTypes'
    BY <1>1, <1>7, <1>8 DEF LoopInv, LoopTypes, Stages, NoDelivery, NoFd
  <2>2. EventReachesItsSocket'
    BY <1>1 DEF EventReachesItsSocket, NoDelivery
  <2> QED
    BY <1>1, <1>8, <2>1, <2>2 DEF LoopInv, Idle
<1> QED
  BY <1>2, <1>3, <1>9

LEMMA PhaseSteps ==
    ASSUME IInv, DropStale \/ BatchEnds \/ TimersEnd \/ IterationEnds PROVE IInv'
<1> USE DEF IInv
<1>1. /\ Idle /\ UNCHANGED <<table, queues, drain, post, running, delivered>>
  BY DEF DropStale, BatchEnds, TimersEnd, IterationEnds
<1>2. TableInv' /\ DrainInv'
  BY <1>1, LoopTable DEF table
<1>3. EventInv'
  BY <1>1, EventsSame DEF table, EventInv, EventTypes
<1>4. UNCHANGED <<instance, reuses, fd, posted>>
  BY <1>1 DEF table, queues
<1>5. EventReachesItsSocket' /\ \A e : Points(e) => Points(e)'
  BY <1>1, <1>4 DEF LoopInv, EventReachesItsSocket, Points
<1>6. CASE DropStale
  <2>1. stage' = stage /\ stage = "read" /\ batch # <<>> /\ batch' = Tail(batch)
    BY <1>6 DEF DropStale
  <2>2. /\ batch' \in Seq(BatchEntry)
        /\ \A i \in DOMAIN batch' : i + 1 \in DOMAIN batch /\ batch'[i] = batch[i + 1]
    BY <2>1, HeadTailProperties DEF LoopInv, LoopTypes
  <2> QED
    BY <1>1, <1>2, <1>3, <1>4, <1>5, <2>1, <2>2 DEF LoopInv, LoopTypes, Idle
<1>7. CASE BatchEnds
  BY <1>1, <1>2, <1>3, <1>4, <1>5, <1>7 DEF BatchEnds, LoopInv, LoopTypes, Idle, Stages
<1>8. CASE TimersEnd
  BY <1>1, <1>2, <1>3, <1>4, <1>5, <1>8 DEF TimersEnd, LoopInv, LoopTypes, Idle, Stages
<1>9. CASE IterationEnds
  BY <1>1, <1>2, <1>3, <1>4, <1>5, <1>9 DEF IterationEnds, LoopInv, LoopTypes, Idle, Stages
<1> QED
  BY <1>6, <1>7, <1>8, <1>9

(* An event of the batch is taken as valid: its connection is open, and is *)
(* the one that was reported, or was reused twice by handlers.             *)
LEMMA Delivering ==
    ASSUME IInv, NEW e \in BatchEntry, NEW d \in {"read", "write"}, Deliver(e, d),
           Points(e), ~Stale(e), stage \in {"read", "write"}, Idle,
           UNCHANGED <<fd, active, next, timers, post, reuses>>
    PROVE  /\ EventInv' /\ EventReachesItsSocket'
           /\ delivered' \in [event : Nat, socket : Nat, conn : Conn \cup {NoConn}]
           /\ running' \in Event \cup {NoEvent}
           /\ post => running' = running
<1>1. e.conn \in Conn /\ e.socket \in Nat
  BY DEF BatchEntry
<1>2. <<e.conn, d>> \in Event /\ <<e.conn, d>>[1] = e.conn
  BY <1>1 DEF Event
<1>3. Open(e.conn) /\ instance[e.conn] = e.instance
  BY DEF Stale, Open
<1>4. fd \in [Conn -> Nat] /\ reuses \in [Conn -> Nat]
  BY DEF IInv, TableInv, TableTypes, LoopInv, LoopTypes
<1>5. delivered' = [event |-> e.socket, socket |-> fd[e.conn], conn |-> e.conn]
  BY DEF Deliver
<1>6. delivered' \in [event : Nat, socket : Nat, conn : Conn \cup {NoConn}]
  BY <1>1, <1>4, <1>5
<1>7. EventReachesItsSocket'
  <2>1. CASE fd[e.conn] = e.socket
    BY <1>5, <2>1 DEF EventReachesItsSocket
  <2>2. CASE fd[e.conn] # e.socket
    <3>1. reuses[e.conn] # 0 /\ reuses[e.conn] # 1
      BY <1>3, <2>2 DEF Points, Open
    <3>2. reuses[e.conn] >= 2
      BY <1>1, <1>4, <3>1
    <3>3. ~post
      BY <1>1, <3>1 DEF IInv, LoopInv
    <3> QED
      BY <1>5, <3>2, <3>3 DEF EventReachesItsSocket
  <2> QED
    BY <2>1, <2>2
<1>8. CASE post
  <2>1. /\ posted' = PostEvent(<<e.conn, d>>, posted)
        /\ isPosted' = [isPosted EXCEPT ![<<e.conn, d>>] = TRUE] /\ running' = running
    BY <1>8 DEF Deliver
  <2>2. PICK v \in Event : v = <<e.conn, d>>
    BY <1>2
  <2>3. EventInv'
    BY <1>2, <1>3, <2>1, <2>2, PostedSoon DEF IInv
  <2>4. running' \in Event \cup {NoEvent}
    BY <2>1 DEF IInv, LoopInv, LoopTypes
  <2> QED
    BY <1>6, <1>7, <2>1, <2>3, <2>4
<1>9. CASE ~post
  <2>1. running' = <<e.conn, d>> /\ UNCHANGED <<posted, isPosted>>
    BY <1>9 DEF Deliver
  <2>2. EventInv'
    BY <2>1, EventsSame DEF IInv, queues, EventInv, EventTypes
  <2> QED
    BY <1>2, <1>6, <1>7, <1>9, <2>1, <2>2
<1> QED
  BY <1>8, <1>9

LEMMA ReadStep ==
    ASSUME IInv, ReadPart PROVE IInv'
<1> USE DEF IInv
<1>1. /\ stage = "read" /\ Idle /\ batch # <<>> /\ ~Stale(Head(batch)) /\ stage' = "write"
      /\ UNCHANGED <<table, next, timers, post, batch, drain>>
  BY DEF ReadPart
<1>2. TableInv' /\ DrainInv'
  BY <1>1, LoopTable DEF table
<1>3. PICK e \in BatchEntry : e = Head(batch) /\ Points(e)
  <2>1. 1 \in DOMAIN batch /\ Head(batch) = batch[1] /\ batch[1] \in BatchEntry
    BY <1>1 DEF LoopInv, LoopTypes
  <2> QED
    BY <2>1 DEF LoopInv
<1>4. /\ EventInv' /\ EventReachesItsSocket'
      /\ delivered' \in [event : Nat, socket : Nat, conn : Conn \cup {NoConn}]
      /\ running' \in Event \cup {NoEvent}
      /\ post => running' = running
  <2>1. CASE "read" \in e.ready /\ <<e.conn, "read">> \in active
    <3>1. Deliver(e, "read")
      BY <1>3, <2>1 DEF ReadPart
    <3> QED
      BY <1>1, <1>3, <3>1, Delivering DEF table
  <2>2. CASE ~("read" \in e.ready /\ <<e.conn, "read">> \in active)
    <3>1. UNCHANGED <<delivered, posted, isPosted, running>>
      BY <1>3, <2>2 DEF ReadPart
    <3>2. EventInv'
      BY <1>1, <3>1, EventsSame DEF table, queues, EventInv, EventTypes
    <3> QED
      BY <1>1, <3>1, <3>2 DEF LoopInv, LoopTypes, EventReachesItsSocket, table
  <2> QED
    BY <2>1, <2>2
<1>5. LoopInv'
  <2>1. \A i \in DOMAIN batch : Points(batch[i])'
    BY <1>1 DEF LoopInv, Points, table
  <2>2. LoopTypes'
    BY <1>1, <1>4 DEF LoopInv, LoopTypes, Stages, table
  <2>3. Idle /\ drain' = drain
    BY <1>1
  <2> QED
    BY <1>1, <1>4, <2>1, <2>2, <2>3 DEF LoopInv, Idle, table
<1> QED
  BY <1>2, <1>4, <1>5

LEMMA WriteStep ==
    ASSUME IInv, WritePart PROVE IInv'
<1> USE DEF IInv
<1>1. /\ stage = "write" /\ Idle /\ stage' = "read" /\ batch' = Tail(batch) /\ batch # <<>>
      /\ UNCHANGED <<table, next, timers, post, drain>>
  BY DEF WritePart, LoopInv
<1>2. TableInv' /\ DrainInv'
  BY <1>1, LoopTable DEF table
<1>3. PICK e \in BatchEntry : e = Head(batch) /\ Points(e)
  <2>1. 1 \in DOMAIN batch /\ Head(batch) = batch[1] /\ batch[1] \in BatchEntry
    BY <1>1 DEF LoopInv, LoopTypes
  <2> QED
    BY <2>1 DEF LoopInv
<1>4. /\ EventInv' /\ EventReachesItsSocket'
      /\ delivered' \in [event : Nat, socket : Nat, conn : Conn \cup {NoConn}]
      /\ running' \in Event \cup {NoEvent}
      /\ post => running' = running
  <2>1. CASE "write" \in e.ready /\ <<e.conn, "write">> \in active /\ ~Stale(e)
    <3>1. Deliver(e, "write")
      BY <1>3, <2>1 DEF WritePart
    <3> QED
      BY <1>1, <1>3, <2>1, <3>1, Delivering DEF table
  <2>2. CASE ~("write" \in e.ready /\ <<e.conn, "write">> \in active /\ ~Stale(e))
    <3>1. UNCHANGED <<delivered, posted, isPosted, running>>
      BY <1>3, <2>2 DEF WritePart
    <3>2. EventInv'
      BY <1>1, <3>1, EventsSame DEF table, queues, EventInv, EventTypes
    <3> QED
      BY <1>1, <3>1, <3>2 DEF LoopInv, LoopTypes, EventReachesItsSocket, table
  <2> QED
    BY <2>1, <2>2
<1>5. LoopInv'
  <2>1. /\ batch' \in Seq(BatchEntry)
        /\ \A i \in DOMAIN batch' : i + 1 \in DOMAIN batch /\ batch'[i] = batch[i + 1]
    BY <1>1, HeadTailProperties DEF LoopInv, LoopTypes
  <2>2. \A v : Points(v) => Points(v)'
    BY <1>1 DEF Points, table
  <2>3. (\A i \in DOMAIN batch : Points(batch[i]))'
    BY <2>1, <2>2 DEF LoopInv
  <2>4. LoopTypes'
    BY <1>1, <1>4, <2>1 DEF LoopInv, LoopTypes, Stages, table
  <2> QED
    BY <1>1, <1>4, <2>3, <2>4 DEF LoopInv, Idle, table
<1> QED
  BY <1>2, <1>4, <1>5

(* The handler of an event that timed out or was posted runs.              *)
LEMMA HandlerRuns ==
    ASSUME IInv, Idle, stage \in {"timers", "posted"}, running' \in Event,
           UNCHANGED <<table, post, batch, stage, delivered, drain>>, EventInv'
    PROVE  IInv'
<1>1. TableInv' /\ DrainInv'
  BY LoopTable DEF table
<1>2. EventReachesItsSocket' /\ (\A i \in DOMAIN batch : Points(batch[i]))'
  BY DEF IInv, LoopInv, EventReachesItsSocket, Points, table
<1>3. LoopTypes'
  BY DEF IInv, LoopInv, LoopTypes, table
<1> QED
  BY <1>1, <1>2, <1>3 DEF IInv, LoopInv

LEMMA TimerStep ==
    ASSUME IInv, NEW e \in Event, ExpireTimer(e) PROVE IInv'
<1>1. /\ stage = "timers" /\ Idle /\ timers' = timers \ {e} /\ running' = e
      /\ UNCHANGED <<table, posted, next, isPosted, post, batch, stage, delivered, drain>>
  BY DEF ExpireTimer
<1>2. EventInv'
  BY <1>1, TimerSet DEF IInv, table, EventInv, EventTypes
<1> QED
  BY <1>1, <1>2, HandlerRuns

LEMMA PostedStep ==
    ASSUME IInv, ProcessPosted PROVE IInv'
<1> DEFINE e == Head(posted)
<1>1. /\ stage = "posted" /\ Idle /\ posted # <<>> /\ posted' = Tail(posted)
      /\ isPosted' = [isPosted EXCEPT ![e] = FALSE] /\ running' = e
      /\ UNCHANGED <<table, next, timers, post, batch, stage, delivered, drain>>
  BY DEF ProcessPosted
<1>2. posted \in Seq(Event) /\ IsInjective(posted) /\ isPosted \in [Event -> BOOLEAN]
  BY DEF IInv, EventInv, EventTypes
<1>3. /\ e \in ToSet(posted) /\ posted' \in Seq(Event) /\ IsInjective(posted')
      /\ ToSet(posted') = ToSet(posted) \ {e}
  BY <1>1, <1>2, QueueHead
<1>4. e \in Event
  BY <1>2, <1>3 DEF ToSet
<1> HIDE DEF e
<1>5. isPosted' \in [Event -> BOOLEAN] /\ \A v \in Event : isPosted'[v] <=> isPosted[v] /\ v # e
  BY <1>1, <1>2
<1>6. EventInv'
  <2>1. EventTypes' /\ TimersAlive'
    BY <1>1, <1>3, <1>5 DEF IInv, EventInv, EventTypes, TimersAlive, IsListening, Open, table
  <2>2. /\ ToSet(posted') \cap ToSet(next') = {}
        /\ ToSet(posted') \cup ToSet(next') = {v \in Event : isPosted'[v]}
    BY <1>1, <1>3, <1>5 DEF IInv, EventInv
  <2>3. (\A v \in Event : isPosted[v] => Open(v[1]))'
    BY <1>1, <1>5 DEF IInv, EventInv, Open, table
  <2> QED
    BY <1>1, <1>3, <2>1, <2>2, <2>3 DEF IInv, EventInv, IsListening, Client, table
<1> QED
  BY <1>1, <1>4, <1>6, HandlerRuns

(* ngx_close_listening_sockets                                             *)
LEMMA CloseListeningStep ==
    ASSUME IInv, CloseListening PROVE IInv'
<1> USE DEF IInv
<1> DEFINE l == [i \in 1 .. Listening |-> Listening + 1 - i]
<1>1. /\ stage = "wait" /\ Idle /\ \A c \in 1 .. Listening : fd[c] = c
      /\ active' = active \ UNION {EventsOf(c) : c \in 1 .. Listening}
      /\ fd' = [c \in Conn |-> IF c <= Listening THEN NoFd ELSE fd[c]]
      /\ freelist' = l \o freelist /\ freeN' = freeN + Listening
      /\ UNCHANGED <<instance, queue, reusable, lingering, sockets, reuses, queues, loop, drain>>
  BY DEF CloseListening
<1>2. /\ Listening \in Nat /\ 1 .. Listening \subseteq Conn /\ Conn \subseteq Nat
      /\ NoFd = 0
  BY PartsAssumption DEF ConnectionsAssumption, Conn, NoFd
<1>3. /\ l \in Seq(Conn) /\ IsInjective(l) /\ ToSet(l) = 1 .. Listening
      /\ Len(l) = Listening
  <2>1. DOMAIN l = 1 .. Listening
    OBVIOUS
  <2>2. \A i \in 1 .. Listening : Listening + 1 - i \in 1 .. Listening
    BY <1>2
  <2>3. l \in Seq(Conn)
    <3>1. l \in [1 .. Listening -> Conn]
      BY <1>2, <2>2
    <3> QED
      BY <1>2, <3>1
  <2>4. Len(l) = Listening
    BY <1>2, <2>1, <2>3
  <2>5. IsInjective(l)
    <3>1. \A i, j \in 1 .. Listening : Listening + 1 - i = Listening + 1 - j => i = j
      BY <1>2
    <3> QED
      BY <2>1, <3>1 DEF IsInjective
  <2>6. ToSet(l) = 1 .. Listening
    <3>1. ASSUME NEW c \in 1 .. Listening PROVE c \in ToSet(l)
      <4>1. Listening + 1 - c \in 1 .. Listening /\ Listening + 1 - (Listening + 1 - c) = c
        BY <1>2
      <4>2. l[Listening + 1 - c] = c
        BY <4>1
      <4> QED
        BY <2>1, <4>1, <4>2 DEF ToSet
    <3>2. ToSet(l) \subseteq 1 .. Listening
      BY <2>1, <2>2 DEF ToSet
    <3> QED
      BY <3>1, <3>2
  <2> QED
    BY <2>3, <2>4, <2>5, <2>6
<1> HIDE DEF l
<1>4. /\ freelist \in Seq(Conn) /\ IsInjective(freelist)
      /\ ToSet(freelist) = {c \in Conn : fd[c] = NoFd} /\ freeN = Len(freelist)
      /\ fd \in [Conn -> Nat]
  BY DEF TableInv, TableTypes, FreeListExact
<1>5. ToSet(l) \cap ToSet(freelist) = {}
  BY <1>1, <1>2, <1>3, <1>4
<1>6. /\ freelist' \in Seq(Conn) /\ IsInjective(freelist')
      /\ ToSet(freelist') = ToSet(l) \cup ToSet(freelist)
      /\ Len(freelist') = Listening + Len(freelist)
  <2>1. /\ l \o freelist \in Seq(Conn) /\ IsInjective(l \o freelist)
        /\ ToSet(l \o freelist) = ToSet(l) \cup ToSet(freelist)
    BY SMTT(30), <1>3, <1>4, <1>5, QueueJoin
  <2>2. Len(l \o freelist) = Len(l) + Len(freelist)
    BY <1>3, <1>4
  <2> QED
    BY <1>1, <1>3, <2>1, <2>2
<1>7. /\ \A c \in Conn : fd'[c] = IF c \in 1 .. Listening THEN NoFd ELSE fd[c]
      /\ fd' \in [Conn -> Nat]
  BY <1>1, <1>2, <1>4 DEF Conn
<1>8. ASSUME NEW c \in Conn
      PROVE  /\ Client(c) => Client(c)'
             /\ IsListening(c)' => IsListening(c)
             /\ c \in 1 .. Listening => ~IsListening(c)'
             /\ Open(c) => Open(c)' \/ c \in 1 .. Listening
  <2>1. CASE c \in 1 .. Listening
    BY <1>1, <1>2, <1>7, <2>1 DEF Client, Open, IsListening
  <2>2. CASE c \notin 1 .. Listening
    BY <1>7, <2>2 DEF Client, Open, IsListening
  <2> QED
    BY <2>1, <2>2
<1>9. TableInv'
  <2>1. FreeListExact'
    <3>1. ToSet(freelist') = {c \in Conn : fd'[c] = NoFd}
      BY <1>2, <1>3, <1>4, <1>6, <1>7
    <3>2. freeN' = Len(freelist')
      BY <1>1, <1>2, <1>4, <1>6
    <3> QED
      BY <1>6, <3>1, <3>2 DEF FreeListExact
  <2>2. \A c \in Conn : reusable'[c] => Client(c)' /\ Open(c)'
    BY <1>1, <1>2, <1>8 DEF TableInv, Client, Open
  <2> QED
    BY <1>1, <1>6, <1>7, <2>1, <2>2 DEF TableInv, TableTypes, ReusableExact
<1>10. EventInv'
  <2>1. EventTypes'
    BY <1>1 DEF EventInv, EventTypes, queues
  <2>2. \A e \in Event : e[1] \in Conn
    BY EventParts
  <2>3. TimersAlive' /\ (\A e \in timers : IsListening(e[1]) => e \in AcceptRetry)'
    <3>1. ASSUME NEW e \in timers
          PROVE  /\ Open(e[1])' \/ (e \in AcceptRetry /\ ~IsListening(e[1])')
                 /\ IsListening(e[1])' => e \in AcceptRetry
      <4>1. e \in Event /\ e[1] \in Conn
        BY <2>2 DEF EventInv, EventTypes
      <4>2. /\ Open(e[1]) \/ (e \in AcceptRetry /\ ~IsListening(e[1]))
            /\ IsListening(e[1]) => e \in AcceptRetry
        BY DEF EventInv, TimersAlive
      <4>3. CASE e[1] \in 1 .. Listening
        <5>1. IsListening(e[1])
          BY <1>1, <4>3 DEF IsListening
        <5> QED
          BY <1>8, <4>1, <4>2, <4>3, <5>1
      <4>4. CASE e[1] \notin 1 .. Listening
        BY <1>8, <4>1, <4>2, <4>4
      <4> QED
        BY <4>3, <4>4
    <3> QED
      BY <1>1, <3>1 DEF TimersAlive, AcceptRetry, queues
  <2>4. (\A e \in ToSet(next) : Client(e[1]))'
    <3>1. ToSet(next) \subseteq Event
      BY DEF EventInv, EventTypes, ToSet
    <3> QED
      BY <1>1, <1>8, <2>2, <3>1 DEF EventInv, queues
  <2>5. (\A e \in Event : isPosted[e] => Open(e[1]))'
    <3>1. ToSet(posted) = {}
      BY <1>1 DEF LoopInv, ToSet
    <3>2. ASSUME NEW e \in Event, isPosted[e] PROVE Open(e[1])'
      <4>1. Client(e[1])
        BY <3>1, <3>2 DEF EventInv
      <4>2. Client(e[1])'
        BY <1>8, <2>2, <4>1
      <4> QED
        BY <1>2, <4>2 DEF Client, Open
    <3> QED
      BY <1>1, <3>2 DEF queues
  <2> QED
    BY <1>1, <2>1, <2>3, <2>4, <2>5 DEF EventInv, queues
<1>11. LoopInv' /\ DrainInv'
  <2>1. \A c \in Conn : fd'[c] = fd[c] \/ fd'[c] = NoFd
    BY <1>7
  <2>2. ASSUME NEW i \in DOMAIN batch PROVE Points(batch[i])'
    <3>1. batch[i] \in BatchEntry /\ Points(batch[i])
      BY DEF LoopInv, LoopTypes
    <3>2. batch[i].conn \in Conn
      BY <3>1 DEF BatchEntry
    <3> QED
      BY <1>1, <2>1, <3>1, <3>2 DEF Points, loop
  <2>3. LoopTypes' /\ EventReachesItsSocket'
    BY <1>1 DEF LoopInv, LoopTypes, EventReachesItsSocket, loop
  <2>4. DrainInv'
    BY <1>1, NotDraining DEF Idle
  <2> QED
    BY <1>1, <2>2, <2>3, <2>4 DEF LoopInv, Idle, loop, queues
<1> QED
  BY <1>9, <1>10, <1>11

-----------------------------------------------------------------------------
(* The table is exact.                                                     *)

LEMMA Initially == Init => IInv
<1> SUFFICES ASSUME Init PROVE IInv
  OBVIOUS
<1> DEFINE l == [i \in 1 .. N - Listening |-> Listening + i]
<1>1. /\ N \in Nat /\ Listening \in 0 .. N /\ Listening \in Nat /\ N - Listening \in Nat
      /\ Conn = 1 .. N /\ NoFd = 0
  BY PartsAssumption DEF ConnectionsAssumption, Conn, NoFd
<1>2. /\ fd = [c \in Conn |-> IF c <= Listening THEN c ELSE NoFd] /\ freelist = l
      /\ freeN = N - Listening /\ queue = <<>> /\ reusable = [c \in Conn |-> FALSE]
      /\ lingering = {} /\ sockets = Listening
  BY DEF Init
<1>3. TableInv
  <2>1. DOMAIN l = 1 .. N - Listening /\ \A i \in 1 .. N - Listening : l[i] = Listening + i
    OBVIOUS
  <2>2. \A i \in 1 .. N - Listening : Listening + i \in Listening + 1 .. N
    BY <1>1
  <2>3. l \in Seq(Conn) /\ Len(l) = N - Listening
    <3>1. l \in [1 .. N - Listening -> Conn]
      BY <1>1, <2>2
    <3> QED
      BY <1>1, <3>1
  <2> HIDE DEF l
  <2>4. IsInjective(l)
    BY <1>1, <2>1 DEF IsInjective
  <2>5. ToSet(l) = Listening + 1 .. N
    <3>1. ASSUME NEW c \in Listening + 1 .. N PROVE c \in ToSet(l)
      <4>1. c - Listening \in 1 .. N - Listening /\ Listening + (c - Listening) = c
        BY <1>1
      <4> QED
        BY <2>1, <4>1 DEF ToSet
    <3> QED
      BY <2>1, <2>2, <3>1 DEF ToSet
  <2>6. {c \in Conn : fd[c] = NoFd} = Listening + 1 .. N
    BY <1>1, <1>2
  <2>7. FreeListExact
    BY <1>2, <2>3, <2>4, <2>5, <2>6 DEF FreeListExact
  <2>8. ReusableExact /\ \A c \in Conn : reusable[c] => Client(c)
    BY <1>2 DEF ReusableExact, IsInjective, ToSet
  <2>9. TableTypes
    <3>1. fd \in [Conn -> Nat]
      BY <1>1, <1>2
    <3> QED
      BY <1>1, <1>2, <2>3, <3>1 DEF TableTypes
  <2> QED
    BY <2>7, <2>8, <2>9 DEF TableInv
<1>4. EventInv
  <2>1. active \subseteq Event
    BY <1>1 DEF Init, Event
  <2> QED
    BY <2>1 DEF Init, EventInv, EventTypes, TimersAlive, IsInjective, ToSet
<1>5. LoopInv
  <2>1. instance \in [Conn -> {0, 1}] /\ reuses \in [Conn -> Nat] /\ drain = NoDrain
    BY DEF Init
  <2>2. LoopTypes /\ EventReachesItsSocket
    <3>1. drain \in [at : {"no", "loop", "again", "take"}, left : Nat, last : Conn \cup {NoConn},
                     could : BOOLEAN]
      BY <2>1 DEF NoDrain
    <3>2. /\ delivered \in [event : Nat, socket : Nat, conn : Conn \cup {NoConn}]
          /\ delivered.event = delivered.socket
      BY DEF Init, NoDelivery, NoFd
    <3>3. post \in BOOLEAN
      BY Zenon DEF Init
    <3>4. stage \in Stages /\ running \in Event \cup {NoEvent}
      BY DEF Init, Stages
    <3>5. batch \in Seq(BatchEntry)
      BY DEF Init
    <3> QED
      BY <2>1, <3>1, <3>2, <3>3, <3>4, <3>5 DEF LoopTypes, EventReachesItsSocket
  <2> QED
    BY <2>2 DEF Init, LoopInv, Idle
<1>6. DrainInv
  BY DEF Init, DrainInv, FailsOnlyWhenExhausted, NoDrain
<1> QED
  BY <1>3, <1>4, <1>5, <1>6 DEF IInv

LEMMA Inductive == IInv /\ [Next]_vars => IInv'
<1> SUFFICES ASSUME IInv, [Next]_vars PROVE IInv'
  OBVIOUS
<1>1. CASE UNCHANGED vars
  <2>1. UNCHANGED <<table, queues, loop, drain>>
    BY <1>1 DEF vars
  <2>2. TableInv' /\ EventInv'
    BY <2>1, TableSame, EventsSame DEF IInv, EventInv, EventTypes, table
  <2>3. LoopInv' /\ DrainInv'
    BY <2>1 DEF IInv, LoopInv, LoopTypes, EventReachesItsSocket, Points, Idle, DrainInv,
       FailsOnlyWhenExhausted, Promising, table, queues, loop
  <2> QED
    BY <2>2, <2>3 DEF IInv
<1>2. CASE Handler
  BY <1>2, HandlerSteps, HandlerEventSteps, AcceptFailure, GetsStep, DrainOneStep, DrainEndsStep,
     DrainAgainStep, TakeStep, TakeFailsStep DEF Handler
<1>3. CASE Loop
  BY <1>3, EpollStep, PhaseSteps, ReadStep, WriteStep, TimerStep, PostedStep, CloseListeningStep
  DEF Loop
<1> QED
  BY <1>1, <1>2, <1>3 DEF Next

(* A posted event waits in one queue, once.                                *)
LEMMA PostedOnce ==
    ASSUME EventInv PROVE PostedAlive
<1>1. /\ posted \in Seq(Event) /\ next \in Seq(Event) /\ IsInjective(posted) /\ IsInjective(next)
      /\ ToSet(posted) \cap ToSet(next) = {}
  BY DEF EventInv, EventTypes
<1>2. IsInjective(posted \o next) /\ ToSet(posted \o next) = ToSet(posted) \cup ToSet(next)
  BY <1>1, QueueJoin
<1> QED
  BY <1>2 DEF EventInv, PostedAlive

(* The behaviours of the table in the specification of the run.            *)
LEMMA TablePart == MCSpec => Init /\ [][Next]_vars
<1>1. MCInit => Init
  BY DEF MCInit
<1>2. [MCNext]_<<vars, acceptVars, part>> => [Next]_vars
  BY DEF MCNext, Accepting
<1> QED
  BY <1>1, <1>2, PTL DEF MCSpec

THEOREM TableInvariance == MCSpec => []IInv
BY TablePart, Initially, Inductive, PTL

(* ngx_get_connection, ngx_free_connection and ngx_reusable_connection     *)
(* keep the free list, its length and the queue of reusable connections    *)
(* exact; no posted event and no timer is left of a closed connection; and *)
(* a connection is refused only if there was none to free.                 *)
THEOREM TableIsExact == MCSpec => []TableExact
<1>1. IInv => TableExact
  BY PostedOnce DEF IInv, TableInv, EventInv, LoopInv, DrainInv, TableExact
<1> QED
  BY <1>1, TableInvariance, PTL

(* An event that epoll_wait reported reaches the socket it was registered  *)
(* for, whatever handlers of the same batch close and reuse, but for the   *)
(* connection reused twice, which one instance bit cannot tell apart.      *)
THEOREM EventsReachTheirSocket == MCSpec => []EventReachesItsSocket
BY TableInvariance, PTL DEF IInv, LoopInv

-----------------------------------------------------------------------------
(***************************************************************************)
(* The accept mutex, for any number of workers and clients, with errors,   *)
(* quits and deaths at any point.                                          *)
(***************************************************************************)
Labels == {"top", "wait", "accept", "unlock", "serve", "quit", "dead"}

Shape ==
    /\ mutex \in BOOLEAN
    /\ owner \in Workers \cup {Acc!None}
    /\ pc \in [Workers -> Labels]
    /\ held \in [Workers -> BOOLEAN] /\ enabled \in [Workers -> BOOLEAN]
    /\ use \in [Workers -> BOOLEAN]
    /\ timer \in [Workers -> BOOLEAN] /\ timedout \in [Workers -> BOOLEAN]
    /\ posting \in [Workers -> BOOLEAN] /\ capped \in [Workers -> BOOLEAN]
    /\ disabled \in [Workers -> Int] /\ free \in [Workers -> 0 .. ConnN]

(* The flags that choose between the two ways of handling an error.        *)
Modes ==
    \A w \in Workers : /\ Acc!Listens(w) => use[w] = mutex
                       /\ posting[w] => mutex
                       /\ timer[w] => ~mutex

(* Whoever owns the mutex still knows it, so that it will release it.      *)
OwnerKnows ==
    \A w \in Workers : owner = w /\ pc[w] # "dead" => held[w]

FlagsInv ==
    /\ Shape /\ Modes /\ OwnerKnows
    /\ Acc!MutexOnlyWhileAccepting /\ Acc!HeldMeansEnabled /\ Acc!PostsAsOwner

(* The initial states satisfy the invariant.                               *)
LEMMA InitFlags == Acc!Init => FlagsInv
  <1> SUFFICES ASSUME Acc!Init PROVE FlagsInv
    OBVIOUS
  <1>1. Shape
    BY PartsAssumption DEF Acc!SizesAssumption, Acc!Init, Shape, Labels
  <1>2. Modes
    BY DEF Acc!Init, Modes
  <1>3. OwnerKnows /\ Acc!MutexOnlyWhileAccepting
    BY PartsAssumption DEF Acc!NoneAssumption, Acc!Init, OwnerKnows, Acc!MutexOnlyWhileAccepting
  <1>4. Acc!PostsAsOwner
    BY DEF Acc!Init, Acc!PostsAsOwner
  <1>5. Acc!HeldMeansEnabled
    <2>1. CASE mutex = TRUE
      BY <2>1 DEF Acc!Init, Acc!HeldMeansEnabled
    <2>2. CASE mutex = FALSE
      BY <2>2 DEF Acc!Init, Acc!HeldMeansEnabled
    <2> QED BY <2>1, <2>2 DEF Acc!Init
  <1> QED BY <1>1, <1>2, <1>3, <1>4, <1>5 DEF FlagsInv

(* The head of an iteration preserves the invariant.                       *)
LEMMA LockFlags == ASSUME NEW w \in Workers, FlagsInv, Acc!Lock(w),
      mutex' = mutex PROVE FlagsInv'
  <1> USE PartsAssumption DEF Acc!NoneAssumption, FlagsInv, Shape, Modes, OwnerKnows,
        Acc!MutexOnlyWhileAccepting,
          Acc!HeldMeansEnabled, Acc!PostsAsOwner, Labels, Acc!Listens, Acc!Goto, Acc!bounds,
          Acc!locals
  <1>1. CASE Acc!NoMutex(w)
    BY <1>1 DEF Acc!NoMutex
  <1>2. CASE Acc!BackOff(w)
    BY <1>2 DEF Acc!BackOff
  <1>3. CASE Acc!TryLock(w)
    BY <1>3 DEF Acc!TryLock
  <1>4. CASE Acc!TryLockFails(w)
    BY <1>4 DEF Acc!TryLockFails
  <1> QED BY <1>1, <1>2, <1>3, <1>4 DEF Acc!Lock

(* The rest of an iteration preserves the invariant.                       *)
LEMMA TurnFlags == ASSUME NEW w \in Workers, FlagsInv, Acc!Turn(w),
      mutex' = mutex PROVE FlagsInv'
  <1> USE PartsAssumption DEF Acc!NoneAssumption, Acc!SizesAssumption, FlagsInv, Shape, Modes,
        OwnerKnows,
          Acc!MutexOnlyWhileAccepting, Acc!HeldMeansEnabled, Acc!PostsAsOwner, Labels,
          Acc!Listens, Acc!Goto,
          Acc!bounds, Acc!locals, Acc!Unlock
  <1>1. CASE Acc!Wait(w)
    BY <1>1 DEF Acc!Wait
  <1>2. CASE Acc!AcceptAgain(w)
    BY <1>2 DEF Acc!AcceptAgain
  <1>3. CASE Acc!Accept(w)
    BY <1>3 DEF Acc!Accept
  <1>4. CASE Acc!ReleaseMutex(w)
    BY <1>4 DEF Acc!ReleaseMutex
  <1>5. CASE Acc!RetryTimer(w)
    BY <1>5 DEF Acc!RetryTimer
  <1>6. CASE Acc!Serve(w)
    BY <1>6 DEF Acc!Serve
  <1>7. CASE Acc!Respawn(w)
    BY <1>7 DEF Acc!Respawn
  <1>8. CASE Acc!Lock(w)
    BY <1>8, LockFlags
  <1> QED BY <1>1, <1>2, <1>3, <1>4, <1>5, <1>6, <1>7, <1>8 DEF Acc!Turn

(* Failures, deaths and quits preserve the invariant.                      *)
LEMMA FaultFlags == ASSUME NEW w \in Workers, FlagsInv, Acc!Fault(w) \/ Acc!Quit(w),
      mutex' = mutex PROVE FlagsInv'
  <1> USE PartsAssumption DEF Acc!NoneAssumption, Acc!SizesAssumption, FlagsInv, Shape, Modes,
        OwnerKnows,
          Acc!MutexOnlyWhileAccepting, Acc!HeldMeansEnabled, Acc!PostsAsOwner, Labels,
          Acc!Listens, Acc!Goto,
          Acc!bounds, Acc!locals, Acc!Unlock
  <1>1. CASE Acc!TryLockEnableFails(w)
    BY <1>1 DEF Acc!TryLockEnableFails
  <1>2. CASE Acc!TryLockDisableFails(w)
    BY <1>2 DEF Acc!TryLockDisableFails
  <1>3. CASE Acc!AcceptFails(w)
    <2>1. CASE use[w]
      <3>1. /\ pc' = [pc EXCEPT ![w] = "unlock"] /\ pc[w] = "accept"
            /\ enabled' = [enabled EXCEPT ![w] = FALSE]
            /\ held' = [held EXCEPT ![w] = FALSE]
            /\ disabled' = [disabled EXCEPT ![w] = 1]
            /\ owner' = IF owner = w THEN Acc!None ELSE owner
            /\ UNCHANGED <<timer, timedout, use, posting, capped, free>>
        BY <1>3, <2>1 DEF Acc!AcceptFails
      <3>2. Shape'
        BY <3>1
      <3>3. Modes' /\ OwnerKnows' /\ Acc!MutexOnlyWhileAccepting' /\ Acc!PostsAsOwner'
        BY <3>1
      <3>4. Acc!HeldMeansEnabled'
        BY <3>1
      <3> QED BY <3>2, <3>3, <3>4
    <2>2. CASE ~use[w]
      <3>1. ~mutex
        BY <1>3, <2>2 DEF Acc!AcceptFails
      <3> QED BY <1>3, <2>2, <3>1 DEF Acc!AcceptFails
    <2> QED BY <2>1, <2>2
  <1>4. CASE Acc!Die(w)
    BY <1>4 DEF Acc!Die
  <1>5. CASE Acc!Quit(w)
    BY <1>5 DEF Acc!Quit
  <1>6. CASE Acc!AcceptDisableFails(w)
    BY <1>6 DEF Acc!AcceptDisableFails
  <1>7. CASE Acc!RetryTimerFails(w)
    BY <1>7 DEF Acc!RetryTimerFails
  <1> QED BY <1>1, <1>2, <1>3, <1>4, <1>5, <1>6, <1>7 DEF Acc!Fault

(* Every step preserves the invariant.                                     *)
LEMMA NextFlags == FlagsInv /\ [Acc!Next]_Acc!vars => FlagsInv'
  <1> SUFFICES ASSUME FlagsInv, [Acc!Next]_Acc!vars PROVE FlagsInv'
    OBVIOUS
  <1>1. CASE Acc!Connect /\ UNCHANGED Acc!config
    BY <1>1 DEF Acc!config, Acc!Connect, FlagsInv, Shape, Modes, OwnerKnows,
          Acc!MutexOnlyWhileAccepting,
                Acc!HeldMeansEnabled, Acc!PostsAsOwner, Acc!Listens, Acc!locals
  <1>2. CASE UNCHANGED Acc!vars
    BY <1>2 DEF Acc!vars, FlagsInv, Shape, Modes, OwnerKnows, Acc!MutexOnlyWhileAccepting,
                Acc!HeldMeansEnabled, Acc!PostsAsOwner, Acc!Listens, Acc!locals, Acc!config
  <1> QED BY <1>1, <1>2, TurnFlags, FaultFlags DEF Acc!Next, Acc!config

(* The behaviours of the workers in the specification of the run.          *)
LEMMA AcceptPart == MCSpec => Acc!Init /\ [][Acc!Next]_Acc!vars
<1>1. MCInit => Acc!Init
  BY DEF MCInit
<1>2. [MCNext]_<<vars, acceptVars, part>> => [Acc!Next]_Acc!vars
  BY DEF MCNext, Accepting, acceptVars, Acc!vars, Acc!config, Acc!locals, Acc!bounds
<1> QED
  BY <1>1, <1>2, PTL DEF MCSpec

THEOREM FlagsInvariance == MCSpec => []FlagsInv
BY AcceptPart, InitFlags, NextFlags, PTL

(* The mutex is owned across epoll_wait and the accept handler only, and   *)
(* never while a worker serves its connections (the order of unlock,       *)
(* timers and posted events in ngx_process_events_and_timers).             *)
THEOREM MutexReleased == MCSpec => []Acc!MutexOnlyWhileAccepting
BY FlagsInvariance, PTL DEF FlagsInv

(* ngx_accept_mutex_held is exactly the registration of the accept events, *)
(* and no worker releases the mutex under another one that locked it in    *)
(* its current iteration.                                                  *)
THEOREM FlagsAreExact == MCSpec => []FlagsExact
BY FlagsInvariance, PTL DEF FlagsInv, FlagsExact, Acc!FlagsExact
=============================================================================
