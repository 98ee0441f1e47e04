------------------------------ MODULE LimitReq ------------------------------
(***************************************************************************)
(* limit_req: requests admitted by key at a rate, with a burst, in several *)
(* shared zones.  A request is looked up in its limits one after the other *)
(* and charged only when all of them let it pass: by the last one at once, *)
(* by the others afterwards, in the reverse order.  In between a count     *)
(* keeps the nodes of the others in memory.                                *)
(*                                                                         *)
(* Each worker has its own idea of the time, which lags behind the clock   *)
(* while the worker is busy.  The numbers of the code (1000 for a request, *)
(* 1000 ms in a second, 60000 ms) are constants here.                      *)
(***************************************************************************)
EXTENDS Integers, Sequences, FiniteSets, FiniteSetsExt, SequencesExt, Queues

CONSTANTS
    Workers,
    Keys,
    Nodes,      \* places for a node in each zone
    Unit,       \* parts of a request
    Boot,       \* the clock when the workers start
    Nil,
    Rates   \* the configurations and surroundings a behaviour may have

(***************************************************************************)
(* A scenario has the limits, in the order of the configuration, each with *)
(* a zone of its own: what a node loses in a second, in parts of a request *)
(* (rate), and the burst; second and minute, the code's units of time      *)
(* (entries younger than a minute stay); the workers, keys and nodes there *)
(* are; and bounds: the last time, the lag of a worker's time, the workers *)
(* that die (crashes).                                                     *)
(***************************************************************************)
ASSUME LimitReqAssumption ==
    /\ IsFiniteSet(Workers)
    /\ Nil \notin Keys \cup Nodes /\ {Unit, Boot} \subseteq Nat \ {0}
    /\ \A s \in Rates :
        /\ s.rate \in Seq(Nat \ {0}) /\ s.burst \in Seq(Nat)
        /\ Len(s.rate) > 0 /\ Len(s.burst) = Len(s.rate)
        /\ {s.second, s.minute} \subseteq Nat \ {0} /\ {s.time, s.lag, s.crashes} \subseteq Nat
        /\ s.workers \subseteq Workers /\ s.keys \subseteq Keys /\ s.nodes \subseteq Nodes
        /\ s.lag <= s.minute

VARIABLES
    limits,     \* the scenario of this behaviour
    zone,     \* zone[z]: the nodes, and their queue from the newest to the oldest
    now,      \* the clock
    msec,     \* msec[w]: ngx_current_msec of a worker
    phase,
    place,       \* place[w]: the limit in hand
    node,     \* node[w][z]: ctx->node, the node counted in zone z
    mine,     \* mine[w][z]: the key of that node when it was found (ghost)
    leaked,   \* leaked[z][n]: counts of dead workers (ghost)
    crashes

vars == <<limits, zone, now, msec, phase, place, node, mine, leaked, crashes>>

Limits == Len(limits.rate)
Zones == 1 .. Limits

FreeNode == [key |-> Nil, excess |-> 0, last |-> 0, count |-> 0, first |-> 0, taken |-> 0]
Nothing == [z \in Zones |-> Nil]

Init ==
    /\ limits \in Rates
    /\ zone = [z \in Zones |-> [nodes |-> [n \in Nodes |-> FreeNode], queue |-> <<>>]]
    /\ now = Boot /\ msec = [w \in Workers |-> Boot]
    /\ phase = [w \in Workers |-> "idle"] /\ place = [w \in Workers |-> 1]
    /\ node = [w \in Workers |-> Nothing] /\ mine = [w \in Workers |-> Nothing]
    /\ leaked = [z \in Zones |-> [n \in Nodes |-> 0]] /\ crashes = 0

-----------------------------------------------------------------------------
(* The leaky bucket.                                                       *)

Drain(z, ms) == (limits.rate[z] * ms) \div limits.second

(* Time that has passed for a node; small steps back count for nothing.    *)
Elapsed(lr, t) ==
    CASE t - lr.last < -limits.minute -> 1
      [] t - lr.last < 0 /\ t - lr.last >= -limits.minute -> 0
      [] OTHER -> t - lr.last

Excess(z, lr, t) == Max({0, lr.excess - Drain(z, Elapsed(lr, t)) + Unit})

(* A request is charged to a node; the time of a node does not go back.    *)
ChargeAnyTime(z, lr, t) ==
    [lr EXCEPT !.excess = Excess(z, lr, t), !.last = t,
               !.first = IF lr.taken = 0 THEN t ELSE @, !.taken = @ + 1]

Charge(z, lr, t) ==
    [lr EXCEPT !.excess = Excess(z, lr, t), !.last = IF Elapsed(lr, t) = 0 THEN @ ELSE t,
               !.first = IF lr.taken = 0 THEN t ELSE @, !.taken = @ + 1]

(* ngx_http_limit_req_expire: the oldest node goes when nobody counts on   *)
(* it and, unless forced, it is old and empty.                             *)
Abs(i) == IF i < 0 THEN -i ELSE i

InUseNever(lr) == FALSE
InUse(lr) == lr.count > 0

ExpireOldest(z, q, t, force) ==
    LET lr == q.nodes[Last(q.queue)]
        ms == Abs(t - lr.last)
    IN IF /\ q.queue # <<>> /\ ~InUse(lr)
          /\ force \/ (ms >= limits.minute /\ lr.excess <= Drain(z, ms))
       THEN [nodes |-> [q.nodes EXCEPT ![Last(q.queue)] = FreeNode], queue |-> Front(q.queue)]
       ELSE q

ExpireEmpty(z, q, t) == ExpireOldest(z, ExpireOldest(z, q, t, FALSE), t, FALSE)
ExpireForced(z, q, t) == ExpireEmpty(z, ExpireOldest(z, q, t, TRUE), t)

Room(q) == {n \in limits.nodes : q.nodes[n].key = Nil}

(* Memory for a new node: an empty node may go, then the oldest has to.    *)
MakeRoom(z, q, t) ==
    LET e == ExpireEmpty(z, q, t) IN IF Room(e) # {} THEN e ELSE ExpireForced(z, e, t)

-----------------------------------------------------------------------------
(* ngx_http_limit_req_handler *)

Start(w) ==
    /\ phase[w] = "idle"
    /\ phase' = [phase EXCEPT ![w] = "lookup"] /\ place' = [place EXCEPT ![w] = 1]
    /\ UNCHANGED <<zone, now, msec, node, mine, leaked, crashes>>

(* After a limit the next one; after the last one the others are charged.  *)
NextLimit(w) ==
    IF place[w] = Limits THEN phase' = [phase EXCEPT ![w] = "account"] /\ place' = place
    ELSE place' = [place EXCEPT ![w] = @ + 1] /\ phase' = phase

(* An empty key is not limited.                                            *)
Skip(w) ==
    /\ phase[w] = "lookup"
    /\ NextLimit(w)
    /\ UNCHANGED <<zone, now, msec, node, mine, leaked, crashes>>

Find(q, k) == {n \in Nodes : q.nodes[n].key = k}

ToHeadTwice(q, n) == [q EXCEPT !.queue = <<n>> \o q.queue]
ToHead(q, n) == [q EXCEPT !.queue = <<n>> \o Without(q.queue, n)]

(* ngx_http_limit_req_lookup: the last limit charges the request, the      *)
(* others count it.                                                        *)
LookupFound(w, k, n) ==
    /\ phase[w] = "lookup" /\ n \in Find(zone[place[w]], k)
    /\ LET z == place[w]
           q == ToHead(zone[z], n)
       IN /\ Excess(z, q.nodes[n], msec[w]) <= limits.burst[z]
          /\ IF z = Limits
             THEN /\ zone' = [zone EXCEPT ![z] =
                                [q EXCEPT !.nodes[n] = Charge(z, @, msec[w])]]
                  /\ UNCHANGED <<node, mine>>
             ELSE /\ zone' = [zone EXCEPT ![z] = [q EXCEPT !.nodes[n].count = @ + 1]]
                  /\ node' = [node EXCEPT ![w][z] = n] /\ mine' = [mine EXCEPT ![w][z] = k]
    /\ NextLimit(w)
    /\ UNCHANGED <<now, msec, leaked, crashes>>

LookupNew(w, k, n) ==
    /\ phase[w] = "lookup" /\ Find(zone[place[w]], k) = {}
    /\ LET z == place[w]
           q == MakeRoom(z, zone[z], msec[w])
           new == IF z = Limits
                  THEN [FreeNode EXCEPT !.key = k, !.last = msec[w], !.first = msec[w], !.taken = 1]
                  ELSE [FreeNode EXCEPT !.key = k, !.count = 1]
       IN /\ n \in Room(q)
          /\ zone' = [zone EXCEPT ![z] = [nodes |-> [q.nodes EXCEPT ![n] = new],
                                          queue |-> <<n>> \o q.queue]]
          /\ IF z = Limits THEN UNCHANGED <<node, mine>>
             ELSE node' = [node EXCEPT ![w][z] = n] /\ mine' = [mine EXCEPT ![w][z] = k]
    /\ NextLimit(w)
    /\ UNCHANGED <<now, msec, leaked, crashes>>

(* Refused: the burst is used up, or there is no memory.                   *)
LookupBusy(w, k) ==
    /\ phase[w] = "lookup"
    /\ LET z == place[w]
           q == MakeRoom(z, zone[z], msec[w])
       IN \/ \E n \in Find(zone[z], k) :
               /\ Excess(z, zone[z].nodes[n], msec[w]) > limits.burst[z]
               /\ zone' = [zone EXCEPT ![z] = ToHead(@, n)]
          \/ /\ Find(zone[z], k) = {} /\ Room(q) = {}
             /\ zone' = [zone EXCEPT ![z] = q]
    /\ phase' = [phase EXCEPT ![w] = "unlock"]
    /\ UNCHANGED <<now, msec, place, node, mine, leaked, crashes>>

(* The key cannot be computed: the counts are given back.                  *)
KeyFails(w) ==
    /\ phase[w] = "lookup"
    /\ phase' = [phase EXCEPT ![w] = "unlock"]
    /\ UNCHANGED <<zone, now, msec, place, node, mine, leaked, crashes>>

-----------------------------------------------------------------------------
Newest(w, z) == node[w][z] # Nil /\ \A y \in Zones : y > z => node[w][y] = Nil

LetGo(w, z) ==
    /\ node' = [node EXCEPT ![w][z] = Nil] /\ mine' = [mine EXCEPT ![w][z] = Nil]
    /\ UNCHANGED <<now, msec, phase, place, leaked, crashes>>

(* ngx_http_limit_req_account charges the limits before the last.          *)
ChargeCounted(z, lr, t) == [Charge(z, lr, t) EXCEPT !.count = @ - 1]

Account(w, z) ==
    /\ phase[w] = "account" /\ Newest(w, z)
    /\ zone' = [zone EXCEPT ![z].nodes[node[w][z]] = ChargeCounted(z, @, msec[w])]
    /\ LetGo(w, z)

(* ngx_http_limit_req_unlock *)
Unlock(w, z) ==
    /\ phase[w] = "unlock" /\ Newest(w, z)
    /\ zone' = [zone EXCEPT ![z].nodes[node[w][z]].count = @ - 1]
    /\ LetGo(w, z)

(* The request goes on, waits or is refused; the worker takes another.     *)
Done(w) ==
    /\ phase[w] \in {"account", "unlock"} /\ node[w] = Nothing
    /\ phase' = [phase EXCEPT ![w] = "idle"] /\ place' = [place EXCEPT ![w] = 1]
    /\ UNCHANGED <<zone, now, msec, node, mine, leaked, crashes>>

(* ngx_time_update, between events.                                        *)
TimeUpdate(w) ==
    /\ phase[w] = "idle" /\ msec' = [msec EXCEPT ![w] = now]
    /\ UNCHANGED <<zone, now, phase, place, node, mine, leaked, crashes>>

Tick ==
    /\ now < limits.time /\ \A w \in limits.workers : now - msec[w] < limits.lag
    /\ now' = now + 1
    /\ UNCHANGED <<zone, msec, phase, place, node, mine, leaked, crashes>>

(* The worker dies and is replaced; its counts stay.                       *)
Crash(w) ==
    /\ crashes < limits.crashes /\ node[w] # Nothing /\ crashes' = crashes + 1
    /\ leaked' = [z \in Zones |-> [n \in Nodes |->
                    leaked[z][n] + (IF node[w][z] = n THEN 1 ELSE 0)]]
    /\ node' = [node EXCEPT ![w] = Nothing] /\ mine' = [mine EXCEPT ![w] = Nothing]
    /\ phase' = [phase EXCEPT ![w] = "idle"] /\ place' = [place EXCEPT ![w] = 1]
    /\ UNCHANGED <<zone, now, msec>>

Next ==
    /\ \/ \E w \in limits.workers :
           \/ Start(w) \/ Skip(w) \/ KeyFails(w) \/ Done(w) \/ TimeUpdate(w) \/ Crash(w)
           \/ \E k \in limits.keys :
               LookupBusy(w, k) \/ \E n \in Nodes : LookupFound(w, k, n) \/ LookupNew(w, k, n)
           \/ \E z \in Zones : Account(w, z) \/ Unlock(w, z)
       \/ Tick
    /\ UNCHANGED limits

Spec == Init /\ [][Next]_vars
-----------------------------------------------------------------------------
(* Every variable has its type; the queue of a zone holds its nodes, once. *)
TypeOK ==
    /\ \A z \in Zones :
        /\ IsInjective(zone[z].queue)
        /\ ToSet(zone[z].queue) = {n \in Nodes : zone[z].nodes[n].key # Nil}
        /\ \A n \in Nodes : {zone[z].nodes[n].excess, zone[z].nodes[n].count} \subseteq Nat
    /\ \A w \in Workers : /\ phase[w] \in {"idle", "lookup", "account", "unlock"}
                          /\ place[w] \in Zones /\ msec[w] \in 0 .. now

(* The node that a worker found is still the node of its key when the      *)
(* worker comes back to charge it or to give it up, although other workers *)
(* force nodes out in between; the counts are the workers that will.       *)
CountedNodesStay ==
    /\ \A w \in Workers, z \in Zones :
        node[w][z] # Nil => zone[z].nodes[node[w][z]].key = mine[w][z]
    /\ \A z \in Zones, n \in Nodes :
        zone[z].nodes[n].count = leaked[z][n] + Cardinality({w \in Workers : node[w][z] = n})

Allowance(z, lr) == Unit + limits.burst[z] + Drain(z, now - lr.first)

(* A key is charged for no more requests than the burst and the rate allow *)
(* since its first one, whichever workers charged them and however their   *)
(* times differ.  The limits before the last let pass one more for each    *)
(* other worker.                                                           *)
LeakyBucket ==
    \A z \in Zones, n \in Nodes :
        LET lr == zone[z].nodes[n]
            slack == IF z = Limits THEN 0 ELSE Unit * (Cardinality(limits.workers) - 1)
        IN lr.taken * Unit <= Allowance(z, lr) + slack

(* The nodes of a zone are kept exactly, in their queue and for the        *)
(* requests that come back to them.                                        *)
NodesKept == TypeOK /\ CountedNodesStay

(* Rates are limited by exact nodes: a key is never charged less than it   *)
(* took, whatever is forgotten, shared or late.                            *)
RateLimitsExact == NodesKept /\ LeakyBucket
=============================================================================
