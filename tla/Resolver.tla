------------------------------ MODULE Resolver ------------------------------
(***************************************************************************)
(* The DNS resolver of a worker: names in a tree, each in the queue of     *)
(* questions to repeat or in the queue of answers to forget; requests that *)
(* wait for a name in a list; answers that come late, twice, truncated or  *)
(* not at all; aliases; requests that give up or run out of time.          *)
(*                                                                         *)
(* A worker is one thread: following an alias is a job of several steps    *)
(* during which nothing else happens.  Times are what is left of them.     *)
(***************************************************************************)
EXTENDS Integers, FiniteSets, FiniteSetsExt, Queues

CONSTANTS
    Names,
    Ctxs,       \* requests: ngx_resolver_ctx_t
    Ttls,       \* times to live in answers
    Resend,     \* r->resend_timeout
    Expire,     \* r->expire
    MaxRec,     \* bjrk-edge_RESOLVER_MAX_RECURSION
    Nil,
    Scenarios   \* the configurations and surroundings a behaviour may have

(***************************************************************************)
(* A scenario says which types of address are asked for (types), which     *)
(* names and requests there are (names, ctxs), which of the names requests *)
(* are for (wanted; the others are reached by aliases), of which no        *)
(* question can be made (invalid), and which idents questions have.        *)
(***************************************************************************)
ASSUME ResolverAssumption ==
    /\ Ttls \subseteq Nat /\ MaxRec \in Nat /\ Resend \in Nat \ {0} /\ Expire \in Nat \ {0}
    /\ Nil \notin Names /\ Nil \notin [cs : Seq(Ctxs), name : Names, new : BOOLEAN]
    /\ \A s \in Scenarios :
        /\ s.names \subseteq Names /\ s.wanted \cup s.invalid \subseteq s.names /\ s.ctxs \subseteq Ctxs
        /\ Nil \notin s.idents

VARIABLES
    conf,     \* the scenario of this behaviour
    tree,     \* names that have a node
    node,     \* node[n]: ngx_resolver_node_t
    resendq,  \* name_resend_queue, from head to tail
    expireq,  \* name_expire_queue
    ctx,      \* ctx[c]: a request
    armed,    \* r->event->timer_set
    asked,    \* questions that were sent, ever (the network)
    job       \* arguments of ngx_resolve_name_locked in progress, or Nil

vars == <<conf, tree, node, resendq, expireq, ctx, armed, asked, job>>

NewNode == [ident |-> [t \in conf.types |-> Nil], ans |-> [t \in conf.types |-> "open"],
            tcp |-> [t \in conf.types |-> FALSE], code |-> FALSE, cname |-> Nil,
            valid |-> -1, left |-> 0, waiting |-> <<>>]

Free == [state |-> "free", node |-> Nil, timer |-> FALSE, rec |-> 0]

Init ==
    /\ conf \in Scenarios
    /\ tree = {} /\ node = [n \in Names |-> NewNode] /\ resendq = <<>> /\ expireq = <<>>
    /\ ctx = [c \in Ctxs |-> Free] /\ armed = FALSE /\ asked = {} /\ job = Nil

ToTail(q, n) == Without(q, n) \o <<n>>
ToHead(q, n) == <<n>> \o Without(q, n)

(* The length of the end of q that lies in S, at most the given number: a  *)
(* loop from the tail removes it.                                          *)
Tail_(q, S, most) ==
    CHOOSE k \in 0 .. Min({most, Len(q)}) :
        /\ \A i \in Len(q) - k + 1 .. Len(q) : q[i] \in S
        /\ k = Min({most, Len(q)}) \/ q[Len(q) - k] \notin S

(* The elements of q that are in S, in their order.                        *)
Only(q, S) ==
    LET at == {i \in DOMAIN q : q[i] \in S}
        Before(i) == {j \in at : j <= i}
    IN [k \in 1 .. Cardinality(at) |-> q[CHOOSE i \in at : Cardinality(Before(i)) = k]]

-----------------------------------------------------------------------------
(* ngx_resolve_name_done for the requests cs: they are freed, old answers  *)
(* go (ngx_resolver_expire, two at a time), and the timer of repeated      *)
(* questions stops when there are none.  Their handlers call it.           *)
Done(cs, tr, rq, eq, nd) ==
    LET old == {n \in Names : nd[n].left < 0}
        k == Tail_(eq, old, 2 * Cardinality(cs))
        keep == SubSeq(eq, 1, Len(eq) - k)
    IN /\ ctx' = [c \in Ctxs |-> IF c \in cs THEN Free ELSE ctx[c]]
       /\ expireq' = keep /\ resendq' = rq
       /\ tree' = tr \ (ToSet(eq) \ ToSet(keep))
       /\ node' = [n \in Names |-> IF n \in tree' THEN nd[n] ELSE NewNode]
       /\ armed' = (armed /\ (cs = {} \/ rq # <<>>))

(* ngx_resolve_name *)
Start(c, n) ==
    /\ job = Nil /\ ctx[c].state = "free"
    /\ ctx' = [ctx EXCEPT ![c] = [Free EXCEPT !.state = "again"]]
    /\ job' = [cs |-> <<c>>, name |-> n, new |-> TRUE]
    /\ UNCHANGED <<tree, node, resendq, expireq, armed, asked>>

(* ngx_resolve_name_locked: a valid answer is used.                        *)
Usable(n) == n \in tree /\ node[n].valid >= 0
Touched(n) == [node EXCEPT ![n].left = Expire]

Cached ==
    /\ job # Nil /\ Usable(job.name) /\ node[job.name].cname = Nil
    /\ Done(ToSet(job.cs), tree, resendq, ToHead(expireq, job.name), Touched(job.name))
    /\ job' = Nil /\ UNCHANGED asked

(* A valid alias is followed, up to a limit.                               *)
Deeper(c) == [ctx EXCEPT ![c].rec = @ + 1]
MayFollowOnce(c) == ctx[c].rec <= MaxRec
MayFollow(c) == ctx[c].rec < MaxRec

CachedAlias ==
    /\ job # Nil /\ Usable(job.name) /\ node[job.name].cname # Nil
    /\ MayFollow(Head(job.cs))
    /\ ctx' = Deeper(Head(job.cs))
    /\ node' = Touched(job.name) /\ expireq' = ToHead(expireq, job.name)
    /\ job' = [job EXCEPT !.name = node[job.name].cname]
    /\ UNCHANGED <<tree, resendq, armed, asked>>

TooManyAliases ==
    /\ job # Nil /\ Usable(job.name) /\ node[job.name].cname # Nil
    /\ ~MayFollow(Head(job.cs))
    /\ Done(ToSet(job.cs), tree, resendq, ToHead(expireq, job.name), Touched(job.name))
    /\ job' = Nil /\ UNCHANGED asked

(* The requests cs wait for n; the first of them gets a timer if it has    *)
(* none (ngx_resolver_set_timeout).                                        *)
WaitUntimed(cs, n) ==
    ctx' = [c \in Ctxs |-> IF c \in ToSet(cs) THEN [ctx[c] EXCEPT !.node = n] ELSE ctx[c]]

Wait(cs, n) ==
    ctx' = [c \in Ctxs |-> IF c \in ToSet(cs)
                           THEN [ctx[c] EXCEPT !.node = n, !.timer = @ \/ c = Head(cs)]
                           ELSE ctx[c]]

(* Somebody waits for the name already.                                    *)
Join ==
    /\ job # Nil /\ job.name \in tree /\ ~Usable(job.name) /\ node[job.name].waiting # <<>>
    /\ node' = [node EXCEPT ![job.name].waiting = job.cs \o @]
    /\ Wait(job.cs, job.name)
    /\ job' = Nil /\ UNCHANGED <<tree, resendq, expireq, armed, asked>>

(* The name is asked for, in a new node or in one nobody waits for.        *)
MustAsk(n) == n \notin tree \/ (~Usable(n) /\ node[n].waiting = <<>>)

ResendEmpty(n) == Without(resendq, n) = <<>>

Ask(f) ==
    LET n == job.name
    IN /\ job # Nil /\ MustAsk(n) /\ n \notin conf.invalid
       /\ tree' = tree \cup {n}
       /\ node' = [node EXCEPT ![n] =
                     [NewNode EXCEPT !.ident = f, !.left = Resend, !.waiting = job.cs]]
       /\ asked' = asked \cup {[name |-> n, type |-> t, ident |-> f[t]] : t \in conf.types}
       /\ armed' = (armed \/ ResendEmpty(n))
       /\ resendq' = ToHead(resendq, n) /\ expireq' = Without(expireq, n)
       /\ Wait(job.cs, n)
       /\ job' = Nil

AskInvalid ==
    /\ job # Nil /\ MustAsk(job.name) /\ job.name \in conf.invalid
    /\ Done(ToSet(job.cs), tree \ {job.name}, Without(resendq, job.name),
            Without(expireq, job.name), node)
    /\ job' = Nil /\ UNCHANGED asked

(* No memory: ngx_resolve_name frees the request; requests that followed   *)
(* an alias are left to their timers.                                      *)
Fails ==
    /\ job # Nil
    /\ \/ /\ MustAsk(job.name)
          /\ tree' = tree \ {job.name} /\ resendq' = Without(resendq, job.name)
          /\ expireq' = Without(expireq, job.name)
          /\ node' = [node EXCEPT ![job.name] = NewNode]
       \/ /\ Usable(job.name) /\ node[job.name].cname = Nil
          /\ node' = Touched(job.name) /\ expireq' = ToHead(expireq, job.name)
          /\ UNCHANGED <<tree, resendq>>
       \/ /\ job.name \in tree /\ ~Usable(job.name) /\ node[job.name].waiting # <<>>
          /\ ~ctx[Head(job.cs)].timer
          /\ UNCHANGED <<tree, node, resendq, expireq>>
    /\ ctx' = IF job.new THEN [ctx EXCEPT ![Head(job.cs)] = Free] ELSE ctx
    /\ job' = Nil /\ UNCHANGED <<armed, asked>>

-----------------------------------------------------------------------------
(* ngx_resolver_process_a: an answer that the node still waits for.        *)

(* What the records of an answer amount to.                                *)
Kinds == {"addrs", "cname", "empty", "error"}

Expected(q) ==
    /\ job = Nil /\ q.name \in tree
    /\ node[q.name].ans[q.type] = "open" /\ node[q.name].ident[q.type] = q.ident

OtherOpen(q) == \E t \in conf.types \ {q.type} : node[q.name].ans[t] = "open"
OtherHas(q) == \E t \in conf.types \ {q.type} : node[q.name].ans[t] = "some"

(* Truncated: the question is repeated over TCP, if anybody waits.         *)
Truncated(q) ==
    /\ Expected(q) /\ ~node[q.name].tcp[q.type]
    /\ IF node[q.name].waiting = <<>>
       THEN /\ tree' = tree \ {q.name} /\ resendq' = Without(resendq, q.name)
            /\ node' = [node EXCEPT ![q.name] = NewNode]
       ELSE /\ node' = [node EXCEPT ![q.name].tcp[q.type] = TRUE, ![q.name].left = Resend]
            /\ resendq' = ToHead(resendq, q.name)
            /\ UNCHANGED tree
    /\ UNCHANGED <<expireq, ctx, armed, asked, job>>

Noted(q, a) == [node EXCEPT ![q.name].ans[q.type] = a]

(* One answer has come, the other one is still out.                        *)
Half(q, kind) ==
    /\ Expected(q) /\ OtherOpen(q)
    /\ node' = [Noted(q, IF kind = "addrs" /\ ~node[q.name].code THEN "some" ELSE "none")
                  EXCEPT ![q.name].code = @ \/ kind = "error"]
    /\ UNCHANGED <<tree, resendq, expireq, ctx, armed, asked, job>>

Erroneous(q, kind) ==
    kind = "error" \/ node[q.name].code \/ (kind = "empty" /\ ~OtherHas(q))

(* The last answer is an error, or there are no addresses: all are told    *)
(* and the node goes.                                                      *)
Failed(q, kind) ==
    /\ Expected(q) /\ ~OtherOpen(q) /\ Erroneous(q, kind)
    /\ Done(ToSet(node[q.name].waiting), tree \ {q.name}, Without(resendq, q.name), expireq,
            [node EXCEPT ![q.name].waiting = <<>>])
    /\ UNCHANGED <<asked, job>>

(* The node keeps its answer and is forgotten when nobody asks again.      *)
SettledKeeps(q, a, ttl) ==
    [Noted(q, a) EXCEPT ![q.name].valid = ttl, ![q.name].left = Expire]

Settled(q, a, ttl) ==
    [Noted(q, a) EXCEPT ![q.name].valid = ttl, ![q.name].left = Expire, ![q.name].waiting = <<>>]

Resolved(q, kind, ttl) ==
    /\ Expected(q) /\ ~OtherOpen(q) /\ ~Erroneous(q, kind)
    /\ kind = "addrs" \/ OtherHas(q)
    /\ Done(ToSet(node[q.name].waiting), tree, Without(resendq, q.name),
            ToHead(expireq, q.name), Settled(q, IF kind = "addrs" THEN "some" ELSE "none", ttl))
    /\ UNCHANGED <<asked, job>>

(* No memory to hand the addresses out, or an answer with nothing of use:  *)
(* no question is open, nobody is told.                                    *)
Useless(q, kind) ==
    /\ Expected(q) /\ ~OtherOpen(q) /\ ~Erroneous(q, kind)
    /\ node' = Noted(q, IF kind = "addrs" THEN "some" ELSE "none")
    /\ UNCHANGED <<tree, resendq, expireq, ctx, armed, asked, job>>

(* Only an alias: those who wait follow it.                                *)
Alias(q, m, ttl) ==
    /\ Expected(q) /\ ~OtherOpen(q) /\ ~Erroneous(q, "cname") /\ ~OtherHas(q)
    /\ LET cs == node[q.name].waiting
           nd == [Settled(q, "none", ttl) EXCEPT ![q.name].cname = m]
           rq == Without(resendq, q.name)
           eq == ToHead(expireq, q.name)
       IN \/ /\ cs = <<>>
             /\ node' = nd /\ resendq' = rq /\ expireq' = eq
             /\ UNCHANGED <<tree, ctx, armed, job>>
          \/ /\ cs # <<>> /\ ~MayFollow(Head(cs))
             /\ Done(ToSet(cs), tree, rq, eq, nd)
             /\ UNCHANGED job
          \/ /\ cs # <<>> /\ MayFollow(Head(cs))
             /\ ctx' = [c \in Ctxs |-> IF c \in ToSet(cs)
                                       THEN [Deeper(Head(cs))[c] EXCEPT !.node = Nil]
                                       ELSE ctx[c]]
             /\ job' = [cs |-> cs, name |-> m, new |-> FALSE]
             /\ node' = nd /\ resendq' = rq /\ expireq' = eq
             /\ UNCHANGED <<tree, armed>>
    /\ UNCHANGED asked

-----------------------------------------------------------------------------
(* ngx_resolver_resend_handler: due questions are sent again if anybody    *)
(* waits; otherwise their nodes go.                                        *)
Due == {n \in Names : node[n].left <= 0}
WantedAlways == Names
Wanted == {n \in Names : node[n].waiting # <<>>}

ResendHandler ==
    LET k == Tail_(resendq, Due, Len(resendq))
        due == SubSeq(resendq, Len(resendq) - k + 1, Len(resendq))
        rest == SubSeq(resendq, 1, Len(resendq) - k)
        again == ToSet(due) \cap Wanted
    IN /\ job = Nil /\ armed
       /\ resendq' = Only(resendq, again) \o rest
       /\ tree' = tree \ (ToSet(due) \ again)
       /\ node' = [n \in Names |-> IF n \in again THEN [node[n] EXCEPT !.left = Resend]
                                   ELSE IF n \in tree' THEN node[n] ELSE NewNode]
       /\ armed' = (resendq' # <<>>)
       /\ UNCHANGED <<expireq, ctx, asked, job>>

(* A request runs out of time (ngx_resolver_timeout_handler), or its owner *)
(* gives up; it leaves the list of its node.                               *)
CancelledLeft(c) == node

Cancelled(c) ==
    IF ctx[c].node = Nil THEN node
    ELSE [node EXCEPT ![ctx[c].node].waiting = Without(@, c)]

GiveUp(c) ==
    /\ job = Nil /\ ctx[c].state = "again"
    /\ Done({c}, tree, resendq, expireq, Cancelled(c))
    /\ UNCHANGED <<asked, job>>

TimeoutHandler(c) == ctx[c].timer /\ GiveUp(c)

(* Time passes; what is left of a time stops below zero.                   *)
Tick ==
    /\ job = Nil
    /\ node' = [n \in Names |-> IF n \notin tree THEN node[n]
                                ELSE [node[n] EXCEPT !.left = Max({-1, @ - 1}),
                                                     !.valid = Max({-1, @ - 1})]]
    /\ UNCHANGED <<tree, resendq, expireq, ctx, armed, asked, job>>

Locked ==
    \/ Cached \/ CachedAlias \/ TooManyAliases \/ Join \/ AskInvalid \/ Fails
    \/ \E f \in [conf.types -> conf.idents] : Ask(f)

Answer(q) ==
    \/ Truncated(q)
    \/ \E kind \in Kinds :
        \/ Half(q, kind) \/ Failed(q, kind) \/ Useless(q, kind)
        \/ \E ttl \in Ttls : Resolved(q, kind, ttl)
    \/ \E m \in conf.names, ttl \in Ttls : Alias(q, m, ttl)

Next ==
    /\ \/ \E c \in conf.ctxs : GiveUp(c) \/ TimeoutHandler(c) \/ \E n \in conf.wanted : Start(c, n)
       \/ Locked
       \/ \E q \in asked : Answer(q)
       \/ ResendHandler
       \/ Tick
    /\ UNCHANGED conf

Spec == Init /\ [][Next]_vars

(* A job is part of one event; timers get their turn after every event.    *)
Fairness ==
    /\ WF_vars(Locked /\ UNCHANGED conf)
    /\ SF_vars(ResendHandler /\ UNCHANGED conf) /\ SF_vars(Tick /\ UNCHANGED conf)
    /\ \A c \in Ctxs : SF_vars(TimeoutHandler(c) /\ UNCHANGED conf)

FairSpec == Spec /\ Fairness
-----------------------------------------------------------------------------
Working == IF job = Nil THEN {} ELSE ToSet(job.cs)

(* Every variable has its type.                                            *)
TypeOK ==
    /\ tree \subseteq Names /\ armed \in BOOLEAN
    /\ \A n \in Names : /\ node[n].cname \in Names \cup {Nil} /\ node[n].left >= -1
                        /\ \A t \in conf.types : node[n].ans[t] \in {"open", "none", "some"}
    /\ \A c \in Ctxs : ctx[c].state \in {"free", "again"} /\ ctx[c].rec \in 0 .. MaxRec

(* A request that waits is in the list of its node, once, and in no other; *)
(* the lists hold nothing else.  So a request that ends can always be      *)
(* taken out (the code logs an alert "could not cancel %V resolving"       *)
(* otherwise), and no list ever leads to a freed request.                  *)
WaitersListed ==
    /\ \A c \in Ctxs : ctx[c].node # Nil /\ c \notin Working =>
            /\ ctx[c].node \in tree
            /\ c \in ToSet(node[ctx[c].node].waiting)
    /\ \A n \in tree : /\ IsInjective(node[n].waiting)
                       /\ \A c \in ToSet(node[n].waiting) :
                            ctx[c].state = "again" /\ ctx[c].node = n /\ c \notin Working

(* A node is in one of the two queues; the answers to be forgotten are     *)
(* those nobody waits for.                                                 *)
InOneQueue ==
    /\ IsInjective(resendq \o expireq) /\ ToSet(resendq \o expireq) = tree
    /\ \A n \in ToSet(expireq) : node[n].waiting = <<>>
    /\ \A n \in ToSet(resendq) : node[n].valid = -1

(* The loops over the queues look at the tail only: nothing due is hidden  *)
(* behind something that is not, and the timer runs while questions may    *)
(* have to be repeated.                                                    *)
NothingOverlooked ==
    /\ \A q \in {resendq, expireq} : \A i, j \in DOMAIN q :
            i < j => node[q[i]].left >= node[q[j]].left
    /\ resendq # <<>> => armed

(* Every request ends, whatever the servers answer, however names point to *)
(* each other and whenever memory is short: also those that followed an    *)
(* alias and were dropped there.                                           *)
RequestsEnd == \A c \in Ctxs : ctx[c].state = "again" ~> ctx[c].state = "free"

(* A name that nobody waits for and nobody answers does not stay.          *)
UnwantedGo ==
    \A n \in Names : (n \in ToSet(resendq) /\ node[n].waiting = <<>>)
                        ~> (n \notin ToSet(resendq) \/ node[n].waiting # <<>>)

(* The lists of the resolver are exact: a node is in one queue and in its  *)
(* place there, a request in one list, and the timer runs for them.        *)
ListsExact == TypeOK /\ InOneQueue /\ WaitersListed /\ NothingOverlooked

(* Nothing stays in the resolver for good, neither a request nor a name    *)
(* that nobody wants.                                                      *)
NothingStays == RequestsEnd /\ UnwantedGo
=============================================================================
