--------------------------- MODULE UpstreamProofs ---------------------------
(***************************************************************************)
(* Of the module Upstream: connections and peers are accounted for at      *)
(* every moment, and what a client is sent is one response to its request. *)
(***************************************************************************)
EXTENDS Upstream, QueueProofs, FiniteSetTheorems, WellFoundedInduction, TLAPS

(***************************************************************************)
(* A server that answers early keeps the worker in the handler that sends  *)
(* the request; its write timer may then run out after the header of the   *)
(* response has gone to the client (see HeaderOnce).  What follows is      *)
(* about configurations in which such a timeout is not retried.            *)
(***************************************************************************)
Orderly == \A s \in Scenarios : s.early => "timeout" \notin s.next

(***************************************************************************)
(* The records                                                             *)
(***************************************************************************)
Parts == [r : Requests, n : Nat, i : Nat, kind : Kinds]

(* What a request may end with *)
Outcomes ==
    {"none", "0", "error", "400", "408", "499", "500", "502", "504", "404", "terminated"}

UpstreamRecords ==
    [st : {"new", "resolving", "active", "done"}, addr : Addrs \cup {Nil}, c : Conns \cup {Nil},
     cached : BOOLEAN, tries : Nat, tried : SUBSET Addrs,
     sent : BOOLEAN, bodysent : BOOLEAN, blocked : BOOLEAN, received : BOOLEAN,
     headersent : BOOLEAN, keepalive : BOOLEAN, length : Int, closing : BOOLEAN,
     rh : {"header", "pass", "upgraded"}, wh : {"send", "dummy", "upgraded"},
     wt : BOOLEAN, rt : BOOLEAN, fromclient : BOOLEAN,
     out : Seq(Parts), got : Seq(Parts), rc : Outcomes,
     n : Nat, fresh : Nat, heads : Nat]

ConnRecords ==
    [st : {"free", "opening", "refused", "open"}, addr : Addrs \cup {Nil}, ssl : BOOLEAN,
     uses : Nat, cur : (Requests \X Nat) \cup {None}, parts : 0 .. 2,
     resp : Kinds \cup {"none"}, left : Nat, inbox : Seq(Parts), eof : BOOLEAN, full : BOOLEAN]

IsPart(p, r, n, i, kind) == p.r = r /\ p.n = n /\ p.i = i /\ p.kind = kind

(* The parts of a response after its header *)
Total(k) == IF BodyOf[k] = -1 THEN 1 ELSE BodyOf[k]

(***************************************************************************)
(* What the server at the other end of a connection has sent, and what has *)
(* not been read of it: the parts of one answer, in order.                 *)
(***************************************************************************)
Ordered(k) ==
    \A j \in 1 .. Len(k.inbox) :
        IsPart(k.inbox[j], k.cur[1], k.cur[2],
               Total(k.resp) - k.left - Len(k.inbox) + j, k.resp)

Answer(s, k) ==
    /\ k.resp = "none" => k.inbox = <<>> /\ k.left = 0
    /\ k.resp # "none" =>
        /\ k.parts >= 1 /\ (~s.early => k.parts = 2)
        /\ Len(k.inbox) + k.left <= Total(k.resp) + 1
        /\ Ordered(k)
    /\ k.parts >= 1 => k.cur # None

(* A kept connection *)
AtRest(k) ==
    /\ k.parts = 2 \/ k.eof
    /\ k.resp # "none" /\ k.left = 0 /\ k.inbox = <<>> /\ k.resp \notin Closing

(***************************************************************************)
(* A request, by itself                                                    *)
(***************************************************************************)
Guarded(s) == (s.post /\ ~s.nonid) \/ s.unbuffered

TriesOf(s) ==
    LET n == Cardinality(s.addrs) IN IF s.tries > 0 THEN Min({n, s.tries}) ELSE n

(* All of a response has gone to the client *)
Complete(x) ==
    /\ x.got # <<>>
    /\ BodyOf[x.got[1].kind] # -1 => Len(x.got) = 1 + BodyOf[x.got[1].kind]

OneAnswer(r, g) ==
    \A i \in DOMAIN g : IsPart(g[i], r, g[1].n, i - 1, g[1].kind)

Attempts(s, x) ==
    /\ Guarded(s) => x.heads = IF x.sent THEN 1 ELSE 0
    /\ x.fresh <= TriesOf(s)
    /\ x.fresh + x.tries <= TriesOf(s) + (IF x.addr # Nil /\ ~x.cached THEN 1 ELSE 0)
    /\ x.addr # Nil => x.tries >= 1

Alone(r, x) ==
    /\ x.c # Nil => x.addr # Nil
    /\ x.addr # Nil => x.st = "active"
    /\ x.st \in {"new", "resolving"} => ~x.headersent /\ ~x.sent /\ x.fresh = 0 /\ x.heads = 0
    /\ x.received => x.sent
    /\ x.keepalive => x.received
    /\ x.rh = "header" <=> ~x.headersent
    /\ x.headersent <=> x.got # <<>>
    /\ x.rh # "pass" => x.out = <<>>
    /\ OneAnswer(r, x.got)
    /\ x.st # "done" => x.rc # "0"
    /\ x.rc = "0" => Complete(x)

(***************************************************************************)
(* A request and its connection                                            *)
(***************************************************************************)
Mine(r, x, k) ==
    k.cur = <<r, x.n>> /\ k.parts >= 1 /\ (k.parts = 2 => x.bodysent)

Passing(s, x, k) ==
    /\ x.got[1].n = x.n /\ x.got[1].kind = k.resp
    /\ Len(x.got) + Len(x.out) + Len(k.inbox) + k.left = Total(k.resp) + 1
    /\ x.rh = "pass" =>
        /\ k.resp # "upgrade"
        /\ x.closing <=> k.resp \in Closing
        /\ x.length = IF BodyOf[k.resp] = -1 THEN -1 ELSE k.left + Len(k.inbox)
        /\ s.buffering => x.out = <<>>
        /\ x.out # <<>> => /\ Len(x.out) = 1
                           /\ IsPart(x.out[1], k.cur[1], k.cur[2], Len(x.got), k.resp)
    /\ x.rh = "upgraded" => k.resp = "upgrade" /\ ~x.keepalive

Linked(s, r, x, k) ==
    /\ ~x.sent => /\ k.inbox = <<>> /\ k.left = 0 /\ (k.resp = "none" => k.parts = 0)
                  /\ ~x.received /\ ~x.bodysent
    /\ x.sent => Mine(r, x, k) \/ (k.eof /\ k.inbox = <<>> /\ ~x.received)
    /\ x.bodysent => (k.parts = 2 \/ k.eof) /\ x.wh # "send"
    /\ x.received => Mine(r, x, k) /\ k.resp # "none" /\ (s.ssl => k.ssl)
    /\ x.keepalive => k.left = 0 /\ k.inbox = <<>> /\ k.resp \notin Closing
    /\ x.headersent => x.received /\ (x.bodysent \/ s.early)

(***************************************************************************)
(* The call that comes next                                                *)
(***************************************************************************)
CanConnect(s, x) ==
    /\ x.st = "active" /\ x.c = Nil /\ x.addr = Nil /\ ~x.headersent
    /\ x.tries >= 1 /\ (Guarded(s) => ~x.sent)

CanSend(s, x) ==
    /\ x.st = "active" /\ x.c # Nil /\ x.wh = "send"
    /\ x.headersent => s.unbuffered /\ x.sent

CanGoOn(s, x, ft) ==
    /\ x.st = "active"
    /\ ft # "nolive" => x.addr # Nil
    /\ x.headersent => (ft = "timeout" /\ s.early) \/ (s.unbuffered /\ x.sent)

CanRespond(r, x, k, h) ==
    /\ x.st = "active" /\ x.c # Nil /\ x.received
    /\ x.rh = "header" /\ k.resp # "none" /\ k.resp # "bad"
    /\ h \in Parts /\ IsPart(h, r, x.n, 0, k.resp)
    /\ x.closing <=> k.resp \in Closing
    /\ x.keepalive => k.resp # "upgrade"
    /\ Len(k.inbox) + k.left = Total(k.resp)

CanRun(s, f, r, x, k, arg) ==
    \/ f = "connect" /\ CanConnect(s, x)
    \/ f = "send" /\ CanSend(s, x)
    \/ f = "ssl" /\ CanSend(s, x) /\ ~x.headersent
    \/ f = "next" /\ CanGoOn(s, x, arg)
    \/ f = "response" /\ CanRespond(r, x, k, arg)
    \/ f = "pass" /\ x.st = "active" /\ x.c # Nil /\ x.rh = "pass"
    \/ /\ f = "finalize" /\ x.st \in {"resolving", "active"}
       /\ arg \in Outcomes /\ (arg = "0" => Complete(x))

-----------------------------------------------------------------------------
Records ==
    /\ conf \in Scenarios /\ exiting \in BOOLEAN
    /\ u \in [Requests -> UpstreamRecords]
    /\ conn \in [Conns -> ConnRecords]
    /\ conns \in [Addrs -> Int]

Answers == \A c \in Conns : Answer(conf, conn[c])

Requested ==
    \A r \in Requests :
        /\ Alone(r, u[r]) /\ Attempts(conf, u[r])
        /\ u[r].c # Nil => Linked(conf, r, u[r], conn[u[r].c])
        /\ u[r].c # Nil /\ u[r].headersent =>
            Passing(conf, u[r], conn[u[r].c]) \/ Running("finalize", r)
        /\ u[r].st = "active" /\ u[r].c = Nil => run # None /\ run[2] = r

Calls ==
    run # None =>
        /\ run = <<run[1], run[2], run[3]>> /\ run[2] \in Requests
        /\ CanRun(conf, run[1], run[2], u[run[2]], conn[u[run[2]].c], run[3])

Owned ==
    /\ cache \in Seq(Conns) /\ IsInjective(cache) /\ Len(cache) <= conf.keep
    /\ \A r, q \in Requests : u[r].c = u[q].c /\ u[r].c # Nil => r = q
    /\ \A r \in Requests : u[r].c \notin ToSet(cache)
    /\ \A c \in Conns :
        conn[c].st = "free" <=> c \notin ToSet(cache) /\ \A r \in Requests : u[r].c # c

Rested ==
    /\ \A c \in ToSet(cache) : AtRest(conn[c])
    /\ exiting => cache = <<>>

IInv == Records /\ Answers /\ Requested /\ Calls /\ Owned /\ Rested /\ PeersReleased

-----------------------------------------------------------------------------
(***************************************************************************)
(* Steps of one request                                                    *)
(***************************************************************************)
(* What the constants are: the names of connections, servers and parts     *)
(* behind the assumption.                                                  *)
LEMMA Surroundings ==
    /\ Conns \subseteq Nat \ {0} /\ Nil \notin Conns /\ Nil \notin Addrs /\ Nil = 0
    /\ IsFiniteSet(Addrs) /\ IsFiniteSet(Requests)
    /\ \A s \in Scenarios :
        /\ s.reqs \subseteq Requests /\ s.addrs \subseteq Addrs /\ s.addrs # {}
        /\ s.kinds \subseteq Kinds /\ s.next \subseteq Faults \ {"nolive"}
        /\ s.tries \in Nat /\ s.keep \in Nat /\ s.uses \in Nat \ {0}
  BY UpstreamAssumption DEF Nil

LEMMA SmallerOf ==
    ASSUME NEW a \in Int, NEW b \in Int
    PROVE  Min({a, b}) \in {a, b} /\ Max({a, b}) = IF a >= b THEN a ELSE b
<1>1. \E v \in {a, b} : \A w \in {a, b} : v <= w
  <2>1. CASE a <= b
    BY <2>1
  <2>2. CASE b <= a
    BY <2>2
  <2> QED
    BY <2>1, <2>2
<1>2. \E v \in {a, b} : \A w \in {a, b} : v >= w
  <2>1. CASE a <= b
    BY <2>1
  <2>2. CASE b <= a
    BY <2>2
  <2> QED
    BY <2>1, <2>2
<1>3. Min({a, b}) \in {a, b}
  BY <1>1 DEF Min
<1>4. Max({a, b}) \in {a, b} /\ \A w \in {a, b} : Max({a, b}) >= w
  BY <1>2 DEF Max
<1> HIDE DEF Max
<1>5. Max({a, b}) >= a /\ Max({a, b}) >= b
  BY <1>4
<1> QED
  BY <1>3, <1>4, <1>5

LEMMA LeastOf ==
    ASSUME NEW S, S \subseteq Nat, S # {}
    PROVE  Min(S) \in S
<1>1. PICK m \in S : \A y \in S : ~(<<y, m>> \in OpToRel(<, Nat))
  BY WFMin, NatLessThanWellFounded
<1>2. m \in Nat /\ \A y \in S : y \in Nat /\ ~(y < m)
  BY <1>1 DEF OpToRel
<1>3. \A y \in S : m <= y
  BY <1>2
<1> QED
  BY <1>3 DEF Min

(* There is at least one try, and there are no more than servers.          *)
LEMMA TriesCount ==
    ASSUME NEW s \in Scenarios
    PROVE  TriesOf(s) \in Nat /\ TriesOf(s) >= 1
<1> DEFINE n == Cardinality(s.addrs)
<1>1. IsFiniteSet(s.addrs)
  BY Surroundings, FS_Subset
<1>2. n \in Nat /\ n >= 1
  <2>1. n \in Nat /\ n # 0
    BY <1>1, Surroundings, FS_CardinalityType, FS_EmptySet
  <2> QED
    BY <2>1
<1> HIDE DEF n
<1>3. CASE s.tries > 0
  <2>1. Min({n, s.tries}) \in {n, s.tries}
    BY <1>2, Surroundings, SmallerOf
  <2> QED
    BY <1>2, <1>3, <2>1, Surroundings DEF TriesOf, n
<1> QED
  BY <1>2, <1>3, Surroundings DEF TriesOf, n

(* A step of a request leaves the others as they were.                     *)
LEMMA Step ==
    ASSUME IInv, NEW r \in Requests, NEW y \in UpstreamRecords,
           u' = [u EXCEPT ![r] = y], conf' = conf,
           run = None \/ run[2] = r,
           \/ run' = None
           \/ \E f, arg : run' = <<f, r, arg>> /\ CanRun(conf, f, r, y, conn'[y.c], arg),
           conn' \in [Conns -> ConnRecords],
           \A c \in Conns : Answer(conf, conn'[c]),
           \A q \in Requests \ {r} : u[q].c # Nil => conn'[u[q].c] = conn[u[q].c],
           Alone(r, y), Attempts(conf, y),
           y.c # Nil => Linked(conf, r, y, conn'[y.c]),
           y.c # Nil /\ y.headersent =>
             Passing(conf, y, conn'[y.c]) \/ Running("finalize", r)',
           y.st = "active" /\ y.c = Nil => run' # None
    PROVE  /\ Answers' /\ Requested' /\ Calls' /\ u' \in [Requests -> UpstreamRecords]
           /\ u'[r] = y /\ \A q \in Requests \ {r} : u'[q] = u[q]
<1>1. /\ u \in [Requests -> UpstreamRecords] /\ Requested
  BY DEF IInv, Records
<1>2. /\ u' \in [Requests -> UpstreamRecords] /\ u'[r] = y
      /\ \A q \in Requests \ {r} : u'[q] = u[q]
  BY <1>1
<1>3. Answers'
  BY DEF Answers
<1>4. Calls'
  <2>1. CASE run' = None
    BY <2>1 DEF Calls
  <2>2. CASE \E f, arg : run' = <<f, r, arg>> /\ CanRun(conf, f, r, y, conn'[y.c], arg)
    <3>1. PICK f, arg : run' = <<f, r, arg>> /\ CanRun(conf, f, r, y, conn'[y.c], arg)
      BY <2>2
    <3>2. run'[1] = f /\ run'[2] = r /\ run'[3] = arg
      BY <3>1
    <3> QED
      BY <1>2, <3>1, <3>2 DEF Calls
  <2> QED
    BY <2>1, <2>2
<1>5. Requested'
  <2> SUFFICES ASSUME NEW q \in Requests
               PROVE  /\ Alone(q, u'[q]) /\ Attempts(conf', u'[q])
                      /\ u'[q].c # Nil => Linked(conf', q, u'[q], conn'[u'[q].c])
                      /\ u'[q].c # Nil /\ u'[q].headersent =>
                          Passing(conf', u'[q], conn'[u'[q].c]) \/ Running("finalize", q)'
                      /\ u'[q].st = "active" /\ u'[q].c = Nil => run' # None /\ run'[2] = q
    BY DEF Requested
  <2>1. CASE q = r
    <3>1. run' # None => run'[2] = r
      OBVIOUS
    <3> QED
      BY <1>2, <2>1, <3>1
  <2>2. CASE q # r
    <3>1. u'[q] = u[q] /\ (u[q].c # Nil => conn'[u[q].c] = conn[u[q].c])
      BY <1>2, <2>2
    <3>2. ~Running("finalize", q)
      BY <2>2 DEF Running
    <3> QED
      BY <1>1, <2>2, <3>1, <3>2 DEF Requested
  <2> QED
    BY <2>1, <2>2
<1> QED
  BY <1>2, <1>3, <1>4, <1>5

(* A step that neither takes nor gives back a connection.                  *)
LEMMA LocalStep ==
    ASSUME IInv, NEW r \in Requests, NEW y \in UpstreamRecords,
           u' = [u EXCEPT ![r] = y], UNCHANGED <<conf, cache, conns, exiting>>,
           y.c = u[r].c, y.addr = u[r].addr,
           run = None \/ run[2] = r,
           \/ run' = None
           \/ \E f, arg : run' = <<f, r, arg>> /\ CanRun(conf, f, r, y, conn'[y.c], arg),
           conn' \in [Conns -> ConnRecords],
           \A c \in Conns \ {y.c} : conn'[c] = conn[c],
           y.c # Nil => Answer(conf, conn'[y.c]) /\ conn'[y.c].st # "free",
           Alone(r, y), Attempts(conf, y),
           y.c # Nil => Linked(conf, r, y, conn'[y.c]),
           y.c # Nil /\ y.headersent =>
             Passing(conf, y, conn'[y.c]) \/ Running("finalize", r)',
           y.st = "active" /\ y.c = Nil => run' # None
    PROVE  IInv'
<1>1. /\ u \in [Requests -> UpstreamRecords] /\ Records /\ Answers /\ Owned /\ Rested
      /\ PeersReleased
  BY DEF IInv, Records
<1>2. \A q \in Requests : u[q].c \in Conns \cup {Nil}
  BY <1>1 DEF UpstreamRecords
<1>3. \A q \in Requests \ {r} : u[q].c # Nil => u[q].c # y.c
  BY <1>1 DEF Owned
<1>4. \A c \in Conns : Answer(conf, conn'[c])
  BY <1>1, Surroundings DEF Answers
<1>5. \A q \in Requests \ {r} : u[q].c # Nil => conn'[u[q].c] = conn[u[q].c]
  BY <1>2, <1>3
<1>6. /\ Answers' /\ Requested' /\ Calls' /\ u' \in [Requests -> UpstreamRecords]
      /\ u'[r] = y /\ \A q \in Requests \ {r} : u'[q] = u[q]
  BY <1>4, <1>5, Step
<1>7. \A q \in Requests : u'[q].c = u[q].c /\ u'[q].addr = u[q].addr
  BY <1>6
<1>8. Records'
  BY <1>1, <1>6 DEF Records
<1>9. \A c \in ToSet(cache) : conn'[c] = conn[c]
  <2>1. ToSet(cache) \subseteq Conns
    BY <1>1 DEF Owned, ToSet
  <2> QED
    BY <1>1, <2>1 DEF Owned
<1>10. Rested'
  BY <1>1, <1>9 DEF Rested
<1>11. Owned'
  <2>1. \A c \in Conns : (conn'[c].st = "free") <=> (conn[c].st = "free")
    <3>1. CASE y.c \in Conns
      BY <1>1, <3>1, Surroundings DEF Owned
    <3>2. CASE y.c \notin Conns
      BY <3>2
    <3> QED
      BY <3>1, <3>2
  <2> QED
    BY <1>1, <1>7, <2>1 DEF Owned
<1>12. PeersReleased'
  <2>1. \A a : {q \in Requests : u'[q].addr = a} = {q \in Requests : u[q].addr = a}
    BY <1>7
  <2> QED
    BY <1>1, <2>1 DEF PeersReleased
<1> QED
  BY <1>6, <1>8, <1>10, <1>11, <1>12 DEF IInv

(* What the invariant says of one request and its connection.              *)
LEMMA Held ==
    ASSUME IInv, NEW r \in Requests
    PROVE  /\ conf \in Scenarios /\ u \in [Requests -> UpstreamRecords]
           /\ conn \in [Conns -> ConnRecords]
           /\ u[r] \in UpstreamRecords /\ Alone(r, u[r]) /\ Attempts(conf, u[r])
           /\ u[r].c \in Conns \cup {Nil}
           /\ u[r].c # Nil =>
                /\ u[r].c \in Conns /\ conn[u[r].c] \in ConnRecords
                /\ Answer(conf, conn[u[r].c]) /\ conn[u[r].c].st # "free"
                /\ Linked(conf, r, u[r], conn[u[r].c])
                /\ u[r].headersent => Passing(conf, u[r], conn[u[r].c]) \/ Running("finalize", r)
           /\ u[r].st = "active" /\ u[r].c = Nil => run # None /\ run[2] = r
<1>1. /\ Records /\ Answers /\ Requested /\ Owned
  BY DEF IInv
<1>2. u[r] \in UpstreamRecords /\ u[r].c \in Conns \cup {Nil}
  BY <1>1 DEF Records, UpstreamRecords
<1>3. u[r].c # Nil => conn[u[r].c].st # "free"
  BY <1>1, <1>2 DEF Owned
<1>4. u[r].c # Nil => Answer(conf, conn[u[r].c]) /\ conn[u[r].c] \in ConnRecords
  BY <1>1, <1>2 DEF Answers, Records
<1> QED
  BY <1>1, <1>2, <1>3, <1>4 DEF Records, Requested

(* What the invariant says of the call to be made.                         *)
LEMMA Called ==
    ASSUME IInv, NEW f, NEW r, Running(f, r)
    PROVE  /\ r \in Requests /\ run # None /\ run[2] = r
           /\ CanRun(conf, f, r, u[r], conn[u[r].c], run[3])
  BY DEF IInv, Calls, Running

(* A step that changes no more than the clients.                           *)
LEMMA Still ==
    ASSUME IInv, UNCHANGED <<conf, u, conn, cache, conns, exiting, run>>
    PROVE  IInv'
  BY DEF IInv, Records, Answers, Requested, Calls, Owned, Rested, PeersReleased, Running

(* A step that changes no more than what is called.                        *)
LEMMA CallStep ==
    ASSUME IInv, NEW r \in Requests, UNCHANGED <<conf, u, conn, cache, conns, exiting>>,
           run = None \/ run[2] = r, ~Running("finalize", r), NEW f, NEW arg,
           run' = <<f, r, arg>>, CanRun(conf, f, r, u[r], conn[u[r].c], arg)
    PROVE  IInv'
<1>1. u' = [u EXCEPT ![r] = u[r]] /\ u[r] \in UpstreamRecords
  BY Held
<1>2. run' # None
  BY DEF None
<1>3. /\ \A c \in Conns \ {u[r].c} : conn'[c] = conn[c]
      /\ CanRun(conf, f, r, u[r], conn'[u[r].c], arg)
      /\ conn' \in [Conns -> ConnRecords] /\ conn'[u[r].c] = conn[u[r].c]
      /\ UNCHANGED <<conf, cache, conns, exiting>>
  BY Held
<1> HIDE DEF CanRun
<1> QED
  BY <1>1, <1>2, <1>3, Held, LocalStep

-----------------------------------------------------------------------------
LEMMA InitRequestStep ==
    ASSUME IInv, NEW r \in Requests, InitRequest(r)
    PROVE  IInv'
<1> DEFINE x == u[r]
           t == Tries
<1>1. /\ run = None /\ x.st = "new" /\ UNCHANGED <<conf, conn, cache, conns, exiting>>
      /\ \/ u' = [u EXCEPT ![r].st = "resolving"] /\ run' = None
         \/ /\ u' = [u EXCEPT ![r].st = "active", ![r].tries = t]
            /\ run' = <<"connect", r, Nil>>
  BY DEF InitRequest, Idle, Return, Call
<1>2. /\ x \in UpstreamRecords /\ Alone(r, x) /\ Attempts(conf, x) /\ x.addr = Nil /\ x.c = Nil
  BY <1>1, Held DEF Alone
<1>3. t = TriesOf(conf) /\ t \in Nat /\ t >= 1
  BY Held, TriesCount DEF Tries, TriesOf
<1> HIDE DEF x, t
<1>4. CASE u' = [u EXCEPT ![r].st = "resolving"] /\ run' = None
  <2> DEFINE y == [x EXCEPT !.st = "resolving"]
  <2>1. /\ y \in UpstreamRecords /\ y.st = "resolving"
        /\ y.addr = x.addr /\ y.c = x.c /\ y.cached = x.cached /\ y.tries = x.tries
        /\ y.sent = x.sent /\ y.received = x.received /\ y.headersent = x.headersent
        /\ y.keepalive = x.keepalive /\ y.rh = x.rh /\ y.out = x.out /\ y.got = x.got
        /\ y.rc = x.rc /\ y.fresh = x.fresh /\ y.heads = x.heads
    BY <1>2 DEF UpstreamRecords
  <2>2. u' = [u EXCEPT ![r] = y]
    BY <1>4, Held DEF x
  <2> HIDE DEF y
  <2>3. Alone(r, y) /\ Attempts(conf, y)
    BY <1>1, <1>2, <2>1 DEF Alone, Attempts, Complete
  <2> QED
    BY <1>1, <1>2, <1>4, <2>1, <2>2, <2>3, Held, LocalStep DEF x
<1>5. CASE /\ u' = [u EXCEPT ![r].st = "active", ![r].tries = t]
           /\ run' = <<"connect", r, Nil>>
  <2> DEFINE y == [x EXCEPT !.st = "active", !.tries = t]
  <2>1. /\ y \in UpstreamRecords /\ y.st = "active" /\ y.tries = t
        /\ y.addr = x.addr /\ y.c = x.c /\ y.cached = x.cached
        /\ y.sent = x.sent /\ y.received = x.received /\ y.headersent = x.headersent
        /\ y.keepalive = x.keepalive /\ y.rh = x.rh /\ y.out = x.out /\ y.got = x.got
        /\ y.rc = x.rc /\ y.fresh = x.fresh /\ y.heads = x.heads
    BY <1>2, <1>3 DEF UpstreamRecords
  <2>2. u' = [u EXCEPT ![r] = y]
    BY <1>5, Held DEF x
  <2> HIDE DEF y
  <2>3. Alone(r, y) /\ Attempts(conf, y)
    BY <1>1, <1>2, <1>3, <2>1 DEF Alone, Attempts, Complete
  <2>4. CanRun(conf, "connect", r, y, conn'[y.c], Nil) /\ run' # None
    BY <1>1, <1>2, <1>3, <1>5, <2>1 DEF CanRun, CanConnect, Alone, None, Guarded
  <2> QED
    BY <1>1, <1>2, <1>5, <2>1, <2>2, <2>3, <2>4, Held, LocalStep DEF x
<1> QED
  BY <1>1, <1>4, <1>5

LEMMA ResolveHandlerStep ==
    ASSUME IInv, NEW r \in Requests, ResolveHandler(r)
    PROVE  IInv'
<1> DEFINE x == u[r]
           t == Tries
<1>1. /\ run = None /\ x.st = "resolving" /\ UNCHANGED <<conf, conn, cache, conns, exiting>>
      /\ \/ u' = [u EXCEPT ![r].st = "active", ![r].tries = t] /\ run' = <<"connect", r, Nil>>
         \/ u' = [u EXCEPT ![r].st = "active"] /\ run' = <<"finalize", r, "502">>
  BY DEF ResolveHandler, Idle, Return, Call
<1>2. /\ x \in UpstreamRecords /\ Alone(r, x) /\ Attempts(conf, x) /\ x.addr = Nil /\ x.c = Nil
  BY <1>1, Held DEF Alone
<1>3. t = TriesOf(conf) /\ t \in Nat /\ t >= 1
  BY Held, TriesCount DEF Tries, TriesOf
<1> HIDE DEF x, t
<1>4. CASE u' = [u EXCEPT ![r].st = "active"] /\ run' = <<"finalize", r, "502">>
  <2> DEFINE y == [x EXCEPT !.st = "active"]
  <2>1. /\ y \in UpstreamRecords /\ y.st = "active"
        /\ y.addr = x.addr /\ y.c = x.c /\ y.cached = x.cached /\ y.tries = x.tries
        /\ y.sent = x.sent /\ y.received = x.received /\ y.headersent = x.headersent
        /\ y.keepalive = x.keepalive /\ y.rh = x.rh /\ y.out = x.out /\ y.got = x.got
        /\ y.rc = x.rc /\ y.fresh = x.fresh /\ y.heads = x.heads
    BY <1>2 DEF UpstreamRecords
  <2>2. u' = [u EXCEPT ![r] = y]
    BY <1>4, Held DEF x
  <2> HIDE DEF y
  <2>3. Alone(r, y) /\ Attempts(conf, y)
    BY <1>1, <1>2, <2>1 DEF Alone, Attempts, Complete
  <2>4. CanRun(conf, "finalize", r, y, conn'[y.c], "502") /\ run' # None
    BY <1>4, <2>1 DEF CanRun, Outcomes, None
  <2> QED
    BY <1>1, <1>2, <1>4, <2>1, <2>2, <2>3, <2>4, Held, LocalStep DEF x
<1>5. CASE u' = [u EXCEPT ![r].st = "active", ![r].tries = t] /\ run' = <<"connect", r, Nil>>
  <2> DEFINE y == [x EXCEPT !.st = "active", !.tries = t]
  <2>1. /\ y \in UpstreamRecords /\ y.st = "active" /\ y.tries = t
        /\ y.addr = x.addr /\ y.c = x.c /\ y.cached = x.cached
        /\ y.sent = x.sent /\ y.received = x.received /\ y.headersent = x.headersent
        /\ y.keepalive = x.keepalive /\ y.rh = x.rh /\ y.out = x.out /\ y.got = x.got
        /\ y.rc = x.rc /\ y.fresh = x.fresh /\ y.heads = x.heads
    BY <1>2, <1>3 DEF UpstreamRecords
  <2>2. u' = [u EXCEPT ![r] = y]
    BY <1>5, Held DEF x
  <2> HIDE DEF y
  <2>3. Alone(r, y) /\ Attempts(conf, y)
    BY <1>1, <1>2, <1>3, <2>1 DEF Alone, Attempts, Complete
  <2>4. CanRun(conf, "connect", r, y, conn'[y.c], Nil) /\ run' # None
    BY <1>1, <1>2, <1>3, <1>5, <2>1 DEF CanRun, CanConnect, Alone, None, Guarded
  <2> QED
    BY <1>1, <1>2, <1>5, <2>1, <2>2, <2>3, <2>4, Held, LocalStep DEF x
<1> QED
  BY <1>1, <1>4, <1>5

(* A step of a request that has a connection.                              *)
LEMMA TalkStep ==
    ASSUME IInv, NEW r \in Requests, NEW y \in UpstreamRecords, NEW k \in ConnRecords,
           u[r].c # Nil, y.c = u[r].c, y.addr = u[r].addr, k.st = conn[y.c].st,
           u' = [u EXCEPT ![r] = y], conn' = [conn EXCEPT ![y.c] = k],
           UNCHANGED <<conf, cache, conns, exiting>>,
           run = None \/ run[2] = r,
           run' = None \/ \E f, arg : run' = <<f, r, arg>> /\ CanRun(conf, f, r, y, k, arg),
           Answer(conf, k), Alone(r, y), Attempts(conf, y), Linked(conf, r, y, k),
           y.headersent => Passing(conf, y, k) \/ \E arg : run' = <<"finalize", r, arg>>
    PROVE  IInv'
<1>1. y.c \in Conns /\ y.c # Nil /\ conn \in [Conns -> ConnRecords] /\ k.st # "free"
  BY Held
<1>2. /\ conn' \in [Conns -> ConnRecords] /\ conn'[y.c] = k
      /\ \A c \in Conns \ {y.c} : conn'[c] = conn[c]
  BY <1>1
<1>3. UNCHANGED <<conf, cache, conns, exiting>>
  OBVIOUS
<1>4. y.headersent => Passing(conf, y, k) \/ Running("finalize", r)'
  <2>1. \A arg : run' = <<"finalize", r, arg>> => Running("finalize", r)'
    BY DEF Running, None
  <2> HIDE DEF Passing
  <2> QED
    BY <2>1
<1> HIDE DEF CanRun
<1> QED
  BY <1>1, <1>2, <1>3, <1>4, LocalStep

(* A request that differs in its timers and handlers only.                 *)
Alike(x, y) ==
    /\ y.st = x.st /\ y.addr = x.addr /\ y.c = x.c /\ y.cached = x.cached /\ y.tries = x.tries
    /\ y.sent = x.sent /\ y.bodysent = x.bodysent /\ y.received = x.received
    /\ y.headersent = x.headersent /\ y.keepalive = x.keepalive /\ y.length = x.length
    /\ y.closing = x.closing /\ y.rh = x.rh /\ y.out = x.out /\ y.got = x.got /\ y.rc = x.rc
    /\ y.n = x.n /\ y.fresh = x.fresh /\ y.heads = x.heads
    /\ y.wh = "send" => x.wh = "send"

LEMMA AlikeHolds ==
    ASSUME NEW s, NEW r, NEW x, NEW y, NEW k, Alike(x, y)
    PROVE  /\ Alone(r, x) => Alone(r, y)
           /\ Attempts(s, x) => Attempts(s, y)
           /\ Linked(s, r, x, k) => Linked(s, r, y, k)
           /\ Passing(s, x, k) => Passing(s, y, k)
<1>1. Alone(r, x) => Alone(r, y)
  BY DEF Alike, Alone, Complete
<1>2. Attempts(s, x) => Attempts(s, y)
  BY DEF Alike, Attempts
<1>3. Linked(s, r, x, k) => Linked(s, r, y, k)
  BY DEF Alike, Linked, Mine
<1>4. Passing(s, x, k) => Passing(s, y, k)
  BY DEF Alike, Passing
<1> QED
  BY <1>1, <1>2, <1>3, <1>4

LEMMA AlikeStep ==
    ASSUME IInv, NEW r \in Requests, NEW y \in UpstreamRecords, Alike(u[r], y),
           u' = [u EXCEPT ![r] = y], UNCHANGED <<conf, conn, cache, conns, exiting>>,
           run = None \/ run[2] = r, ~Running("finalize", r),
           \/ run' = None
           \/ \E f, arg : run' = <<f, r, arg>> /\ CanRun(conf, f, r, y, conn[y.c], arg),
           y.st = "active" /\ y.c = Nil => run' # None
    PROVE  IInv'
<1>1. /\ Alone(r, y) /\ Attempts(conf, y) /\ y.c = u[r].c /\ y.addr = u[r].addr
      /\ y.c # Nil => Linked(conf, r, y, conn[y.c]) /\ Answer(conf, conn[y.c])
                      /\ conn[y.c].st # "free"
      /\ y.c # Nil /\ y.headersent => Passing(conf, y, conn[y.c])
  <2>1. y.c = u[r].c /\ y.addr = u[r].addr /\ y.headersent = u[r].headersent
    BY DEF Alike
  <2>2. /\ Alone(r, u[r]) => Alone(r, y)
        /\ Attempts(conf, u[r]) => Attempts(conf, y)
        /\ Linked(conf, r, u[r], conn[y.c]) => Linked(conf, r, y, conn[y.c])
        /\ Passing(conf, u[r], conn[y.c]) => Passing(conf, y, conn[y.c])
    BY AlikeHolds
  <2> QED
    BY <2>1, <2>2, Held
<1>2. /\ conn' = conn /\ \A c \in Conns \ {y.c} : conn'[c] = conn[c]
      /\ conn' \in [Conns -> ConnRecords] /\ UNCHANGED <<conf, cache, conns, exiting>>
  BY Held
<1> HIDE DEF CanRun
<1> QED
  BY <1>1, <1>2, LocalStep

LEMMA SendRequestHandlerStep ==
    ASSUME IInv, NEW r \in Requests, SendRequestHandler(r)
    PROVE  IInv'
<1> DEFINE x == u[r]
<1>1. /\ run = None /\ x.st = "active" /\ x.c # Nil /\ x.wh = "send"
      /\ UNCHANGED <<conf, conn, cache, conns, exiting>>
      /\ \/ x.headersent /\ u' = [u EXCEPT ![r].wh = "dummy"] /\ run' = None
         \/ ~x.headersent /\ u' = u /\ run' = <<"send", r, Nil>>
  BY DEF SendRequestHandler, Idle, Return, Call, Active
<1>2. x \in UpstreamRecords /\ ~Running("finalize", r)
  BY <1>1, Held DEF Running
<1>3. CASE x.headersent /\ u' = [u EXCEPT ![r].wh = "dummy"] /\ run' = None
  <2> DEFINE y == [x EXCEPT !.wh = "dummy"]
  <2>1. y \in UpstreamRecords /\ Alike(x, y)
    BY <1>2 DEF UpstreamRecords, Alike
  <2>2. u' = [u EXCEPT ![r] = y]
    BY <1>3, Held
  <2>3. y.c # Nil
    BY <1>1, <2>1 DEF Alike
  <2> HIDE DEF y
  <2> QED
    BY <1>1, <1>2, <1>3, <2>1, <2>2, <2>3, AlikeStep
<1>4. CASE ~x.headersent /\ u' = u /\ run' = <<"send", r, Nil>>
  <2>1. CanRun(conf, "send", r, x, conn[x.c], Nil)
    BY <1>1, <1>4 DEF CanRun, CanSend
  <2> QED
    BY <1>1, <1>2, <1>4, <2>1, CallStep
<1> QED
  BY <1>1, <1>3, <1>4

LEMMA WriteTimeoutStep ==
    ASSUME IInv, NEW r \in Requests, WriteTimeout(r)
    PROVE  IInv'
<1> DEFINE x == u[r]
           y == [x EXCEPT !.wt = FALSE]
<1>1. /\ run = None /\ x.st = "active" /\ x.c # Nil
      /\ UNCHANGED <<conf, conn, cache, conns, exiting>>
      /\ u' = [u EXCEPT ![r].wt = FALSE]
      /\ \/ x.wh = "send" /\ run' = <<"next", r, "timeout">>
         \/ run' = <<"finalize", r, "504">>
         \/ run' = None
  BY DEF WriteTimeout, Idle, Return, Call, Active
<1>2. /\ x \in UpstreamRecords /\ ~Running("finalize", r) /\ Alone(r, x)
      /\ Linked(conf, r, x, conn[x.c])
  BY <1>1, Held DEF Running
<1>3. y \in UpstreamRecords /\ Alike(x, y)
  BY <1>2 DEF UpstreamRecords, Alike
<1>4. u' = [u EXCEPT ![r] = y]
  BY <1>1, Held
<1>5. y.c # Nil /\ y.st = "active" /\ y.addr # Nil
  BY <1>1, <1>2, <1>3 DEF Alike, Alone
<1>6. x.wh = "send" => CanGoOn(conf, y, "timeout")
  BY <1>2, <1>3, <1>5 DEF CanGoOn, Linked, Alike
<1> HIDE DEF x, y
<1>7. \/ run' = None
      \/ \E f, arg : run' = <<f, r, arg>> /\ CanRun(conf, f, r, y, conn[y.c], arg)
  BY <1>1, <1>5, <1>6 DEF CanRun, Outcomes
<1> QED
  BY <1>1, <1>2, <1>3, <1>4, <1>5, <1>7, AlikeStep DEF x

LEMMA ReadTimeoutStep ==
    ASSUME IInv, NEW r \in Requests, ReadTimeout(r)
    PROVE  IInv'
<1> DEFINE x == u[r]
           y == [x EXCEPT !.rt = FALSE]
<1>1. /\ run = None /\ x.st = "active" /\ x.c # Nil
      /\ UNCHANGED <<conf, conn, cache, conns, exiting>>
      /\ u' = [u EXCEPT ![r].rt = FALSE]
      /\ \/ x.rh = "header" /\ run' = <<"next", r, "timeout">>
         \/ run' = <<"finalize", r, "502">>
         \/ run' = <<"finalize", r, "504">>
  BY DEF ReadTimeout, Idle, Call, Active
<1>2. /\ x \in UpstreamRecords /\ ~Running("finalize", r) /\ Alone(r, x)
  BY <1>1, Held DEF Running
<1>3. y \in UpstreamRecords /\ Alike(x, y)
  BY <1>2 DEF UpstreamRecords, Alike
<1>4. u' = [u EXCEPT ![r] = y]
  BY <1>1, Held
<1>5. y.c # Nil /\ y.st = "active" /\ y.addr # Nil
  BY <1>1, <1>2, <1>3 DEF Alike, Alone
<1>6. x.rh = "header" => CanGoOn(conf, y, "timeout")
  BY <1>2, <1>3, <1>5 DEF CanGoOn, Alone, Alike
<1> HIDE DEF x, y
<1>7. \E f, arg : run' = <<f, r, arg>> /\ CanRun(conf, f, r, y, conn[y.c], arg)
  BY <1>1, <1>5, <1>6 DEF CanRun, Outcomes
<1> QED
  BY <1>1, <1>2, <1>3, <1>4, <1>5, <1>7, AlikeStep DEF x

LEMMA ReadRequestHandlerStep ==
    ASSUME IInv, NEW r \in Requests, ReadRequestHandler(r)
    PROVE  IInv'
<1>1. /\ run = None /\ u[r].st = "active" /\ u[r].c # Nil /\ conf.unbuffered /\ u[r].sent
      /\ UNCHANGED <<conf, u, conn, cache, conns, exiting>>
      /\ \/ u[r].wh = "send" /\ run' = <<"send", r, Nil>>
         \/ run' = <<"finalize", r, "408">>
  BY DEF ReadRequestHandler, Idle, Call, Active
<1>2. ~Running("finalize", r)
  BY <1>1 DEF Running
<1>3. CASE u[r].wh = "send" /\ run' = <<"send", r, Nil>>
  <2>1. CanRun(conf, "send", r, u[r], conn[u[r].c], Nil)
    BY <1>1, <1>3 DEF CanRun, CanSend
  <2> QED
    BY <1>1, <1>2, <1>3, <2>1, CallStep
<1>4. CASE run' = <<"finalize", r, "408">>
  <2>1. CanRun(conf, "finalize", r, u[r], conn[u[r].c], "408")
    BY <1>1 DEF CanRun, Outcomes
  <2> QED
    BY <1>1, <1>2, <1>4, <2>1, CallStep
<1> QED
  BY <1>1, <1>3, <1>4

LEMMA CleanupStep ==
    ASSUME IInv, NEW r \in Requests, Cleanup(r)
    PROVE  IInv'
<1>1. /\ run = None /\ u[r].st \in {"resolving", "active"}
      /\ UNCHANGED <<conf, u, conn, cache, conns, exiting>>
      /\ run' = <<"finalize", r, "terminated">>
  BY DEF Cleanup, Idle, Call
<1>2. ~Running("finalize", r)
  BY <1>1 DEF Running
<1>3. CanRun(conf, "finalize", r, u[r], conn[u[r].c], "terminated")
  BY <1>1 DEF CanRun, Outcomes
<1> QED
  BY <1>1, <1>2, <1>3, CallStep

LEMMA CheckBrokenStep ==
    ASSUME IInv, NEW r \in Requests, CheckBroken(r)
    PROVE  IInv'
<1>1. /\ run = None /\ u[r].st \in {"resolving", "active"}
      /\ UNCHANGED <<conf, u, conn, cache, conns, exiting>>
      /\ run' = <<"finalize", r, "499">> \/ run' = None
  BY DEF CheckBroken, Idle, Call, Return
<1>2. ~Running("finalize", r)
  BY <1>1 DEF Running
<1>3. CanRun(conf, "finalize", r, u[r], conn[u[r].c], "499")
  BY <1>1 DEF CanRun, Outcomes
<1>4. CASE run' = None
  BY <1>1, <1>4, Still
<1>5. CASE run' = <<"finalize", r, "499">>
  BY <1>1, <1>2, <1>3, <1>5, CallStep
<1> QED
  BY <1>1, <1>4, <1>5

-----------------------------------------------------------------------------
(***************************************************************************)
(* What passes to the client                                               *)
(***************************************************************************)
(* The next parts of an answer keep it one answer.                         *)
LEMMA Longer ==
    ASSUME NEW r, NEW g \in Seq(Parts), g # <<>>, OneAnswer(r, g), NEW p \in Seq(Parts),
           \A j \in 1 .. Len(p) : IsPart(p[j], r, g[1].n, Len(g) + j - 1, g[1].kind)
    PROVE  /\ g \o p \in Seq(Parts) /\ Len(g \o p) = Len(g) + Len(p) /\ g \o p # <<>>
           /\ (g \o p)[1] = g[1] /\ OneAnswer(r, g \o p)
<1> DEFINE w == g \o p
<1>1. /\ w \in Seq(Parts) /\ Len(w) = Len(g) + Len(p) /\ Len(g) \in Nat /\ Len(p) \in Nat
      /\ Len(g) >= 1 /\ DOMAIN w = 1 .. Len(g) + Len(p) /\ DOMAIN g = 1 .. Len(g)
      /\ \A i \in 1 .. Len(g) : w[i] = g[i]
      /\ \A i \in 1 .. Len(g) + Len(p) : i > Len(g) => w[i] = p[i - Len(g)]
  OBVIOUS
<1> HIDE DEF w
<1>2. w[1] = g[1] /\ w # <<>>
  BY <1>1
<1>3. ASSUME NEW i \in 1 .. Len(g) + Len(p)
      PROVE  IsPart(w[i], r, w[1].n, i - 1, w[1].kind)
  <2>1. CASE i <= Len(g)
    <3>1. i \in DOMAIN g /\ w[i] = g[i]
      BY <1>1, <2>1
    <3> QED
      BY <1>2, <3>1 DEF OneAnswer
  <2>2. CASE i > Len(g)
    <3> DEFINE j == i - Len(g)
    <3>1. w[i] = p[j] /\ j \in 1 .. Len(p) /\ Len(g) + j - 1 = i - 1
      BY <1>1, <2>2
    <3> HIDE DEF j
    <3>2. IsPart(w[i], r, g[1].n, i - 1, g[1].kind)
      BY <3>1
    <3> QED
      BY <1>2, <3>2
  <2> QED
    BY <1>1, <2>1, <2>2
<1>4. OneAnswer(r, w)
  BY <1>1, <1>3 DEF OneAnswer
<1> QED
  BY <1>1, <1>2, <1>4 DEF w

LEMMA PassDownstreamStep ==
    ASSUME IInv, NEW r \in Requests, PassDownstream(r)
    PROVE  IInv'
<1> DEFINE x == u[r]
           k == conn[x.c]
           g == x.got \o x.out
           e == <<>>
           y == [x EXCEPT !.got = g, !.out = e]
<1>1. /\ run = None /\ x.st = "active" /\ x.out # <<>>
      /\ UNCHANGED <<conf, conn, cache, conns, exiting>>
      /\ \/ u' = [u EXCEPT ![r].got = g, ![r].out = <<>>] /\ run' = <<"pass", r, Nil>>
         \/ u' = u /\ run' = <<"finalize", r, "408">>
  BY DEF PassDownstream, Idle, Call, Active, None
<1>2. /\ x \in UpstreamRecords /\ ~Running("finalize", r) /\ Alone(r, x) /\ Attempts(conf, x)
      /\ u \in [Requests -> UpstreamRecords]
  BY <1>1, Held DEF Running
<1>3. /\ x.c # Nil /\ x.rh = "pass" /\ x.headersent /\ x.c \in Conns
      /\ k \in ConnRecords /\ Answer(conf, k) /\ k.st # "free"
      /\ Linked(conf, r, x, k) /\ Passing(conf, x, k)
  <2>1. x.c # Nil
    BY <1>1, Held
  <2>2. x.rh = "pass" /\ x.headersent
    BY <1>1, <1>2 DEF Alone
  <2> QED
    BY <2>1, <2>2, <1>2, Held
<1>4. CASE u' = u /\ run' = <<"finalize", r, "408">>
  <2>1. CanRun(conf, "finalize", r, u[r], conn[u[r].c], "408")
    BY <1>1 DEF CanRun, Outcomes
  <2> QED
    BY <1>1, <1>2, <1>4, <2>1, CallStep
<1>5. CASE u' = [u EXCEPT ![r].got = g, ![r].out = <<>>] /\ run' = <<"pass", r, Nil>>
  <2>1. x.got \in Seq(Parts) /\ x.out \in Seq(Parts) /\ x.got # <<>> /\ OneAnswer(r, x.got)
    BY <1>2, <1>3 DEF UpstreamRecords, Alone
  <2>2. Len(x.out) = 1 /\ IsPart(x.out[1], r, x.got[1].n, Len(x.got), x.got[1].kind)
    <3> HIDE DEF x, k, g
    <3>1. k.cur[1] = r /\ k.cur[2] = x.n
      BY <1>3 DEF Linked, Mine
    <3>2. /\ x.got[1].n = x.n /\ x.got[1].kind = k.resp /\ Len(x.out) = 1
          /\ IsPart(x.out[1], k.cur[1], k.cur[2], Len(x.got), k.resp)
      BY <1>1, <1>3 DEF Passing
    <3> QED
      BY <3>1, <3>2
  <2>3. /\ g \in Seq(Parts) /\ Len(g) = Len(x.got) + Len(x.out) /\ g # <<>> /\ g[1] = x.got[1]
        /\ OneAnswer(r, g)
    <3>1. \A j \in 1 .. Len(x.out) :
            IsPart(x.out[j], r, x.got[1].n, Len(x.got) + j - 1, x.got[1].kind)
      <4>1. Len(x.got) \in Nat /\ Len(x.got) + 1 - 1 = Len(x.got)
        BY <2>1
      <4>2. \A j \in 1 .. Len(x.out) : j = 1
        BY <2>2
      <4> QED
        BY <2>2, <4>1, <4>2
    <3> QED
      BY ONLY <2>1, <3>1, Longer
  <2> HIDE DEF g, x, k
  <2>9. e \in Seq(Parts) /\ Len(e) = 0
    OBVIOUS
  <2> HIDE DEF e
  <2>4. /\ y \in UpstreamRecords /\ y.got = g /\ y.out = e
        /\ y.st = x.st /\ y.addr = x.addr /\ y.c = x.c /\ y.cached = x.cached
        /\ y.tries = x.tries /\ y.sent = x.sent /\ y.bodysent = x.bodysent
        /\ y.received = x.received /\ y.headersent = x.headersent
        /\ y.keepalive = x.keepalive /\ y.length = x.length /\ y.closing = x.closing
        /\ y.rh = x.rh /\ y.wh = x.wh /\ y.rc = x.rc /\ y.n = x.n
        /\ y.fresh = x.fresh /\ y.heads = x.heads
    BY <1>2, <2>3, <2>9 DEF UpstreamRecords
  <2>5. u' = [u EXCEPT ![r] = y]
    BY <1>2, <1>5 DEF x, e
  <2> HIDE DEF y
  <2>6. Alone(r, y) /\ Attempts(conf, y) /\ Linked(conf, r, y, k)
    <3>1. Alone(r, y)
      BY <1>1, <1>2, <2>3, <2>4 DEF Alone, e
    <3>2. Attempts(conf, y)
      BY <1>2, <2>4 DEF Attempts
    <3>3. Linked(conf, r, y, k)
      BY <1>3, <2>4 DEF Linked, Mine
    <3> QED
      BY <3>1, <3>2, <3>3
  <2>7. Passing(conf, y, k)
    <3>1. Len(y.got) + Len(y.out) = Len(x.got) + Len(x.out)
      BY <2>1, <2>2, <2>3, <2>4, <2>9
    <3> QED
      BY <1>3, <2>3, <2>4, <3>1 DEF Passing, e
  <2>8. CanRun(conf, "pass", r, y, conn[y.c], Nil) /\ run' # None
    BY <1>1, <1>3, <1>5, <2>4 DEF CanRun, None
  <2> HIDE DEF CanRun, Linked, Passing, Alone, Attempts
  <2> QED
    BY <1>1, <1>2, <1>3, <1>5, <2>4, <2>5, <2>6, <2>7, <2>8, Held, LocalStep DEF x, k
<1> QED
  BY <1>1, <1>4, <1>5

(* A connection that differs in its socket only.                           *)
SameAnswer(k, l) ==
    /\ l.cur = k.cur /\ l.parts = k.parts /\ l.resp = k.resp /\ l.left = k.left
    /\ l.inbox = k.inbox /\ l.eof = k.eof /\ (k.ssl => l.ssl)

LEMMA SameAnswerHolds ==
    ASSUME NEW s, NEW r, NEW x, NEW k, NEW l, SameAnswer(k, l)
    PROVE  /\ Answer(s, k) => Answer(s, l)
           /\ Linked(s, r, x, k) => Linked(s, r, x, l)
           /\ Passing(s, x, k) => Passing(s, x, l)
<1>1. Answer(s, k) => Answer(s, l)
  BY DEF SameAnswer, Answer, Ordered
<1>2. Linked(s, r, x, k) => Linked(s, r, x, l)
  BY DEF SameAnswer, Linked, Mine
<1>3. Passing(s, x, k) => Passing(s, x, l)
  BY DEF SameAnswer, Passing
<1> QED
  BY <1>1, <1>2, <1>3

LEMMA SocketStep ==
    ASSUME IInv, NEW r \in Requests, NEW y \in UpstreamRecords, Alike(u[r], y), y.c # Nil,
           NEW l \in ConnRecords, SameAnswer(conn[y.c], l), l.st = conn[y.c].st,
           u' = [u EXCEPT ![r] = y], conn' = [conn EXCEPT ![y.c] = l],
           UNCHANGED <<conf, cache, conns, exiting>>,
           run = None \/ run[2] = r, ~Running("finalize", r),
           \/ run' = None
           \/ \E f, arg : run' = <<f, r, arg>> /\ CanRun(conf, f, r, y, l, arg)
    PROVE  IInv'
<1> DEFINE k == conn[y.c]
<1>1. /\ y.c = u[r].c /\ y.addr = u[r].addr /\ y.headersent = u[r].headersent
  BY DEF Alike
<1>2. /\ y.c \in Conns /\ conn \in [Conns -> ConnRecords]
      /\ Alone(r, u[r]) /\ Attempts(conf, u[r]) /\ Answer(conf, k) /\ k.st # "free"
      /\ Linked(conf, r, u[r], k) /\ (y.headersent => Passing(conf, u[r], k))
  BY <1>1, Held
<1>3. /\ Alone(r, y) /\ Attempts(conf, y) /\ Answer(conf, l)
      /\ Linked(conf, r, y, l) /\ (y.headersent => Passing(conf, y, l))
  <2>1. /\ Alone(r, u[r]) => Alone(r, y)
        /\ Attempts(conf, u[r]) => Attempts(conf, y)
        /\ Linked(conf, r, u[r], k) => Linked(conf, r, y, k)
        /\ Passing(conf, u[r], k) => Passing(conf, y, k)
    BY AlikeHolds
  <2>2. /\ Answer(conf, k) => Answer(conf, l)
        /\ Linked(conf, r, y, k) => Linked(conf, r, y, l)
        /\ Passing(conf, y, k) => Passing(conf, y, l)
    BY SameAnswerHolds
  <2> QED
    BY <1>2, <2>1, <2>2
<1>4. /\ conn' \in [Conns -> ConnRecords] /\ conn'[y.c] = l
      /\ \A c \in Conns \ {y.c} : conn'[c] = conn[c]
  BY <1>2
<1>5. UNCHANGED <<conf, cache, conns, exiting>>
  OBVIOUS
<1> HIDE DEF CanRun
<1> QED
  BY <1>1, <1>2, <1>3, <1>4, <1>5, LocalStep

LEMMA HandshakeStep ==
    ASSUME IInv, NEW r \in Requests, Handshake(r)
    PROVE  IInv'
<1> DEFINE x == u[r]
           k == conn[x.c]
<1>1. /\ Running("ssl", r) /\ UNCHANGED <<conf, cache, conns, exiting>>
      /\ \/ /\ conn' = [conn EXCEPT ![x.c].ssl = TRUE]
            /\ u' = [u EXCEPT ![r].wt = FALSE, ![r].blocked = FALSE]
            /\ run' = <<"send", r, Nil>>
         \/ run' = <<"next", r, "error">> /\ UNCHANGED <<u, conn>>
         \/ /\ conn' = [conn EXCEPT ![x.c].full = TRUE]
            /\ u' = [u EXCEPT ![r].blocked = TRUE, ![r].wt = TRUE]
            /\ run' = None
  BY DEF Handshake, Call, Return
<1>2. /\ run[2] = r /\ ~Running("finalize", r) /\ CanSend(conf, x) /\ ~x.headersent
  BY <1>1, Called DEF CanRun, Running
<1>3. /\ x \in UpstreamRecords /\ x.c # Nil /\ x.c \in Conns /\ k \in ConnRecords
      /\ u \in [Requests -> UpstreamRecords] /\ conn \in [Conns -> ConnRecords] /\ Alone(r, x)
  BY <1>2, Held DEF CanSend
<1>4. CASE run' = <<"next", r, "error">> /\ UNCHANGED <<u, conn>>
  <2>1. CanRun(conf, "next", r, x, k, "error")
    BY <1>2, <1>3 DEF CanRun, CanSend, CanGoOn, Alone
  <2> QED
    BY <1>1, <1>2, <1>4, <2>1, CallStep
<1>5. ASSUME NEW b \in BOOLEAN, NEW w \in BOOLEAN, NEW l \in ConnRecords, SameAnswer(k, l),
             l.st = k.st, conn' = [conn EXCEPT ![x.c] = l],
             u' = [u EXCEPT ![r] = [x EXCEPT !.blocked = b, !.wt = w]],
             run' = None \/ run' = <<"send", r, Nil>>
      PROVE  IInv'
  <2> DEFINE y == [x EXCEPT !.blocked = b, !.wt = w]
  <2> HIDE DEF x, k
  <2>1. y \in UpstreamRecords /\ Alike(x, y) /\ y.wh = x.wh
    BY <1>3 DEF UpstreamRecords, Alike
  <2>2. u' = [u EXCEPT ![r] = y]
    BY <1>5
  <2> HIDE DEF y
  <2>3. y.c = x.c /\ CanSend(conf, y)
    BY <1>2, <2>1, <1>3 DEF CanSend, Alike, UpstreamRecords
  <2>4. CanRun(conf, "send", r, y, l, Nil)
    BY <2>3 DEF CanRun
  <2> HIDE DEF CanRun, CanSend
  <2>5. /\ Alike(u[r], y) /\ SameAnswer(conn[y.c], l) /\ l.st = conn[y.c].st
        /\ conn' = [conn EXCEPT ![y.c] = l] /\ y.c # Nil
        /\ UNCHANGED <<conf, cache, conns, exiting>>
    BY <1>1, <1>3, <1>5, <2>1, <2>3 DEF x, k
  <2> QED
    BY <1>2, <1>5, <2>1, <2>2, <2>4, <2>5, SocketStep
<1>6. CASE /\ conn' = [conn EXCEPT ![x.c].ssl = TRUE]
           /\ u' = [u EXCEPT ![r].wt = FALSE, ![r].blocked = FALSE]
           /\ run' = <<"send", r, Nil>>
  <2> DEFINE l == [k EXCEPT !.ssl = TRUE]
  <2>1. l \in ConnRecords /\ SameAnswer(k, l) /\ l.st = k.st
    BY <1>3 DEF ConnRecords, SameAnswer
  <2>2. conn' = [conn EXCEPT ![x.c] = l]
    BY <1>3, <1>6
  <2>3. u' = [u EXCEPT ![r] = [x EXCEPT !.blocked = FALSE, !.wt = FALSE]]
    BY <1>3, <1>6
  <2> HIDE DEF l, x, k
  <2> QED
    BY <1>5, <1>6, <2>1, <2>2, <2>3
<1>7. CASE /\ conn' = [conn EXCEPT ![x.c].full = TRUE]
           /\ u' = [u EXCEPT ![r].blocked = TRUE, ![r].wt = TRUE]
           /\ run' = None
  <2> DEFINE l == [k EXCEPT !.full = TRUE]
  <2>1. l \in ConnRecords /\ SameAnswer(k, l) /\ l.st = k.st
    BY <1>3 DEF ConnRecords, SameAnswer
  <2>2. conn' = [conn EXCEPT ![x.c] = l]
    BY <1>3, <1>7
  <2>3. u' = [u EXCEPT ![r] = [x EXCEPT !.blocked = TRUE, !.wt = TRUE]]
    BY <1>3, <1>7
  <2> HIDE DEF l, x, k
  <2> QED
    BY <1>5, <1>7, <2>1, <2>2, <2>3
<1> QED
  BY <1>1, <1>4, <1>6, <1>7

(* The bodies of the answers                                               *)
LEMMA Bodies ==
    /\ \A d \in Kinds : BodyOf[d] \in Int /\ BodyOf[d] >= -1 /\ Total(d) \in Nat
                        /\ (BodyOf[d] # -1 => Total(d) = BodyOf[d])
    /\ BodyOf["upgrade"] = -1 /\ "none" \notin Kinds
    /\ \A d \in Kinds : BodyOf[d] = 0 => d # "upgrade"
<1>1. Kinds = {"empty", "whole", "last", "untilclose", "upgrade", "error", "missing", "bad"}
  BY DEF Kinds, BodyOf
<1>2. \A d \in Kinds : BodyOf[d] \in Int /\ BodyOf[d] >= -1
  BY <1>1 DEF BodyOf
<1>3. BodyOf["upgrade"] = -1
  BY DEF BodyOf
<1> QED
  BY <1>1, <1>2, <1>3 DEF Total

LEMMA SendResponseStep ==
    ASSUME IInv, NEW r \in Requests, SendResponse(r)
    PROVE  IInv'
<1> DEFINE x == u[r]
           k == conn[x.c]
           h == run[3]
           g == <<h>>
           b == BodyOf[h.kind]
<1>1. /\ Running("response", r) /\ UNCHANGED <<conf, conn, cache, conns, exiting>>
      /\ \/ u' = u /\ run' = <<"finalize", r, "error">>
         \/ /\ h.kind = "upgrade"
            /\ u' = [u EXCEPT ![r] = [x EXCEPT !.headersent = TRUE, !.got = g, !.length = b,
                                                !.rh = "upgraded", !.wh = "upgraded", !.rt = TRUE]]
            /\ run' = None
         \/ /\ h.kind # "upgrade"
            /\ u' = [u EXCEPT ![r] = [x EXCEPT !.headersent = TRUE, !.got = g, !.length = b,
                                                !.rh = "pass"]]
            /\ run' = <<"pass", r, Nil>>
  BY DEF SendResponse, Call, Return, Arg
<1>2. /\ run[2] = r /\ ~Running("finalize", r) /\ CanRespond(r, x, k, h)
  BY <1>1, Called DEF CanRun, Running
<1>3. /\ x \in UpstreamRecords /\ x.c # Nil /\ x.c \in Conns /\ k \in ConnRecords
      /\ u \in [Requests -> UpstreamRecords] /\ conn \in [Conns -> ConnRecords] /\ Alone(r, x)
      /\ Attempts(conf, x) /\ Linked(conf, r, x, k) /\ Answer(conf, k) /\ k.st # "free"
  BY <1>2, Held DEF CanRespond
<1>4. CASE u' = u /\ run' = <<"finalize", r, "error">>
  <2>1. CanRun(conf, "finalize", r, x, k, "error")
    BY <1>2 DEF CanRun, Outcomes, CanRespond
  <2> QED
    BY <1>1, <1>2, <1>4, <2>1, CallStep
<1>5. /\ g \in Seq(Parts) /\ Len(g) = 1 /\ g[1] = h /\ OneAnswer(r, g) /\ g # <<>>
  BY <1>2 DEF CanRespond, OneAnswer, IsPart
<1>6. /\ h.kind = k.resp /\ h.n = x.n /\ k.resp \in Kinds /\ b \in Int
      /\ Len(k.inbox) + k.left = Total(k.resp) /\ k.inbox \in Seq(Parts) /\ k.left \in Nat
  BY <1>2, <1>3, Bodies DEF CanRespond, IsPart, ConnRecords
<1> DEFINE Answered(y) ==
             /\ y.headersent = TRUE /\ y.got = g /\ y.length = b
             /\ y.st = x.st /\ y.addr = x.addr /\ y.c = x.c /\ y.cached = x.cached
             /\ y.tries = x.tries /\ y.sent = x.sent /\ y.bodysent = x.bodysent
             /\ y.received = x.received /\ y.keepalive = x.keepalive /\ y.closing = x.closing
             /\ y.out = x.out /\ y.rc = x.rc /\ y.n = x.n /\ y.fresh = x.fresh
             /\ y.heads = x.heads
<1>7. ASSUME NEW y \in UpstreamRecords, u' = [u EXCEPT ![r] = y], Answered(y),
             y.rh \in {"pass", "upgraded"}, y.rh = "upgraded" <=> h.kind = "upgrade",
             y.wh = x.wh \/ y.wh = "upgraded",
             run' = None \/ (run' = <<"pass", r, Nil>> /\ y.rh = "pass")
      PROVE  IInv'
  <2> HIDE DEF x, k, h, g, b
  <2>1. Answered(y)
    BY <1>7
  <2>3. Alone(r, y)
    BY <1>2, <1>3, <1>5, <1>7, <2>1 DEF Alone, CanRespond
  <2>4. Attempts(conf, y)
    BY <1>3, <2>1 DEF Attempts
  <2>5. Linked(conf, r, y, k)
    <3>1. x.bodysent \/ conf.early
      BY <1>2, <1>3 DEF Linked, Mine, CanRespond, Answer
    <3> QED
      BY <1>2, <1>3, <1>7, <2>1, <3>1 DEF Linked, Mine, CanRespond
  <2>6. Passing(conf, y, k)
    <3>1. x.out = <<>> /\ Len(x.out) = 0
      BY <1>2, <1>3 DEF Alone, CanRespond
    <3>2. Len(y.got) = 1 /\ Len(y.out) = 0 /\ Len(k.inbox) \in Nat /\ k.left \in Nat
      BY <1>5, <1>6, <2>1, <3>1
    <3>3. Len(y.got) + Len(y.out) + Len(k.inbox) + k.left = Total(k.resp) + 1
      BY ONLY <1>6, <3>2
    <3>4. b = IF BodyOf[k.resp] = -1 THEN -1 ELSE k.left + Len(k.inbox)
      <4>1. b = BodyOf[k.resp]
        BY <1>6 DEF b
      <4>2. BodyOf[k.resp] # -1 => BodyOf[k.resp] = Len(k.inbox) + k.left
        BY <1>6, Bodies
      <4> QED
        BY <4>1, <4>2, <3>2
    <3> QED
      BY <1>2, <1>5, <1>6, <1>7, <2>1, <3>1, <3>3, <3>4 DEF Passing, CanRespond
  <2>7. run' = None \/ \E f, arg : run' = <<f, r, arg>> /\ CanRun(conf, f, r, y, k, arg)
    BY <1>2, <1>7, <2>1 DEF CanRun, CanRespond
  <2>8. /\ u[r].c # Nil /\ y.c = u[r].c /\ y.addr = u[r].addr /\ k.st = conn[y.c].st
        /\ conn' = [conn EXCEPT ![y.c] = k] /\ k \in ConnRecords
        /\ UNCHANGED <<conf, cache, conns, exiting>> /\ run[2] = r
    BY <1>1, <1>2, <1>3, <2>1 DEF x, k
  <2> HIDE DEF Linked, Passing, Alone, Attempts, CanRun, Answer
  <2> QED
    BY <1>3, <1>7, <2>1, <2>3, <2>4, <2>5, <2>6, <2>7, <2>8, TalkStep
<1>8. CASE /\ h.kind = "upgrade"
           /\ u' = [u EXCEPT ![r] = [x EXCEPT !.headersent = TRUE, !.got = g, !.length = b,
                                              !.rh = "upgraded", !.wh = "upgraded", !.rt = TRUE]]
           /\ run' = None
  <2> DEFINE y == [x EXCEPT !.headersent = TRUE, !.got = g, !.length = b,
                            !.rh = "upgraded", !.wh = "upgraded", !.rt = TRUE]
  <2> HIDE DEF x, k, h, g, b
  <2>1. y \in UpstreamRecords /\ Answered(y) /\ y.rh = "upgraded" /\ y.wh = "upgraded"
    BY <1>3, <1>5, <1>6 DEF UpstreamRecords
  <2>2. u' = [u EXCEPT ![r] = y]
    BY <1>8
  <2> HIDE DEF y, Answered
  <2> QED
    BY <1>7, <1>8, <2>1, <2>2
<1>9. CASE /\ h.kind # "upgrade"
           /\ u' = [u EXCEPT ![r] = [x EXCEPT !.headersent = TRUE, !.got = g, !.length = b,
                                              !.rh = "pass"]]
           /\ run' = <<"pass", r, Nil>>
  <2> DEFINE y == [x EXCEPT !.headersent = TRUE, !.got = g, !.length = b, !.rh = "pass"]
  <2> HIDE DEF x, k, h, g, b
  <2>1. y \in UpstreamRecords /\ Answered(y) /\ y.rh = "pass" /\ y.wh = x.wh
    BY <1>3, <1>5, <1>6 DEF UpstreamRecords
  <2>2. u' = [u EXCEPT ![r] = y]
    BY <1>9
  <2> HIDE DEF y, Answered
  <2> QED
    BY <1>7, <1>9, <2>1, <2>2
<1> QED
  BY <1>1, <1>4, <1>8, <1>9

(* A part is read from a connection.                                       *)
LEMMA ReadOne ==
    ASSUME NEW s, NEW k \in ConnRecords, Answer(s, k), k.inbox # <<>>,
           NEW l, l = [k EXCEPT !.inbox = Tail(@)]
    PROVE  /\ l \in ConnRecords /\ Answer(s, l) /\ l.inbox = Tail(k.inbox)
           /\ Len(l.inbox) = Len(k.inbox) - 1 /\ Len(k.inbox) \in Nat \ {0}
           /\ l.st = k.st /\ l.ssl = k.ssl /\ l.cur = k.cur /\ l.parts = k.parts
           /\ l.resp = k.resp /\ l.left = k.left /\ l.eof = k.eof
           /\ Head(k.inbox) \in Parts /\ k.resp \in Kinds /\ k.left \in Nat
           /\ IsPart(Head(k.inbox), k.cur[1], k.cur[2],
                     Total(k.resp) - k.left - Len(k.inbox) + 1, k.resp)
<1> DEFINE b == k.inbox
           t == Tail(b)
<1>1. /\ b \in Seq(Parts) /\ k.left \in Nat /\ k.resp \in Kinds /\ k.resp # "none"
      /\ Total(k.resp) \in Nat
  BY Bodies DEF ConnRecords, Answer
<1>2. /\ t \in Seq(Parts) /\ Len(b) \in Nat \ {0} /\ Len(t) = Len(b) - 1
      /\ Head(b) = b[1] /\ b[1] \in Parts
      /\ \A j \in 1 .. Len(t) : j + 1 \in 1 .. Len(b) /\ t[j] = b[j + 1]
  BY <1>1
<1> HIDE DEF t
<1>3. /\ l \in ConnRecords /\ l.inbox = t
      /\ l.st = k.st /\ l.ssl = k.ssl /\ l.cur = k.cur /\ l.parts = k.parts
      /\ l.resp = k.resp /\ l.left = k.left /\ l.eof = k.eof
  <2>1. l = [k EXCEPT !.inbox = t]
    BY DEF t
  <2> QED
    BY <1>2, <2>1 DEF ConnRecords
<1>4. Ordered(k)
  BY <1>1 DEF Answer
<1> HIDE DEF b
<1>5. Ordered(l)
  <2> SUFFICES ASSUME NEW j \in 1 .. Len(t)
               PROVE  IsPart(t[j], k.cur[1], k.cur[2],
                             Total(k.resp) - k.left - Len(t) + j, k.resp)
    BY <1>3 DEF Ordered
  <2>1. j + 1 \in 1 .. Len(b) /\ t[j] = b[j + 1]
    BY <1>2
  <2>2. Total(k.resp) - k.left - Len(b) + (j + 1) = Total(k.resp) - k.left - Len(t) + j
    <3> DEFINE a == Total(k.resp)
               c == k.left
               m == Len(b)
               n == Len(t)
    <3>1. a \in Int /\ c \in Int /\ m \in Int /\ n = m - 1 /\ j \in Int
      BY <1>1, <1>2
    <3> HIDE DEF a, c, m, n
    <3>2. a - c - m + (j + 1) = a - c - n + j
      BY ONLY <3>1
    <3> QED
      BY <3>2 DEF a, c, m, n
  <2> QED
    BY <1>4, <2>1, <2>2 DEF Ordered, b
<1>6. Answer(s, l)
  BY <1>1, <1>2, <1>3, <1>5 DEF Answer, b
<1>7. IsPart(Head(b), k.cur[1], k.cur[2], Total(k.resp) - k.left - Len(b) + 1, k.resp)
  BY <1>2, <1>4 DEF Ordered, b
<1> QED
  BY <1>1, <1>2, <1>3, <1>6, <1>7 DEF b, t

(* All parts that have come are read.                                      *)
LEMMA ReadAll ==
    ASSUME NEW s, NEW k \in ConnRecords, Answer(s, k),
           NEW l, l = [k EXCEPT !.inbox = <<>>]
    PROVE  /\ l \in ConnRecords /\ Answer(s, l) /\ l.inbox = <<>> /\ Len(l.inbox) = 0
           /\ l.st = k.st /\ l.ssl = k.ssl /\ l.cur = k.cur /\ l.parts = k.parts
           /\ l.resp = k.resp /\ l.left = k.left /\ l.eof = k.eof
<1> DEFINE e == <<>>
<1>1. e \in Seq(Parts) /\ Len(e) = 0 /\ k.inbox \in Seq(Parts) /\ k.left \in Nat
  BY DEF ConnRecords
<1>2. l = [k EXCEPT !.inbox = e]
  OBVIOUS
<1> HIDE DEF e
<1>3. /\ l \in ConnRecords /\ l.inbox = e
      /\ l.st = k.st /\ l.ssl = k.ssl /\ l.cur = k.cur /\ l.parts = k.parts
      /\ l.resp = k.resp /\ l.left = k.left /\ l.eof = k.eof
  BY <1>1, <1>2 DEF ConnRecords
<1>4. Ordered(l)
  BY <1>1, <1>3 DEF Ordered
<1>5. k.resp # "none" => Len(e) + k.left <= Total(k.resp) + 1
  <2>1. SUFFICES ASSUME k.resp # "none" PROVE Len(e) + k.left <= Total(k.resp) + 1
    OBVIOUS
  <2>2. Len(k.inbox) + k.left <= Total(k.resp) + 1 /\ Total(k.resp) \in Nat
    BY <2>1, Bodies DEF Answer, ConnRecords
  <2>3. Len(k.inbox) \in Nat
    BY <1>1
  <2> QED
    BY <1>1, <2>2, <2>3
<1>6. Answer(s, l)
  BY <1>1, <1>3, <1>4, <1>5 DEF Answer, e
<1> QED
  BY <1>1, <1>3, <1>6 DEF e

LEMMA ProcessHeaderStep ==
    ASSUME IInv, NEW r \in Requests, ProcessHeader(r)
    PROVE  IInv'
<1> DEFINE x == u[r]
           k == conn[x.c]
           h == Head(k.inbox)
           l == [k EXCEPT !.inbox = Tail(@)]
           keep == KeepAtHeader(r, h.kind)
           over == h.kind \in Closing
<1>1. /\ run = None /\ x.st = "active" /\ x.c # Nil /\ x.rh = "header"
      /\ UNCHANGED <<conf, cache, conns, exiting>>
      /\ \/ u' = u /\ conn' = conn /\ run' = <<"next", r, "error">>
         \/ /\ k.inbox # <<>> /\ (conf.ssl => k.ssl)
            /\ conn' = [conn EXCEPT ![x.c].inbox = Tail(@)]
            /\ \/ /\ u' = [u EXCEPT ![r] = [x EXCEPT !.received = TRUE]]
                  /\ run' = <<"next", r, "invalid_header">>
               \/ /\ h.i = 0 /\ h.kind # "bad"
                  /\ u' = [u EXCEPT ![r] = [[x EXCEPT !.received = TRUE]
                                             EXCEPT !.keepalive = keep, !.closing = over]]
                  /\ \/ run' = <<"next", r, RetryOf(h.kind)>>
                     \/ run' = <<"response", r, h>>
  BY DEF ProcessHeader, Idle, Call, Active
<1>2. /\ x \in UpstreamRecords /\ ~Running("finalize", r) /\ Alone(r, x) /\ Attempts(conf, x)
      /\ u \in [Requests -> UpstreamRecords] /\ conn \in [Conns -> ConnRecords]
      /\ x.c \in Conns /\ k \in ConnRecords /\ Answer(conf, k) /\ Linked(conf, r, x, k)
      /\ x.addr # Nil /\ ~x.headersent /\ x.got = <<>> /\ x.out = <<>>
  <2>1. /\ x \in UpstreamRecords /\ ~Running("finalize", r) /\ Alone(r, x) /\ Attempts(conf, x)
        /\ u \in [Requests -> UpstreamRecords] /\ conn \in [Conns -> ConnRecords]
        /\ x.c \in Conns /\ k \in ConnRecords /\ Answer(conf, k) /\ Linked(conf, r, x, k)
    BY <1>1, Held DEF Running
  <2> QED
    BY <1>1, <2>1 DEF Alone
<1>3. CASE u' = u /\ conn' = conn /\ run' = <<"next", r, "error">>
  <2>1. CanRun(conf, "next", r, x, k, "error")
    BY <1>1, <1>2 DEF CanRun, CanGoOn
  <2> QED
    BY <1>1, <1>2, <1>3, <2>1, CallStep
<1>4. ASSUME k.inbox # <<>>, conf.ssl => k.ssl, conn' = [conn EXCEPT ![x.c].inbox = Tail(@)],
             NEW y \in UpstreamRecords, u' = [u EXCEPT ![r] = y],
             y.received = TRUE,
             y.st = x.st, y.addr = x.addr, y.c = x.c, y.cached = x.cached, y.tries = x.tries,
             y.sent = x.sent, y.bodysent = x.bodysent, y.headersent = x.headersent,
             y.length = x.length, y.rh = x.rh, y.wh = x.wh, y.out = x.out, y.got = x.got,
             y.rc = x.rc, y.n = x.n, y.fresh = x.fresh, y.heads = x.heads,
             \/ ~y.keepalive
             \/ y.keepalive = keep /\ h.i = 0,
             \/ \E ft : run' = <<"next", r, ft>>
             \/ /\ run' = <<"response", r, h>>
                /\ h.i = 0 /\ h.kind # "bad" /\ (y.closing <=> over)
      PROVE  IInv'
  <2>1. /\ l \in ConnRecords /\ Answer(conf, l) /\ l.inbox = Tail(k.inbox)
        /\ Len(l.inbox) = Len(k.inbox) - 1 /\ Len(k.inbox) \in Nat \ {0}
        /\ l.st = k.st /\ l.ssl = k.ssl /\ l.cur = k.cur /\ l.parts = k.parts
        /\ l.resp = k.resp /\ l.left = k.left /\ l.eof = k.eof
        /\ h \in Parts /\ k.resp \in Kinds /\ k.left \in Nat
        /\ IsPart(h, k.cur[1], k.cur[2], Total(k.resp) - k.left - Len(k.inbox) + 1, k.resp)
    <3> HIDE DEF k
    <3> QED
      BY <1>2, <1>4, ReadOne
  <2>2. conn' = [conn EXCEPT ![y.c] = l]
    BY <1>2, <1>4
  <2>3. x.sent /\ Mine(r, x, k) /\ ~x.keepalive /\ k.resp # "none"
    BY <1>2, <1>4, <2>1, Bodies DEF Linked
  <2> HIDE DEF l
  <2>4. h.i = 0 => k.left + Len(l.inbox) = Total(k.resp)
    <3>1. h.i = Total(k.resp) - k.left - Len(k.inbox) + 1
      BY <2>1 DEF IsPart
    <3>2. /\ Total(k.resp) \in Int /\ k.left \in Int /\ Len(k.inbox) \in Int
          /\ Len(l.inbox) = Len(k.inbox) - 1
      BY <2>1, Bodies
    <3> HIDE DEF h, k
    <3> QED
      BY ONLY <3>1, <3>2
  <2>5. keep /\ h.i = 0 =>
          k.left = 0 /\ l.inbox = <<>> /\ k.resp \notin Closing /\ k.resp # "upgrade"
    <3> SUFFICES ASSUME keep, h.i = 0
                 PROVE  k.left = 0 /\ l.inbox = <<>> /\ k.resp \notin Closing
                        /\ k.resp # "upgrade"
      OBVIOUS
    <3>1. BodyOf[k.resp] = 0 /\ k.resp \notin Closing
      BY <2>1, <2>3 DEF KeepAtHeader, IsPart
    <3>2. Total(k.resp) = 0 /\ k.resp # "upgrade"
      BY <2>1, <3>1, Bodies
    <3>3. k.left = 0 /\ Len(l.inbox) = 0 /\ l.inbox \in Seq(Parts)
      <4>1. l.inbox \in Seq(Parts) /\ Len(l.inbox) \in Nat /\ k.left \in Nat
        <5> HIDE DEF k, h, keep, over
        <5>1. l.inbox \in Seq(Parts) /\ k.left \in Nat
          BY <2>1 DEF ConnRecords
        <5> QED
          BY ONLY <5>1
      <4>2. k.left + Len(l.inbox) = 0
        BY <2>4, <3>2
      <4> HIDE DEF k
      <4>3. k.left = 0 /\ Len(l.inbox) = 0
        BY ONLY <4>1, <4>2
      <4> QED
        BY <4>1, <4>3
    <3> QED
      BY <3>1, <3>2, <3>3
  <2> HIDE DEF x, k, h, keep, over
  <2>6. Alone(r, y) /\ Attempts(conf, y)
    BY <1>2, <1>4, <2>3 DEF Alone, Attempts, Complete
  <2>7. Linked(conf, r, y, l)
    BY <1>2, <1>4, <2>1, <2>3, <2>5 DEF Linked, Mine
  <2>8. \E f, arg : run' = <<f, r, arg>> /\ CanRun(conf, f, r, y, l, arg)
    <3>1. CASE \E ft : run' = <<"next", r, ft>>
      BY <1>1, <1>2, <1>4, <3>1 DEF CanRun, CanGoOn
    <3>2. CASE /\ run' = <<"response", r, h>>
               /\ h.i = 0 /\ h.kind # "bad" /\ (y.closing <=> over)
      <4>1. k.cur[1] = r /\ k.cur[2] = x.n /\ h.kind = k.resp
        BY <2>1, <2>3 DEF Mine, IsPart
      <4>2. Len(l.inbox) + l.left = Total(k.resp)
        <5>1. k.left + Len(l.inbox) = Total(k.resp) /\ l.left = k.left /\ k.left \in Nat
          BY <2>1, <2>4, <3>2
        <5>2. Len(l.inbox) \in Int
          BY <2>1
        <5> QED
          BY ONLY <5>1, <5>2
      <4>3. (y.closing <=> l.resp \in Closing) /\ l.resp # "bad" /\ l.resp # "none"
        BY <2>1, <2>3, <3>2, <4>1 DEF over
      <4>4. y.keepalive => l.resp # "upgrade"
        BY <1>4, <2>1, <2>5
      <4>5. h \in Parts /\ IsPart(h, r, y.n, 0, l.resp)
        BY <1>4, <2>1, <3>2, <4>1 DEF IsPart
      <4>6. CanRespond(r, y, l, h)
        BY <1>1, <1>4, <2>1, <4>2, <4>3, <4>4, <4>5 DEF CanRespond
      <4> QED
        BY <3>2, <4>6 DEF CanRun
    <3> QED
      BY <1>4, <3>1, <3>2
  <2>9. /\ u[r].c # Nil /\ y.c = u[r].c /\ y.addr = u[r].addr /\ l.st = conn[y.c].st
        /\ UNCHANGED <<conf, cache, conns, exiting>> /\ run = None /\ ~y.headersent
    BY <1>1, <1>2, <1>4, <2>1 DEF x, k
  <2> HIDE DEF Linked, Passing, Alone, Attempts, CanRun, Answer
  <2> QED
    BY <1>4, <2>1, <2>2, <2>6, <2>7, <2>8, <2>9, TalkStep
<1>5. CASE /\ k.inbox # <<>> /\ (conf.ssl => k.ssl)
           /\ conn' = [conn EXCEPT ![x.c].inbox = Tail(@)]
           /\ u' = [u EXCEPT ![r] = [x EXCEPT !.received = TRUE]]
           /\ run' = <<"next", r, "invalid_header">>
  <2> DEFINE y == [x EXCEPT !.received = TRUE]
  <2>1. ~x.keepalive
    BY <1>2, <1>5 DEF Linked
  <2> HIDE DEF x, k, h, l, keep, over
  <2>2. /\ y \in UpstreamRecords /\ y.received = TRUE
        /\ y.st = x.st /\ y.addr = x.addr /\ y.c = x.c /\ y.cached = x.cached
        /\ y.tries = x.tries /\ y.sent = x.sent /\ y.bodysent = x.bodysent
        /\ y.headersent = x.headersent /\ y.length = x.length /\ y.rh = x.rh /\ y.wh = x.wh
        /\ y.out = x.out /\ y.got = x.got /\ y.rc = x.rc /\ y.n = x.n /\ y.fresh = x.fresh
        /\ y.heads = x.heads /\ y.keepalive = x.keepalive
    BY <1>2 DEF UpstreamRecords
  <2>3. u' = [u EXCEPT ![r] = y]
    BY <1>5
  <2> HIDE DEF y
  <2> QED
    BY <1>4, <1>5, <2>1, <2>2, <2>3
<1>6. CASE /\ k.inbox # <<>> /\ (conf.ssl => k.ssl)
           /\ conn' = [conn EXCEPT ![x.c].inbox = Tail(@)]
           /\ h.i = 0 /\ h.kind # "bad"
           /\ u' = [u EXCEPT ![r] = [[x EXCEPT !.received = TRUE]
                                      EXCEPT !.keepalive = keep, !.closing = over]]
           /\ \/ run' = <<"next", r, RetryOf(h.kind)>>
              \/ run' = <<"response", r, h>>
  <2> DEFINE y == [[x EXCEPT !.received = TRUE] EXCEPT !.keepalive = keep, !.closing = over]
  <2>1. keep \in BOOLEAN /\ over \in BOOLEAN
    <3>1. x.keepalive \in BOOLEAN
      BY <1>2 DEF UpstreamRecords
    <3>2. CASE BodyOf[h.kind] = 0
      BY <3>2 DEF KeepAtHeader
    <3>3. CASE BodyOf[h.kind] # 0
      BY <3>1, <3>3 DEF KeepAtHeader
    <3> QED
      BY <3>2, <3>3
  <2> HIDE DEF x, k, h, l, keep, over
  <2>2. /\ y \in UpstreamRecords /\ y.received = TRUE
        /\ y.st = x.st /\ y.addr = x.addr /\ y.c = x.c /\ y.cached = x.cached
        /\ y.tries = x.tries /\ y.sent = x.sent /\ y.bodysent = x.bodysent
        /\ y.headersent = x.headersent /\ y.length = x.length /\ y.rh = x.rh /\ y.wh = x.wh
        /\ y.out = x.out /\ y.got = x.got /\ y.rc = x.rc /\ y.n = x.n /\ y.fresh = x.fresh
        /\ y.heads = x.heads /\ y.keepalive = keep /\ y.closing = over
    BY <1>2, <2>1 DEF UpstreamRecords
  <2>3. u' = [u EXCEPT ![r] = y]
    BY <1>6
  <2> HIDE DEF y
  <2> QED
    BY <1>4, <1>6, <2>2, <2>3
<1> QED
  BY <1>1, <1>3, <1>5, <1>6

-----------------------------------------------------------------------------
(***************************************************************************)
(* What passes to the server                                               *)
(***************************************************************************)
(* The connection after p parts of the request have been written to it.    *)
Wrote(r, x, k, p, l) ==
    /\ l.st = k.st /\ l.ssl = k.ssl /\ l.inbox = k.inbox /\ l.eof = k.eof
    /\ k.eof \/ x.sent => l.cur = k.cur /\ l.resp = k.resp /\ l.left = k.left
    /\ k.eof => l.parts = k.parts
    /\ ~k.eof /\ x.sent => l.parts = IF k.parts >= p THEN k.parts ELSE p
    /\ ~k.eof /\ ~x.sent =>
        l.cur = <<r, x.n>> /\ l.parts = p /\ l.resp = "none" /\ l.left = 0

LEMMA WrittenIs ==
    ASSUME NEW r \in Requests, u[r] \in UpstreamRecords, u[r].c \in Conns,
           conn \in [Conns -> ConnRecords], NEW p \in 1 .. 2
    PROVE  \E l \in ConnRecords :
              /\ Wrote(r, u[r], conn[u[r].c], p, l)
              /\ Written(r, p) = [conn EXCEPT ![u[r].c] = l]
<1> DEFINE x == u[r]
           k == conn[x.c]
           m == Max({k.parts, p})
           a == [k EXCEPT !.parts = m]
           d == <<r, x.n>>
           b == [k EXCEPT !.cur = d, !.parts = p, !.resp = "none", !.left = 0]
<1>1. x \in UpstreamRecords /\ k \in ConnRecords /\ k.parts \in 0 .. 2 /\ d \in Requests \X Nat
  BY DEF UpstreamRecords, ConnRecords
<1>2. m = (IF k.parts >= p THEN k.parts ELSE p) /\ m \in 0 .. 2
  <2>1. k.parts \in Int /\ p \in Int
    BY <1>1
  <2>2. m = IF k.parts >= p THEN k.parts ELSE p
    BY <2>1, SmallerOf
  <2> HIDE DEF m, k
  <2> QED
    BY <1>1, <2>2
<1>3. Written(r, p) = [conn EXCEPT ![x.c] = IF k.eof THEN k ELSE IF x.sent THEN a ELSE b]
  BY Zenon DEF Written
<1> HIDE DEF m, k, x, d
<1>4. CASE k.eof
  BY <1>1, <1>3, <1>4 DEF Wrote, x, k
<1>5. CASE ~k.eof /\ x.sent
  <2>1. /\ a \in ConnRecords /\ a.parts = m
        /\ a.st = k.st /\ a.ssl = k.ssl /\ a.inbox = k.inbox /\ a.eof = k.eof
        /\ a.cur = k.cur /\ a.resp = k.resp /\ a.left = k.left
    BY <1>1, <1>2 DEF ConnRecords
  <2> HIDE DEF a
  <2>2. Wrote(r, x, k, p, a)
    BY <1>2, <1>5, <2>1 DEF Wrote
  <2> QED
    BY <1>3, <1>5, <2>1, <2>2 DEF x, k
<1>6. CASE ~k.eof /\ ~x.sent
  <2>1. /\ b \in ConnRecords /\ b.parts = p /\ b.cur = d /\ b.resp = "none" /\ b.left = 0
        /\ b.st = k.st /\ b.ssl = k.ssl /\ b.inbox = k.inbox /\ b.eof = k.eof
    <3> DEFINE z == 0
               e == "none"
    <3>1. z \in Nat /\ e \in Kinds \cup {"none"} /\ d \in (Requests \X Nat) \cup {None}
          /\ p \in 0 .. 2
      BY <1>1
    <3>2. b = [k EXCEPT !.cur = d, !.parts = p, !.resp = e, !.left = z]
      OBVIOUS
    <3> HIDE DEF z, e, b
    <3>3. /\ b \in ConnRecords /\ b.parts = p /\ b.cur = d /\ b.resp = e /\ b.left = z
          /\ b.st = k.st /\ b.ssl = k.ssl /\ b.inbox = k.inbox /\ b.eof = k.eof
      BY <1>1, <3>1, <3>2 DEF ConnRecords
    <3> QED
      BY <3>3 DEF z, e
  <2> HIDE DEF b
  <2>2. Wrote(r, x, k, p, b)
    BY <1>6, <2>1 DEF Wrote, d
  <2> QED
    BY <1>3, <1>6, <2>1, <2>2 DEF x, k
<1> QED
  BY <1>4, <1>5, <1>6

(* Whatever is written, the answers on the connection are to the requests  *)
(* it has been given.                                                      *)
LEMMA WroteHolds ==
    ASSUME NEW s, NEW r \in Requests, NEW x \in UpstreamRecords, NEW y \in UpstreamRecords,
           NEW k \in ConnRecords, NEW l \in ConnRecords, NEW p \in 1 .. 2,
           Alone(r, x), Answer(s, k), Linked(s, r, x, k), ~x.bodysent,
           x.headersent => Passing(s, x, k),
           Wrote(r, x, k, p, l),
           y.sent = TRUE, y.bodysent <=> p = 2, y.wh = "send" => p = 1,
           y.received = x.received, y.keepalive = x.keepalive, y.headersent = x.headersent,
           y.n = x.n, y.got = x.got, y.out = x.out, y.rh = x.rh, y.closing = x.closing,
           y.length = x.length
    PROVE  /\ Answer(s, l) /\ Linked(s, r, y, l)
           /\ y.headersent => Passing(s, y, l)
<1>1. /\ x.received => x.sent
      /\ x.headersent => x.received
  BY DEF Alone, Linked
<1>2. k.parts \in 0 .. 2 /\ k.inbox \in Seq(Parts)
  BY DEF ConnRecords
<1>3. CASE k.eof
  <2>1. Answer(s, l)
    BY <1>3 DEF Wrote, Answer, Ordered
  <2>2. Linked(s, r, y, l)
    BY <1>1, <1>3 DEF Wrote, Linked, Mine
  <2>3. y.headersent => Passing(s, y, l)
    BY <1>3 DEF Wrote, Passing
  <2> QED
    BY <2>1, <2>2, <2>3
<1>4. CASE ~k.eof /\ x.sent
  <2>1. Mine(r, x, k) /\ k.parts = 1 /\ l.parts = p
    BY <1>2, <1>4 DEF Linked, Mine, Wrote
  <2>2. Answer(s, l)
    BY <1>4, <2>1 DEF Wrote, Answer, Ordered
  <2>3. Linked(s, r, y, l)
    BY <1>1, <1>4, <2>1 DEF Wrote, Linked, Mine
  <2>4. y.headersent => Passing(s, y, l)
    BY <1>4 DEF Wrote, Passing
  <2> QED
    BY <2>2, <2>3, <2>4
<1>5. CASE ~k.eof /\ ~x.sent
  <2>1. k.inbox = <<>> /\ ~x.received /\ ~x.headersent /\ ~x.keepalive
    BY <1>1, <1>5 DEF Linked, Alone
  <2>2. l.cur # None
    <3>1. <<r, x.n>> # None
      BY DEF None
    <3> QED
      BY <1>5, <3>1 DEF Wrote
  <2>3. Answer(s, l)
    BY <1>5, <2>1, <2>2 DEF Wrote, Answer
  <2>4. Linked(s, r, y, l)
    BY <1>1, <1>5, <2>1 DEF Wrote, Linked, Mine
  <2> QED
    BY <2>1, <2>3, <2>4
<1> QED
  BY <1>3, <1>4, <1>5

LEMMA SendRequestStep ==
    ASSUME IInv, NEW r \in Requests, SendRequest(r)
    PROVE  IInv'
<1> DEFINE x == u[r]
           k == conn[x.c]
           m == IF x.sent THEN x.heads ELSE x.heads + 1
           t == HeaderTimer(r)
           v == [x EXCEPT !.sent = TRUE, !.heads = m]
<1>1. /\ Running("send", r) /\ UNCHANGED <<conf, cache, conns, exiting>>
      /\ \/ conf.ssl /\ ~k.ssl /\ u' = u /\ conn' = conn /\ run' = <<"ssl", r, Nil>>
         \/ ~x.sent /\ u' = u /\ conn' = conn /\ run' = <<"next", r, "error">>
         \/ /\ conn' = Written(r, 2) /\ run' = None
            /\ u' = [u EXCEPT ![r] = [v EXCEPT !.bodysent = TRUE, !.blocked = FALSE, !.wt = FALSE,
                                               !.wh = "dummy", !.rt = t]]
         \/ /\ conn' = [Written(r, 1) EXCEPT ![x.c].full = TRUE] /\ run' = None
            /\ u' = [u EXCEPT ![r] = [v EXCEPT !.blocked = TRUE, !.wt = TRUE]]
         \/ /\ conn' = Written(r, 1) /\ run' = None
            /\ u' = [u EXCEPT ![r] = [v EXCEPT !.blocked = FALSE, !.wt = FALSE]]
         \/ /\ k.eof /\ conn' = conn /\ u' = [u EXCEPT ![r] = v]
            /\ run' = <<"next", r, "error">>
         \/ /\ conn' = Written(r, 1) /\ u' = [u EXCEPT ![r] = v]
            /\ run' = <<"finalize", r, "400">>
  BY DEF SendRequest, Call, Return, Sent
<1>2. /\ run[2] = r /\ ~Running("finalize", r) /\ CanSend(conf, x)
  BY <1>1, Called DEF CanRun, Running
<1>3. /\ x \in UpstreamRecords /\ x.c # Nil /\ x.c \in Conns /\ k \in ConnRecords
      /\ u \in [Requests -> UpstreamRecords] /\ conn \in [Conns -> ConnRecords] /\ Alone(r, x)
      /\ Attempts(conf, x) /\ Linked(conf, r, x, k) /\ Answer(conf, k)
      /\ (x.headersent => Passing(conf, x, k))
  BY <1>2, Held DEF CanSend
<1>4. ~x.bodysent /\ x.addr # Nil /\ (x.received => x.sent) /\ (x.headersent => x.received)
  BY <1>2, <1>3 DEF Linked, CanSend, Alone
<1>5. m \in Nat /\ t \in BOOLEAN
  BY <1>3 DEF UpstreamRecords, HeaderTimer
<1>6. CASE conf.ssl /\ ~k.ssl /\ u' = u /\ conn' = conn /\ run' = <<"ssl", r, Nil>>
  <2>1. ~x.headersent
    BY <1>3, <1>4, <1>6 DEF Linked
  <2>2. CanRun(conf, "ssl", r, x, k, Nil)
    BY <1>2, <2>1 DEF CanRun
  <2> QED
    BY <1>1, <1>2, <1>6, <2>2, CallStep
<1>7. CASE ~x.sent /\ u' = u /\ conn' = conn /\ run' = <<"next", r, "error">>
  <2>1. CanRun(conf, "next", r, x, k, "error")
    BY <1>2, <1>4, <1>7 DEF CanRun, CanGoOn, CanSend
  <2> QED
    BY <1>1, <1>2, <1>7, <2>1, CallStep
<1> DEFINE Given(y) ==
             /\ y.sent = TRUE /\ y.heads = m
             /\ y.st = x.st /\ y.addr = x.addr /\ y.c = x.c /\ y.cached = x.cached
             /\ y.tries = x.tries /\ y.received = x.received /\ y.headersent = x.headersent
             /\ y.keepalive = x.keepalive /\ y.length = x.length /\ y.closing = x.closing
             /\ y.rh = x.rh /\ y.out = x.out /\ y.got = x.got /\ y.rc = x.rc /\ y.n = x.n
             /\ y.fresh = x.fresh
<1>8. ASSUME NEW p \in 1 .. 2, NEW l \in ConnRecords, Wrote(r, x, k, p, l),
             conn' = [conn EXCEPT ![x.c] = l],
             NEW y \in UpstreamRecords, u' = [u EXCEPT ![r] = y], Given(y),
             y.bodysent <=> p = 2, y.wh = "send" => p = 1,
             \/ run' = None
             \/ run' = <<"next", r, "error">>
             \/ run' = <<"finalize", r, "400">>
      PROVE  IInv'
  <2>1. Given(y)
    BY <1>8
  <2> HIDE DEF x, k
  <2>2. Alone(r, y)
    BY <1>2, <1>3, <2>1 DEF Alone, Complete, CanSend
  <2>3. Attempts(conf, y)
    BY <1>3, <2>1 DEF Attempts, UpstreamRecords
  <2>4. Answer(conf, l) /\ Linked(conf, r, y, l) /\ (y.headersent => Passing(conf, y, l))
    BY <1>3, <1>4, <1>8, <2>1, WroteHolds
  <2>5. run' = None \/ \E f, arg : run' = <<f, r, arg>> /\ CanRun(conf, f, r, y, l, arg)
    BY <1>2, <1>4, <1>8, <2>1 DEF CanRun, Outcomes, CanSend, CanGoOn
  <2>6. /\ u[r].c # Nil /\ y.c = u[r].c /\ y.addr = u[r].addr /\ l.st = conn[y.c].st
        /\ conn' = [conn EXCEPT ![y.c] = l]
        /\ UNCHANGED <<conf, cache, conns, exiting>> /\ run[2] = r
    BY <1>1, <1>2, <1>3, <1>8, <2>1 DEF x, k, Wrote
  <2> HIDE DEF Linked, Passing, Alone, Attempts, CanRun, Answer
  <2> QED
    BY <1>8, <2>2, <2>3, <2>4, <2>5, <2>6, TalkStep
<1>9. ASSUME NEW p \in 1 .. 2
      PROVE  \E l \in ConnRecords :
                Wrote(r, x, k, p, l) /\ Written(r, p) = [conn EXCEPT ![x.c] = l]
  BY <1>3, WrittenIs
<1>10. CASE /\ conn' = Written(r, 2) /\ run' = None
            /\ u' = [u EXCEPT ![r] = [v EXCEPT !.bodysent = TRUE, !.blocked = FALSE, !.wt = FALSE,
                                               !.wh = "dummy", !.rt = t]]
  <2> DEFINE y == [v EXCEPT !.bodysent = TRUE, !.blocked = FALSE, !.wt = FALSE,
                            !.wh = "dummy", !.rt = t]
  <2>1. PICK l \in ConnRecords : Wrote(r, x, k, 2, l) /\ Written(r, 2) = [conn EXCEPT ![x.c] = l]
    BY <1>9
  <2> HIDE DEF x, k, m, t
  <2>2. y \in UpstreamRecords /\ Given(y) /\ y.bodysent = TRUE /\ y.wh = "dummy"
    BY <1>3, <1>5 DEF UpstreamRecords
  <2>3. u' = [u EXCEPT ![r] = y] /\ conn' = [conn EXCEPT ![x.c] = l]
    BY <1>10, <2>1
  <2> HIDE DEF y, Given, v
  <2> DEFINE p == 2
  <2>8. /\ p \in 1 .. 2 /\ (y.bodysent <=> p = 2) /\ (y.wh = "send" => p = 1)
        /\ Wrote(r, x, k, p, l)
    BY <2>1, <2>2
  <2> HIDE DEF p
  <2> QED
    BY <1>8, <1>10, <2>2, <2>3, <2>8
<1>11. CASE /\ conn' = [Written(r, 1) EXCEPT ![x.c].full = TRUE] /\ run' = None
            /\ u' = [u EXCEPT ![r] = [v EXCEPT !.blocked = TRUE, !.wt = TRUE]]
  <2> DEFINE y == [v EXCEPT !.blocked = TRUE, !.wt = TRUE]
  <2>1. PICK l \in ConnRecords : Wrote(r, x, k, 1, l) /\ Written(r, 1) = [conn EXCEPT ![x.c] = l]
    BY <1>9
  <2> DEFINE j == [l EXCEPT !.full = TRUE]
  <2> HIDE DEF x, k, m, t
  <2>2. y \in UpstreamRecords /\ Given(y) /\ y.bodysent = x.bodysent
    BY <1>3, <1>5 DEF UpstreamRecords
  <2>3. /\ j \in ConnRecords /\ j.st = l.st /\ j.ssl = l.ssl /\ j.inbox = l.inbox
        /\ j.eof = l.eof /\ j.cur = l.cur /\ j.resp = l.resp /\ j.left = l.left
        /\ j.parts = l.parts
    BY DEF ConnRecords
  <2>4. u' = [u EXCEPT ![r] = y] /\ conn' = [conn EXCEPT ![x.c] = j]
    BY <1>3, <1>11, <2>1
  <2> HIDE DEF y, Given, v, j
  <2>5. Wrote(r, x, k, 1, j)
    BY <2>1, <2>3 DEF Wrote
  <2> DEFINE p == 1
  <2>8. /\ p \in 1 .. 2 /\ (y.bodysent <=> p = 2) /\ (y.wh = "send" => p = 1)
        /\ Wrote(r, x, k, p, j)
    BY <1>4, <2>2, <2>5
  <2> HIDE DEF p
  <2> QED
    BY <1>8, <1>11, <2>2, <2>3, <2>4, <2>8
<1>12. CASE /\ conn' = Written(r, 1) /\ run' = None
            /\ u' = [u EXCEPT ![r] = [v EXCEPT !.blocked = FALSE, !.wt = FALSE]]
  <2> DEFINE y == [v EXCEPT !.blocked = FALSE, !.wt = FALSE]
  <2>1. PICK l \in ConnRecords : Wrote(r, x, k, 1, l) /\ Written(r, 1) = [conn EXCEPT ![x.c] = l]
    BY <1>9
  <2> HIDE DEF x, k, m, t
  <2>2. y \in UpstreamRecords /\ Given(y) /\ y.bodysent = x.bodysent
    BY <1>3, <1>5 DEF UpstreamRecords
  <2>3. u' = [u EXCEPT ![r] = y] /\ conn' = [conn EXCEPT ![x.c] = l]
    BY <1>12, <2>1
  <2> HIDE DEF y, Given, v
  <2> DEFINE p == 1
  <2>8. /\ p \in 1 .. 2 /\ (y.bodysent <=> p = 2) /\ (y.wh = "send" => p = 1)
        /\ Wrote(r, x, k, p, l)
    BY <1>4, <2>1, <2>2
  <2> HIDE DEF p
  <2> QED
    BY <1>8, <1>12, <2>2, <2>3, <2>8
<1>13. /\ v \in UpstreamRecords /\ Given(v) /\ v.bodysent = x.bodysent
  <2> HIDE DEF x, m
  <2> QED
    BY <1>3, <1>5 DEF UpstreamRecords
<1>14. CASE /\ k.eof /\ conn' = conn /\ u' = [u EXCEPT ![r] = v]
            /\ run' = <<"next", r, "error">>
  <2>1. Wrote(r, x, k, 1, k) /\ conn' = [conn EXCEPT ![x.c] = k]
    BY <1>3, <1>14 DEF Wrote
  <2> HIDE DEF x, k, Given, v
  <2> DEFINE p == 1
  <2>8. /\ p \in 1 .. 2 /\ (v.bodysent <=> p = 2) /\ (v.wh = "send" => p = 1)
        /\ Wrote(r, x, k, p, k)
    BY <1>4, <1>13, <2>1
  <2> HIDE DEF p
  <2> QED
    BY <1>3, <1>8, <1>13, <1>14, <2>1, <2>8
<1>15. CASE /\ conn' = Written(r, 1) /\ u' = [u EXCEPT ![r] = v]
            /\ run' = <<"finalize", r, "400">>
  <2>1. PICK l \in ConnRecords : Wrote(r, x, k, 1, l) /\ Written(r, 1) = [conn EXCEPT ![x.c] = l]
    BY <1>9
  <2> HIDE DEF x, k, Given, v
  <2>3. conn' = [conn EXCEPT ![x.c] = l]
    BY <1>15, <2>1
  <2> DEFINE p == 1
  <2>8. /\ p \in 1 .. 2 /\ (v.bodysent <=> p = 2) /\ (v.wh = "send" => p = 1)
        /\ Wrote(r, x, k, p, l)
    BY <1>4, <1>13, <2>1
  <2> HIDE DEF p
  <2> QED
    BY <1>8, <1>13, <1>15, <2>3, <2>8
<1> QED
  BY <1>1, <1>6, <1>7, <1>10, <1>11, <1>12, <1>14, <1>15

-----------------------------------------------------------------------------
(***************************************************************************)
(* The response passes                                                     *)
(***************************************************************************)
(* The input filter has counted n parts.                                   *)
Filtered(x, n, y) ==
    /\ y.length = IF x.length = -1 THEN -1 ELSE x.length - n
    /\ y.keepalive <=> IF n > 0 /\ x.length = n THEN ~x.closing ELSE x.keepalive

LEMMA FilterIs ==
    ASSUME NEW v \in UpstreamRecords, NEW n \in Nat
    PROVE  LET y == InputFilter(v, n) IN
              /\ y \in UpstreamRecords /\ Filtered(v, n, y)
              /\ y.st = v.st /\ y.addr = v.addr /\ y.c = v.c /\ y.cached = v.cached
              /\ y.tries = v.tries /\ y.sent = v.sent /\ y.bodysent = v.bodysent
              /\ y.received = v.received /\ y.headersent = v.headersent
              /\ y.closing = v.closing /\ y.rh = v.rh /\ y.wh = v.wh
              /\ y.out = v.out /\ y.got = v.got /\ y.rc = v.rc /\ y.n = v.n
              /\ y.fresh = v.fresh /\ y.heads = v.heads
<1> DEFINE m == IF v.length = -1 THEN -1 ELSE v.length - n
           b == IF n > 0 /\ v.length = n THEN ~v.closing ELSE v.keepalive
           y == [v EXCEPT !.length = m, !.keepalive = b]
<1>1. m \in Int /\ b \in BOOLEAN
  <2>1. v.length \in Int /\ v.keepalive \in BOOLEAN
    BY DEF UpstreamRecords
  <2>2. m \in Int
    BY <2>1
  <2>3. CASE n > 0 /\ v.length = n
    BY <2>2, <2>3
  <2>4. CASE ~(n > 0 /\ v.length = n)
    BY <2>1, <2>2, <2>4
  <2> QED
    BY <2>3, <2>4
<1>2. InputFilter(v, n) = y
  BY DEF InputFilter
<1> HIDE DEF m, b
<1>3. /\ y \in UpstreamRecords /\ y.length = m /\ y.keepalive = b
      /\ y.st = v.st /\ y.addr = v.addr /\ y.c = v.c /\ y.cached = v.cached
      /\ y.tries = v.tries /\ y.sent = v.sent /\ y.bodysent = v.bodysent
      /\ y.received = v.received /\ y.headersent = v.headersent
      /\ y.closing = v.closing /\ y.rh = v.rh /\ y.wh = v.wh
      /\ y.out = v.out /\ y.got = v.got /\ y.rc = v.rc /\ y.n = v.n
      /\ y.fresh = v.fresh /\ y.heads = v.heads
  BY <1>1 DEF UpstreamRecords
<1> HIDE DEF y
<1>4. Filtered(v, n, y)
  BY <1>3 DEF Filtered, m, b
<1> QED
  BY <1>2, <1>3, <1>4

(* The count is what the server still has to send and what has come; with  *)
(* the last part nothing is left, so that the connection may be kept.      *)
LEMMA Counted ==
    ASSUME NEW s, NEW r, NEW x \in UpstreamRecords, NEW k \in ConnRecords, k.resp \in Kinds,
           Linked(s, r, x, k), Passing(s, x, k), x.rh = "pass",
           NEW n \in Nat, NEW l \in ConnRecords, l.resp = k.resp, l.left = k.left,
           Len(l.inbox) = Len(k.inbox) - n, NEW y, Filtered(x, n, y)
    PROVE  /\ y.length = IF BodyOf[l.resp] = -1 THEN -1 ELSE l.left + Len(l.inbox)
           /\ y.keepalive => l.left = 0 /\ l.inbox = <<>> /\ l.resp \notin Closing
<1> DEFINE a == Len(k.inbox)
           b == Len(l.inbox)
<1>1. /\ a \in Nat /\ b \in Nat /\ b = a - n /\ k.left \in Nat /\ x.length \in Int
      /\ k.inbox \in Seq(Parts) /\ l.inbox \in Seq(Parts)
  BY DEF ConnRecords, UpstreamRecords
<1>2. /\ x.length = IF BodyOf[k.resp] = -1 THEN -1 ELSE k.left + a
      /\ x.closing <=> k.resp \in Closing
  BY DEF Passing
<1>3. b = 0 => l.inbox = <<>>
  BY <1>1
<1>4. x.keepalive => k.left = 0 /\ a = 0 /\ k.resp \notin Closing
  BY DEF Linked
<1> HIDE DEF a, b
<1>5. y.length = IF BodyOf[l.resp] = -1 THEN -1 ELSE l.left + b
  <2>1. CASE BodyOf[k.resp] = -1
    BY <1>2, <2>1 DEF Filtered
  <2>2. CASE BodyOf[k.resp] # -1
    <3>1. x.length = k.left + a /\ x.length # -1
      BY <1>1, <1>2, <2>2
    <3>2. y.length = x.length - n
      BY <3>1 DEF Filtered
    <3>3. x.length - n = k.left + b
      BY ONLY <1>1, <3>1
    <3> QED
      BY <2>2, <3>2, <3>3
  <2> QED
    BY <2>1, <2>2
<1>6. y.keepalive => l.left = 0 /\ l.inbox = <<>> /\ l.resp \notin Closing
  <2>1. CASE n > 0 /\ x.length = n
    <3>1. x.length = k.left + a
      BY <1>1, <1>2, <2>1
    <3>2. k.left = 0 /\ b = 0
      BY ONLY <1>1, <2>1, <3>1
    <3> QED
      BY <1>2, <1>3, <2>1, <3>2 DEF Filtered
  <2>2. CASE ~(n > 0 /\ x.length = n)
    <3>1. SUFFICES ASSUME x.keepalive PROVE l.left = 0 /\ l.inbox = <<>> /\ l.resp \notin Closing
      BY <2>2 DEF Filtered
    <3>2. k.left = 0 /\ a = 0 /\ k.resp \notin Closing
      BY <1>4, <3>1
    <3>3. b = 0
      BY ONLY <1>1, <3>2
    <3> QED
      BY <1>3, <3>2, <3>3
  <2> QED
    BY <2>1, <2>2
<1> QED
  BY <1>5, <1>6 DEF b

(* Where a response passes, all that is known of it.                       *)
LEMMA OnItsWay ==
    ASSUME IInv, NEW r \in Requests, u[r].st = "active", u[r].c # Nil, ~u[r].rh = "header",
           ~Running("finalize", r)
    PROVE  LET x == u[r]
               k == conn[x.c]
           IN  /\ x \in UpstreamRecords /\ x.c \in Conns /\ k \in ConnRecords
               /\ u \in [Requests -> UpstreamRecords] /\ conn \in [Conns -> ConnRecords]
               /\ Alone(r, x) /\ Attempts(conf, x) /\ Linked(conf, r, x, k) /\ Answer(conf, k)
               /\ Passing(conf, x, k) /\ Ordered(k)
               /\ x.headersent /\ x.received /\ x.got # <<>> /\ x.got \in Seq(Parts)
               /\ x.out \in Seq(Parts) /\ k.inbox \in Seq(Parts) /\ k.left \in Nat
               /\ OneAnswer(r, x.got) /\ k.resp \in Kinds /\ k.cur[1] = r /\ k.cur[2] = x.n
               /\ x.got[1].n = x.n /\ x.got[1].kind = k.resp /\ Total(k.resp) \in Nat
               /\ Len(x.got) + Len(x.out) + Len(k.inbox) + k.left = Total(k.resp) + 1
               /\ x.addr # Nil /\ x.sent
<1> DEFINE x == u[r]
           k == conn[x.c]
<1>1. /\ x \in UpstreamRecords /\ x.c \in Conns /\ k \in ConnRecords
      /\ u \in [Requests -> UpstreamRecords] /\ conn \in [Conns -> ConnRecords]
      /\ Alone(r, x) /\ Attempts(conf, x) /\ Linked(conf, r, x, k) /\ Answer(conf, k)
      /\ x.headersent => Passing(conf, x, k)
  BY Held
<1> HIDE DEF x, k
<1>2. /\ x.headersent /\ x.got # <<>> /\ OneAnswer(r, x.got) /\ x.addr # Nil
  BY <1>1, Surroundings DEF Alone, x
<1>3. /\ x.received /\ x.sent /\ Mine(r, x, k) /\ k.resp # "none"
  BY <1>1, <1>2 DEF Linked, Alone
<1>4. k.resp \in Kinds /\ Ordered(k) /\ k.inbox \in Seq(Parts) /\ k.left \in Nat
  BY <1>1, <1>3 DEF ConnRecords, Answer
<1>5. x.got \in Seq(Parts) /\ x.out \in Seq(Parts)
  BY <1>1 DEF UpstreamRecords
<1>6. /\ x.got[1].n = x.n /\ x.got[1].kind = k.resp
      /\ Len(x.got) + Len(x.out) + Len(k.inbox) + k.left = Total(k.resp) + 1
  BY <1>1, <1>2 DEF Passing
<1>7. k.cur[1] = r /\ k.cur[2] = x.n
  BY <1>3 DEF Mine
<1> QED
  BY <1>1, <1>2, <1>3, <1>4, <1>5, <1>6, <1>7, Bodies DEF x, k

(* The parts that have come follow those that have passed.                 *)
LEMMA Follows ==
    ASSUME NEW r, NEW x, NEW k, Ordered(k), k.cur[1] = r, k.cur[2] = x.n,
           x.got[1].n = x.n, x.got[1].kind = k.resp,
           x.got \in Seq(Parts), k.inbox \in Seq(Parts), k.left \in Nat, Total(k.resp) \in Nat,
           Len(x.got) + Len(x.out) + Len(k.inbox) + k.left = Total(k.resp) + 1, x.out = <<>>
    PROVE  \A j \in 1 .. Len(k.inbox) :
              IsPart(k.inbox[j], r, x.got[1].n, Len(x.got) + j - 1, x.got[1].kind)
<1> SUFFICES ASSUME NEW j \in 1 .. Len(k.inbox)
             PROVE  IsPart(k.inbox[j], r, x.got[1].n, Len(x.got) + j - 1, x.got[1].kind)
  OBVIOUS
<1> DEFINE g == Len(x.got)
           m == Len(k.inbox)
           t == Total(k.resp)
           b == k.left
<1>1. g \in Int /\ m \in Int /\ t \in Int /\ b \in Int /\ j \in Int /\ g + m + b = t + 1
  <2>1. Len(x.out) = 0
    OBVIOUS
  <2>2. g \in Int /\ m \in Int /\ t \in Int /\ b \in Int /\ j \in Int
    OBVIOUS
  <2>3. g + 0 + m + b = t + 1
    BY <2>1
  <2> HIDE DEF g, m, t, b
  <2> QED
    BY ONLY <2>2, <2>3
<1>2. IsPart(k.inbox[j], k.cur[1], k.cur[2], t - b - m + j, k.resp)
  BY DEF Ordered
<1> HIDE DEF g, m, t, b
<1>3. t - b - m + j = g + j - 1
  BY ONLY <1>1
<1> QED
  BY <1>2, <1>3 DEF g

(* All of the answer has passed when nothing is left of it to come.        *)
LEMMA NothingLeft ==
    ASSUME NEW y, NEW k, k.resp \in Kinds, y.got # <<>>, y.got \in Seq(Parts),
           y.got[1].kind = k.resp,
           \/ BodyOf[k.resp] = -1
           \/ Len(y.got) = Total(k.resp) + 1
    PROVE  Complete(y)
<1>1. BodyOf[k.resp] # -1 => Len(y.got) = 1 + BodyOf[k.resp]
  <2>1. SUFFICES ASSUME BodyOf[k.resp] # -1 PROVE Len(y.got) = 1 + BodyOf[k.resp]
    OBVIOUS
  <2>2. Len(y.got) = Total(k.resp) + 1 /\ Total(k.resp) = BodyOf[k.resp] /\ BodyOf[k.resp] \in Int
    BY <2>1, Bodies
  <2> QED
    BY ONLY <2>2
<1> QED
  BY <1>1 DEF Complete

LEMMA ProcessBufferedStep ==
    ASSUME IInv, NEW r \in Requests, u[r].st = "active", u[r].c # Nil, u[r].rh = "pass",
           ~Running("finalize", r), run = None \/ run[2] = r, conf.buffering,
           ProcessBuffered(r, u[r].c), UNCHANGED <<conf, cache, conns, exiting>>
    PROVE  IInv'
<1> DEFINE x == u[r]
           k == conn[x.c]
           n == Len(k.inbox)
           g == x.got \o k.inbox
           w == [x EXCEPT !.got = g]
           v == InputFilter(w, n)
           e == v.length
           l == [k EXCEPT !.inbox = <<>>]
<1>1. /\ conn' = [conn EXCEPT ![x.c].inbox = <<>>]
      /\ \/ u' = [u EXCEPT ![r] = v] /\ run' = <<"finalize", r, "error">>
         \/ Over(e, k.eof) /\ u' = [u EXCEPT ![r] = v] /\ run' = <<"finalize", r, "0">>
         \/ u' = [u EXCEPT ![r] = v] /\ run' = <<"finalize", r, "502">>
         \/ u' = [u EXCEPT ![r] = [v EXCEPT !.rt = TRUE]] /\ run' = None
  BY DEF ProcessBuffered, Call, Return
<1>2. /\ x \in UpstreamRecords /\ x.c \in Conns /\ k \in ConnRecords
      /\ u \in [Requests -> UpstreamRecords] /\ conn \in [Conns -> ConnRecords]
      /\ Alone(r, x) /\ Attempts(conf, x) /\ Linked(conf, r, x, k) /\ Answer(conf, k)
      /\ Passing(conf, x, k) /\ Ordered(k)
      /\ x.headersent /\ x.received /\ x.got # <<>> /\ x.got \in Seq(Parts)
      /\ x.out \in Seq(Parts) /\ k.inbox \in Seq(Parts) /\ k.left \in Nat
      /\ OneAnswer(r, x.got) /\ k.resp \in Kinds /\ k.cur[1] = r /\ k.cur[2] = x.n
      /\ x.got[1].n = x.n /\ x.got[1].kind = k.resp /\ Total(k.resp) \in Nat
      /\ Len(x.got) + Len(x.out) + Len(k.inbox) + k.left = Total(k.resp) + 1
  BY OnItsWay
<1>3. x.out = <<>>
  BY <1>2 DEF Passing
<1>4. /\ l \in ConnRecords /\ Answer(conf, l) /\ l.inbox = <<>> /\ Len(l.inbox) = 0
      /\ l.st = k.st /\ l.ssl = k.ssl /\ l.cur = k.cur /\ l.parts = k.parts
      /\ l.resp = k.resp /\ l.left = k.left /\ l.eof = k.eof
  <2> HIDE DEF k
  <2> QED
    BY <1>2, ReadAll
<1>5. conn' = [conn EXCEPT ![x.c] = l]
  BY <1>1, <1>2
<1> HIDE DEF l, x, k
<1>6. /\ g \in Seq(Parts) /\ Len(g) = Len(x.got) + n /\ g # <<>> /\ g[1] = x.got[1]
      /\ OneAnswer(r, g) /\ n \in Nat
  <2>1. \A j \in 1 .. Len(k.inbox) :
          IsPart(k.inbox[j], r, x.got[1].n, Len(x.got) + j - 1, x.got[1].kind)
    BY <1>2, <1>3, Follows
  <2>2. /\ x.got \in Seq(Parts) /\ x.got # <<>> /\ OneAnswer(r, x.got)
        /\ k.inbox \in Seq(Parts)
    BY <1>2
  <2>3. n \in Nat
    BY <2>2
  <2>4. /\ x.got \o k.inbox \in Seq(Parts)
        /\ Len(x.got \o k.inbox) = Len(x.got) + Len(k.inbox)
        /\ x.got \o k.inbox # <<>> /\ (x.got \o k.inbox)[1] = x.got[1]
        /\ OneAnswer(r, x.got \o k.inbox)
    BY ONLY <2>1, <2>2, Longer
  <2> QED
    BY <2>3, <2>4
<1> HIDE DEF g, n
<1>7. /\ w \in UpstreamRecords /\ w.got = g /\ w.length = x.length /\ w.keepalive = x.keepalive
      /\ w.st = x.st /\ w.addr = x.addr /\ w.c = x.c /\ w.cached = x.cached
      /\ w.tries = x.tries /\ w.sent = x.sent /\ w.bodysent = x.bodysent
      /\ w.received = x.received /\ w.headersent = x.headersent
      /\ w.closing = x.closing /\ w.rh = x.rh /\ w.wh = x.wh
      /\ w.out = x.out /\ w.rc = x.rc /\ w.n = x.n
      /\ w.fresh = x.fresh /\ w.heads = x.heads
  BY <1>2, <1>6 DEF UpstreamRecords
<1> HIDE DEF w
<1>8. /\ v \in UpstreamRecords /\ Filtered(w, n, v)
      /\ v.st = w.st /\ v.addr = w.addr /\ v.c = w.c /\ v.cached = w.cached
      /\ v.tries = w.tries /\ v.sent = w.sent /\ v.bodysent = w.bodysent
      /\ v.received = w.received /\ v.headersent = w.headersent
      /\ v.closing = w.closing /\ v.rh = w.rh /\ v.wh = w.wh
      /\ v.out = w.out /\ v.got = w.got /\ v.rc = w.rc /\ v.n = w.n
      /\ v.fresh = w.fresh /\ v.heads = w.heads
  BY <1>6, <1>7, FilterIs
<1> HIDE DEF v
<1>9. Filtered(x, n, v)
  BY <1>7, <1>8 DEF Filtered
<1>10. /\ v.length = IF BodyOf[l.resp] = -1 THEN -1 ELSE l.left + Len(l.inbox)
       /\ v.keepalive => l.left = 0 /\ l.inbox = <<>> /\ l.resp \notin Closing
  <2>1. Len(l.inbox) = Len(k.inbox) - n
    BY <1>4, <1>6 DEF n
  <2>2. x.rh = "pass"
    BY DEF x
  <2> QED
    BY <1>2, <1>4, <1>6, <1>9, <2>1, <2>2, Counted
<1>11. Len(g) + Len(x.out) + Len(l.inbox) + k.left = Total(k.resp) + 1
  <2> DEFINE a == Len(x.got)
             b == Len(x.out)
             c == k.left
             t == Total(k.resp)
  <2>4. a \in Int /\ b \in Int
    BY <1>2
  <2>5. n \in Int /\ c \in Int /\ t \in Int
    BY <1>2, <1>6
  <2>6. a + b + n + c = t + 1
    BY <1>2 DEF n
  <2>1. a + b + n + c = t + 1 /\ a \in Int /\ b \in Int /\ n \in Int /\ c \in Int /\ t \in Int
    BY <2>4, <2>5, <2>6
  <2>2. Len(g) = a + n /\ Len(l.inbox) = 0
    BY <1>4, <1>6
  <2> HIDE DEF a, b, c, t
  <2>3. a + n + b + 0 + c = t + 1
    BY ONLY <2>1
  <2> QED
    BY <2>2, <2>3 DEF b, c, t
<1>12. Alone(r, v) /\ Attempts(conf, v)
  <2>1. Alone(r, v)
    BY <1>2, <1>6, <1>7, <1>8, <1>3 DEF Alone, x
  <2>2. Attempts(conf, v)
    BY <1>2, <1>7, <1>8 DEF Attempts
  <2> QED
    BY <2>1, <2>2
<1>13. Linked(conf, r, v, l)
  BY <1>2, <1>4, <1>7, <1>8, <1>10 DEF Linked, Mine
<1>14. Passing(conf, v, l)
  <2>1. /\ v.got = g /\ v.out = x.out /\ v.n = x.n /\ v.rh = "pass" /\ v.closing = x.closing
    BY <1>7, <1>8 DEF x
  <2>2. /\ v.got[1].n = v.n /\ v.got[1].kind = l.resp
        /\ Len(v.got) + Len(v.out) + Len(l.inbox) + l.left = Total(l.resp) + 1
    BY <1>2, <1>4, <1>6, <1>11, <2>1
  <2>3. k.resp # "upgrade" /\ (x.closing <=> k.resp \in Closing)
    BY <1>2 DEF Passing, x
  <2> QED
    BY <1>3, <1>4, <1>10, <2>1, <2>2, <2>3 DEF Passing
<1>15. Over(v.length, k.eof) => Complete(v)
  <2> SUFFICES ASSUME Over(v.length, k.eof) PROVE Complete(v)
    OBVIOUS
  <2>1. CASE BodyOf[k.resp] = -1
    BY <1>2, <1>6, <1>7, <1>8, <2>1, NothingLeft
  <2>2. CASE BodyOf[k.resp] # -1
    <3>1. v.length = k.left + 0 /\ k.left \in Nat
      BY <1>2, <1>4, <1>10, <2>2
    <3>2. k.left = 0
      BY <3>1 DEF Over
    <3>3. Len(v.got) = Total(k.resp) + 1
      <4>1. Len(g) \in Int /\ Len(x.out) = 0 /\ Len(l.inbox) = 0 /\ v.got = g
        BY <1>3, <1>4, <1>6, <1>7, <1>8
      <4>2. Len(g) + 0 + 0 + 0 = Total(k.resp) + 1
        BY <1>11, <3>2, <4>1
      <4> QED
        BY <4>1, <4>2
    <3> QED
      BY <1>2, <1>6, <1>7, <1>8, <3>3, NothingLeft
  <2> QED
    BY <2>1, <2>2
<1>16. ASSUME NEW y \in UpstreamRecords, Alike(v, y), u' = [u EXCEPT ![r] = y],
              \/ run' = None
              \/ \E arg \in Outcomes :
                    run' = <<"finalize", r, arg>> /\ (arg = "0" => Complete(y))
       PROVE  IInv'
  <2>1. /\ u[r].c # Nil /\ y.c = u[r].c /\ y.addr = u[r].addr /\ l.st = conn[y.c].st
        /\ conn' = [conn EXCEPT ![y.c] = l] /\ y.st = "active"
    BY <1>4, <1>5, <1>7, <1>8, <1>16 DEF Alike, x, k
  <2>2. run' = None \/ \E f, arg : run' = <<f, r, arg>> /\ CanRun(conf, f, r, y, l, arg)
    BY <1>16, <2>1 DEF CanRun, Outcomes
  <2>3. Alone(r, y) /\ Attempts(conf, y) /\ Linked(conf, r, y, l) /\ Passing(conf, y, l)
    <3>1. /\ Alone(r, v) => Alone(r, y)
          /\ Attempts(conf, v) => Attempts(conf, y)
          /\ Linked(conf, r, v, l) => Linked(conf, r, y, l)
          /\ Passing(conf, v, l) => Passing(conf, y, l)
      BY <1>16, AlikeHolds
    <3> QED
      BY <1>12, <1>13, <1>14, <3>1
  <2>4. UNCHANGED <<conf, cache, conns, exiting>>
    OBVIOUS
  <2> HIDE DEF Linked, Passing, Alone, Attempts, CanRun, Answer
  <2> QED
    BY <1>4, <1>16, <2>1, <2>2, <2>3, <2>4, TalkStep
<1>17. Alike(v, v)
  BY DEF Alike
<1>18. CASE u' = [u EXCEPT ![r] = [v EXCEPT !.rt = TRUE]] /\ run' = None
  <2> DEFINE y == [v EXCEPT !.rt = TRUE]
  <2>1. y \in UpstreamRecords /\ Alike(v, y)
    BY <1>8 DEF UpstreamRecords, Alike
  <2> HIDE DEF y
  <2>2. u' = [u EXCEPT ![r] = y]
    BY <1>18 DEF y
  <2> QED
    BY <1>16, <1>18, <2>1, <2>2
<1>19. CASE Over(e, k.eof) /\ u' = [u EXCEPT ![r] = v] /\ run' = <<"finalize", r, "0">>
  <2>1. \E arg \in Outcomes : run' = <<"finalize", r, arg>> /\ (arg = "0" => Complete(v))
    BY <1>8, <1>15, <1>19 DEF Outcomes
  <2> QED
    BY <1>8, <1>16, <1>17, <1>19, <2>1
<1>20. CASE /\ u' = [u EXCEPT ![r] = v]
            /\ run' = <<"finalize", r, "error">> \/ run' = <<"finalize", r, "502">>
  <2>1. \E arg \in Outcomes : run' = <<"finalize", r, arg>> /\ (arg = "0" => Complete(v))
    <3>1. "error" # "0" /\ "502" # "0" /\ "error" \in Outcomes /\ "502" \in Outcomes
      BY DEF Outcomes
    <3> QED
      BY <1>20, <3>1
  <2> QED
    BY <1>8, <1>16, <1>17, <1>20, <2>1
<1> QED
  BY <1>1, <1>18, <1>19, <1>20

LEMMA ProcessNonBufferedStep ==
    ASSUME IInv, NEW r \in Requests, u[r].st = "active", u[r].c # Nil, u[r].rh = "pass",
           ~Running("finalize", r), run = None \/ run[2] = r, ~conf.buffering,
           ProcessNonBuffered(r, u[r].c), UNCHANGED <<conf, cache, conns, exiting>>
    PROVE  IInv'
<1> DEFINE x == u[r]
           k == conn[x.c]
           p == Head(k.inbox)
           o == <<p>>
           g == x.got \o o
           f == FALSE
           w == [x EXCEPT !.rt = f]
           v == InputFilter(w, 1)
           e == x.length
           l == [k EXCEPT !.inbox = Tail(@)]
<1>1. \/ u' = u /\ conn' = conn /\ run' = None
      \/ /\ x.out = <<>> /\ Over(e, k.inbox = <<>> /\ k.eof)
         /\ u' = u /\ conn' = conn /\ run' = <<"finalize", r, "0">>
      \/ u' = u /\ conn' = conn /\ run' = <<"finalize", r, "502">>
      \/ u' = [u EXCEPT ![r].rt = TRUE] /\ conn' = conn /\ run' = None
      \/ /\ x.out = <<>> /\ k.inbox # <<>> /\ conn' = [conn EXCEPT ![x.c].inbox = Tail(@)]
         /\ \/ u' = [u EXCEPT ![r] = v] /\ run' = <<"finalize", r, "error">>
            \/ u' = [u EXCEPT ![r] = [v EXCEPT !.got = Append(@, p)]] /\ run' = <<"pass", r, Nil>>
            \/ u' = [u EXCEPT ![r] = [v EXCEPT !.out = o]] /\ run' = None
  BY DEF ProcessNonBuffered, Call, Return, None
<1>2. /\ x \in UpstreamRecords /\ x.c \in Conns /\ k \in ConnRecords
      /\ u \in [Requests -> UpstreamRecords] /\ conn \in [Conns -> ConnRecords]
      /\ Alone(r, x) /\ Attempts(conf, x) /\ Linked(conf, r, x, k) /\ Answer(conf, k)
      /\ Passing(conf, x, k) /\ Ordered(k)
      /\ x.headersent /\ x.received /\ x.got # <<>> /\ x.got \in Seq(Parts)
      /\ x.out \in Seq(Parts) /\ k.inbox \in Seq(Parts) /\ k.left \in Nat
      /\ OneAnswer(r, x.got) /\ k.resp \in Kinds /\ k.cur[1] = r /\ k.cur[2] = x.n
      /\ x.got[1].n = x.n /\ x.got[1].kind = k.resp /\ Total(k.resp) \in Nat
      /\ Len(x.got) + Len(x.out) + Len(k.inbox) + k.left = Total(k.resp) + 1
  BY OnItsWay
<1>3. u' = u => u' = [u EXCEPT ![r] = x]
  BY <1>2
<1>4. Alike(x, x) /\ x.rh = "pass" /\ x.st = "active" /\ x.c # Nil
  BY DEF Alike
<1>5. UNCHANGED <<conf, cache, conns, exiting>>
  OBVIOUS
<1>6. CASE u' = u /\ conn' = conn /\ run' = None
  BY <1>2, <1>3, <1>4, <1>5, <1>6, AlikeStep
<1>7. CASE /\ x.out = <<>> /\ Over(e, k.inbox = <<>> /\ k.eof)
           /\ u' = u /\ conn' = conn /\ run' = <<"finalize", r, "0">>
  <2> HIDE DEF x, k
  <2>1. Complete(x)
    <3>1. CASE BodyOf[k.resp] = -1
      BY <1>2, <3>1, NothingLeft
    <3>2. CASE BodyOf[k.resp] # -1
      <4>1. x.length = k.left + Len(k.inbox)
        BY <1>2, <1>4, <3>2 DEF Passing
      <4> DEFINE a == Len(x.got)
                 b == Len(k.inbox)
                 c == k.left
                 t == Total(k.resp)
      <4>2. a \in Nat /\ b \in Nat /\ c \in Nat /\ t \in Nat
        BY <1>2
      <4>3. a + 0 + b + c = t + 1
        <5>1. Len(x.out) = 0
          BY <1>7
        <5> QED
          BY <1>2, <5>1
      <4>4. x.length = c + b
        BY <4>1
      <4> HIDE DEF a, b, c, t
      <4>5. x.length = 0
        BY <1>7, <4>2, <4>4 DEF Over
      <4>6. a = t + 1
        BY ONLY <4>2, <4>3, <4>4, <4>5
      <4> QED
        BY <1>2, <4>6, NothingLeft DEF a, t
    <3> QED
      BY <3>1, <3>2
  <2>2. CanRun(conf, "finalize", r, x, k, "0")
    BY <1>4, <2>1 DEF CanRun, Outcomes
  <2> QED
    BY <1>5, <1>7, <2>2, CallStep DEF x, k
<1>8. CASE u' = u /\ conn' = conn /\ run' = <<"finalize", r, "502">>
  <2>1. CanRun(conf, "finalize", r, x, k, "502")
    BY <1>4 DEF CanRun, Outcomes
  <2> QED
    BY <1>5, <1>8, <2>1, CallStep
<1>9. CASE u' = [u EXCEPT ![r].rt = TRUE] /\ conn' = conn /\ run' = None
  <2> DEFINE y == [x EXCEPT !.rt = TRUE]
  <2>1. u' = [u EXCEPT ![r] = y]
    BY <1>2, <1>9
  <2> HIDE DEF x
  <2>2. y \in UpstreamRecords /\ Alike(x, y)
    BY <1>2 DEF UpstreamRecords, Alike
  <2>3. y.c # Nil
    BY <1>4, <2>2 DEF Alike
  <2> HIDE DEF y
  <2> QED
    BY <1>5, <1>9, <2>1, <2>2, <2>3, AlikeStep DEF x
<1>10. ASSUME x.out = <<>>, k.inbox # <<>>, conn' = [conn EXCEPT ![x.c].inbox = Tail(@)],
              \/ u' = [u EXCEPT ![r] = v] /\ run' = <<"finalize", r, "error">>
              \/ u' = [u EXCEPT ![r] = [v EXCEPT !.got = Append(@, p)]]
                 /\ run' = <<"pass", r, Nil>>
              \/ u' = [u EXCEPT ![r] = [v EXCEPT !.out = o]] /\ run' = None
       PROVE  IInv'
  <2>1. /\ l \in ConnRecords /\ Answer(conf, l) /\ l.inbox = Tail(k.inbox)
        /\ Len(l.inbox) = Len(k.inbox) - 1 /\ Len(k.inbox) \in Nat \ {0}
        /\ l.st = k.st /\ l.ssl = k.ssl /\ l.cur = k.cur /\ l.parts = k.parts
        /\ l.resp = k.resp /\ l.left = k.left /\ l.eof = k.eof
        /\ p \in Parts
    <3> HIDE DEF k
    <3> QED
      BY <1>2, <1>10, ReadOne
  <2>2. conn' = [conn EXCEPT ![x.c] = l]
    BY <1>2, <1>10
  <2>3. x.rh = "pass" /\ x.st = "active" /\ x.c # Nil /\ x.out = <<>> /\ p = k.inbox[1]
    BY <1>2, <1>4, <1>10
  <2> HIDE DEF x, k, l, p
  <2>4. IsPart(p, r, x.got[1].n, Len(x.got), x.got[1].kind)
    <3>1. \A j \in 1 .. Len(k.inbox) :
            IsPart(k.inbox[j], r, x.got[1].n, Len(x.got) + j - 1, x.got[1].kind)
      BY <1>2, <2>3, Follows
    <3>2. 1 \in 1 .. Len(k.inbox)
      BY <2>1
    <3>3. IsPart(k.inbox[1], r, x.got[1].n, Len(x.got) + 1 - 1, x.got[1].kind)
      BY <3>1, <3>2
    <3>4. Len(x.got) + 1 - 1 = Len(x.got)
      BY <1>2
    <3> QED
      BY <2>3, <3>3, <3>4
  <2>5. o \in Seq(Parts) /\ Len(o) = 1 /\ o[1] = p /\ o # <<>>
    BY <2>1
  <2>6. /\ g \in Seq(Parts) /\ Len(g) = Len(x.got) + 1 /\ g # <<>> /\ g[1] = x.got[1]
        /\ OneAnswer(r, g)
    <3>1. /\ x.got \in Seq(Parts) /\ x.got # <<>> /\ OneAnswer(r, x.got) /\ Len(x.got) \in Nat
      BY <1>2
    <3>2. \A j \in 1 .. Len(o) : IsPart(o[j], r, x.got[1].n, Len(x.got) + j - 1, x.got[1].kind)
      <4>1. \A j \in 1 .. Len(o) : j = 1
        BY <2>5
      <4>2. Len(x.got) + 1 - 1 = Len(x.got)
        BY <3>1
      <4> QED
        BY <2>4, <2>5, <4>1, <4>2
    <3> HIDE DEF o
    <3>3. /\ x.got \o o \in Seq(Parts) /\ Len(x.got \o o) = Len(x.got) + Len(o)
          /\ x.got \o o # <<>> /\ (x.got \o o)[1] = x.got[1] /\ OneAnswer(r, x.got \o o)
      BY ONLY <2>5, <3>1, <3>2, Longer
    <3> QED
      BY <2>5, <3>3
  <2>7. Append(x.got, p) = g
    BY <1>2, <2>1, AppendIsConcat
  <2> HIDE DEF g, o
  <2>8. f \in BOOLEAN
    OBVIOUS
  <2> HIDE DEF f
  <2>9. /\ w \in UpstreamRecords /\ w.got = x.got /\ w.length = x.length
        /\ w.keepalive = x.keepalive
        /\ w.st = x.st /\ w.addr = x.addr /\ w.c = x.c /\ w.cached = x.cached
        /\ w.tries = x.tries /\ w.sent = x.sent /\ w.bodysent = x.bodysent
        /\ w.received = x.received /\ w.headersent = x.headersent
        /\ w.closing = x.closing /\ w.rh = x.rh /\ w.wh = x.wh
        /\ w.out = x.out /\ w.rc = x.rc /\ w.n = x.n
        /\ w.fresh = x.fresh /\ w.heads = x.heads
    BY <1>2, <2>8 DEF UpstreamRecords
  <2> HIDE DEF w
  <2>10. /\ v \in UpstreamRecords /\ Filtered(w, 1, v)
         /\ v.st = w.st /\ v.addr = w.addr /\ v.c = w.c /\ v.cached = w.cached
         /\ v.tries = w.tries /\ v.sent = w.sent /\ v.bodysent = w.bodysent
         /\ v.received = w.received /\ v.headersent = w.headersent
         /\ v.closing = w.closing /\ v.rh = w.rh /\ v.wh = w.wh
         /\ v.out = w.out /\ v.got = w.got /\ v.rc = w.rc /\ v.n = w.n
         /\ v.fresh = w.fresh /\ v.heads = w.heads
    BY <2>9, FilterIs
  <2> HIDE DEF v
  <2>11. /\ v.length = IF BodyOf[l.resp] = -1 THEN -1 ELSE l.left + Len(l.inbox)
         /\ v.keepalive => l.left = 0 /\ l.inbox = <<>> /\ l.resp \notin Closing
    <3> DEFINE m == 1
    <3>1. Filtered(x, m, v) /\ m \in Nat /\ Len(l.inbox) = Len(k.inbox) - m
      BY <2>1, <2>9, <2>10 DEF Filtered
    <3> HIDE DEF m, e
    <3> QED
      BY <1>2, <2>1, <2>3, <3>1, Counted
  <2> DEFINE Same(y) ==
               /\ y.st = x.st /\ y.addr = x.addr /\ y.c = x.c /\ y.cached = x.cached
               /\ y.tries = x.tries /\ y.sent = x.sent /\ y.bodysent = x.bodysent
               /\ y.received = x.received /\ y.headersent = x.headersent
               /\ y.closing = x.closing /\ y.rh = x.rh /\ y.wh = x.wh
               /\ y.rc = x.rc /\ y.n = x.n /\ y.fresh = x.fresh /\ y.heads = x.heads
               /\ y.length = v.length /\ y.keepalive = v.keepalive
  <2>12. ASSUME NEW y \in UpstreamRecords, Same(y), u' = [u EXCEPT ![r] = y],
                \/ y.got = x.got /\ y.out = <<>>
                \/ y.got = g /\ y.out = <<>>
                \/ y.got = x.got /\ y.out = o,
                \/ y.got = x.got /\ y.out = <<>> /\ run' = <<"finalize", r, "error">>
                \/ y.got = g /\ y.out = <<>> /\ run' = <<"pass", r, Nil>>
                \/ y.got = x.got /\ y.out = o /\ run' = None
         PROVE  IInv'
    <3>1. Alone(r, y) /\ Attempts(conf, y)
      <4>1. /\ OneAnswer(r, y.got) /\ y.got # <<>>
        BY <1>2, <2>6, <2>12
      <4>2. Alone(r, y)
        BY <1>2, <2>3, <2>12, <4>1 DEF Alone
      <4>3. Attempts(conf, y)
        BY <1>2, <2>12 DEF Attempts
      <4> QED
        BY <4>2, <4>3
    <3>2. Linked(conf, r, y, l)
      BY <1>2, <2>1, <2>11, <2>12 DEF Linked, Mine
    <3>3. ASSUME run' # <<"finalize", r, "error">> PROVE Passing(conf, y, l)
      <4>1. \/ y.got = g /\ y.out = <<>>
            \/ y.got = x.got /\ y.out = o
        BY <2>12, <3>3
      <4>2. y.got[1].n = y.n /\ y.got[1].kind = l.resp
        BY <1>2, <2>1, <2>6, <2>12, <4>1
      <4>3. Len(y.got) + Len(y.out) + Len(l.inbox) + l.left = Total(l.resp) + 1
        <5> DEFINE a == Len(x.got)
                   b == Len(k.inbox)
                   c == k.left
                   t == Total(k.resp)
        <5>1. a \in Nat /\ b \in Nat /\ c \in Nat /\ t \in Nat
          BY <1>2
        <5>2. a + 0 + b + c = t + 1
          <6>1. Len(x.out) = 0
            BY <2>3
          <6> QED
            BY <1>2, <6>1
        <5>3. Len(y.got) + Len(y.out) = a + 1
          <6>1. Len(<<>>) = 0
            OBVIOUS
          <6>2. CASE y.got = g /\ y.out = <<>>
            BY <2>6, <5>1, <6>1, <6>2
          <6>3. CASE y.got = x.got /\ y.out = o
            BY <2>5, <5>1, <6>3
          <6> QED
            BY <4>1, <6>2, <6>3
        <5>4. Len(l.inbox) = b - 1 /\ l.left = c /\ Total(l.resp) = t
          BY <2>1
        <5> HIDE DEF a, b, c, t
        <5>5. (a + 1) + (b - 1) + c = t + 1
          BY ONLY <5>1, <5>2
        <5> QED
          BY <5>3, <5>4, <5>5
      <4>4. k.resp # "upgrade" /\ (x.closing <=> k.resp \in Closing)
        BY <1>2, <2>3 DEF Passing
      <4>5. y.out # <<>> => /\ Len(y.out) = 1
                            /\ IsPart(y.out[1], l.cur[1], l.cur[2], Len(y.got), l.resp)
        BY <1>2, <2>1, <2>4, <2>5, <4>1
      <4> QED
        BY <2>1, <2>3, <2>11, <2>12, <4>2, <4>3, <4>4, <4>5 DEF Passing
    <3>4. run' = None \/ \E h, arg : run' = <<h, r, arg>> /\ CanRun(conf, h, r, y, l, arg)
      <4>1. "error" # "0"
        OBVIOUS
      <4> QED
        BY <2>3, <2>12, <4>1 DEF CanRun, Outcomes
    <3>5. /\ u[r].c # Nil /\ y.c = u[r].c /\ y.addr = u[r].addr /\ l.st = conn[y.c].st
          /\ conn' = [conn EXCEPT ![y.c] = l]
      BY <2>1, <2>2, <2>12 DEF x, k
    <3> HIDE DEF Linked, Passing, Alone, Attempts, CanRun, Answer, Same
    <3> QED
      BY <1>5, <2>1, <2>12, <3>1, <3>2, <3>3, <3>4, <3>5, TalkStep
  <2>13. Same(v) /\ v.got = x.got /\ v.out = <<>>
    BY <2>3, <2>9, <2>10
  <2>14. CASE u' = [u EXCEPT ![r] = v] /\ run' = <<"finalize", r, "error">>
    BY <2>10, <2>12, <2>13, <2>14
  <2>15. CASE u' = [u EXCEPT ![r] = [v EXCEPT !.got = Append(@, p)]] /\ run' = <<"pass", r, Nil>>
    <3> DEFINE y == [v EXCEPT !.got = g]
    <3>1. y = [v EXCEPT !.got = Append(@, p)]
      BY <2>7, <2>13
    <3>2. y \in UpstreamRecords /\ Same(y) /\ y.got = g /\ y.out = <<>>
      BY <2>6, <2>10, <2>13 DEF UpstreamRecords
    <3> HIDE DEF y, Same
    <3> QED
      BY <2>12, <2>15, <3>1, <3>2
  <2>16. CASE u' = [u EXCEPT ![r] = [v EXCEPT !.out = o]] /\ run' = None
    <3> DEFINE y == [v EXCEPT !.out = o]
    <3>2. y \in UpstreamRecords /\ Same(y) /\ y.got = x.got /\ y.out = o
      BY <2>5, <2>10, <2>13 DEF UpstreamRecords
    <3>3. u' = [u EXCEPT ![r] = y]
      BY <2>16
    <3> HIDE DEF y, Same
    <3> QED
      BY <2>12, <2>16, <3>2, <3>3
  <2> QED
    BY <1>10, <2>14, <2>15, <2>16
<1> HIDE DEF x, k, v, o, e
<1> QED
  BY <1>1, <1>6, <1>7, <1>8, <1>9, <1>10

LEMMA PassStep ==
    ASSUME IInv, NEW r \in Requests, Pass(r)
    PROVE  IInv'
<1>1. /\ IF conf.buffering THEN ProcessBuffered(r, u[r].c) ELSE ProcessNonBuffered(r, u[r].c)
      /\ UNCHANGED <<conf, cache, conns, exiting>>
      /\ \/ Running("pass", r)
         \/ run = None /\ u[r].st = "active" /\ u[r].c # Nil /\ u[r].rh = "pass"
  BY DEF Pass, Idle, Active
<1>2. /\ u[r].st = "active" /\ u[r].c # Nil /\ u[r].rh = "pass"
      /\ ~Running("finalize", r) /\ (run = None \/ run[2] = r)
  <2>1. CASE Running("pass", r)
    <3>1. CanRun(conf, "pass", r, u[r], conn[u[r].c], run[3]) /\ run[2] = r /\ run[1] = "pass"
      BY <2>1, Called DEF Running
    <3> QED
      BY <3>1 DEF CanRun, Running
  <2>2. CASE run = None
    BY <1>1, <2>2 DEF Running
  <2> QED
    BY <1>1, <2>1, <2>2
<1>3. CASE conf.buffering
  BY <1>1, <1>2, <1>3, ProcessBufferedStep
<1>4. CASE ~conf.buffering
  BY <1>1, <1>2, <1>4, ProcessNonBufferedStep
<1> QED
  BY <1>3, <1>4

LEMMA UpgradedStep ==
    ASSUME IInv, NEW r \in Requests, Upgraded(r)
    PROVE  IInv'
<1> DEFINE x == u[r]
           k == conn[x.c]
           n == Len(k.inbox)
           g == x.got \o k.inbox
           l == [k EXCEPT !.inbox = <<>>]
<1>1. /\ run = None /\ x.st = "active" /\ x.c # Nil /\ x.rh = "upgraded"
      /\ conn' = [conn EXCEPT ![x.c].inbox = <<>>] /\ UNCHANGED <<conf, cache, conns, exiting>>
      /\ \E b \in BOOLEAN :
           u' = [u EXCEPT ![r] = [[x EXCEPT !.got = @ \o k.inbox]
                                  EXCEPT !.fromclient = b, !.wt = b, !.rt = TRUE]]
      /\ run' = <<"finalize", r, "0">> \/ run' = None
  BY DEF Upgraded, Call, Return, Idle, Active
<1>2. ~Running("finalize", r)
  BY <1>1 DEF Running
<1>3. /\ x \in UpstreamRecords /\ x.c \in Conns /\ k \in ConnRecords
      /\ u \in [Requests -> UpstreamRecords] /\ conn \in [Conns -> ConnRecords]
      /\ Alone(r, x) /\ Attempts(conf, x) /\ Linked(conf, r, x, k) /\ Answer(conf, k)
      /\ Passing(conf, x, k) /\ Ordered(k)
      /\ x.headersent /\ x.received /\ x.got # <<>> /\ x.got \in Seq(Parts)
      /\ x.out \in Seq(Parts) /\ k.inbox \in Seq(Parts) /\ k.left \in Nat
      /\ OneAnswer(r, x.got) /\ k.resp \in Kinds /\ k.cur[1] = r /\ k.cur[2] = x.n
      /\ x.got[1].n = x.n /\ x.got[1].kind = k.resp /\ Total(k.resp) \in Nat
      /\ Len(x.got) + Len(x.out) + Len(k.inbox) + k.left = Total(k.resp) + 1
  BY <1>1, <1>2, OnItsWay
<1>4. x.out = <<>> /\ k.resp = "upgrade" /\ ~x.keepalive
  BY <1>1, <1>3 DEF Alone, Passing
<1>5. /\ l \in ConnRecords /\ Answer(conf, l) /\ l.inbox = <<>> /\ Len(l.inbox) = 0
      /\ l.st = k.st /\ l.ssl = k.ssl /\ l.cur = k.cur /\ l.parts = k.parts
      /\ l.resp = k.resp /\ l.left = k.left /\ l.eof = k.eof
  <2> HIDE DEF k
  <2> QED
    BY <1>3, ReadAll
<1>6. conn' = [conn EXCEPT ![x.c] = l]
  BY <1>1, <1>3
<1>7. PICK b \in BOOLEAN :
        u' = [u EXCEPT ![r] = [[x EXCEPT !.got = @ \o k.inbox]
                               EXCEPT !.fromclient = b, !.wt = b, !.rt = TRUE]]
  BY <1>1
<1> DEFINE y == [x EXCEPT !.got = g, !.fromclient = b, !.wt = b, !.rt = TRUE]
<1>8. u' = [u EXCEPT ![r] = y]
  <2>1. y = [[x EXCEPT !.got = @ \o k.inbox] EXCEPT !.fromclient = b, !.wt = b, !.rt = TRUE]
    BY <1>3 DEF UpstreamRecords
  <2> QED
    BY <1>7, <2>1
<1> HIDE DEF l, x, k
<1>9. /\ g \in Seq(Parts) /\ Len(g) = Len(x.got) + n /\ g # <<>> /\ g[1] = x.got[1]
      /\ OneAnswer(r, g) /\ n \in Nat
  <2>1. \A j \in 1 .. Len(k.inbox) :
          IsPart(k.inbox[j], r, x.got[1].n, Len(x.got) + j - 1, x.got[1].kind)
    BY <1>3, <1>4, Follows
  <2>2. /\ x.got \in Seq(Parts) /\ x.got # <<>> /\ OneAnswer(r, x.got)
        /\ k.inbox \in Seq(Parts)
    BY <1>3
  <2>3. n \in Nat
    BY <2>2
  <2>4. /\ x.got \o k.inbox \in Seq(Parts)
        /\ Len(x.got \o k.inbox) = Len(x.got) + Len(k.inbox)
        /\ x.got \o k.inbox # <<>> /\ (x.got \o k.inbox)[1] = x.got[1]
        /\ OneAnswer(r, x.got \o k.inbox)
    BY ONLY <2>1, <2>2, Longer
  <2> QED
    BY <2>3, <2>4
<1>10. Len(g) + Len(x.out) + Len(l.inbox) + k.left = Total(k.resp) + 1
  <2> DEFINE a == Len(x.got)
             c == k.left
             t == Total(k.resp)
  <2>1. a \in Int /\ c \in Int /\ t \in Int
    BY <1>3
  <2>2. Len(x.out) = 0 /\ Len(l.inbox) = 0 /\ Len(g) = a + n /\ n \in Int
    BY <1>4, <1>5, <1>9
  <2>3. a + 0 + n + c = t + 1
    BY <1>3, <2>2 DEF n
  <2> HIDE DEF a, n, c, t
  <2>4. (a + n) + 0 + 0 + c = t + 1
    BY ONLY <2>1, <2>2, <2>3
  <2> QED
    BY <2>2, <2>4 DEF c, t
<1> HIDE DEF g, n
<1>11. /\ y \in UpstreamRecords /\ y.got = g
       /\ y.st = x.st /\ y.addr = x.addr /\ y.c = x.c /\ y.cached = x.cached
       /\ y.tries = x.tries /\ y.sent = x.sent /\ y.bodysent = x.bodysent
       /\ y.received = x.received /\ y.headersent = x.headersent
       /\ y.keepalive = x.keepalive /\ y.length = x.length /\ y.closing = x.closing
       /\ y.rh = x.rh /\ y.wh = x.wh /\ y.out = x.out /\ y.rc = x.rc /\ y.n = x.n
       /\ y.fresh = x.fresh /\ y.heads = x.heads
  BY <1>3, <1>9 DEF UpstreamRecords
<1> HIDE DEF y
<1>12. Alone(r, y) /\ Attempts(conf, y)
  <2>1. Alone(r, y)
    BY <1>1, <1>3, <1>9, <1>11 DEF Alone, x
  <2>2. Attempts(conf, y)
    BY <1>3, <1>11 DEF Attempts
  <2> QED
    BY <2>1, <2>2
<1>13. Linked(conf, r, y, l)
  BY <1>3, <1>4, <1>5, <1>11 DEF Linked, Mine
<1>14. Passing(conf, y, l)
  <2>1. y.rh = "upgraded" /\ l.resp = "upgrade" /\ ~y.keepalive
    BY <1>1, <1>4, <1>5, <1>11 DEF x
  <2>2. /\ y.got[1].n = y.n /\ y.got[1].kind = l.resp
        /\ Len(y.got) + Len(y.out) + Len(l.inbox) + l.left = Total(l.resp) + 1
    BY <1>3, <1>5, <1>9, <1>10, <1>11
  <2> QED
    BY <2>1, <2>2 DEF Passing
<1>15. Complete(y)
  <2>1. BodyOf[k.resp] = -1 /\ y.got[1].kind = k.resp
    BY <1>3, <1>4, <1>9, <1>11, Bodies
  <2> QED
    BY <1>9, <1>11, <2>1 DEF Complete
<1>16. run' = None \/ \E f, arg : run' = <<f, r, arg>> /\ CanRun(conf, f, r, y, l, arg)
  BY <1>1, <1>11, <1>15 DEF CanRun, Outcomes, x
<1>17. /\ u[r].c # Nil /\ y.c = u[r].c /\ y.addr = u[r].addr /\ l.st = conn[y.c].st
       /\ conn' = [conn EXCEPT ![y.c] = l] /\ UNCHANGED <<conf, cache, conns, exiting>>
  BY <1>1, <1>5, <1>6, <1>11 DEF x, k
<1> HIDE DEF Linked, Passing, Alone, Attempts, CanRun, Answer
<1> QED
  BY <1>1, <1>5, <1>8, <1>11, <1>12, <1>13, <1>14, <1>16, <1>17, TalkStep

-----------------------------------------------------------------------------
(***************************************************************************)
(* Clients and servers                                                     *)
(***************************************************************************)
LEMMA ClientStep ==
    ASSUME IInv, NEW r \in Requests, ClientBody(r) \/ ClientGone(r)
    PROVE  IInv'
  BY Still DEF ClientBody, ClientGone

(* A call whose handler looks at nothing of the connection that changes.   *)
LEMMA StillCalled ==
    ASSUME NEW s, NEW f, NEW r, NEW x, NEW k, NEW l, NEW arg, CanRun(s, f, r, x, k, arg),
           x.c # Nil /\ CanRespond(r, x, k, arg) => CanRespond(r, x, l, arg)
    PROVE  CanRun(s, f, r, x, l, arg)
<1>1. CanRespond(r, x, k, arg) => x.c # Nil
  BY DEF CanRespond
<1> HIDE DEF CanRespond
<1> QED
  BY <1>1 DEF CanRun

(* A step of the server at the other end of a connection.                  *)
LEMMA ServeStep ==
    ASSUME IInv, NEW c \in Conns, NEW l \in ConnRecords, Serve(c, l),
           l.st = "free" <=> conn[c].st = "free", Answer(conf, l),
           \A r \in Requests :
             u[r].c = c /\ Alone(r, u[r]) /\ Linked(conf, r, u[r], conn[c]) =>
               /\ Linked(conf, r, u[r], l)
               /\ u[r].headersent /\ Passing(conf, u[r], conn[c]) => Passing(conf, u[r], l)
               /\ \A h : CanRespond(r, u[r], conn[c], h) => CanRespond(r, u[r], l, h),
           AtRest(conn[c]) => AtRest(l)
    PROVE  IInv'
<1>1. /\ Records /\ Answers /\ Requested /\ Calls /\ Owned /\ Rested /\ PeersReleased
      /\ u \in [Requests -> UpstreamRecords] /\ conn \in [Conns -> ConnRecords]
  BY DEF IInv, Records
<1>2. /\ UNCHANGED <<conf, u, cache, conns, exiting, run>>
      /\ conn' \in [Conns -> ConnRecords] /\ conn'[c] = l
      /\ \A d \in Conns \ {c} : conn'[d] = conn[d]
  BY <1>1 DEF Serve
<1>3. \A r \in Requests : u[r].c # Nil => u[r].c \in Conns
  BY <1>1 DEF UpstreamRecords
<1> HIDE DEF Linked, Passing, Alone, Attempts, CanRun, Answer, AtRest, CanRespond
<1>4. Answers'
  BY <1>1, <1>2 DEF Answers
<1>5. Requested'
  <2> SUFFICES ASSUME NEW r \in Requests
               PROVE  /\ Alone(r, u[r]) /\ Attempts(conf, u[r])
                      /\ u[r].c # Nil => Linked(conf, r, u[r], conn'[u[r].c])
                      /\ u[r].c # Nil /\ u[r].headersent =>
                          Passing(conf, u[r], conn'[u[r].c]) \/ Running("finalize", r)
                      /\ u[r].st = "active" /\ u[r].c = Nil => run # None /\ run[2] = r
    BY <1>2 DEF Requested, Running
  <2>1. /\ Alone(r, u[r]) /\ Attempts(conf, u[r])
        /\ u[r].c # Nil => Linked(conf, r, u[r], conn[u[r].c])
        /\ u[r].c # Nil /\ u[r].headersent =>
            Passing(conf, u[r], conn[u[r].c]) \/ Running("finalize", r)
        /\ u[r].st = "active" /\ u[r].c = Nil => run # None /\ run[2] = r
    BY <1>1 DEF Requested
  <2>2. CASE u[r].c = c
    BY <1>2, <2>1, <2>2
  <2>3. CASE u[r].c # c
    <3>1. u[r].c # Nil => conn'[u[r].c] = conn[u[r].c]
      BY <1>2, <1>3, <2>3
    <3> QED
      BY <2>1, <3>1
  <2> QED
    BY <2>2, <2>3
<1>6. Calls'
  <2> SUFFICES ASSUME run # None
               PROVE  /\ run = <<run[1], run[2], run[3]>> /\ run[2] \in Requests
                      /\ CanRun(conf, run[1], run[2], u[run[2]], conn'[u[run[2]].c], run[3])
    BY <1>2 DEF Calls
  <2> DEFINE r == run[2]
             x == u[r]
  <2>1. /\ run = <<run[1], r, run[3]>> /\ r \in Requests
        /\ CanRun(conf, run[1], r, x, conn[x.c], run[3])
    BY <1>1 DEF Calls
  <2>2. x.c # Nil /\ CanRespond(r, x, conn[x.c], run[3]) => CanRespond(r, x, conn'[x.c], run[3])
    <3>1. CASE x.c = c
      <4>1. Alone(r, x) /\ (x.c # Nil => Linked(conf, r, x, conn[x.c]))
        BY <1>1, <2>1 DEF Requested
      <4> QED
        BY <1>2, <2>1, <3>1, <4>1
    <3>2. CASE x.c # c
      BY <1>2, <1>3, <2>1, <3>2
    <3> QED
      BY <3>1, <3>2
  <2> HIDE DEF x
  <2>3. CanRun(conf, run[1], r, x, conn'[x.c], run[3])
    BY <2>1, <2>2, StillCalled
  <2> QED
    BY <2>1, <2>3 DEF x
<1>7. Owned'
  <2>1. \A d \in Conns : conn'[d].st = "free" <=> conn[d].st = "free"
    BY <1>2
  <2> QED
    BY <1>1, <1>2, <2>1 DEF Owned
<1>8. Rested'
  <2>1. ToSet(cache) \subseteq Conns
    BY <1>1 DEF Owned, ToSet
  <2> QED
    BY <1>1, <1>2, <2>1 DEF Rested
<1>9. Records'
  BY <1>1, <1>2 DEF Records
<1>10. PeersReleased'
  BY <1>1, <1>2 DEF PeersReleased
<1> QED
  BY <1>4, <1>5, <1>6, <1>7, <1>8, <1>9, <1>10 DEF IInv

(* ... that changes the socket only.                                       *)
LEMMA ServeSocketStep ==
    ASSUME IInv, NEW c \in Conns, NEW l \in ConnRecords, Serve(c, l),
           l.st = "free" <=> conn[c].st = "free", SameAnswer(conn[c], l)
    PROVE  IInv'
<1> DEFINE k == conn[c]
<1>1. Answer(conf, k)
  BY DEF IInv, Answers
<1>2. Answer(conf, l)
  BY <1>1, SameAnswerHolds
<1>3. ASSUME NEW r
      PROVE  /\ Linked(conf, r, u[r], k) => Linked(conf, r, u[r], l)
             /\ Passing(conf, u[r], k) => Passing(conf, u[r], l)
             /\ \A h : CanRespond(r, u[r], k, h) => CanRespond(r, u[r], l, h)
  <2>1. /\ Linked(conf, r, u[r], k) => Linked(conf, r, u[r], l)
        /\ Passing(conf, u[r], k) => Passing(conf, u[r], l)
    BY SameAnswerHolds
  <2>2. \A h : CanRespond(r, u[r], k, h) => CanRespond(r, u[r], l, h)
    BY DEF SameAnswer, CanRespond
  <2> QED
    BY <2>1, <2>2
<1>4. AtRest(k) => AtRest(l)
  BY DEF SameAnswer, AtRest
<1> HIDE DEF Linked, Passing, Alone, Answer, AtRest, CanRespond, Serve, IInv, SameAnswer
<1> QED
  BY <1>2, <1>3, <1>4, ServeStep

LEMMA ServerAcceptStep ==
    ASSUME IInv, NEW c \in Conns, ServerAccept(c)
    PROVE  IInv'
<1> DEFINE k == conn[c]
<1>1. k \in ConnRecords /\ k.st = "opening"
  BY DEF IInv, Records, ServerAccept
<1>2. PICK st \in {"open", "refused"} : Serve(c, [k EXCEPT !.st = st])
  BY DEF ServerAccept
<1> DEFINE l == [k EXCEPT !.st = st]
<1> HIDE DEF k
<1>3. l \in ConnRecords /\ l.st # "free" /\ SameAnswer(k, l)
  BY <1>1 DEF ConnRecords, SameAnswer
<1> HIDE DEF l, Serve, SameAnswer
<1>4. Serve(c, l)
  BY <1>2 DEF l
<1> QED
  BY <1>1, <1>3, <1>4, ServeSocketStep DEF k

LEMMA ServerReadsStep ==
    ASSUME IInv, NEW c \in Conns, ServerReads(c)
    PROVE  IInv'
<1> DEFINE k == conn[c]
           l == [k EXCEPT !.full = FALSE]
<1>1. k \in ConnRecords /\ Serve(c, l)
  BY DEF IInv, Records, ServerReads
<1> HIDE DEF k
<1>2. l \in ConnRecords /\ l.st = k.st /\ SameAnswer(k, l)
  BY <1>1 DEF ConnRecords, SameAnswer
<1> HIDE DEF l, Serve, SameAnswer
<1> QED
  BY <1>1, <1>2, ServeSocketStep DEF k

LEMMA ServerCloseStep ==
    ASSUME IInv, NEW c \in Conns, ServerClose(c)
    PROVE  IInv'
<1> DEFINE k == conn[c]
           l == [k EXCEPT !.eof = TRUE]
<1>1. k \in ConnRecords /\ Serve(c, l) /\ Answer(conf, k) /\ ~k.eof
  BY DEF IInv, Records, Answers, ServerClose
<1> HIDE DEF k
<1>2. /\ l \in ConnRecords /\ l.st = k.st /\ l.cur = k.cur /\ l.parts = k.parts
      /\ l.resp = k.resp /\ l.left = k.left /\ l.inbox = k.inbox /\ l.eof /\ l.ssl = k.ssl
  BY <1>1 DEF ConnRecords
<1> HIDE DEF l
<1>3. Answer(conf, l)
  BY <1>1, <1>2 DEF Answer, Ordered
<1>4. ASSUME NEW r
      PROVE  /\ Linked(conf, r, u[r], k) => Linked(conf, r, u[r], l)
             /\ Passing(conf, u[r], k) => Passing(conf, u[r], l)
             /\ \A h : CanRespond(r, u[r], k, h) => CanRespond(r, u[r], l, h)
  <2>1. Linked(conf, r, u[r], k) => Linked(conf, r, u[r], l)
    BY <1>1, <1>2 DEF Linked, Mine
  <2>2. Passing(conf, u[r], k) => Passing(conf, u[r], l)
    BY <1>2 DEF Passing
  <2>3. \A h : CanRespond(r, u[r], k, h) => CanRespond(r, u[r], l, h)
    BY <1>2 DEF CanRespond
  <2> QED
    BY <2>1, <2>2, <2>3
<1>5. AtRest(k) => AtRest(l)
  BY <1>2 DEF AtRest
<1> HIDE DEF Linked, Passing, Alone, Answer, AtRest, CanRespond, Serve, IInv
<1> QED
  BY <1>1, <1>2, <1>3, <1>4, <1>5, ServeStep DEF k

(* One more part comes in.                                                 *)
LEMMA Came ==
    ASSUME NEW k \in ConnRecords, k.cur # None
    PROVE  /\ k.cur[1] \in Requests /\ k.cur[2] \in Nat /\ Len(k.inbox) \in Nat
           /\ \A p \in Parts :
               /\ Append(k.inbox, p) \in Seq(Parts)
               /\ Len(Append(k.inbox, p)) = Len(k.inbox) + 1
               /\ Append(k.inbox, p)[Len(k.inbox) + 1] = p
               /\ \A j \in 1 .. Len(k.inbox) : Append(k.inbox, p)[j] = k.inbox[j]
<1>1. k.cur \in Requests \X Nat /\ k.inbox \in Seq(Parts)
  BY DEF ConnRecords
<1> QED
  BY <1>1

LEMMA ServerHeaderStep ==
    ASSUME IInv, NEW c \in Conns, ServerHeader(c)
    PROVE  IInv'
<1> DEFINE k == conn[c]
<1>1. /\ k \in ConnRecords /\ conf \in Scenarios /\ Answer(conf, k) /\ k.resp = "none" /\ ~k.eof
      /\ k.parts = 2 \/ (conf.early /\ k.parts = 1)
      /\ \A r \in Requests : u[r] \in UpstreamRecords
  BY DEF IInv, Records, Answers, ServerHeader
<1>2. PICK kind \in conf.kinds :
        Serve(c, [k EXCEPT !.resp = kind, !.left = IF BodyOf[kind] = -1 THEN 1 ELSE BodyOf[kind],
                           !.inbox = Append(@, Part(c, 0, kind))])
  BY DEF ServerHeader
<1> DEFINE left == Total(kind)
           i == 0
           p == [r |-> k.cur[1], n |-> k.cur[2], i |-> i, kind |-> kind]
           l == [k EXCEPT !.resp = kind, !.left = left, !.inbox = Append(@, p)]
<1>3. Serve(c, l)
  BY <1>2 DEF Part, Total
<1>4. kind \in Kinds /\ left \in Nat /\ kind # "none"
  BY <1>1, Surroundings, Bodies
<1>5. k.inbox = <<>> /\ Len(k.inbox) = 0 /\ k.parts >= 1 /\ k.cur # None
  BY <1>1 DEF Answer
<1>9. i \in Nat /\ i = 0
  OBVIOUS
<1> HIDE DEF k, left, i
<1>6. /\ p \in Parts /\ IsPart(p, k.cur[1], k.cur[2], 0, kind)
      /\ l \in ConnRecords /\ l.resp = kind /\ l.left = left
      /\ l.st = k.st /\ l.ssl = k.ssl /\ l.cur = k.cur /\ l.parts = k.parts
      /\ l.eof = k.eof
      /\ Len(l.inbox) = 1 /\ l.inbox[1] = p
  <2>1. /\ k.cur[1] \in Requests /\ k.cur[2] \in Nat
        /\ \A q \in Parts :
            /\ Append(k.inbox, q) \in Seq(Parts)
            /\ Len(Append(k.inbox, q)) = Len(k.inbox) + 1
            /\ Append(k.inbox, q)[Len(k.inbox) + 1] = q
    BY <1>1, <1>5, Came
  <2>2. p \in Parts /\ IsPart(p, k.cur[1], k.cur[2], 0, kind)
    BY <1>4, <1>9, <2>1 DEF Parts, IsPart
  <2> HIDE DEF p
  <2> DEFINE b == Append(k.inbox, p)
  <2>3. b \in Seq(Parts) /\ Len(b) = 1 /\ b[1] = p
    BY <1>5, <2>1, <2>2
  <2>4. l = [k EXCEPT !.resp = kind, !.left = left, !.inbox = b]
    OBVIOUS
  <2> HIDE DEF b
  <2>5. /\ l \in ConnRecords /\ l.resp = kind /\ l.left = left /\ l.inbox = b
        /\ l.st = k.st /\ l.ssl = k.ssl /\ l.cur = k.cur /\ l.parts = k.parts
        /\ l.eof = k.eof
    BY <1>1, <1>4, <2>3, <2>4 DEF ConnRecords
  <2> QED
    BY <2>2, <2>3, <2>5
<1> HIDE DEF l, p
<1>7. Answer(conf, l)
  <2>1. left - left - 1 + 1 = 0 /\ 1 + left <= left + 1
    BY <1>4
  <2>2. Ordered(l)
    <3> SUFFICES ASSUME NEW j \in 1 .. Len(l.inbox)
                 PROVE  IsPart(l.inbox[j], l.cur[1], l.cur[2],
                               Total(l.resp) - l.left - Len(l.inbox) + j, l.resp)
      BY DEF Ordered
    <3>1. j = 1
      BY <1>6
    <3>2. Total(l.resp) - l.left - Len(l.inbox) + j = 0
      BY <1>4, <1>6, <2>1, <3>1 DEF left
    <3> QED
      BY <1>6, <3>1, <3>2
  <2>3. Len(l.inbox) + l.left <= Total(l.resp) + 1
    BY <1>4, <1>6, <2>1 DEF left
  <2> QED
    BY <1>1, <1>4, <1>5, <1>6, <2>2, <2>3 DEF Answer
<1>8. ASSUME NEW r \in Requests, Alone(r, u[r]), Linked(conf, r, u[r], k)
      PROVE  /\ Linked(conf, r, u[r], l) /\ ~u[r].headersent
             /\ \A h : ~CanRespond(r, u[r], k, h)
  <2>1. ~u[r].received /\ ~u[r].keepalive /\ ~u[r].headersent
    BY <1>1, <1>8 DEF Linked, Alone
  <2>2. u[r].sent /\ Mine(r, u[r], k)
    BY <1>1, <1>5, <1>8 DEF Linked
  <2>3. Linked(conf, r, u[r], l)
    BY <1>6, <1>8, <2>1, <2>2 DEF Linked, Mine
  <2>4. \A h : ~CanRespond(r, u[r], k, h)
    BY <2>1 DEF CanRespond
  <2> QED
    BY <2>1, <2>3, <2>4
<1>10. ~AtRest(k)
  BY <1>1 DEF AtRest
<1> HIDE DEF Linked, Passing, Alone, Answer, AtRest, CanRespond, Serve, IInv
<1> QED
  BY <1>3, <1>6, <1>7, <1>8, <1>10, ServeStep DEF k

LEMMA ServerBodyStep ==
    ASSUME IInv, NEW c \in Conns, ServerBody(c)
    PROVE  IInv'
<1> DEFINE k == conn[c]
           kind == k.resp
           left == k.left - 1
           i == Total(kind) - k.left + 1
           p == [r |-> k.cur[1], n |-> k.cur[2], i |-> i, kind |-> kind]
           l == [k EXCEPT !.resp = kind, !.left = left, !.inbox = Append(@, p)]
           m == Len(k.inbox)
           t == Total(kind)
<1>1. /\ k \in ConnRecords /\ conf \in Scenarios /\ Answer(conf, k) /\ ~k.eof /\ k.left > 0
      /\ Serve(c, [k EXCEPT !.left = @ - 1, !.inbox = Append(@, Part(c, i, kind))])
  BY DEF IInv, Records, Answers, ServerBody, Total
<1>2. Serve(c, l)
  <2>1. l = [k EXCEPT !.left = @ - 1, !.inbox = Append(@, Part(c, i, kind))]
    BY <1>1 DEF Part, ConnRecords
  <2> QED
    BY <1>1, <2>1
<1> HIDE DEF k
<1>3. /\ kind # "none" /\ kind \in Kinds /\ k.parts >= 1 /\ k.cur # None /\ Ordered(k)
      /\ (~conf.early => k.parts = 2) /\ k.left \in Nat \ {0} /\ m \in Nat /\ t \in Nat
      /\ m + k.left <= t + 1
  <2>1. kind # "none"
    BY <1>1 DEF Answer
  <2>2. kind \in Kinds /\ k.left \in Nat \ {0} /\ k.inbox \in Seq(Parts)
    BY <1>1, <2>1 DEF ConnRecords
  <2> QED
    BY <1>1, <2>1, <2>2, Bodies DEF Answer
<1>4. left \in Nat /\ left = k.left - 1
  BY <1>3
<1>5. i \in Nat /\ i = t - k.left + 1
  <2> HIDE DEF m
  <2> QED
    BY <1>3
<1>6. k.resp \in {"none", kind}
  OBVIOUS
<1> HIDE DEF kind, left, i, t
<1>7. /\ p \in Parts /\ IsPart(p, k.cur[1], k.cur[2], i, kind)
      /\ l \in ConnRecords /\ l.resp = kind /\ l.left = left
      /\ l.st = k.st /\ l.ssl = k.ssl /\ l.cur = k.cur /\ l.parts = k.parts
      /\ l.eof = k.eof
      /\ Len(l.inbox) = m + 1 /\ l.inbox[m + 1] = p
      /\ \A j \in 1 .. m : l.inbox[j] = k.inbox[j]
  <2>1. /\ k.cur[1] \in Requests /\ k.cur[2] \in Nat
        /\ \A q \in Parts :
            /\ Append(k.inbox, q) \in Seq(Parts)
            /\ Len(Append(k.inbox, q)) = m + 1
            /\ Append(k.inbox, q)[m + 1] = q
            /\ \A j \in 1 .. m : Append(k.inbox, q)[j] = k.inbox[j]
    BY <1>1, <1>3, Came
  <2>2. p \in Parts /\ IsPart(p, k.cur[1], k.cur[2], i, kind)
    BY <1>3, <1>5, <2>1 DEF Parts, IsPart
  <2> HIDE DEF p
  <2> DEFINE b == Append(k.inbox, p)
  <2>3. /\ b \in Seq(Parts) /\ Len(b) = m + 1 /\ b[m + 1] = p
        /\ \A j \in 1 .. m : b[j] = k.inbox[j]
    BY <2>1, <2>2
  <2>4. l = [k EXCEPT !.resp = kind, !.left = left, !.inbox = b]
    OBVIOUS
  <2> HIDE DEF b
  <2>5. /\ l \in ConnRecords /\ l.resp = kind /\ l.left = left /\ l.inbox = b
        /\ l.st = k.st /\ l.ssl = k.ssl /\ l.cur = k.cur /\ l.parts = k.parts
        /\ l.eof = k.eof
    BY <1>1, <1>3, <1>4, <2>3, <2>4 DEF ConnRecords
  <2> QED
    BY <2>2, <2>3, <2>5
<1> HIDE DEF p, l, m
<1>8. Len(l.inbox) + l.left = m + k.left /\ l.resp = k.resp
  <2> DEFINE a == k.left
  <2>1. a \in Nat /\ m \in Nat /\ left = a - 1
    BY <1>3, <1>4
  <2> HIDE DEF a
  <2>2. (m + 1) + left = m + a
    BY ONLY <2>1
  <2> QED
    BY <1>7, <2>2 DEF a, kind
<1>9. Answer(conf, l)
  <2>1. Ordered(l)
    <3> SUFFICES ASSUME NEW j \in 1 .. m + 1
                 PROVE  IsPart(l.inbox[j], k.cur[1], k.cur[2],
                               t - left - (m + 1) + j, kind)
      BY <1>7 DEF Ordered, t
    <3>1. CASE j = m + 1
      <4>1. t - left - (m + 1) + j = i
        BY ONLY <1>3, <1>4, <1>5, <3>1
      <4> QED
        BY <1>7, <3>1, <4>1
    <3>2. CASE j # m + 1
      <4>1. j \in 1 .. m /\ t - left - (m + 1) + j = t - k.left - m + j
        BY ONLY <1>3, <1>4, <3>2, j \in 1 .. m + 1
      <4>2. IsPart(k.inbox[j], k.cur[1], k.cur[2], t - k.left - m + j, kind)
        BY <1>3, <4>1 DEF Ordered, m, t, kind
      <4> QED
        BY <1>7, <4>1, <4>2
    <3> QED
      BY <3>1, <3>2
  <2>2. Len(l.inbox) + l.left <= Total(l.resp) + 1
    BY <1>3, <1>7, <1>8 DEF t
  <2> QED
    BY <1>3, <1>7, <2>1, <2>2 DEF Answer
<1>10. ASSUME NEW r \in Requests, Alone(r, u[r]), Linked(conf, r, u[r], k),
              u[r] \in UpstreamRecords
       PROVE  /\ Linked(conf, r, u[r], l)
              /\ Passing(conf, u[r], k) => Passing(conf, u[r], l)
              /\ \A h : CanRespond(r, u[r], k, h) => CanRespond(r, u[r], l, h)
  <2>1. u[r].sent /\ Mine(r, u[r], k) /\ ~u[r].keepalive
    BY <1>1, <1>3, <1>10 DEF Linked
  <2>2. Linked(conf, r, u[r], l)
    BY <1>7, <1>8, <1>10, <2>1 DEF Linked, Mine
  <2>3. \A h : CanRespond(r, u[r], k, h) => CanRespond(r, u[r], l, h)
    <3> SUFFICES ASSUME NEW h, CanRespond(r, u[r], k, h) PROVE CanRespond(r, u[r], l, h)
      OBVIOUS
    <3>1. Len(l.inbox) + l.left = Total(l.resp)
      BY <1>8 DEF CanRespond, m
    <3> QED
      BY <1>8, <3>1 DEF CanRespond
  <2>4. ASSUME Passing(conf, u[r], k) PROVE Passing(conf, u[r], l)
    <3> DEFINE a == Len(u[r].got)
               b == Len(u[r].out)
    <3>1. a \in Nat /\ b \in Nat
      BY <1>10 DEF UpstreamRecords
    <3>2. a + b + m + k.left = t + 1
      BY <2>4 DEF Passing, m, t, kind
    <3> DEFINE d == Len(l.inbox)
               e == l.left
               f == k.left
    <3>4. d \in Nat /\ e \in Nat /\ f \in Nat /\ m \in Nat /\ t \in Nat
      BY <1>3, <1>4, <1>7
    <3>5. d + e = m + f
      BY <1>8
    <3> HIDE DEF a, b, d, e, f
    <3>3. a + b + d + e = t + 1
      BY ONLY <3>1, <3>2, <3>4, <3>5 DEF f
    <3>6. e + d = f + m
      BY ONLY <3>4, <3>5
    <3> QED
      BY <1>7, <1>8, <2>4, <3>3, <3>6 DEF Passing, a, b, d, e, f, m, t, kind
  <2> QED
    BY <2>2, <2>3, <2>4
<1>11. ~AtRest(k) /\ \A r \in Requests : u[r] \in UpstreamRecords
  BY <1>1 DEF AtRest, IInv, Records
<1> HIDE DEF Linked, Passing, Alone, Answer, AtRest, CanRespond, Serve, IInv
<1> QED
  BY <1>2, <1>7, <1>9, <1>10, <1>11, ServeStep DEF k

-----------------------------------------------------------------------------
(***************************************************************************)
(* Connections and peers are given back                                    *)
(***************************************************************************)
LEMMA Closes ==
    ASSUME IInv, NEW D, conn' = Closed(D), conf' = conf
    PROVE  /\ conn' \in [Conns -> ConnRecords]
           /\ \A c \in Conns : /\ Answer(conf, conn'[c])
                               /\ c \in D => conn'[c].st = "free"
                               /\ c \notin D => conn'[c] = conn[c]
<1>1. conn \in [Conns -> ConnRecords] /\ \A c \in Conns : Answer(conf, conn[c])
  BY DEF IInv, Records, Answers
<1>2. FreeConn \in ConnRecords /\ FreeConn.st = "free" /\ Answer(conf, FreeConn)
  <2>1. <<>> \in Seq(Parts)
    OBVIOUS
  <2> QED
    BY <2>1 DEF FreeConn, ConnRecords, Answer, None, Nil
<1> HIDE DEF Answer, FreeConn
<1> QED
  BY <1>1, <1>2 DEF Closed

(* The requests at each server, when one of them leaves it.                *)
LEMMA PeerLeaves ==
    ASSUME IInv, NEW r \in Requests, u' \in [Requests -> UpstreamRecords], u'[r].addr = Nil,
           \A q \in Requests \ {r} : u'[q] = u[q],
           conns' = IF u[r].addr # Nil THEN [conns EXCEPT ![u[r].addr] = @ - 1] ELSE conns
    PROVE  conns' \in [Addrs -> Int] /\ PeersReleased'
<1> DEFINE P(a) == {q \in Requests : u[q].addr = a}
           Q(a) == {q \in Requests : u'[q].addr = a}
<1>1. /\ conns \in [Addrs -> Int] /\ \A a \in Addrs : conns[a] = Cardinality(P(a))
      /\ u[r].addr \in Addrs \cup {Nil}
  BY DEF IInv, Records, PeersReleased, UpstreamRecords
<1>2. conns' \in [Addrs -> Int]
  BY <1>1
<1>3. ASSUME NEW a \in Addrs PROVE conns'[a] = Cardinality(Q(a))
  <2>1. IsFiniteSet(P(a))
    BY Surroundings, FS_Subset
  <2>2. Q(a) = P(a) \ {r}
    BY Surroundings
  <2>3. Cardinality(P(a) \ {r}) = IF r \in P(a) THEN Cardinality(P(a)) - 1 ELSE Cardinality(P(a))
    BY <2>1, FS_RemoveElement
  <2>4. CASE u[r].addr = a
    <3>1. r \in P(a) /\ a # Nil
      BY <2>4, Surroundings
    <3>2. conns'[a] = conns[a] - 1
      BY <1>1, <2>4, <3>1
    <3> HIDE DEF P, Q
    <3> QED
      BY <1>1, <2>2, <2>3, <3>1, <3>2
  <2>5. CASE u[r].addr # a
    <3>1. r \notin P(a)
      BY <2>5
    <3>2. conns'[a] = conns[a]
      BY <1>1, <2>5
    <3> HIDE DEF P, Q
    <3> QED
      BY <1>1, <2>2, <2>3, <3>1, <3>2
  <2> QED
    BY <2>4, <2>5
<1> QED
  BY <1>2, <1>3 DEF PeersReleased

(* ... and when one comes to it.                                           *)
LEMMA PeerComes ==
    ASSUME IInv, NEW r \in Requests, u' \in [Requests -> UpstreamRecords], NEW b \in Addrs,
           u[r].addr = Nil, u'[r].addr = b,
           \A q \in Requests \ {r} : u'[q] = u[q],
           conns' = [conns EXCEPT ![b] = @ + 1]
    PROVE  conns' \in [Addrs -> Int] /\ PeersReleased'
<1> DEFINE P(a) == {q \in Requests : u[q].addr = a}
           Q(a) == {q \in Requests : u'[q].addr = a}
<1>1. /\ conns \in [Addrs -> Int] /\ \A a \in Addrs : conns[a] = Cardinality(P(a))
  BY DEF IInv, Records, PeersReleased
<1>2. conns' \in [Addrs -> Int]
  BY <1>1
<1>3. ASSUME NEW a \in Addrs PROVE conns'[a] = Cardinality(Q(a))
  <2>1. IsFiniteSet(P(a))
    BY Surroundings, FS_Subset
  <2>2. r \notin P(a) /\ Cardinality(P(a) \cup {r}) = Cardinality(P(a)) + 1
    <3>1. r \notin P(a)
      BY Surroundings
    <3> HIDE DEF P
    <3>2. Cardinality(P(a) \cup {r}) = IF r \in P(a) THEN Cardinality(P(a))
                                       ELSE Cardinality(P(a)) + 1
      BY <2>1, FS_AddElement
    <3> QED
      BY <3>1, <3>2
  <2>3. CASE b = a
    <3>1. Q(a) = P(a) \cup {r}
      BY <2>3
    <3>2. conns'[a] = conns[a] + 1
      BY <1>1, <2>3
    <3> HIDE DEF P, Q
    <3> QED
      BY <1>1, <2>2, <3>1, <3>2
  <2>4. CASE b # a
    <3>1. Q(a) = P(a)
      BY <2>2, <2>4
    <3>2. conns'[a] = conns[a]
      BY <1>1, <2>4
    <3> HIDE DEF P, Q
    <3> QED
      BY <1>1, <3>1, <3>2
  <2> QED
    BY <2>3, <2>4
<1> QED
  BY <1>2, <1>3 DEF PeersReleased

(* A request is left without a peer and a connection.                      *)
LEMMA GivenBack ==
    ASSUME IInv, NEW r \in Requests, NEW y \in UpstreamRecords, y.c = Nil, y.addr = Nil,
           u' = [u EXCEPT ![r] = y], NEW D, conn' = Closed(D), UNCHANGED <<conf, exiting>>,
           conns' = IF u[r].addr # Nil THEN [conns EXCEPT ![u[r].addr] = @ - 1] ELSE conns,
           D \subseteq ToSet(cache) \cup {u[r].c},
           cache' \in Seq(Conns), IsInjective(cache'), Len(cache') <= conf.keep,
           ToSet(cache') = (ToSet(cache) \cup {u[r].c}) \ (D \cup {Nil}),
           u[r].c \in ToSet(cache') => AtRest(conn[u[r].c]),
           exiting => cache' = <<>>,
           run = None \/ run[2] = r,
           \/ run' = None
           \/ \E f, arg : run' = <<f, r, arg>> /\ CanRun(conf, f, r, y, conn'[y.c], arg),
           y.st = "active" => run' # None, Alone(r, y), Attempts(conf, y)
    PROVE  IInv'
<1>1. /\ Records /\ Owned /\ Rested /\ u \in [Requests -> UpstreamRecords]
  BY DEF IInv, Records
<1>2. /\ conn' \in [Conns -> ConnRecords]
      /\ \A c \in Conns : /\ Answer(conf, conn'[c])
                          /\ c \in D => conn'[c].st = "free"
                          /\ c \notin D => conn'[c] = conn[c]
  BY Closes
<1>3. \A q \in Requests : u[q].c \in Conns \cup {Nil}
  BY <1>1 DEF UpstreamRecords
<1>4. \A q \in Requests \ {r} : u[q].c # Nil => u[q].c \notin D /\ u[q].c # u[r].c
  BY <1>1 DEF Owned
<1>5. \A q \in Requests \ {r} : u[q].c # Nil => conn'[u[q].c] = conn[u[q].c]
  BY <1>2, <1>3, <1>4
<1>6. /\ Answers' /\ Requested' /\ Calls' /\ u' \in [Requests -> UpstreamRecords]
      /\ u'[r] = y /\ \A q \in Requests \ {r} : u'[q] = u[q]
  <2> HIDE DEF IInv, Answer, Alone, Attempts, CanRun, Closed
  <2>1. \A c \in Conns : Answer(conf, conn'[c])
    BY <1>2
  <2>2. conf' = conf
    OBVIOUS
  <2> QED
    BY <1>2, <1>5, <2>1, <2>2, Step
<1>7. conns' \in [Addrs -> Int] /\ PeersReleased'
  BY <1>6, PeerLeaves
<1>8. Records'
  BY <1>1, <1>2, <1>6, <1>7 DEF Records
<1>9. Owned'
  <2>1. ToSet(cache') \subseteq Conns /\ Nil \notin Conns
    BY Surroundings DEF ToSet
  <2>2. ASSUME NEW p \in Requests, NEW q \in Requests, u'[p].c = u'[q].c, u'[p].c # Nil
        PROVE  p = q
    BY <1>1, <1>6, <2>2 DEF Owned
  <2>3. ASSUME NEW q \in Requests PROVE u'[q].c \notin ToSet(cache')
    <3>1. CASE q = r
      BY <1>6, <2>1, <3>1
    <3>2. CASE q # r
      BY <1>1, <1>4, <1>6, <2>1, <3>2 DEF Owned
    <3> QED
      BY <3>1, <3>2
  <2>4. ASSUME NEW c \in Conns
        PROVE  conn'[c].st = "free" <=> c \notin ToSet(cache') /\ \A q \in Requests : u'[q].c # c
    <3>1. c # Nil
      BY <2>1
    <3>2. CASE c \in D
      <4>1. \A q \in Requests : u'[q].c # c
        BY <1>4, <1>6, <3>1, <3>2
      <4> QED
        BY <1>2, <3>2, <4>1
    <3>3. CASE c \notin D
      <4>1. c \in ToSet(cache') <=> c \in ToSet(cache) \/ c = u[r].c
        BY <3>1, <3>3
      <4>2. (\A q \in Requests : u'[q].c # c) <=> (\A q \in Requests \ {r} : u[q].c # c)
        BY <1>6, <3>1
      <4>3. conn'[c].st = "free"
            <=> c \notin ToSet(cache) /\ \A q \in Requests : u[q].c # c
        BY <1>1, <1>2, <3>3 DEF Owned
      <4> QED
        BY <4>1, <4>2, <4>3
    <3> QED
      BY <3>2, <3>3
  <2> QED
    BY <2>2, <2>3, <2>4 DEF Owned
<1>10. Rested'
  <2>1. ToSet(cache') \subseteq Conns
    BY DEF ToSet
  <2>2. ASSUME NEW c \in ToSet(cache') PROVE AtRest(conn'[c])
    <3>1. conn'[c] = conn[c] /\ (c \in ToSet(cache) \/ c = u[r].c)
      BY <1>2, <2>1
    <3> QED
      BY <1>1, <3>1 DEF Rested
  <2> QED
    BY <2>2 DEF Rested
<1> QED
  BY <1>6, <1>7, <1>8, <1>9, <1>10 DEF IInv

(* What may be kept is at rest.                                            *)
LEMMA KeepableRests ==
    ASSUME IInv, NEW r \in Requests, NEW failed, Keepable(r, failed)
    PROVE  u[r].c # Nil /\ ~exiting /\ AtRest(conn[u[r].c])
<1> DEFINE x == u[r]
           k == conn[x.c]
<1>1. x.c # Nil /\ ~exiting /\ x.keepalive /\ x.bodysent
  BY DEF Keepable
<1>2. Alone(r, x) /\ Linked(conf, r, x, k)
  BY <1>1, Held
<1> HIDE DEF x, k
<1>3. x.received
  BY <1>1, <1>2 DEF Alone
<1>4. AtRest(k)
  BY <1>1, <1>2, <1>3 DEF Linked, AtRest
<1> QED
  BY <1>1, <1>4 DEF x, k

(* The newest of the kept connections comes to the head, and the oldest    *)
(* goes when there is no room.                                             *)
LEMMA KeptFull ==
    ASSUME IInv, NEW c \in Conns, c \notin ToSet(cache), conf.keep > 0
    PROVE  /\ Len(cache) = conf.keep =>
               LET q == Front(cache)
               IN  /\ Last(cache) \in ToSet(cache) /\ q \in Seq(Conns) /\ IsInjective(q)
                   /\ Len(q) + 1 = conf.keep /\ Len(q) \in Nat
                   /\ ToSet(q) = ToSet(cache) \ {Last(cache)}
                   /\ <<c>> \o q \in Seq(Conns) /\ IsInjective(<<c>> \o q)
                   /\ Len(<<c>> \o q) <= conf.keep
                   /\ ToSet(<<c>> \o q) = (ToSet(cache) \ {Last(cache)}) \cup {c}
           /\ Len(cache) # conf.keep =>
               LET q == cache
               IN  /\ <<c>> \o q \in Seq(Conns) /\ IsInjective(<<c>> \o q)
                   /\ Len(<<c>> \o q) <= conf.keep
                   /\ ToSet(<<c>> \o q) = ToSet(cache) \cup {c}
<1>1. /\ cache \in Seq(Conns) /\ IsInjective(cache) /\ Len(cache) <= conf.keep
      /\ conf.keep \in Nat /\ Len(cache) \in Nat
  BY Surroundings DEF IInv, Owned, Records
<1>2. ASSUME NEW q \in Seq(Conns), IsInjective(q), c \notin ToSet(q), Len(q) + 1 <= conf.keep
      PROVE  /\ <<c>> \o q \in Seq(Conns) /\ IsInjective(<<c>> \o q)
             /\ Len(<<c>> \o q) <= conf.keep
             /\ ToSet(<<c>> \o q) = ToSet(q) \cup {c}
  <2>1. /\ <<c>> \o q \in Seq(Conns) /\ IsInjective(<<c>> \o q)
        /\ ToSet(<<c>> \o q) = ToSet(q) \cup {c}
    BY <1>2, QueueInsert
  <2>2. Len(<<c>> \o q) = Len(q) + 1
    BY <1>2
  <2> QED
    BY <1>2, <2>1, <2>2
<1>3. CASE Len(cache) = conf.keep
  <2> DEFINE q == Front(cache)
  <2>1. cache # <<>>
    BY <1>1, <1>3
  <2>2. /\ Last(cache) \in ToSet(cache) /\ q \in Seq(Conns) /\ IsInjective(q)
        /\ ToSet(q) = ToSet(cache) \ {Last(cache)}
    BY <1>1, <2>1, QueueFront
  <2>3. Len(q) = Len(cache) - 1
    <3> DEFINE n == Len(cache) - 1
    <3>1. n \in Nat /\ 1 \in Int /\ n \in Int
      BY <1>1, <2>1
    <3>2. \A i \in 1 .. n : cache[i] \in Conns
      BY <1>1
    <3>3. q = SubSeq(cache, 1, n)
      BY DEF Front
    <3> HIDE DEF n, q
    <3>4. Len(q) = IF 1 <= n THEN n - 1 + 1 ELSE 0
      BY <3>1, <3>2, <3>3, SubSeqProperties
    <3>5. Len(q) = n
      BY ONLY <3>1, <3>4
    <3> QED
      BY <3>5 DEF n
  <2>4. Len(q) + 1 = conf.keep /\ Len(q) \in Nat
    BY <1>1, <1>3, <2>1, <2>3
  <2> HIDE DEF q
  <2>5. c \notin ToSet(q) /\ Len(q) + 1 <= conf.keep
    BY <1>1, <2>2, <2>4
  <2>6. /\ <<c>> \o q \in Seq(Conns) /\ IsInjective(<<c>> \o q)
        /\ Len(<<c>> \o q) <= conf.keep
        /\ ToSet(<<c>> \o q) = ToSet(q) \cup {c}
    BY <1>2, <2>2, <2>5
  <2> QED
    BY <1>3, <2>2, <2>4, <2>6 DEF q
<1>4. CASE Len(cache) # conf.keep
  <2>1. Len(cache) + 1 <= conf.keep
    BY <1>1, <1>4
  <2> QED
    BY <1>1, <1>2, <1>4, <2>1
<1> QED
  BY <1>3, <1>4

(* What u->peer.free does with the connection.                             *)
Released(r, D) ==
    /\ conn' = Closed(D) /\ D \subseteq ToSet(cache) \cup {u[r].c}
    /\ cache' \in Seq(Conns) /\ IsInjective(cache') /\ Len(cache') <= conf.keep
    /\ ToSet(cache') = (ToSet(cache) \cup {u[r].c}) \ (D \cup {Nil})
    /\ u[r].c \in ToSet(cache') => AtRest(conn[u[r].c])
    /\ exiting => cache' = <<>>

LEMMA FreePeerGives ==
    ASSUME IInv, NEW r \in Requests, NEW failed, NEW v, FreePeer(r, failed, v)
    PROVE  /\ u' = [u EXCEPT ![r] = [v EXCEPT !.addr = Nil, !.c = Nil]]
           /\ conns' = [conns EXCEPT ![u[r].addr] = @ - 1]
           /\ \E D : Released(r, D)
<1> DEFINE c == u[r].c
           full == Len(cache) = conf.keep
<1>1. /\ u' = [u EXCEPT ![r] = [v EXCEPT !.addr = Nil, !.c = Nil]]
      /\ conns' = [conns EXCEPT ![u[r].addr] = @ - 1]
      /\ \/ /\ Keepable(r, failed) /\ conf.keep > 0
            /\ \/ /\ cache' = <<c>> \o (IF full THEN Front(cache) ELSE cache)
                  /\ conn' = IF full THEN Closed({Last(cache)}) ELSE conn
               \/ /\ cache' = IF full THEN Front(cache) ELSE cache
                  /\ conn' = Closed({c} \cup (IF full THEN {Last(cache)} ELSE {}))
         \/ cache' = cache /\ conn' = Closed({c})
  BY DEF FreePeer
<1>2. /\ cache \in Seq(Conns) /\ IsInjective(cache) /\ Len(cache) <= conf.keep
      /\ c \notin ToSet(cache) /\ c \in Conns \cup {Nil} /\ Nil \notin Conns
      /\ ToSet(cache) \subseteq Conns /\ (exiting => cache = <<>>)
      /\ conn \in [Conns -> ConnRecords]
  <2>1. cache \in Seq(Conns)
    BY DEF IInv, Owned
  <2>2. ToSet(cache) \subseteq Conns
    BY <2>1 DEF ToSet
  <2> QED
    BY <2>1, <2>2, Held, Surroundings DEF IInv, Owned, Rested
<1>3. conn = Closed({})
  BY <1>2 DEF Closed
<1>4. CASE cache' = cache /\ conn' = Closed({c})
  <2>1. Released(r, {c})
    BY <1>2, <1>4 DEF Released
  <2> QED
    BY <1>1, <2>1
<1>5. CASE /\ Keepable(r, failed) /\ conf.keep > 0
           /\ \/ /\ cache' = <<c>> \o (IF full THEN Front(cache) ELSE cache)
                 /\ conn' = IF full THEN Closed({Last(cache)}) ELSE conn
              \/ /\ cache' = IF full THEN Front(cache) ELSE cache
                 /\ conn' = Closed({c} \cup (IF full THEN {Last(cache)} ELSE {}))
  <2>1. c # Nil /\ ~exiting /\ AtRest(conn[c]) /\ c \in Conns
    BY <1>2, <1>5, KeepableRests
  <2> DEFINE q == Front(cache)
             z == Last(cache)
             w == <<c>> \o q
             a == <<c>> \o cache
  <2>2. /\ full => /\ z \in ToSet(cache) /\ q \in Seq(Conns) /\ IsInjective(q)
                   /\ Len(q) + 1 = conf.keep /\ Len(q) \in Nat
                   /\ ToSet(q) = ToSet(cache) \ {z}
                   /\ w \in Seq(Conns) /\ IsInjective(w) /\ Len(w) <= conf.keep
                   /\ ToSet(w) = (ToSet(cache) \ {z}) \cup {c}
        /\ ~full => /\ a \in Seq(Conns) /\ IsInjective(a) /\ Len(a) <= conf.keep
                    /\ ToSet(a) = ToSet(cache) \cup {c}
    BY <1>2, <1>5, <2>1, KeptFull
  <2>3. \/ full /\ cache' = w /\ conn' = Closed({z})
        \/ ~full /\ cache' = a /\ conn' = conn
        \/ full /\ cache' = q /\ conn' = Closed({c} \cup {z})
        \/ ~full /\ cache' = cache /\ conn' = Closed({c})
    BY <1>5
  <2> HIDE DEF c, full, q, z, w, a, AtRest
  <2>4. CASE full /\ cache' = w /\ conn' = Closed({z})
    <3>1. Released(r, {z})
      BY <1>2, <2>1, <2>2, <2>4 DEF Released, c
    <3> QED
      BY <1>1, <3>1
  <2>5. CASE ~full /\ cache' = a /\ conn' = conn
    <3>1. Released(r, {})
      BY <1>2, <1>3, <2>1, <2>2, <2>5 DEF Released, c
    <3> QED
      BY <1>1, <3>1
  <2>6. CASE full /\ cache' = q /\ conn' = Closed({c} \cup {z})
    <3>1. Len(q) <= conf.keep
      BY <2>2, <2>6
    <3>2. Released(r, {c} \cup {z})
      BY <1>2, <2>1, <2>2, <2>6, <3>1 DEF Released, c
    <3> QED
      BY <1>1, <3>2
  <2>7. CASE ~full /\ cache' = cache /\ conn' = Closed({c})
    <3>1. Released(r, {c})
      BY <1>2, <2>1, <2>7 DEF Released, c
    <3> QED
      BY <1>1, <3>1
  <2> QED
    BY <2>3, <2>4, <2>5, <2>6, <2>7
<1> QED
  BY <1>1, <1>4, <1>5

(* Without a peer there is no connection.                                  *)
LEMMA NoPeerGives ==
    ASSUME IInv, NEW r \in Requests, NEW v, NoPeer(r, v), u[r].addr = Nil
    PROVE  /\ u' = [u EXCEPT ![r] = [v EXCEPT !.c = Nil]] /\ conns' = conns /\ Released(r, {Nil})
<1>1. u[r].c = Nil
  BY Held DEF Alone
<1>2. /\ cache \in Seq(Conns) /\ IsInjective(cache) /\ Len(cache) <= conf.keep
      /\ (exiting => cache = <<>>) /\ Nil \notin Conns
  BY Surroundings DEF IInv, Owned, Rested
<1>3. Nil \notin ToSet(cache)
  BY <1>2 DEF ToSet
<1> QED
  BY <1>1, <1>2, <1>3 DEF NoPeer, Released

(* ngx_http_upstream_free_round_robin_peer takes a try.                    *)
LEMMA TryTaken ==
    ASSUME IInv, NEW r \in Requests, u[r].addr # Nil
    PROVE  /\ FreeTries(r) \in Nat /\ FreeTries(r) + 1 <= u[r].tries /\ u[r].tries \in Nat
           /\ u[r].fresh \in Nat /\ TriesOf(conf) \in Nat /\ u[r].fresh <= TriesOf(conf)
           /\ u[r].fresh + FreeTries(r) <= TriesOf(conf)
           /\ u[r].cached => u[r].fresh + FreeTries(r) + 1 <= TriesOf(conf)
<1> DEFINE t == u[r].tries
           f == u[r].fresh
           m == TriesOf(conf)
           n == FreeTries(r)
<1>1. /\ t \in Nat /\ f \in Nat /\ m \in Nat /\ t >= 1 /\ f <= m
      /\ f + t <= m + (IF u[r].cached THEN 0 ELSE 1)
  <2>1. u[r] \in UpstreamRecords /\ Attempts(conf, u[r]) /\ conf \in Scenarios
    BY Held
  <2>2. t \in Nat /\ f \in Nat /\ m \in Nat
    BY <2>1, TriesCount DEF UpstreamRecords
  <2> QED
    BY <2>1, <2>2 DEF Attempts
<1>2. n = 0 \/ n = t - 1
  <2>1. Max({0, t - 1}) = IF 0 >= t - 1 THEN 0 ELSE t - 1
    <3> DEFINE d == t - 1
    <3>1. d \in Int /\ 0 \in Int
      BY <1>1
    <3> HIDE DEF d, t
    <3>2. Max({0, d}) = IF 0 >= d THEN 0 ELSE d
      BY <3>1, SmallerOf
    <3> QED
      BY <3>2 DEF d
  <2> QED
    BY <1>1, <2>1 DEF FreeTries
<1> HIDE DEF t, f, m, n
<1>3. n \in Nat /\ n + 1 <= t
  BY <1>1, <1>2
<1>4. f + n <= m
  BY <1>1, <1>3
<1>5. u[r].cached => f + n + 1 <= m
  BY <1>1, <1>3
<1> QED
  BY <1>1, <1>3, <1>4, <1>5 DEF t, f, m, n

(* A request lets go of its peer and of its connection.                    *)
LEMMA LetGo ==
    ASSUME IInv, NEW r \in Requests, UNCHANGED <<conf, exiting>>, NEW w \in UpstreamRecords,
           IF u[r].addr # Nil THEN \E failed : FreePeer(r, failed, w) ELSE NoPeer(r, w),
           run = None \/ run[2] = r, w.addr = u[r].addr,
           \A y \in UpstreamRecords :
             /\ y.st = w.st /\ y.sent = w.sent /\ y.received = w.received
             /\ y.headersent = w.headersent /\ y.keepalive = w.keepalive
             /\ y.rh = w.rh /\ y.out = w.out /\ y.got = w.got /\ y.rc = w.rc
             /\ y.tries = w.tries /\ y.fresh = w.fresh /\ y.heads = w.heads
             /\ y.c = Nil /\ y.addr = Nil
             => /\ Alone(r, y) /\ Attempts(conf, y) /\ (y.st = "active" => run' # None)
                /\ \/ run' = None
                   \/ \E f, arg : run' = <<f, r, arg>>
                                  /\ \A k : CanRun(conf, f, r, y, k, arg)
    PROVE  IInv'
<1> DEFINE a == Nil
           y == [w EXCEPT !.addr = a, !.c = a]
           Same(z) ==
             /\ z.st = w.st /\ z.sent = w.sent /\ z.received = w.received
             /\ z.headersent = w.headersent /\ z.keepalive = w.keepalive
             /\ z.rh = w.rh /\ z.out = w.out /\ z.got = w.got /\ z.rc = w.rc
             /\ z.tries = w.tries /\ z.fresh = w.fresh /\ z.heads = w.heads
             /\ z.c = Nil /\ z.addr = Nil
<1>1. a \in Addrs \cup {Nil} /\ a \in Conns \cup {Nil} /\ a = Nil
  OBVIOUS
<1>2. y \in UpstreamRecords /\ Same(y)
  <2> HIDE DEF a
  <2> QED
    BY <1>1 DEF UpstreamRecords
<1> HIDE DEF y
<1>3. /\ Alone(r, y) /\ Attempts(conf, y) /\ (y.st = "active" => run' # None)
      /\ \/ run' = None
         \/ \E f, arg : run' = <<f, r, arg>> /\ CanRun(conf, f, r, y, conn'[y.c], arg)
  <2> HIDE DEF Alone, Attempts, CanRun
  <2> QED
    BY <1>2
<1>4. y.c = Nil /\ y.addr = Nil
  BY <1>2
<1> HIDE DEF Same
<1>5. /\ u' = [u EXCEPT ![r] = y]
      /\ conns' = IF u[r].addr # Nil THEN [conns EXCEPT ![u[r].addr] = @ - 1] ELSE conns
      /\ \E D : Released(r, D)
  <2>1. CASE u[r].addr # Nil
    <3>1. PICK failed : FreePeer(r, failed, w)
      BY <2>1
    <3>2. /\ u' = [u EXCEPT ![r] = [w EXCEPT !.addr = Nil, !.c = Nil]]
          /\ conns' = [conns EXCEPT ![u[r].addr] = @ - 1]
          /\ \E D : Released(r, D)
      BY <3>1, FreePeerGives
    <3> QED
      BY <2>1, <3>2 DEF y
  <2>2. CASE u[r].addr = Nil
    <3>1. NoPeer(r, w)
      BY <2>2
    <3>2. /\ u' = [u EXCEPT ![r] = [w EXCEPT !.c = Nil]] /\ conns' = conns
          /\ Released(r, {Nil})
      BY <2>2, <3>1, NoPeerGives
    <3>3. [w EXCEPT !.c = Nil] = [w EXCEPT !.addr = Nil, !.c = Nil]
      <4>1. w = [w EXCEPT !.addr = Nil]
        BY <2>2 DEF UpstreamRecords
      <4> QED
        BY <4>1
    <3> QED
      BY <2>2, <3>2, <3>3 DEF y
  <2> QED
    BY <2>1, <2>2
<1>6. PICK D : Released(r, D)
  BY <1>5
<1>7. /\ conn' = Closed(D) /\ D \subseteq ToSet(cache) \cup {u[r].c}
      /\ cache' \in Seq(Conns) /\ IsInjective(cache') /\ Len(cache') <= conf.keep
      /\ ToSet(cache') = (ToSet(cache) \cup {u[r].c}) \ (D \cup {Nil})
      /\ u[r].c \in ToSet(cache') => AtRest(conn[u[r].c])
      /\ exiting => cache' = <<>>
      /\ UNCHANGED <<conf, exiting>>
  BY <1>6 DEF Released
<1> HIDE DEF IInv, Alone, Attempts, CanRun, Closed, AtRest
<1> QED
  BY <1>2, <1>3, <1>4, <1>5, <1>7, GivenBack

LEMMA FinalizeStep ==
    ASSUME IInv, NEW r \in Requests, Finalize(r)
    PROVE  IInv'
<1> DEFINE x == u[r]
           d == "done"
           f == FALSE
           o == None
           g == Arg
           n == IF x.addr # Nil THEN FreeTries(r) ELSE x.tries
           w == [x EXCEPT !.st = d, !.wt = f, !.rt = f, !.out = o, !.rc = g, !.tries = n]
<1>1. /\ IF x.addr # Nil THEN FreePeer(r, FALSE, w) ELSE NoPeer(r, w)
      /\ run' = None /\ UNCHANGED <<conf, exiting>> /\ Running("finalize", r)
  BY DEF Finalize, Return
<1>2. /\ x \in UpstreamRecords /\ Alone(r, x) /\ Attempts(conf, x) /\ conf \in Scenarios
  BY Held
<1>3. /\ run[2] = r /\ g \in Outcomes /\ (g = "0" => Complete(x))
  <2>1. run[2] = r /\ CanRun(conf, "finalize", r, x, conn[x.c], run[3])
    BY <1>1, Called
  <2>2. "finalize" # "connect" /\ "finalize" # "send" /\ "finalize" # "ssl" /\ "finalize" # "next"
        /\ "finalize" # "response" /\ "finalize" # "pass"
    OBVIOUS
  <2> QED
    BY <2>1, <2>2 DEF CanRun, Arg
<1>4. n \in Nat /\ x.fresh + n <= TriesOf(conf) /\ TriesOf(conf) \in Nat
  <2>1. CASE x.addr # Nil
    BY <2>1, TryTaken
  <2>2. CASE x.addr = Nil
    BY <1>2, <2>2, TriesCount DEF Attempts, UpstreamRecords
  <2> QED
    BY <2>1, <2>2
<1>5. /\ d \in {"new", "resolving", "active", "done"} /\ f \in BOOLEAN /\ o \in Seq(Parts)
      /\ d = "done" /\ o = <<>>
  BY DEF None
<1> HIDE DEF x, d, f, o, g, n
<1>6. /\ w \in UpstreamRecords
      /\ w.st = d /\ w.sent = x.sent /\ w.received = x.received
      /\ w.headersent = x.headersent /\ w.keepalive = x.keepalive
      /\ w.rh = x.rh /\ w.out = o /\ w.got = x.got /\ w.rc = g
      /\ w.tries = n /\ w.fresh = x.fresh /\ w.heads = x.heads /\ w.addr = x.addr
  BY <1>2, <1>3, <1>4, <1>5 DEF UpstreamRecords
<1> HIDE DEF w
<1>7. ASSUME NEW y \in UpstreamRecords,
             y.st = w.st /\ y.sent = w.sent /\ y.received = w.received
             /\ y.headersent = w.headersent /\ y.keepalive = w.keepalive
             /\ y.rh = w.rh /\ y.out = w.out /\ y.got = w.got /\ y.rc = w.rc
             /\ y.tries = w.tries /\ y.fresh = w.fresh /\ y.heads = w.heads
             /\ y.c = Nil /\ y.addr = Nil
      PROVE  Alone(r, y) /\ Attempts(conf, y) /\ y.st # "active"
  <2>1. /\ y.st = "done" /\ y.sent = x.sent /\ y.received = x.received
        /\ y.headersent = x.headersent /\ y.keepalive = x.keepalive
        /\ y.rh = x.rh /\ y.out = <<>> /\ y.got = x.got /\ y.rc = g
        /\ y.tries = n /\ y.fresh = x.fresh /\ y.heads = x.heads
    BY <1>5, <1>6, <1>7
  <2>2. Alone(r, y)
    BY <1>2, <1>3, <1>7, <2>1 DEF Alone, Complete
  <2>3. Attempts(conf, y)
    BY <1>2, <1>4, <1>7, <2>1 DEF Attempts
  <2> QED
    BY <2>1, <2>2, <2>3
<1>8. IF u[r].addr # Nil THEN \E failed : FreePeer(r, failed, w) ELSE NoPeer(r, w)
  BY <1>1 DEF x
<1>9. UNCHANGED <<conf, exiting>> /\ w.addr = u[r].addr
  BY <1>1, <1>6 DEF x
<1> HIDE DEF IInv, Alone, Attempts, CanRun, FreePeer, NoPeer
<1> QED
  BY <1>1, <1>3, <1>6, <1>7, <1>8, <1>9, LetGo

(* A request is given to another server only while nothing stands against  *)
(* it: the header of a response has not gone to the client.                *)
LEMMA UpstreamNextStep ==
    ASSUME Orderly, IInv, NEW r \in Requests, UpstreamNext(r)
    PROVE  IInv'
<1> DEFINE x == u[r]
           f == FALSE
           g == Arg
           e == IF x.cached /\ g = "error" THEN 1 ELSE 0
           m == IF x.addr # Nil THEN FreeTries(r) ELSE x.tries
           n == m + e
           w == [x EXCEPT !.tries = n, !.wt = f, !.rt = f]
<1>1. /\ IF x.addr # Nil THEN FreePeer(r, g # "http_404", w) ELSE NoPeer(r, w)
      /\ \/ run' = <<"finalize", r, "499">>
         \/ run' = <<"finalize", r, Status(g)>>
         \/ n # 0 /\ MayRetry(r, g) /\ run' = <<"connect", r, Nil>>
      /\ UNCHANGED <<conf, exiting>> /\ Running("next", r)
  BY DEF UpstreamNext, Call, NextTries
<1>2. /\ x \in UpstreamRecords /\ Alone(r, x) /\ Attempts(conf, x) /\ conf \in Scenarios
  BY Held
<1>3. run[2] = r /\ CanGoOn(conf, x, g)
  <2>1. run[2] = r /\ CanRun(conf, "next", r, x, conn[x.c], run[3])
    BY <1>1, Called
  <2>2. "next" # "connect" /\ "next" # "send" /\ "next" # "ssl" /\ "next" # "finalize"
        /\ "next" # "response" /\ "next" # "pass"
    OBVIOUS
  <2> QED
    BY <2>1, <2>2 DEF CanRun, Arg
<1>4. n \in Nat /\ x.fresh + n <= TriesOf(conf) /\ TriesOf(conf) \in Nat
  <2>1. CASE x.addr # Nil
    <3> DEFINE a == x.fresh
               b == TriesOf(conf)
    <3>1. /\ m \in Nat /\ a \in Nat /\ b \in Nat /\ a + m <= b
          /\ x.cached => a + m + 1 <= b
      BY <2>1, TryTaken
    <3>2. e \in Nat /\ (e = 0 \/ (e = 1 /\ x.cached))
      OBVIOUS
    <3> HIDE DEF a, b, m, e
    <3>3. n \in Nat /\ a + n <= b
      BY <3>1, <3>2
    <3> QED
      BY <3>1, <3>3 DEF a, b
  <2>2. CASE x.addr = Nil
    <3>1. g = "nolive"
      BY <1>3, <2>2 DEF CanGoOn
    <3>2. e = 0 /\ m = x.tries
      BY <2>2, <3>1
    <3>3. x.tries \in Nat /\ x.fresh + x.tries <= TriesOf(conf) /\ TriesOf(conf) \in Nat
      BY <1>2, <2>2, TriesCount DEF Attempts, UpstreamRecords
    <3> HIDE DEF e, m
    <3>4. n = x.tries
      BY <3>2, <3>3
    <3> QED
      BY <3>3, <3>4
  <2> QED
    BY <2>1, <2>2
<1>5. f \in BOOLEAN /\ x.st = "active"
  BY <1>3 DEF CanGoOn
<1>6. Status(g) \in Outcomes /\ Status(g) # "0" /\ "499" \in Outcomes /\ "499" # "0"
  BY DEF Status, Outcomes
<1>7. ASSUME MayRetry(r, g)
      PROVE  ~x.headersent /\ (Guarded(conf) => ~x.sent)
  <2>1. g \in conf.next /\ ~(x.sent /\ conf.post /\ ~conf.nonid) /\ ~(x.sent /\ conf.unbuffered)
    BY <1>7 DEF MayRetry, NonIdempotent
  <2>2. conf.early => g # "timeout"
    BY <1>2, <2>1 DEF Orderly
  <2> QED
    BY <1>3, <2>1, <2>2 DEF CanGoOn, Guarded
<1> HIDE DEF x, f, g, n
<1>8. /\ w \in UpstreamRecords
      /\ w.st = x.st /\ w.sent = x.sent /\ w.received = x.received
      /\ w.headersent = x.headersent /\ w.keepalive = x.keepalive
      /\ w.rh = x.rh /\ w.out = x.out /\ w.got = x.got /\ w.rc = x.rc
      /\ w.tries = n /\ w.fresh = x.fresh /\ w.heads = x.heads /\ w.addr = x.addr
  BY <1>2, <1>4, <1>5 DEF UpstreamRecords
<1> HIDE DEF w
<1>9. ASSUME NEW y \in UpstreamRecords,
             y.st = w.st /\ y.sent = w.sent /\ y.received = w.received
             /\ y.headersent = w.headersent /\ y.keepalive = w.keepalive
             /\ y.rh = w.rh /\ y.out = w.out /\ y.got = w.got /\ y.rc = w.rc
             /\ y.tries = w.tries /\ y.fresh = w.fresh /\ y.heads = w.heads
             /\ y.c = Nil /\ y.addr = Nil
      PROVE  /\ Alone(r, y) /\ Attempts(conf, y)
             /\ \E h, arg : run' = <<h, r, arg>> /\ \A k : CanRun(conf, h, r, y, k, arg)
  <2>1. /\ y.st = x.st /\ y.sent = x.sent /\ y.received = x.received
        /\ y.headersent = x.headersent /\ y.keepalive = x.keepalive
        /\ y.rh = x.rh /\ y.out = x.out /\ y.got = x.got /\ y.rc = x.rc
        /\ y.tries = n /\ y.fresh = x.fresh /\ y.heads = x.heads
    BY <1>8, <1>9
  <2>2. Alone(r, y)
    BY <1>2, <1>5, <1>9, <2>1 DEF Alone, Complete
  <2>3. Attempts(conf, y)
    BY <1>2, <1>4, <1>9, <2>1 DEF Attempts
  <2>4. ASSUME NEW s \in Outcomes, s # "0" PROVE \A k : CanRun(conf, "finalize", r, y, k, s)
    BY <1>5, <2>1, <2>4 DEF CanRun
  <2>5. n # 0 /\ MayRetry(r, g) => \A k : CanRun(conf, "connect", r, y, k, Nil)
    BY <1>4, <1>5, <1>7, <1>9, <2>1 DEF CanRun, CanConnect
  <2> HIDE DEF CanRun, MayRetry, Status
  <2> QED
    BY <1>1, <1>6, <2>2, <2>3, <2>4, <2>5
<1>10. IF u[r].addr # Nil THEN \E failed : FreePeer(r, failed, w) ELSE NoPeer(r, w)
  BY <1>1 DEF x
<1>11. UNCHANGED <<conf, exiting>> /\ w.addr = u[r].addr
  BY <1>1, <1>8 DEF x
<1>12. run' # None
  BY <1>1 DEF None
<1> HIDE DEF IInv, Alone, Attempts, CanRun, FreePeer, NoPeer
<1> QED
  BY <1>3, <1>8, <1>9, <1>10, <1>11, <1>12, LetGo

-----------------------------------------------------------------------------
(***************************************************************************)
(* Connecting                                                              *)
(***************************************************************************)
(* A request comes to a server, with a connection that nobody else has, or *)
(* without one.                                                            *)
LEMMA Attached ==
    ASSUME IInv, NEW r \in Requests, NEW y \in UpstreamRecords, NEW b \in Addrs,
           u[r].addr = Nil, y.addr = b, u' = [u EXCEPT ![r] = y],
           conns' = [conns EXCEPT ![b] = @ + 1], UNCHANGED <<conf, exiting>>,
           conn' \in [Conns -> ConnRecords],
           \A c \in Conns \ {y.c} : conn'[c] = conn[c],
           y.c # Nil => /\ Answer(conf, conn'[y.c]) /\ conn'[y.c].st # "free"
                        /\ conn[y.c].st = "free" \/ y.c \in ToSet(cache)
                        /\ Linked(conf, r, y, conn'[y.c]),
           cache' \in Seq(Conns), IsInjective(cache'), Len(cache') <= conf.keep,
           ToSet(cache') = ToSet(cache) \ {y.c}, exiting => cache' = <<>>,
           run = None \/ run[2] = r, ~y.headersent,
           \/ run' = None
           \/ \E f, arg : run' = <<f, r, arg>> /\ CanRun(conf, f, r, y, conn'[y.c], arg),
           y.c = Nil => run' # None, Alone(r, y), Attempts(conf, y)
    PROVE  IInv'
<1>1. /\ Records /\ Answers /\ Owned /\ Rested /\ u \in [Requests -> UpstreamRecords]
      /\ u[r].c = Nil
  BY Held DEF IInv, Records, Alone
<1>2. \A q \in Requests : u[q].c \in Conns \cup {Nil}
  BY <1>1 DEF UpstreamRecords
<1>3. y.c \in Conns \cup {Nil} /\ ToSet(cache) \subseteq Conns /\ Nil \notin Conns
  <2>1. cache \in Seq(Conns)
    BY <1>1 DEF Owned
  <2> QED
    BY <2>1, Surroundings DEF ToSet, UpstreamRecords
<1>4. y.c # Nil => \A q \in Requests : u[q].c # y.c
  BY <1>1, <1>3 DEF Owned
<1>5. \A q \in Requests \ {r} : u[q].c # Nil => conn'[u[q].c] = conn[u[q].c]
  BY <1>2, <1>4
<1>6. /\ Answers' /\ Requested' /\ Calls' /\ u' \in [Requests -> UpstreamRecords]
      /\ u'[r] = y /\ \A q \in Requests \ {r} : u'[q] = u[q]
  <2> HIDE DEF IInv, Answer, Alone, Attempts, CanRun, Linked
  <2>1. \A c \in Conns : Answer(conf, conn'[c])
    BY <1>1, <1>3 DEF Answers
  <2>2. conf' = conf
    OBVIOUS
  <2> QED
    BY <1>5, <2>1, <2>2, Step
<1>7. conns' \in [Addrs -> Int] /\ PeersReleased'
  BY <1>6, PeerComes
<1>8. Records'
  BY <1>1, <1>6, <1>7 DEF Records
<1>9. Owned'
  <2>1. ASSUME NEW p \in Requests, NEW q \in Requests, u'[p].c = u'[q].c, u'[p].c # Nil
        PROVE  p = q
    BY <1>1, <1>4, <1>6, <2>1 DEF Owned
  <2>2. ASSUME NEW q \in Requests PROVE u'[q].c \notin ToSet(cache')
    BY <1>1, <1>3, <1>6 DEF Owned
  <2>3. ASSUME NEW c \in Conns
        PROVE  conn'[c].st = "free" <=> c \notin ToSet(cache') /\ \A q \in Requests : u'[q].c # c
    <3>1. c # Nil
      BY <1>3
    <3>2. CASE c = y.c
      BY <1>6, <3>1, <3>2
    <3>3. CASE c # y.c
      <4>1. (\A q \in Requests : u'[q].c # c) <=> (\A q \in Requests : u[q].c # c)
        BY <1>1, <1>6, <3>1, <3>3
      <4>2. conn'[c].st = "free"
            <=> c \notin ToSet(cache) /\ \A q \in Requests : u[q].c # c
        BY <1>1, <3>3 DEF Owned
      <4> QED
        BY <3>3, <4>1, <4>2
    <3> QED
      BY <3>2, <3>3
  <2> QED
    BY <2>1, <2>2, <2>3 DEF Owned
<1>10. Rested'
  <2>1. ASSUME NEW c \in ToSet(cache') PROVE AtRest(conn'[c])
    <3>1. conn'[c] = conn[c] /\ c \in ToSet(cache)
      BY <1>3
    <3> QED
      BY <1>1, <3>1 DEF Rested
  <2> QED
    BY <2>1 DEF Rested
<1> QED
  BY <1>6, <1>7, <1>8, <1>9, <1>10 DEF IInv

(* A kept connection is taken from the cache.                              *)
LEMMA KeptTaken ==
    ASSUME IInv, NEW c
    PROVE  /\ Without(cache, c) \in Seq(Conns) /\ IsInjective(Without(cache, c))
           /\ ToSet(Without(cache, c)) = ToSet(cache) \ {c}
           /\ Len(Without(cache, c)) <= conf.keep
           /\ exiting => Without(cache, c) = <<>>
<1>1. /\ cache \in Seq(Conns) /\ IsInjective(cache) /\ Len(cache) <= conf.keep
      /\ conf.keep \in Nat /\ Len(cache) \in Nat /\ (exiting => cache = <<>>)
  BY Surroundings DEF IInv, Owned, Records, Rested
<1>2. /\ Without(cache, c) \in Seq(Conns) /\ IsInjective(Without(cache, c))
      /\ ToSet(Without(cache, c)) = ToSet(cache) \ {c}
  BY <1>1, QueueWithout
<1>3. CASE c \in ToSet(cache)
  <2>1. Len(Without(cache, c)) = Len(cache) - 1
    BY <1>1, <1>3, QueueCloses
  <2>2. cache # <<>>
    BY <1>3 DEF ToSet
  <2> QED
    BY <1>1, <1>2, <2>1, <2>2
<1>4. CASE c \notin ToSet(cache)
  BY <1>1, <1>2, <1>4 DEF Without
<1> QED
  BY <1>3, <1>4

(* What a request is when it may connect.                                  *)
LEMMA Connects ==
    ASSUME IInv, NEW r, Running("connect", r)
    PROVE  LET x == u[r]
           IN  /\ r \in Requests /\ run[2] = r /\ x \in UpstreamRecords /\ Alone(r, x)
               /\ conf \in Scenarios
               /\ x.st = "active" /\ x.c = Nil /\ x.addr = Nil /\ ~x.headersent
               /\ x.tries >= 1 /\ x.tries \in Nat /\ (Guarded(conf) => ~x.sent /\ x.heads = 0)
               /\ x.fresh \in Nat /\ TriesOf(conf) \in Nat
               /\ x.fresh + x.tries <= TriesOf(conf) /\ x.fresh + 1 <= TriesOf(conf)
<1> DEFINE x == u[r]
<1>1. r \in Requests /\ run[2] = r /\ CanRun(conf, "connect", r, x, conn[x.c], run[3])
  BY Called
<1>2. CanConnect(conf, x)
  <2>1. "connect" # "send" /\ "connect" # "ssl" /\ "connect" # "next" /\ "connect" # "response"
        /\ "connect" # "pass" /\ "connect" # "finalize"
    OBVIOUS
  <2> QED
    BY <1>1, <2>1 DEF CanRun
<1>3. x \in UpstreamRecords /\ Alone(r, x) /\ Attempts(conf, x) /\ conf \in Scenarios
  BY <1>1, Held
<1> DEFINE f == x.fresh
           t == x.tries
           m == TriesOf(conf)
<1>4. f \in Nat /\ t \in Nat /\ m \in Nat /\ t >= 1 /\ f + t <= m
  <2>1. f \in Nat /\ t \in Nat /\ m \in Nat
    BY <1>3, TriesCount DEF UpstreamRecords
  <2> QED
    BY <1>2, <1>3, <2>1 DEF CanConnect, Attempts
<1> HIDE DEF f, t, m
<1>5. f + 1 <= m
  BY ONLY <1>4
<1>6. Guarded(conf) => ~x.sent /\ x.heads = 0
  BY <1>2, <1>3 DEF CanConnect, Attempts
<1> HIDE DEF x
<1>7. /\ x.fresh \in Nat /\ x.tries \in Nat /\ TriesOf(conf) \in Nat /\ x.tries >= 1
      /\ x.fresh + x.tries <= TriesOf(conf) /\ x.fresh + 1 <= TriesOf(conf)
  BY <1>4, <1>5 DEF f, t, m
<1> QED
  BY <1>1, <1>2, <1>3, <1>6, <1>7 DEF CanConnect, x

(* What ngx_http_upstream_reinit leaves of an earlier try.                 *)
LEMMA ConnectedIs ==
    ASSUME IInv, NEW r, Running("connect", r), NEW a \in Addrs, NEW c \in Conns,
           NEW cached \in BOOLEAN, NEW y, y = Connected(r, a, c, cached)
    PROVE  /\ y \in UpstreamRecords /\ y.addr = a /\ y.c = c
           /\ y.st = "active" /\ ~y.sent /\ ~y.bodysent /\ ~y.received /\ ~y.headersent
           /\ y.wh = "send" /\ Alone(r, y) /\ Attempts(conf, y) /\ y.c # Nil
<1> DEFINE x == u[r]
           z == Reinit(r)
           e == FALSE
           h == "header"
           s == "send"
           t == IF Single THEN {} ELSE x.tried \cup {a}
           m == x.n + 1
           f == IF cached THEN x.fresh ELSE x.fresh + 1
           i == TriesOf(conf)
<1>1. /\ r \in Requests /\ x \in UpstreamRecords /\ Alone(r, x) /\ conf \in Scenarios
      /\ x.st = "active" /\ ~x.headersent
      /\ x.tries >= 1 /\ x.tries \in Nat /\ (Guarded(conf) => x.heads = 0)
      /\ x.fresh \in Nat /\ i \in Nat
      /\ x.fresh + x.tries <= i /\ x.fresh + 1 <= i
  BY Connects
<1>2. /\ z \in UpstreamRecords /\ ~z.keepalive
      /\ z.st = x.st /\ z.tried = x.tried /\ z.tries = x.tries /\ z.n = x.n
      /\ z.fresh = x.fresh /\ z.heads = x.heads
      /\ z.headersent = x.headersent /\ z.got = x.got /\ z.out = x.out /\ z.rc = x.rc
  <2> DEFINE w == [x EXCEPT !.keepalive = e]
  <2>1. e \in BOOLEAN /\ ~e
    OBVIOUS
  <2>2. z = (IF x.sent \/ x.received THEN w ELSE x)
    BY DEF Reinit
  <2> HIDE DEF x, z, e
  <2>3. /\ w \in UpstreamRecords /\ ~w.keepalive
        /\ w.st = x.st /\ w.tried = x.tried /\ w.tries = x.tries /\ w.n = x.n
        /\ w.fresh = x.fresh /\ w.heads = x.heads
        /\ w.headersent = x.headersent /\ w.got = x.got /\ w.out = x.out /\ w.rc = x.rc
    BY <1>1, <2>1 DEF UpstreamRecords
  <2> HIDE DEF w
  <2>4. ~x.received => ~x.keepalive
    BY <1>1 DEF Alone
  <2> QED
    BY <1>1, <2>2, <2>3, <2>4
<1>3. /\ e \in BOOLEAN /\ ~e /\ h \in {"header", "pass", "upgraded"} /\ h = "header"
      /\ s \in {"send", "dummy", "upgraded"} /\ s = "send"
      /\ t \in SUBSET Addrs /\ m \in Nat
      /\ a \in Addrs \cup {Nil} /\ c \in Conns \cup {Nil} /\ a # Nil /\ c # Nil
  <2>1. x.tried \in SUBSET Addrs /\ x.n \in Nat
    BY <1>1 DEF UpstreamRecords
  <2> HIDE DEF x
  <2> QED
    BY <2>1, Surroundings
<1>4. f \in Nat /\ f <= i /\ f + x.tries <= i + (IF cached THEN 0 ELSE 1)
  <2> DEFINE p == x.fresh
             q == x.tries
  <2>1. p \in Nat /\ q \in Nat /\ i \in Nat /\ p + q <= i /\ p + 1 <= i
    BY <1>1
  <2>2. f = p \/ (f = p + 1 /\ ~cached)
    OBVIOUS
  <2> HIDE DEF p, q, i, f
  <2>3. f \in Nat /\ f <= i
    BY ONLY <2>1, <2>2
  <2>4. f = p => f + q <= i + (IF cached THEN 0 ELSE 1)
    BY ONLY <2>1
  <2>5. f = p + 1 /\ ~cached => f + q <= i + (IF cached THEN 0 ELSE 1)
    BY ONLY <2>1
  <2> QED
    BY <2>2, <2>3, <2>4, <2>5 DEF q
<1>5. y = [z EXCEPT !.addr = a, !.c = c, !.cached = cached, !.tried = t,
                    !.sent = e, !.bodysent = e, !.blocked = e, !.received = e,
                    !.rh = h, !.wh = s, !.wt = e, !.rt = e, !.n = m, !.fresh = f]
  BY <1>2 DEF Connected
<1> HIDE DEF x, z, e, h, s, t, m, f, i
<1>6. /\ y \in UpstreamRecords /\ y.addr = a /\ y.c = c /\ (y.cached <=> cached)
      /\ (y.sent <=> e) /\ (y.bodysent <=> e) /\ (y.received <=> e) /\ y.rh = h /\ y.wh = s
      /\ y.fresh = f
      /\ y.st = z.st /\ y.tries = z.tries /\ y.heads = z.heads /\ y.keepalive = z.keepalive
      /\ y.headersent = z.headersent /\ y.got = z.got /\ y.out = z.out /\ y.rc = z.rc
  <2> DEFINE v == [z EXCEPT !.addr = a, !.c = c, !.cached = cached, !.tried = t,
                            !.sent = e, !.bodysent = e, !.blocked = e]
             w == [v EXCEPT !.received = e, !.rh = h, !.wh = s, !.wt = e, !.rt = e,
                            !.n = m, !.fresh = f]
  <2>1. y = w
    BY ONLY <1>5
  <2>2. /\ v \in UpstreamRecords /\ v.addr = a /\ v.c = c /\ (v.cached <=> cached)
        /\ (v.sent <=> e) /\ (v.bodysent <=> e)
        /\ v.st = z.st /\ v.tries = z.tries /\ v.heads = z.heads /\ v.keepalive = z.keepalive
        /\ v.headersent = z.headersent /\ v.got = z.got /\ v.out = z.out /\ v.rc = z.rc
    BY <1>2, <1>3 DEF UpstreamRecords
  <2> HIDE DEF v
  <2>3. /\ w \in UpstreamRecords /\ w.addr = v.addr /\ w.c = v.c /\ (w.cached <=> v.cached)
        /\ (w.sent <=> v.sent) /\ (w.bodysent <=> v.bodysent) /\ (w.received <=> e)
        /\ w.rh = h /\ w.wh = s /\ w.fresh = f
        /\ w.st = v.st /\ w.tries = v.tries /\ w.heads = v.heads /\ w.keepalive = v.keepalive
        /\ w.headersent = v.headersent /\ w.got = v.got /\ w.out = v.out /\ w.rc = v.rc
    <3>1. v \in UpstreamRecords
      BY <2>2
    <3> QED
      BY ONLY <1>3, <1>4, <3>1 DEF UpstreamRecords
  <2> HIDE DEF w
  <2> QED
    BY <2>1, <2>2, <2>3
<1>7. Alone(r, y)
  BY <1>1, <1>2, <1>3, <1>6 DEF Alone, Complete
<1>8. Attempts(conf, y)
  BY <1>1, <1>2, <1>3, <1>4, <1>6 DEF Attempts, i
<1> QED
  BY <1>1, <1>2, <1>3, <1>6, <1>7, <1>8

(* A request starts on a connection that carries nothing.                  *)
LEMMA StartsClean ==
    ASSUME NEW s, NEW r, NEW y, NEW k, Alone(r, y), ~y.sent, ~y.bodysent, ~y.received,
           ~y.headersent, k.inbox = <<>>, k.left = 0, k.resp = "none" => k.parts = 0,
           y.st = "active", y.c # Nil, y.wh = "send"
    PROVE  Linked(s, r, y, k) /\ CanRun(s, "send", r, y, k, Nil)
  BY DEF Alone, Linked, CanRun, CanSend

LEMMA TakesKept ==
    ASSUME IInv, NEW r \in Requests, Running("connect", r), NEW a \in Addrs, Kept(a) # {},
           ConnectPeer(r, a), UNCHANGED <<conf, exiting>>
    PROVE  IInv'
<1> DEFINE c == cache[Min(Kept(a))]
           b == TRUE
           y == Connected(r, a, c, b)
           k == conn[c]
           m == k.uses + 1
           l == [k EXCEPT !.uses = m]
<1>1. /\ cache' = Without(cache, c) /\ conn' = [conn EXCEPT ![c].uses = @ + 1]
      /\ u' = [u EXCEPT ![r] = y] /\ run' = <<"send", r, Nil>>
      /\ conns' = [conns EXCEPT ![a] = @ + 1]
  BY DEF ConnectPeer, Call
<1>2. c \in ToSet(cache) /\ c \in Conns
  <2>1. cache \in Seq(Conns)
    BY DEF IInv, Owned
  <2>2. Kept(a) \subseteq Nat /\ Kept(a) \subseteq DOMAIN cache
    BY <2>1 DEF Kept
  <2>3. Min(Kept(a)) \in DOMAIN cache
    BY <2>2, LeastOf
  <2> QED
    BY <2>1, <2>3 DEF ToSet
<1>3. /\ k \in ConnRecords /\ AtRest(k) /\ Answer(conf, k) /\ k.st # "free"
      /\ conn \in [Conns -> ConnRecords]
  BY <1>2 DEF IInv, Records, Rested, Answers, Owned
<1>4. /\ y \in UpstreamRecords /\ y.addr = a /\ y.c = c /\ y.c # Nil
      /\ y.st = "active" /\ ~y.sent /\ ~y.bodysent /\ ~y.received /\ ~y.headersent
      /\ y.wh = "send" /\ Alone(r, y) /\ Attempts(conf, y)
  <2>1. b \in BOOLEAN /\ y = Connected(r, a, c, b)
    OBVIOUS
  <2> HIDE DEF c, y, b, IInv
  <2> QED
    BY <1>2, <2>1, ConnectedIs
<1>5. m \in Nat
  BY <1>3 DEF ConnRecords
<1>6. u[r].addr = Nil /\ run[2] = r
  BY Connects
<1> HIDE DEF m, y, k, c
<1>7. /\ l \in ConnRecords /\ l.st = k.st /\ l.inbox = k.inbox /\ l.left = k.left
      /\ l.resp = k.resp /\ l.parts = k.parts /\ l.cur = k.cur
  BY <1>3, <1>5 DEF ConnRecords
<1>8. conn' = [conn EXCEPT ![c] = l]
  BY <1>1 DEF k, m
<1> HIDE DEF l
<1>9. conn' \in [Conns -> ConnRecords] /\ conn'[c] = l /\ \A d \in Conns \ {c} : conn'[d] = conn[d]
  BY <1>2, <1>3, <1>7, <1>8
<1>10. Answer(conf, l)
  BY <1>3, <1>7 DEF Answer, Ordered
<1>11. Linked(conf, r, y, l) /\ CanRun(conf, "send", r, y, l, Nil)
  BY <1>3, <1>4, <1>7, StartsClean DEF AtRest
<1>12. /\ cache' \in Seq(Conns) /\ IsInjective(cache') /\ ToSet(cache') = ToSet(cache) \ {c}
       /\ Len(cache') <= conf.keep /\ (exiting => cache' = <<>>)
  BY <1>1, KeptTaken
<1>13. UNCHANGED <<conf, exiting>>
  OBVIOUS
<1> HIDE DEF IInv, Alone, Attempts, Linked, CanRun, Answer
<1> QED
  BY <1>1, <1>2, <1>3, <1>4, <1>6, <1>7, <1>9, <1>10, <1>11, <1>12, <1>13, Attached

(* A new connection is opened, without waiting for the server.             *)
LEMMA OpensNew ==
    ASSUME IInv, NEW r \in Requests, Running("connect", r), NEW a \in Addrs,
           FreeConns # {}, NEW c, c = Min(FreeConns),
           conn' = [conn EXCEPT ![c] = [FreeConn EXCEPT !.st = "opening", !.addr = a, !.uses = 1]],
           u' = [u EXCEPT ![r] = [Connected(r, a, c, FALSE) EXCEPT !.wt = TRUE]],
           run' = None, conns' = [conns EXCEPT ![a] = @ + 1],
           UNCHANGED <<conf, cache, exiting>>
    PROVE  IInv'
<1> DEFINE b == FALSE
           y == Connected(r, a, c, b)
           t == TRUE
           z == [y EXCEPT !.wt = t]
           l == [FreeConn EXCEPT !.st = "opening", !.addr = a, !.uses = 1]
<1>1. c \in Conns /\ conn[c].st = "free"
  <2>1. FreeConns \subseteq Nat
    BY Surroundings DEF FreeConns
  <2>2. Min(FreeConns) \in FreeConns
    BY <2>1, LeastOf
  <2> QED
    BY <2>2 DEF FreeConns
<1>2. /\ y \in UpstreamRecords /\ y.addr = a /\ y.c = c /\ y.c # Nil
      /\ y.st = "active" /\ ~y.sent /\ ~y.bodysent /\ ~y.received /\ ~y.headersent
      /\ y.wh = "send" /\ Alone(r, y) /\ Attempts(conf, y)
  <2>1. b \in BOOLEAN /\ y = Connected(r, a, c, b)
    OBVIOUS
  <2> HIDE DEF y, b, IInv
  <2> QED
    BY <1>1, <2>1, ConnectedIs
<1>3. u[r].addr = Nil /\ run[2] = r
  BY Connects
<1>4. t \in BOOLEAN
  OBVIOUS
<1> HIDE DEF y, t
<1>5. z \in UpstreamRecords /\ Alike(y, z) /\ z.wh = y.wh
  BY <1>2, <1>4 DEF UpstreamRecords, Alike
<1> HIDE DEF z
<1>6. /\ z.addr = a /\ z.c = c /\ z.c # Nil /\ z.st = "active" /\ ~z.sent /\ ~z.bodysent
      /\ ~z.received /\ ~z.headersent /\ z.wh = "send"
  BY <1>2, <1>5 DEF Alike
<1>7. Alone(r, z) /\ Attempts(conf, z)
  BY <1>2, <1>5, AlikeHolds
<1>8. /\ l \in ConnRecords /\ l.st = "opening" /\ l.inbox = <<>> /\ l.left = 0
      /\ l.resp = "none" /\ l.parts = 0
  <2> DEFINE k == FreeConn
             o == "opening"
             n == 1
  <2>1. /\ k \in ConnRecords /\ k.inbox = <<>> /\ k.left = 0 /\ k.resp = "none" /\ k.parts = 0
    <3>1. <<>> \in Seq(Parts)
      OBVIOUS
    <3> QED
      BY <3>1 DEF FreeConn, ConnRecords, None, Nil
  <2>2. /\ o \in {"free", "opening", "refused", "open"} /\ n \in Nat /\ o = "opening"
        /\ a \in Addrs \cup {Nil}
    OBVIOUS
  <2>3. l = [k EXCEPT !.st = o, !.addr = a, !.uses = n]
    OBVIOUS
  <2> HIDE DEF k, o, n, l
  <2> DEFINE q == [k EXCEPT !.st = o, !.addr = a, !.uses = n]
  <2>4. /\ q \in ConnRecords /\ q.st = o /\ q.inbox = k.inbox /\ q.left = k.left
        /\ q.resp = k.resp /\ q.parts = k.parts
    BY ONLY <2>1, <2>2 DEF ConnRecords
  <2> HIDE DEF q
  <2> QED
    BY <2>1, <2>2, <2>3, <2>4 DEF q
<1> HIDE DEF l
<1>9. Answer(conf, l) /\ l.st # "free"
  BY <1>8 DEF Answer
<1>10. Linked(conf, r, z, l)
  BY <1>6, <1>7, <1>8, StartsClean
<1>11. conn \in [Conns -> ConnRecords] /\ conn' = [conn EXCEPT ![c] = l]
  BY DEF IInv, Records, l
<1>12. conn' \in [Conns -> ConnRecords] /\ conn'[c] = l /\ \A d \in Conns \ {c} : conn'[d] = conn[d]
  BY <1>1, <1>8, <1>11
<1>13. /\ cache' \in Seq(Conns) /\ IsInjective(cache') /\ ToSet(cache') = ToSet(cache) \ {c}
       /\ Len(cache') <= conf.keep /\ (exiting => cache' = <<>>)
  BY <1>1 DEF IInv, Owned, Rested
<1>14. UNCHANGED <<conf, exiting>> /\ u' = [u EXCEPT ![r] = z]
  BY DEF z, y, t, b
<1> HIDE DEF IInv, Alone, Attempts, Linked, CanRun, Answer
<1> QED
  BY <1>1, <1>3, <1>5, <1>6, <1>7, <1>9, <1>10, <1>12, <1>13, <1>14, Attached

(* The server refuses at once, or there is no connection to be had.        *)
LEMMA NotConnected ==
    ASSUME IInv, NEW r \in Requests, Running("connect", r), NEW a \in Addrs,
           NEW f \in {u[r].fresh, u[r].fresh + 1}, NEW t \in SUBSET Addrs,
           u' = [u EXCEPT ![r].addr = a, ![r].c = Nil, ![r].cached = FALSE,
                          ![r].tried = t, ![r].fresh = f],
           run' = <<"next", r, "error">> \/ run' = <<"finalize", r, "500">>,
           conns' = [conns EXCEPT ![a] = @ + 1], UNCHANGED <<conf, conn, cache, exiting>>
    PROVE  IInv'
<1> DEFINE x == u[r]
           e == FALSE
           z == Nil
           y == [x EXCEPT !.addr = a, !.c = z, !.cached = e, !.tried = t, !.fresh = f]
           i == TriesOf(conf)
<1>1. /\ x \in UpstreamRecords /\ Alone(r, x) /\ conf \in Scenarios
      /\ x.st = "active" /\ ~x.headersent /\ x.addr = Nil
      /\ x.tries >= 1 /\ x.tries \in Nat /\ (Guarded(conf) => x.heads = 0 /\ ~x.sent)
      /\ x.fresh \in Nat /\ i \in Nat
      /\ x.fresh + x.tries <= i /\ x.fresh + 1 <= i /\ run[2] = r
  BY Connects
<1>2. f \in Nat /\ f <= i /\ f + x.tries <= i + 1
  <2> DEFINE p == x.fresh
             q == x.tries
  <2>1. p \in Nat /\ q \in Nat /\ i \in Nat /\ p + q <= i /\ p + 1 <= i /\ f \in {p, p + 1}
    BY <1>1
  <2> HIDE DEF p, q, i
  <2>2. f \in Nat /\ f <= i /\ f + q <= i + 1
    BY ONLY <2>1
  <2> QED
    BY <2>2 DEF q
<1>3. /\ e \in BOOLEAN /\ ~e /\ z \in Conns \cup {Nil} /\ z = Nil
      /\ a \in Addrs \cup {Nil} /\ a # Nil
  BY Surroundings
<1>4. u' = [u EXCEPT ![r] = y]
  BY Held
<1> HIDE DEF x, e, z, i
<1>5. /\ y \in UpstreamRecords /\ y.addr = a /\ y.c = z /\ (y.cached <=> e) /\ y.fresh = f
      /\ y.st = x.st /\ y.sent = x.sent /\ y.received = x.received
      /\ y.headersent = x.headersent /\ y.keepalive = x.keepalive
      /\ y.rh = x.rh /\ y.out = x.out /\ y.got = x.got /\ y.rc = x.rc
      /\ y.tries = x.tries /\ y.heads = x.heads
  BY <1>1, <1>2, <1>3 DEF UpstreamRecords
<1> HIDE DEF y
<1>6. Alone(r, y)
  BY <1>1, <1>3, <1>5 DEF Alone, Complete
<1>7. Attempts(conf, y)
  BY <1>1, <1>2, <1>3, <1>5 DEF Attempts, i
<1>8. run' # None /\ \E h, arg : run' = <<h, r, arg>> /\ CanRun(conf, h, r, y, conn'[y.c], arg)
  <2>1. CASE run' = <<"next", r, "error">>
    <3>1. CanRun(conf, "next", r, y, conn'[y.c], "error")
      BY <1>1, <1>3, <1>5 DEF CanRun, CanGoOn
    <3> HIDE DEF CanRun
    <3> QED
      BY <2>1, <3>1 DEF None
  <2>2. CASE run' = <<"finalize", r, "500">>
    <3>1. "500" # "0"
      OBVIOUS
    <3>2. CanRun(conf, "finalize", r, y, conn'[y.c], "500")
      BY <1>1, <1>5, <3>1 DEF CanRun, Outcomes
    <3> HIDE DEF CanRun
    <3> QED
      BY <2>2, <3>2 DEF None
  <2> QED
    BY <2>1, <2>2
<1>9. /\ cache \in Seq(Conns) /\ IsInjective(cache) /\ Len(cache) <= conf.keep
      /\ (exiting => cache = <<>>) /\ Nil \notin ToSet(cache) /\ conn \in [Conns -> ConnRecords]
  <2>1. /\ cache \in Seq(Conns) /\ IsInjective(cache) /\ Len(cache) <= conf.keep
        /\ (exiting => cache = <<>>) /\ conn \in [Conns -> ConnRecords]
    BY DEF IInv, Owned, Rested, Records
  <2> QED
    BY <2>1, Surroundings DEF ToSet
<1>10. /\ cache' \in Seq(Conns) /\ IsInjective(cache') /\ Len(cache') <= conf.keep
       /\ ToSet(cache') = ToSet(cache) \ {y.c} /\ (exiting => cache' = <<>>)
       /\ conn' \in [Conns -> ConnRecords] /\ \A c \in Conns \ {y.c} : conn'[c] = conn[c]
  BY <1>3, <1>5, <1>9
<1>11. UNCHANGED <<conf, exiting>> /\ u[r].addr = Nil /\ y.c = Nil /\ ~y.headersent
  BY <1>1, <1>3, <1>5 DEF x
<1> HIDE DEF IInv, Alone, Attempts, Linked, CanRun, Answer
<1> QED
  BY <1>1, <1>4, <1>5, <1>6, <1>7, <1>8, <1>10, <1>11, Attached

(* No server is left (NGX_BUSY).                                           *)
LEMMA BusyStep ==
    ASSUME IInv, NEW r \in Requests, Running("connect", r),
           u' = [u EXCEPT ![r].cached = FALSE], run' = <<"next", r, "nolive">>,
           UNCHANGED <<conf, conn, cache, conns, exiting>>
    PROVE  IInv'
<1> DEFINE x == u[r]
           e == FALSE
           y == [x EXCEPT !.cached = e]
<1>1. /\ x \in UpstreamRecords /\ Alone(r, x) /\ Attempts(conf, x) /\ x.st = "active"
      /\ ~x.headersent /\ x.addr = Nil /\ x.c = Nil /\ run[2] = r
  BY Connects, Held
<1>2. e \in BOOLEAN
  OBVIOUS
<1>3. u' = [u EXCEPT ![r] = y]
  BY Held
<1>4. \A c \in Conns \ {y.c} : conn'[c] = conn[c]
  OBVIOUS
<1> HIDE DEF e, x
<1>5. /\ y \in UpstreamRecords /\ y.addr = x.addr /\ y.c = x.c /\ y.fresh = x.fresh
      /\ y.st = x.st /\ y.sent = x.sent /\ y.received = x.received
      /\ y.headersent = x.headersent /\ y.keepalive = x.keepalive
      /\ y.rh = x.rh /\ y.out = x.out /\ y.got = x.got /\ y.rc = x.rc
      /\ y.tries = x.tries /\ y.heads = x.heads
  BY <1>1, <1>2 DEF UpstreamRecords
<1> HIDE DEF y
<1>6. Alone(r, y) /\ Attempts(conf, y)
  BY <1>1, <1>5 DEF Alone, Attempts, Complete
<1>7. CanRun(conf, "next", r, y, conn'[y.c], "nolive")
  BY <1>1, <1>5 DEF CanRun, CanGoOn
<1>8. run' # None
  BY DEF None
<1>9. /\ UNCHANGED <<conf, cache, conns, exiting>> /\ conn' \in [Conns -> ConnRecords]
      /\ y.c = u[r].c /\ y.addr = u[r].addr /\ y.c = Nil
  BY <1>1, <1>5, Held DEF x
<1> HIDE DEF IInv, Alone, Attempts, CanRun, Linked, Passing, Answer
<1> QED
  BY <1>1, <1>3, <1>4, <1>5, <1>6, <1>7, <1>8, <1>9, LocalStep

LEMMA ConnectStep ==
    ASSUME IInv, NEW r \in Requests, Connect(r)
    PROVE  IInv'
<1>1. /\ Running("connect", r) /\ UNCHANGED <<conf, exiting>>
      /\ \/ \E a \in conf.addrs \ u[r].tried : ConnectPeer(r, a)
         \/ /\ u' = [u EXCEPT ![r].cached = FALSE]
            /\ run' = <<"next", r, "nolive">> /\ UNCHANGED <<conn, cache, conns>>
  BY DEF Connect, Call
<1>2. conf.addrs \subseteq Addrs /\ u[r].tried \in SUBSET Addrs /\ u[r] \in UpstreamRecords
  BY Held, Surroundings DEF UpstreamRecords
<1>3. CASE /\ u' = [u EXCEPT ![r].cached = FALSE]
           /\ run' = <<"next", r, "nolive">> /\ UNCHANGED <<conn, cache, conns>>
  <2>1. UNCHANGED <<conf, conn, cache, conns, exiting>>
    BY <1>1, <1>3
  <2> QED
    BY <1>1, <1>3, <2>1, BusyStep
<1>4. CASE \E a \in conf.addrs \ u[r].tried : ConnectPeer(r, a)
  <2>1. PICK a \in Addrs : ConnectPeer(r, a)
    BY <1>2, <1>4
  <2>2. CASE Kept(a) # {}
    BY <1>1, <2>1, <2>2, TakesKept
  <2>3. CASE Kept(a) = {}
    <3> DEFINE t == IF Single THEN {} ELSE u[r].tried \cup {a}
               f == u[r].fresh + 1
    <3>1. /\ cache' = cache /\ conns' = [conns EXCEPT ![a] = @ + 1]
          /\ \/ /\ FreeConns # {} /\ run' = None
                /\ LET c == Min(FreeConns) IN
                   /\ conn' = [conn EXCEPT ![c] = [FreeConn EXCEPT !.st = "opening",
                                                     !.addr = a, !.uses = 1]]
                   /\ u' = [u EXCEPT ![r] = [Connected(r, a, c, FALSE) EXCEPT !.wt = TRUE]]
             \/ /\ u' = [u EXCEPT ![r].addr = a, ![r].c = Nil, ![r].cached = FALSE,
                                  ![r].tried = t, ![r].fresh = f]
                /\ run' = <<"next", r, "error">> /\ UNCHANGED conn
             \/ /\ u' = [u EXCEPT ![r].addr = a, ![r].c = Nil, ![r].cached = FALSE]
                /\ run' = <<"finalize", r, "500">> /\ UNCHANGED conn
      BY <2>1, <2>3, Held DEF ConnectPeer, Call, Return
    <3>2. ASSUME FreeConns # {}, run' = None,
                 LET c == Min(FreeConns) IN
                   /\ conn' = [conn EXCEPT ![c] = [FreeConn EXCEPT !.st = "opening",
                                                     !.addr = a, !.uses = 1]]
                   /\ u' = [u EXCEPT ![r] = [Connected(r, a, c, FALSE) EXCEPT !.wt = TRUE]]
          PROVE  IInv'
      <4>1. UNCHANGED <<conf, cache, exiting>>
        BY <1>1, <3>1
      <4> QED
        BY <1>1, <3>1, <3>2, <4>1, OpensNew
    <3>3. UNCHANGED conn => UNCHANGED <<conf, conn, cache, exiting>>
      BY <1>1, <3>1
    <3>4. ASSUME u' = [u EXCEPT ![r].addr = a, ![r].c = Nil, ![r].cached = FALSE,
                                ![r].tried = t, ![r].fresh = f],
                 run' = <<"next", r, "error">>, UNCHANGED conn
          PROVE  IInv'
      <4>1. t \in SUBSET Addrs /\ f \in {u[r].fresh, u[r].fresh + 1}
        BY <1>2
      <4> HIDE DEF t, f, IInv
      <4> QED
        BY <1>1, <3>1, <3>3, <3>4, <4>1, NotConnected
    <3>5. ASSUME u' = [u EXCEPT ![r].addr = a, ![r].c = Nil, ![r].cached = FALSE],
                 run' = <<"finalize", r, "500">>, UNCHANGED conn
          PROVE  IInv'
      <4> DEFINE o == u[r].tried
                 g == u[r].fresh
      <4>1. o \in SUBSET Addrs /\ g \in {u[r].fresh, u[r].fresh + 1}
        BY <1>2
      <4>2. u' = [u EXCEPT ![r].addr = a, ![r].c = Nil, ![r].cached = FALSE,
                           ![r].tried = o, ![r].fresh = g]
        <5> DEFINE z == Nil
                   e == FALSE
                   x == u[r]
                   v == [x EXCEPT !.addr = a, !.c = z, !.cached = e]
        <5>1. /\ z \in Conns \cup {Nil} /\ e \in BOOLEAN /\ a \in Addrs \cup {Nil}
              /\ x \in UpstreamRecords
          BY <1>2
        <5>2. v = [x EXCEPT !.addr = a, !.c = z, !.cached = e, !.tried = x.tried,
                            !.fresh = x.fresh]
          <6> HIDE DEF z, e, x
          <6> QED
            BY <5>1 DEF UpstreamRecords
        <5>3. u' = [u EXCEPT ![r] = v]
          BY <3>5, Held
        <5>4. [u EXCEPT ![r].addr = a, ![r].c = Nil, ![r].cached = FALSE,
                        ![r].tried = o, ![r].fresh = g]
              = [u EXCEPT ![r] = [x EXCEPT !.addr = a, !.c = z, !.cached = e, !.tried = x.tried,
                                           !.fresh = x.fresh]]
          BY Held
        <5> QED
          BY <5>2, <5>3, <5>4
      <4> HIDE DEF o, g, IInv
      <4> QED
        BY <1>1, <3>1, <3>3, <3>5, <4>1, <4>2, NotConnected
    <3> HIDE DEF IInv, t, f
    <3> QED
      BY <3>1, <3>2, <3>4, <3>5
  <2> QED
    BY <2>2, <2>3
<1> QED
  BY <1>1, <1>3, <1>4

-----------------------------------------------------------------------------
(* Kept connections are closed while nothing else goes on.                 *)
LEMMA KeptClose ==
    ASSUME IInv, run = None, UNCHANGED <<conf, u, conns, run>>,
           NEW D, D \subseteq ToSet(cache), conn' = Closed(D),
           cache' \in Seq(Conns), IsInjective(cache'), Len(cache') <= conf.keep,
           ToSet(cache') = ToSet(cache) \ D,
           exiting' \in BOOLEAN, exiting' => cache' = <<>>
    PROVE  IInv'
<1>1. /\ Records /\ Requested /\ Owned /\ Rested /\ PeersReleased
  BY DEF IInv
<1>2. /\ conn' \in [Conns -> ConnRecords]
      /\ \A c \in Conns : /\ Answer(conf, conn'[c])
                          /\ c \in D => conn'[c].st = "free"
                          /\ c \notin D => conn'[c] = conn[c]
  <2> HIDE DEF IInv, Closed, Answer
  <2>1. conf' = conf
    OBVIOUS
  <2> QED
    BY <2>1, Closes
<1>3. \A r \in Requests : u[r].c \in Conns \cup {Nil} /\ u[r].c \notin ToSet(cache)
  BY <1>1 DEF Records, Owned, UpstreamRecords
<1>4. \A r \in Requests : u[r].c # Nil => conn'[u[r].c] = conn[u[r].c]
  BY <1>2, <1>3
<1>5. Records' /\ PeersReleased'
  BY <1>1, <1>2 DEF Records, PeersReleased
<1>6. Answers' /\ Calls'
  BY <1>2 DEF Answers, Calls
<1>7. Requested'
  <2>1. ~\E r : Running("finalize", r)
    BY DEF Running
  <2> QED
    BY <1>1, <1>4, <2>1 DEF Requested
<1>8. Owned'
  <2>1. ASSUME NEW c \in Conns
        PROVE  conn'[c].st = "free" <=> c \notin ToSet(cache') /\ \A r \in Requests : u[r].c # c
    <3>1. conn[c].st = "free" <=> c \notin ToSet(cache) /\ \A r \in Requests : u[r].c # c
      BY <1>1 DEF Owned
    <3>2. CASE c \in D
      BY <1>2, <1>3, <3>2
    <3>3. CASE c \notin D
      BY <1>2, <3>1, <3>3
    <3> QED
      BY <3>2, <3>3
  <2> QED
    BY <1>1, <1>3, <2>1 DEF Owned
<1>9. Rested'
  <2>1. ToSet(cache') \subseteq Conns
    BY DEF ToSet
  <2> QED
    BY <1>1, <1>2, <2>1 DEF Rested
<1> QED
  BY <1>5, <1>6, <1>7, <1>8, <1>9 DEF IInv

LEMMA CloseKeptStep ==
    ASSUME IInv, NEW c \in Conns, CloseKept(c)
    PROVE  IInv'
<1>1. /\ run = None /\ c \in ToSet(cache) /\ cache' = Without(cache, c) /\ conn' = Closed({c})
      /\ UNCHANGED <<conf, u, conns, run>> /\ exiting' = exiting
  BY DEF CloseKept, Idle
<1>2. {c} \subseteq ToSet(cache) /\ exiting' \in BOOLEAN
  BY <1>1 DEF IInv, Records
<1> HIDE DEF IInv, Closed
<1> QED
  BY <1>1, <1>2, KeptTaken, KeptClose

LEMMA QuitStep ==
    ASSUME IInv, Quit
    PROVE  IInv'
<1> DEFINE D == ToSet(cache)
<1>1. /\ run = None /\ cache' = <<>> /\ conn' = Closed(D)
      /\ UNCHANGED <<conf, u, conns, run>> /\ exiting' = TRUE
  BY DEF Quit, Idle
<1>2. /\ cache' \in Seq(Conns) /\ IsInjective(cache') /\ Len(cache') <= conf.keep
      /\ ToSet(cache') = ToSet(cache) \ D /\ D \subseteq ToSet(cache)
  <2>1. conf.keep \in Nat
    BY Surroundings DEF IInv, Records
  <2> QED
    BY <1>1, <2>1 DEF ToSet, IsInjective
<1>3. exiting' \in BOOLEAN /\ (exiting' => cache' = <<>>)
  BY <1>1
<1>4. run = None /\ UNCHANGED <<conf, u, conns, run>> /\ conn' = Closed(D)
  BY <1>1
<1> HIDE DEF IInv, Closed, D
<1> QED
  BY <1>2, <1>3, <1>4, KeptClose

LEMMA InitHolds ==
    ASSUME Init
    PROVE  IInv
<1>1. /\ conf \in Scenarios /\ cache = <<>> /\ exiting = FALSE /\ run = None
      /\ conns = [a \in Addrs |-> 0]
      /\ \A r \in Requests : u[r] = NewUpstream
      /\ \A c \in Conns : conn[c] = FreeConn
  BY DEF Init
<1>2. NewUpstream \in UpstreamRecords /\ FreeConn \in ConnRecords
  <2>1. <<>> \in Seq(Parts) /\ {} \in SUBSET Addrs
    OBVIOUS
  <2> QED
    BY <2>1 DEF NewUpstream, FreeConn, UpstreamRecords, ConnRecords, None, Nil, Outcomes
<1>3. Records
  <2>1. /\ u = [r \in Requests |-> NewUpstream] /\ conn = [c \in Conns |-> FreeConn]
        /\ conns = [a \in Addrs |-> 0] /\ exiting \in BOOLEAN /\ conf \in Scenarios
    BY DEF Init
  <2> HIDE DEF NewUpstream, FreeConn
  <2>2. u \in [Requests -> UpstreamRecords] /\ conn \in [Conns -> ConnRecords]
    BY <1>2, <2>1
  <2>3. conns \in [Addrs -> Int]
    BY <2>1
  <2> QED
    BY <2>1, <2>2, <2>3 DEF Records
<1>4. Answer(conf, FreeConn) /\ FreeConn.st = "free"
  BY DEF FreeConn, Answer, None
<1>5. Answers
  <2> HIDE DEF Answer, FreeConn
  <2> QED
    BY <1>1, <1>4 DEF Answers
<1>6. /\ NewUpstream.c = Nil /\ NewUpstream.addr = Nil /\ NewUpstream.st = "new"
      /\ NewUpstream.fresh = 0 /\ NewUpstream.tries = 0 /\ NewUpstream.heads = 0
      /\ ~NewUpstream.sent /\ ~NewUpstream.headersent /\ ~NewUpstream.received
      /\ ~NewUpstream.keepalive /\ NewUpstream.rh = "header" /\ NewUpstream.got = <<>>
      /\ NewUpstream.out = <<>> /\ NewUpstream.rc = "none"
  BY DEF NewUpstream, None
<1>7. TriesOf(conf) \in Nat
  BY <1>1, TriesCount
<1> HIDE DEF NewUpstream, FreeConn
<1>8. ASSUME NEW r \in Requests
      PROVE  /\ Alone(r, NewUpstream) /\ Attempts(conf, NewUpstream)
  <2>1. Alone(r, NewUpstream)
    BY <1>6 DEF Alone, OneAnswer
  <2>2. Attempts(conf, NewUpstream)
    BY <1>6, <1>7 DEF Attempts
  <2> QED
    BY <2>1, <2>2
<1>9. Requested
  <2> HIDE DEF Alone, Attempts, Linked, Passing
  <2> QED
    BY <1>1, <1>6, <1>8 DEF Requested
<1>10. Calls
  BY <1>1 DEF Calls
<1>11. Owned
  <2>1. cache \in Seq(Conns) /\ IsInjective(cache) /\ ToSet(cache) = {} /\ Len(cache) = 0
    BY <1>1 DEF ToSet, IsInjective
  <2>2. 0 <= conf.keep /\ Nil \notin Conns
    BY <1>1, Surroundings
  <2> QED
    BY <1>1, <1>4, <1>6, <2>1, <2>2 DEF Owned
<1>12. Rested
  BY <1>1 DEF Rested, ToSet
<1>13. PeersReleased
  <2> SUFFICES ASSUME NEW a \in Addrs
               PROVE  conns[a] = Cardinality({r \in Requests : u[r].addr = a})
    BY DEF PeersReleased
  <2>1. {r \in Requests : u[r].addr = a} = {}
    BY <1>1, <1>6, Surroundings
  <2> QED
    BY <1>1, <2>1, FS_EmptySet
<1> QED
  BY <1>3, <1>5, <1>9, <1>10, <1>11, <1>12, <1>13 DEF IInv

LEMMA NextHolds ==
    ASSUME Orderly, IInv, [Next]_vars
    PROVE  IInv'
<1>1. ASSUME NEW r \in Requests, Handlers(r) PROVE IInv'
  <2>1. CASE InitRequest(r)
    BY <2>1, InitRequestStep
  <2>2. CASE ResolveHandler(r)
    BY <2>2, ResolveHandlerStep
  <2>3. CASE Connect(r)
    BY <2>3, ConnectStep
  <2>4. CASE Handshake(r)
    BY <2>4, HandshakeStep
  <2>5. CASE SendRequest(r)
    BY <2>5, SendRequestStep
  <2>6. CASE SendRequestHandler(r)
    BY <2>6, SendRequestHandlerStep
  <2>7. CASE ReadRequestHandler(r)
    BY <2>7, ReadRequestHandlerStep
  <2>8. CASE ProcessHeader(r)
    BY <2>8, ProcessHeaderStep
  <2>9. CASE SendResponse(r)
    BY <2>9, SendResponseStep
  <2>10. CASE Pass(r)
    BY <2>10, PassStep
  <2>11. CASE PassDownstream(r)
    BY <2>11, PassDownstreamStep
  <2>12. CASE Upgraded(r)
    BY <2>12, UpgradedStep
  <2>13. CASE UpstreamNext(r)
    BY <2>13, UpstreamNextStep
  <2>14. CASE Finalize(r)
    BY <2>14, FinalizeStep
  <2>15. CASE CheckBroken(r)
    BY <2>15, CheckBrokenStep
  <2> QED
    BY <1>1, <2>1, <2>2, <2>3, <2>4, <2>5, <2>6, <2>7, <2>8, <2>9, <2>10, <2>11, <2>12,
       <2>13, <2>14, <2>15 DEF Handlers
<1>2. ASSUME NEW r \in Requests, Timers(r) \/ Cleanup(r) \/ ClientBody(r) \/ ClientGone(r)
      PROVE  IInv'
  <2>1. CASE WriteTimeout(r)
    BY <2>1, WriteTimeoutStep
  <2>2. CASE ReadTimeout(r)
    BY <2>2, ReadTimeoutStep
  <2>3. CASE Cleanup(r)
    BY <2>3, CleanupStep
  <2>4. CASE ClientBody(r) \/ ClientGone(r)
    BY <2>4, ClientStep
  <2> QED
    BY <1>2, <2>1, <2>2, <2>3, <2>4 DEF Timers
<1>3. ASSUME NEW c \in Conns,
             \/ CloseKept(c) \/ ServerAccept(c) \/ ServerReads(c) \/ ServerHeader(c)
             \/ ServerBody(c) \/ ServerClose(c)
      PROVE  IInv'
  <2>1. CASE CloseKept(c)
    BY <2>1, CloseKeptStep
  <2>2. CASE ServerAccept(c)
    BY <2>2, ServerAcceptStep
  <2>3. CASE ServerReads(c)
    BY <2>3, ServerReadsStep
  <2>4. CASE ServerHeader(c)
    BY <2>4, ServerHeaderStep
  <2>5. CASE ServerBody(c)
    BY <2>5, ServerBodyStep
  <2>6. CASE ServerClose(c)
    BY <2>6, ServerCloseStep
  <2> QED
    BY <1>3, <2>1, <2>2, <2>3, <2>4, <2>5, <2>6
<1>4. CASE Quit
  BY <1>4, QuitStep
<1>5. CASE UNCHANGED vars
  <2>1. UNCHANGED <<conf, u, conn, cache, conns, exiting, run>>
    BY <1>5 DEF vars
  <2> QED
    BY <2>1, Still
<1> QED
  BY <1>1, <1>2, <1>3, <1>4, <1>5 DEF Next

(* Owned, in numbers.                                                      *)
LEMMA OwnedCounts ==
    ASSUME IInv
    PROVE  TypeOK /\ ConnectionsOwned /\ KeptAtRest
<1>1. /\ Records /\ Requested /\ Owned /\ Rested
  BY DEF IInv
<1>2. TypeOK
  <2>1. cache \in Seq(Conns)
    BY <1>1 DEF Owned
  <2> QED
    BY <1>1, <2>1 DEF TypeOK, Records, UpstreamRecords, ConnRecords, ToSet
<1>3. KeptAtRest
  BY <1>1 DEF KeptAtRest, Rested, AtRest
<1>4. \A r \in Requests : u[r].st = "done" => u[r].c = Nil /\ u[r].addr = Nil
  BY <1>1 DEF Requested, Alone
<1>5. ASSUME NEW c \in Conns
      PROVE  Cardinality({r \in Requests : u[r].c = c}) + (IF c \in ToSet(cache) THEN 1 ELSE 0)
                 = (IF conn[c].st = "free" THEN 0 ELSE 1)
  <2> DEFINE S == {r \in Requests : u[r].c = c}
  <2>1. c # Nil /\ (conn[c].st = "free" <=> c \notin ToSet(cache) /\ S = {})
    BY <1>1, Surroundings DEF Owned
  <2>2. c \in ToSet(cache) => S = {}
    BY <1>1 DEF Owned
  <2>3. CASE S = {}
    <3>1. Cardinality(S) = 0
      BY <2>3, FS_EmptySet
    <3> HIDE DEF S
    <3>2. Cardinality(S) + (IF c \in ToSet(cache) THEN 1 ELSE 0)
          = (IF conn[c].st = "free" THEN 0 ELSE 1)
      BY <2>1, <2>3, <3>1
    <3> QED
      BY <3>2 DEF S
  <2>4. CASE S # {}
    <3>1. PICK r \in Requests : u[r].c = c
      BY <2>4
    <3>2. S = {r}
      BY <1>1, <2>1, <3>1 DEF Owned
    <3>3. Cardinality(S) = 1
      BY <3>2, FS_Singleton
    <3> HIDE DEF S
    <3>4. Cardinality(S) + (IF c \in ToSet(cache) THEN 1 ELSE 0)
          = (IF conn[c].st = "free" THEN 0 ELSE 1)
      BY <2>1, <2>2, <2>4, <3>3
    <3> QED
      BY <3>4 DEF S
  <2> QED
    BY <2>3, <2>4
<1>6. ConnectionsOwned
  BY <1>1, <1>4, <1>5 DEF ConnectionsOwned, Owned
<1> QED
  BY <1>2, <1>3, <1>6

(* Whatever servers and clients do, whichever timers expire and wherever   *)
(* a request ends (errors, retries with ngx_http_upstream_next, a cleanup):*)
(* each open connection has one request that owns it or one place in the   *)
(* cache, the balancer has been told of every end, and what is kept has    *)
(* nothing left of the last response on it.                                *)
THEOREM UpstreamConnectionsAreKept ==
    ASSUME Orderly
    PROVE  Spec => []ConnectionsKept
<1>1. Init => IInv
  BY InitHolds
<1>2. IInv /\ [Next]_vars => IInv'
  BY NextHolds
<1>3. IInv => ConnectionsKept
  <2> SUFFICES ASSUME IInv PROVE ConnectionsKept
    OBVIOUS
  <2>1. PeersReleased
    BY DEF IInv
  <2> QED
    BY <2>1, OwnedCounts DEF ConnectionsKept
<1> QED
  BY <1>1, <1>2, <1>3, PTL DEF Spec

(* A client gets the parts of one answer to its own request, in order, and *)
(* all of them when the request ends well; a request that must not be sent *)
(* twice (MayRetry: not idempotent, or its body passed on unread) is sent  *)
(* once, and new connections stay within proxy_next_upstream_tries though  *)
(* errors on kept connections are retried for nothing.                     *)
THEOREM UpstreamExchangesAreSound ==
    ASSUME Orderly
    PROVE  Spec => []ExchangeSound
<1>1. Init => IInv
  BY InitHolds
<1>2. IInv /\ [Next]_vars => IInv'
  BY NextHolds
<1>3. IInv => ExchangeSound
  <2> SUFFICES ASSUME IInv PROVE ExchangeSound
    OBVIOUS
  <2>1. ResponseIntact
    <3> SUFFICES ASSUME NEW r \in Requests
                 PROVE  LET g == u[r].got IN
                        /\ \A i \in DOMAIN g : /\ g[i].r = r /\ g[i].n = g[1].n
                                               /\ g[i].i = i - 1 /\ g[i].kind = g[1].kind
                        /\ u[r].rc = "0" /\ BodyOf[g[1].kind] # -1
                           => Len(g) = 1 + BodyOf[g[1].kind]
      BY DEF ResponseIntact
    <3>1. Alone(r, u[r])
      BY Held
    <3> QED
      BY <3>1 DEF Alone, OneAnswer, IsPart, Complete
  <2>2. SentOnce
    <3>1. Tries = TriesOf(conf)
      BY DEF Tries, TriesOf
    <3>2. ASSUME NEW r \in Requests
          PROVE  /\ (conf.post /\ ~conf.nonid) \/ conf.unbuffered => u[r].heads <= 1
                 /\ u[r].fresh <= Tries
      <4>1. Attempts(conf, u[r])
        BY Held
      <4> QED
        BY <3>1, <4>1 DEF Attempts, Guarded
    <3> QED
      BY <3>2 DEF SentOnce
  <2> QED
    BY <2>1, <2>2 DEF ExchangeSound
<1> QED
  BY <1>1, <1>2, <1>3, PTL DEF Spec

(* The handler that sends a response is not entered a second time after    *)
(* the header of one has gone to the client: ngx_http_send_header has no   *)
(* "header already sent" to report.                                        *)
THEOREM UpstreamHeaderIsSentOnce ==
    ASSUME Orderly
    PROVE  Spec => []HeaderOnce
<1>1. Init => IInv
  BY InitHolds
<1>2. IInv /\ [Next]_vars => IInv'
  BY NextHolds
<1>3. IInv => HeaderOnce
  <2> SUFFICES ASSUME IInv, run # None, run[1] = "response" PROVE ~u[run[2]].headersent
    BY DEF HeaderOnce
  <2> DEFINE r == run[2]
  <2>1. Running("response", r)
    BY DEF Running
  <2>2. r \in Requests /\ CanRun(conf, "response", r, u[r], conn[u[r].c], run[3])
    BY <2>1, Called
  <2>3. Alone(r, u[r])
    BY <2>2, Held
  <2>4. "response" # "connect" /\ "response" # "send" /\ "response" # "ssl"
        /\ "response" # "next" /\ "response" # "pass" /\ "response" # "finalize"
    OBVIOUS
  <2> QED
    BY <2>2, <2>3, <2>4 DEF CanRun, CanRespond, Alone
<1> QED
  BY <1>1, <1>2, <1>3, PTL DEF Spec
=============================================================================
