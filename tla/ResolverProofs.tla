--------------------------- MODULE ResolverProofs ---------------------------
(***************************************************************************)
(* For any number of names and requests, any answers and aliases, any      *)
(* times: the two queues hold every name once, in the order in which they  *)
(* become due, a request that waits is in one list, and the timer runs.    *)
(***************************************************************************)
EXTENDS Resolver, QueueProofs, FiniteSetTheorems

(* The nodes of q become due in its order, from the tail.                  *)
Sorted(q, nd) == \A i, j \in 1 .. Len(q) : i < j => nd[q[i]].left >= nd[q[j]].left

(* The constants are as assumed.                                           *)
Given == ResolverAssumption

(* The types, as sets of records.                                          *)
Request == [state : {"free", "again"}, node : Names \cup {Nil}, timer : BOOLEAN, rec : 0 .. MaxRec]
Node ==
    [ident : [conf.types -> conf.idents \cup {Nil}], ans : [conf.types -> {"open", "none", "some"}],
     tcp : [conf.types -> BOOLEAN], code : BOOLEAN, cname : Names \cup {Nil},
     valid : Int, left : Int, waiting : Seq(Ctxs)]
Job == [cs : Seq(Ctxs), name : Names, new : BOOLEAN]
Question == [name : Names, type : conf.types, ident : conf.idents]

(* A node in the queue of answers: nobody waits and no answer is awaited.  *)
Settles(nd) == nd.waiting = <<>> /\ nd.left <= Expire /\ \A t \in conf.types : nd.ans[t] # "open"

(* A node in the queue of questions.                                       *)
Asks(nd) == nd.valid = -1 /\ nd.left <= Resend

(* The tree and the two queues agree.                                      *)
Placed(tr, rq, eq) ==
    /\ tr \subseteq Names /\ rq \in Seq(Names) /\ eq \in Seq(Names)
    /\ IsInjective(rq) /\ IsInjective(eq)
    /\ ToSet(rq) \cap ToSet(eq) = {} /\ ToSet(rq) \cup ToSet(eq) = tr
Fits(tr, rq, eq, nd) ==
    /\ Placed(tr, rq, eq)
    /\ nd \in [Names -> Node] /\ \A n \in Names : nd[n].left >= -1
    /\ Sorted(rq, nd) /\ Sorted(eq, nd)
    /\ \A n \in ToSet(rq) : Asks(nd[n])
    /\ \A n \in ToSet(eq) : Settles(nd[n])

(* The list of a node holds the requests that wait for it.                 *)
Waits(tr, nd, cx) ==
    /\ \A n \in tr : /\ IsInjective(nd[n].waiting)
                     /\ ToSet(nd[n].waiting) = {c \in Ctxs : cx[c].node = n}
    /\ \A c \in Ctxs : cx[c].node # Nil => cx[c].node \in tr /\ cx[c].state = "again"

(* The requests of a job wait for nothing yet.                             *)
Works(jb, cx) ==
    jb # Nil => /\ jb \in Job /\ IsInjective(jb.cs) /\ jb.cs # <<>>
                /\ \A c \in ToSet(jb.cs) : cx[c].state = "again" /\ cx[c].node = Nil

Good(tr, nd, rq, eq, cx, ar, as, jb) ==
    /\ cx \in [Ctxs -> Request] /\ ar \in BOOLEAN /\ as \subseteq Question
    /\ Fits(tr, rq, eq, nd) /\ Waits(tr, nd, cx) /\ Works(jb, cx)
    /\ rq # <<>> => ar

IInv == conf \in Scenarios /\ Good(tree, node, resendq, expireq, ctx, armed, asked, job)

-----------------------------------------------------------------------------
(* An element more or less does not disturb the order of the others.       *)
LEMMA SortedWithout ==
    ASSUME NEW S, NEW q \in Seq(S), IsInjective(q), NEW nd, Sorted(q, nd), NEW n
    PROVE  Sorted(Without(q, n), nd)
<1>1. CASE n \notin ToSet(q)
  BY <1>1 DEF Without
<1>2. CASE n \in ToSet(q)
  <2> DEFINE w == Without(q, n)
  <2>1. PICK k \in 1 .. Len(q) :
          /\ q[k] = n /\ w \in Seq(S) /\ Len(w) = Len(q) - 1
          /\ \A i \in 1 .. Len(q) - 1 : w[i] = IF i < k THEN q[i] ELSE q[i + 1]
    BY <1>2, QueueCloses
  <2> HIDE DEF w
  <2> DEFINE h(i) == IF i < k THEN i ELSE i + 1
  <2>2. Len(q) \in Nat
    OBVIOUS
  <2>3. /\ \A i \in 1 .. Len(w) : h(i) \in 1 .. Len(q) /\ w[i] = q[h(i)]
        /\ \A i, j \in 1 .. Len(w) : i < j => h(i) < h(j)
    BY <2>1, <2>2
  <2> HIDE DEF h
  <2>4. Sorted(w, nd)
    BY <2>3 DEF Sorted
  <2> QED
    BY <2>4 DEF w
<1> QED
  BY <1>1, <1>2

LEMMA SortedPart ==
    ASSUME NEW S, NEW q \in Seq(S), IsInjective(q), NEW nd, Sorted(q, nd),
           NEW k \in 0 .. Len(q)
    PROVE  LET w == SubSeq(q, 1, k)
           IN  /\ w \in Seq(S) /\ IsInjective(w) /\ ToSet(w) \subseteq ToSet(q)
               /\ Sorted(w, nd)
<1> DEFINE w == SubSeq(q, 1, k)
<1>1. Len(q) \in Nat /\ k \in Nat /\ DOMAIN q = 1 .. Len(q) /\ 1 .. k \subseteq 1 .. Len(q)
  OBVIOUS
<1>2. w \in Seq(S) /\ DOMAIN w = 1 .. k /\ Len(w) = k /\ \A i \in 1 .. k : w[i] = q[i]
  BY <1>1
<1> HIDE DEF w
<1>3. IsInjective(w) /\ ToSet(w) \subseteq ToSet(q)
  BY <1>1, <1>2 DEF IsInjective, ToSet
<1>4. Sorted(w, nd)
  BY <1>1, <1>2 DEF Sorted
<1> QED
  BY <1>2, <1>3, <1>4 DEF w

LEMMA SortedJoin ==
    ASSUME NEW S, NEW a \in Seq(S), NEW b \in Seq(S), NEW nd, Sorted(a, nd), Sorted(b, nd),
           \A x \in ToSet(a), y \in ToSet(b) : nd[x].left >= nd[y].left
    PROVE  Sorted(a \o b, nd)
<1> DEFINE w == a \o b
           l == Len(a)
           m == Len(b)
<1>1. /\ l \in Nat /\ m \in Nat /\ w \in Seq(S) /\ Len(w) = l + m
      /\ \A i \in 1 .. l + m : w[i] = IF i <= l THEN a[i] ELSE b[i - l]
  BY ConcatProperties
<1>2. DOMAIN a = 1 .. l /\ DOMAIN b = 1 .. m
  BY <1>1
<1> HIDE DEF w
<1>3. \A i \in 1 .. l + m : \/ i <= l /\ i \in 1 .. l /\ w[i] = a[i]
                            \/ i > l /\ i - l \in 1 .. m /\ w[i] = b[i - l]
  BY <1>1
<1>4. ASSUME NEW i \in 1 .. l + m, NEW j \in 1 .. l + m, i < j
      PROVE  nd[w[i]].left >= nd[w[j]].left
  <2>1. CASE j <= l
    <3>1. i \in 1 .. l /\ j \in 1 .. l /\ w[i] = a[i] /\ w[j] = a[j]
      BY <1>1, <1>3, <1>4, <2>1
    <3> QED
      BY <1>4, <3>1 DEF Sorted
  <2>2. CASE i > l
    <3>1. /\ i - l \in 1 .. m /\ j - l \in 1 .. m /\ i - l < j - l
          /\ w[i] = b[i - l] /\ w[j] = b[j - l]
      BY <1>1, <1>3, <1>4, <2>2
    <3> QED
      BY <3>1 DEF Sorted
  <2>3. CASE i <= l /\ j > l
    <3>1. w[i] \in ToSet(a) /\ w[j] \in ToSet(b)
      BY <1>1, <1>2, <1>3, <2>3 DEF ToSet
    <3> QED
      BY <3>1
  <2> QED
    BY <1>1, <2>1, <2>2, <2>3
<1>5. Sorted(w, nd)
  BY <1>1, <1>4 DEF Sorted
<1> QED
  BY <1>5 DEF w

LEMMA SortedSame ==
    ASSUME NEW S, NEW q \in Seq(S), NEW nd, NEW new, Sorted(q, nd),
           \A n \in ToSet(q) : new[n].left = nd[n].left
    PROVE  Sorted(q, new)
<1>1. \A i \in 1 .. Len(q) : q[i] \in ToSet(q)
  BY DEF ToSet
<1> QED
  BY <1>1 DEF Sorted

(* A node that is due last goes to the head.                               *)
LEMMA SortedToHead ==
    ASSUME NEW S, NEW q \in Seq(S), IsInjective(q), NEW nd, Sorted(q, nd), NEW n \in S,
           NEW new, \A m \in ToSet(q) \ {n} : new[m].left = nd[m].left /\ new[n].left >= new[m].left
    PROVE  /\ ToHead(q, n) \in Seq(S) /\ IsInjective(ToHead(q, n))
           /\ ToSet(ToHead(q, n)) = ToSet(q) \cup {n}
           /\ Sorted(ToHead(q, n), new)
<1> DEFINE w == Without(q, n)
           b == <<n>>
<1>1. w \in Seq(S) /\ IsInjective(w) /\ ToSet(w) = ToSet(q) \ {n}
  BY QueueWithout
<1>2. Sorted(w, new)
  <2>1. Sorted(w, nd)
    BY SortedWithout
  <2> HIDE DEF w
  <2> QED
    BY <1>1, <2>1, SortedSame
<1>3. b \in Seq(S) /\ Sorted(b, new) /\ ToSet(b) = {n}
  BY DEF Sorted, ToSet
<1>4. ToHead(q, n) = b \o w
  BY DEF ToHead
<1> HIDE DEF w, b
<1>5. Sorted(b \o w, new)
  BY <1>1, <1>2, <1>3, SortedJoin
<1>6. b \o w \in Seq(S) /\ IsInjective(b \o w) /\ ToSet(b \o w) = ToSet(w) \cup {n}
  BY <1>1, QueueInsert DEF b
<1> QED
  BY <1>1, <1>4, <1>5, <1>6

(* A loop from the tail takes a part of the queue.                         *)
LEMMA TailIsPart ==
    ASSUME NEW R, NEW q \in Seq(R), NEW S, NEW most \in Nat
    PROVE  Tail_(q, S, most) \in 0 .. Len(q)
<1> DEFINE m == Min({most, Len(q)})
           T == {i \in Len(q) - m + 1 .. Len(q) : q[i] \notin S}
<1>1. Len(q) \in Nat /\ m \in 0 .. Len(q)
  BY DEF Min
<1> HIDE DEF m
<1>2. \E k \in 0 .. m :
        /\ \A i \in Len(q) - k + 1 .. Len(q) : q[i] \in S
        /\ k = m \/ q[Len(q) - k] \notin S
  <2>1. CASE T = {}
    <3>1. \A i \in Len(q) - m + 1 .. Len(q) : q[i] \in S
      BY <2>1
    <3>2. m \in 0 .. m
      BY <1>1
    <3> QED
      BY <3>1, <3>2
  <2>2. CASE T # {}
    <3>1. Max(T) \in T /\ \A y \in T : Max(T) >= y
      <4>1. T \subseteq 1 .. Len(q)
        BY <1>1
      <4> HIDE DEF T
      <4> QED
        BY <1>1, <2>2, <4>1, LastPlace
    <3>2. PICK u \in T : \A y \in T : u >= y
      BY <3>1
    <3> DEFINE k == Len(q) - u
    <3>3. u \in Len(q) - m + 1 .. Len(q) /\ q[u] \notin S
      OBVIOUS
    <3>4. k \in 0 .. m /\ Len(q) - k = u
      BY <1>1, <3>3
    <3>5. ASSUME NEW i \in Len(q) - k + 1 .. Len(q) PROVE q[i] \in S
      BY <1>1, <3>2, <3>3
    <3> HIDE DEF k
    <3> QED
      BY <3>3, <3>4, <3>5
  <2> QED
    BY <2>1, <2>2
<1>3. Tail_(q, S, most) \in 0 .. m
  BY <1>2 DEF Tail_, m
<1> QED
  BY <1>1, <1>3

(* The elements of q that are in S, and no others, each once.              *)
LEMMA OnlyThose ==
    ASSUME NEW R, NEW q \in Seq(R), IsInjective(q), NEW S
    PROVE  /\ Only(q, S) \in Seq(R) /\ IsInjective(Only(q, S))
           /\ ToSet(Only(q, S)) = ToSet(q) \cap S
<1> DEFINE at == {i \in DOMAIN q : q[i] \in S}
           Before(i) == {j \in at : j <= i}
           c == Cardinality(at)
           f == [i \in at |-> Cardinality(Before(i))]
           g == [k \in 1 .. c |-> CHOOSE i \in at : Cardinality(Before(i)) = k]
           w == Only(q, S)
<1>1. Len(q) \in Nat /\ DOMAIN q = 1 .. Len(q) /\ at \subseteq 1 .. Len(q)
  OBVIOUS
<1> HIDE DEF at
<1>2. IsFiniteSet(at) /\ c \in Nat
  <2>1. IsFiniteSet(1 .. Len(q))
    BY <1>1, FS_Interval
  <2> QED
    BY <1>1, <2>1, FS_Subset, FS_CardinalityType
<1>3. ASSUME NEW i \in at
      PROVE  Before(i) \subseteq at /\ IsFiniteSet(Before(i)) /\ f[i] \in 1 .. c
  <2>1. Before(i) \subseteq at /\ i \in Before(i)
    BY <1>1
  <2>2. IsFiniteSet(Before(i)) /\ Cardinality(Before(i)) \in Nat /\ Cardinality(Before(i)) <= c
    BY <1>2, <2>1, FS_Subset, FS_CardinalityType
  <2>3. Cardinality(Before(i)) # 0
    BY <2>1, <2>2, FS_EmptySet
  <2> HIDE DEF Before, c
  <2> QED
    BY <1>2, <2>1, <2>2, <2>3
<1>4. ASSUME NEW i \in at, NEW j \in at, f[i] = f[j] PROVE i = j
  <2>1. ASSUME NEW x \in at, NEW y \in at, x < y, f[x] = f[y] PROVE FALSE
    <3>1. Before(x) \subseteq Before(y) /\ y \in Before(y) /\ y \notin Before(x)
      <4>1. \A z \in at : z \in Int
        BY <1>1
      <4>2. \A z \in at : z <= x => z <= y
        BY <2>1, <4>1
      <4>3. y <= y /\ ~(y <= x)
        BY <2>1, <4>1
      <4> QED
        BY <4>2, <4>3
    <3>2. Before(x) = Before(y)
      <4>1. IsFiniteSet(Before(y)) /\ Cardinality(Before(x)) = Cardinality(Before(y))
        BY <1>3, <2>1
      <4> HIDE DEF Before
      <4> QED
        BY <3>1, <4>1, FS_Subset
    <3> QED
      BY <3>1, <3>2
  <2>2. i < j \/ j < i \/ i = j
    BY <1>1
  <2> HIDE DEF f
  <2> QED
    BY <1>4, <2>1, <2>2
<1>5. \A k \in 1 .. c : \E i \in at : f[i] = k
  <2>1. f \in Injection(at, 1 .. c)
    <3>1. f \in [at -> 1 .. c]
      BY <1>3
    <3> HIDE DEF f
    <3> QED
      BY <1>4, <3>1 DEF Injection, IsInjective
  <2>2. IsFiniteSet(1 .. c) /\ Cardinality(1 .. c) = c
    BY <1>2, FS_Interval
  <2> HIDE DEF f
  <2>3. f \in Surjection(at, 1 .. c)
    BY <2>1, <2>2, FS_Injection
  <2> QED
    BY <2>3 DEF Surjection
<1>6. w = [k \in 1 .. c |-> q[g[k]]]
  <2>1. w = [k \in 1 .. c |-> q[CHOOSE i \in at : Cardinality(Before(i)) = k]]
    BY DEF Only, at
  <2> HIDE DEF at, c, w
  <2> QED
    BY <2>1
<1>7. \A k \in 1 .. c : g[k] \in at /\ f[g[k]] = k
  <2>1. ASSUME NEW k \in 1 .. c PROVE \E i \in at : Cardinality(Before(i)) = k
    BY <1>5
  <2>2. ASSUME NEW k \in 1 .. c PROVE g[k] \in at /\ Cardinality(Before(g[k])) = k
    BY <2>1
  <2> QED
    BY <2>2
<1>8. \A i \in at : f[i] \in 1 .. c /\ g[f[i]] = i
  <2>1. \A i \in at : f[i] \in 1 .. c
    BY <1>3
  <2>2. \A i \in at : g[f[i]] \in at /\ f[g[f[i]]] = f[i]
    BY <1>7, <2>1
  <2> HIDE DEF f, g
  <2> QED
    BY <1>4, <2>1, <2>2
<1> HIDE DEF f, g, w, c
<1>9. \A i \in at : i \in DOMAIN q /\ q[i] \in S /\ q[i] \in R
  BY <1>1 DEF at
<1>10. w \in Seq(R) /\ DOMAIN w = 1 .. c /\ \A k \in 1 .. c : w[k] = q[g[k]]
  <2>1. w \in [1 .. c -> R]
    BY <1>6, <1>7, <1>9
  <2> QED
    BY <1>2, <1>6, <2>1, SeqDef
<1>11. IsInjective(w)
  BY <1>7, <1>9, <1>10 DEF IsInjective
<1>12. ToSet(w) \subseteq ToSet(q) \cap S
  BY <1>7, <1>9, <1>10 DEF ToSet
<1>13. ASSUME NEW x \in ToSet(q) \cap S PROVE x \in ToSet(w)
  <2>1. PICK i \in at : q[i] = x
    BY <1>1 DEF ToSet, at
  <2> QED
    BY <1>8, <1>10, <2>1 DEF ToSet
<1> QED
  BY <1>10, <1>11, <1>12, <1>13 DEF w

-----------------------------------------------------------------------------
(* A node that is not linked.                                              *)
LEMMA NewNodeTyped == NewNode \in Node /\ NewNode.left = 0 /\ NewNode.waiting = <<>>
BY DEF NewNode, Node

(* What is written to a node or a request.                                 *)
LEMMA NodeWritten ==
    ASSUME NEW nd \in Node
    PROVE  /\ \A l \in Int : [nd EXCEPT !.left = l] \in Node
           /\ \A v \in Int : [nd EXCEPT !.valid = v] \in Node
           /\ \A w \in Seq(Ctxs) : [nd EXCEPT !.waiting = w] \in Node
           /\ \A n \in Names \cup {Nil} : [nd EXCEPT !.cname = n] \in Node
           /\ \A b \in BOOLEAN : [nd EXCEPT !.code = b] \in Node
           /\ \A t \in conf.types, a \in {"none", "some"} : [nd EXCEPT !.ans[t] = a] \in Node
           /\ \A t \in conf.types, b \in BOOLEAN : [nd EXCEPT !.tcp[t] = b] \in Node
BY DEF Node

LEMMA RequestWritten ==
    ASSUME NEW cx \in Request
    PROVE  /\ \A n \in Names \cup {Nil} : [cx EXCEPT !.node = n] \in Request
           /\ \A b \in BOOLEAN : [cx EXCEPT !.timer = b] \in Request
           /\ \A k \in 0 .. MaxRec : [cx EXCEPT !.rec = k] \in Request
BY DEF Request

LEMMA FreeTyped ==
    ASSUME Given
    PROVE  /\ Free \in Request /\ Free.node = Nil
           /\ [Free EXCEPT !.state = "again"] \in Request
           /\ [Free EXCEPT !.state = "again"].node = Nil
           /\ [Free EXCEPT !.state = "again"].state = "again"
<1>1. 0 \in 0 .. MaxRec
  BY DEF Given, ResolverAssumption
<1> QED
  BY <1>1 DEF Free, Request

(* One node changes and stays where it is.                                 *)
LEMMA FitsChange ==
    ASSUME NEW tr, NEW rq, NEW eq, NEW nd, Fits(tr, rq, eq, nd), NEW n \in Names, NEW new \in Node,
           new.left >= -1, n \in tr => new.left = nd[n].left,
           n \in ToSet(rq) => Asks(new), n \in ToSet(eq) => Settles(new)
    PROVE  Fits(tr, rq, eq, [nd EXCEPT ![n] = new])
<1> DEFINE nx == [nd EXCEPT ![n] = new]
<1>1. /\ nx \in [Names -> Node] /\ nx[n] = new /\ \A m \in Names \ {n} : nx[m] = nd[m]
      /\ Placed(tr, rq, eq)
  BY DEF Fits
<1> HIDE DEF nx
<1>2. ToSet(rq) \subseteq tr /\ ToSet(eq) \subseteq tr /\ tr \subseteq Names
  BY <1>1 DEF Placed
<1>3. \A m \in tr : nx[m].left = nd[m].left
  BY <1>1, <1>2
<1>4. Sorted(rq, nx) /\ Sorted(eq, nx)
  BY <1>1, <1>2, <1>3, SortedSame DEF Fits, Placed
<1>5. \A m \in Names : nx[m].left >= -1
  BY <1>1 DEF Fits
<1>6. (\A m \in ToSet(rq) : Asks(nx[m])) /\ (\A m \in ToSet(eq) : Settles(nx[m]))
  BY <1>1, <1>2 DEF Fits
<1> QED
  BY <1>1, <1>4, <1>5, <1>6 DEF Fits, nx

(* An answer is kept, or used: the last to be forgotten.                   *)
LEMMA FitsSettle ==
    ASSUME NEW tr, NEW rq, NEW eq, NEW nd, Fits(tr, rq, eq, nd), NEW n \in tr, NEW new \in Node,
           Settles(new), new.left = Expire, Given
    PROVE  Fits(tr, Without(rq, n), ToHead(eq, n), [nd EXCEPT ![n] = new])
<1> DEFINE nx == [nd EXCEPT ![n] = new]
           rx == Without(rq, n)
           ex == ToHead(eq, n)
<1>1. n \in Names /\ Placed(tr, rq, eq) /\ Expire \in Nat /\ Expire >= -1
  BY DEF Fits, Placed, Given, ResolverAssumption
<1>2. nx \in [Names -> Node] /\ nx[n] = new /\ \A m \in Names \ {n} : nx[m] = nd[m]
  BY <1>1 DEF Fits
<1> HIDE DEF nx, rx, ex
<1>3. rx \in Seq(Names) /\ IsInjective(rx) /\ ToSet(rx) = ToSet(rq) \ {n} /\ Sorted(rx, nd)
  BY <1>1, QueueWithout, SortedWithout DEF Fits, Placed, rx
<1>4. Sorted(rx, nx)
  BY <1>1, <1>2, <1>3, SortedSame DEF Placed
<1>5. /\ ex \in Seq(Names) /\ IsInjective(ex) /\ ToSet(ex) = ToSet(eq) \cup {n}
      /\ Sorted(ex, nx)
  <2>1. \A m \in ToSet(eq) \ {n} : m \in Names /\ nx[m] = nd[m] /\ Settles(nd[m])
    BY <1>1, <1>2 DEF Fits, Placed
  <2>2. \A m \in ToSet(eq) \ {n} : nx[m].left = nd[m].left /\ nx[n].left >= nx[m].left
    BY <1>2, <2>1 DEF Settles
  <2> QED
    BY <1>1, <2>2, SortedToHead DEF Fits, Placed, ex
<1>6. Placed(tr, rx, ex)
  BY <1>1, <1>3, <1>5 DEF Placed
<1>7. \A m \in Names : nx[m].left >= -1
  BY <1>1, <1>2 DEF Fits
<1>8. (\A m \in ToSet(rx) : Asks(nx[m])) /\ (\A m \in ToSet(ex) : Settles(nx[m]))
  BY <1>1, <1>2, <1>3, <1>5 DEF Fits, Placed
<1> QED
  BY <1>2, <1>4, <1>5, <1>6, <1>7, <1>8 DEF Fits, nx, rx, ex

(* A question is sent, or sent again: the last to be repeated.             *)
LEMMA FitsAsk ==
    ASSUME NEW tr, NEW rq, NEW eq, NEW nd, Fits(tr, rq, eq, nd), NEW n \in Names, NEW new \in Node,
           Asks(new), new.left = Resend, Given
    PROVE  /\ Fits(tr \cup {n}, ToHead(rq, n), Without(eq, n), [nd EXCEPT ![n] = new])
           /\ n \in ToSet(ToHead(rq, n))
<1> DEFINE nx == [nd EXCEPT ![n] = new]
           rx == ToHead(rq, n)
           ex == Without(eq, n)
           tx == tr \cup {n}
<1>1. Placed(tr, rq, eq) /\ Resend \in Nat /\ Resend >= -1
  BY DEF Fits, Placed, Given, ResolverAssumption
<1>2. nx \in [Names -> Node] /\ nx[n] = new /\ \A m \in Names \ {n} : nx[m] = nd[m]
  BY <1>1 DEF Fits
<1> HIDE DEF nx, rx, ex
<1>3. ex \in Seq(Names) /\ IsInjective(ex) /\ ToSet(ex) = ToSet(eq) \ {n} /\ Sorted(ex, nd)
  BY <1>1, QueueWithout, SortedWithout DEF Fits, Placed, ex
<1>4. Sorted(ex, nx)
  BY <1>1, <1>2, <1>3, SortedSame DEF Placed
<1>5. /\ rx \in Seq(Names) /\ IsInjective(rx) /\ ToSet(rx) = ToSet(rq) \cup {n}
      /\ Sorted(rx, nx)
  <2>1. \A m \in ToSet(rq) \ {n} : m \in Names /\ nx[m] = nd[m] /\ Asks(nd[m])
    BY <1>1, <1>2 DEF Fits, Placed
  <2>2. \A m \in ToSet(rq) \ {n} : nx[m].left = nd[m].left /\ nx[n].left >= nx[m].left
    BY <1>2, <2>1 DEF Asks
  <2> QED
    BY <1>1, <2>2, SortedToHead DEF Fits, Placed, rx
<1>6. Placed(tx, rx, ex)
  BY <1>1, <1>3, <1>5 DEF Placed
<1>7. \A m \in Names : nx[m].left >= -1
  BY <1>1, <1>2 DEF Fits
<1>8. (\A m \in ToSet(rx) : Asks(nx[m])) /\ (\A m \in ToSet(ex) : Settles(nx[m]))
  BY <1>1, <1>2, <1>3, <1>5 DEF Fits, Placed
<1> QED
  BY <1>2, <1>4, <1>5, <1>6, <1>7, <1>8 DEF Fits, nx, rx, ex

(* A node is taken out.                                                    *)
LEMMA FitsForget ==
    ASSUME NEW tr, NEW rq, NEW eq, NEW nd, Fits(tr, rq, eq, nd), NEW n
    PROVE  Fits(tr \ {n}, Without(rq, n), Without(eq, n), nd)
<1> DEFINE rx == Without(rq, n)
           ex == Without(eq, n)
<1>1. rx \in Seq(Names) /\ IsInjective(rx) /\ ToSet(rx) = ToSet(rq) \ {n} /\ Sorted(rx, nd)
  BY QueueWithout, SortedWithout DEF Fits, Placed
<1>2. ex \in Seq(Names) /\ IsInjective(ex) /\ ToSet(ex) = ToSet(eq) \ {n} /\ Sorted(ex, nd)
  BY QueueWithout, SortedWithout DEF Fits, Placed
<1> HIDE DEF rx, ex
<1>3. Placed(tr \ {n}, rx, ex)
  BY <1>1, <1>2 DEF Fits, Placed
<1> QED
  BY <1>1, <1>2, <1>3 DEF Fits, rx, ex

(* A queue is not empty without one of its elements.                       *)
LEMMA StillThere ==
    ASSUME NEW S, NEW q \in Seq(S), IsInjective(q), NEW n, Without(q, n) # <<>>
    PROVE  q # <<>>
<1>1. CASE n \in ToSet(q)
  BY <1>1 DEF ToSet
<1>2. CASE n \notin ToSet(q)
  BY <1>2 DEF Without
<1> QED
  BY <1>1, <1>2

(* What the end of requests leaves.                                        *)
Freed(cs) == [c \in Ctxs |-> IF c \in cs THEN Free ELSE ctx[c]]

LEMMA DoneKeeps ==
    ASSUME Given, IInv, NEW cs \in SUBSET Ctxs, IsFiniteSet(cs),
           NEW tr, NEW rq, NEW eq, NEW nd,
           Fits(tr, rq, eq, nd), Waits(tr, nd, Freed(cs)), rq # <<>> => armed,
           Done(cs, tr, rq, eq, nd), asked' = asked, job' = Nil
    PROVE  Good(tree', node', resendq', expireq', ctx', armed', asked', job')
<1>1. PICK k \in 0 .. Len(eq) :
        LET keep == SubSeq(eq, 1, Len(eq) - k)
        IN  /\ ctx' = Freed(cs) /\ expireq' = keep /\ resendq' = rq
            /\ tree' = tr \ (ToSet(eq) \ ToSet(keep))
            /\ node' = [n \in Names |-> IF n \in tree' THEN nd[n] ELSE NewNode]
            /\ armed' = (armed /\ (cs = {} \/ rq # <<>>))
  <2> DEFINE old == {n \in Names : nd[n].left < 0}
             k == Tail_(eq, old, 2 * Cardinality(cs))
  <2>1. k \in 0 .. Len(eq)
    <3>1. eq \in Seq(Names) /\ 2 * Cardinality(cs) \in Nat
      BY FS_CardinalityType DEF Fits, Placed
    <3> HIDE DEF old
    <3> QED
      BY <3>1, TailIsPart
  <2> HIDE DEF old
  <2> QED
    BY <2>1 DEF Done, Freed, old
<1> DEFINE keep == SubSeq(eq, 1, Len(eq) - k)
<1>2. /\ ctx' = Freed(cs) /\ expireq' = keep /\ resendq' = rq
      /\ tree' = tr \ (ToSet(eq) \ ToSet(keep))
      /\ node' = [n \in Names |-> IF n \in tree' THEN nd[n] ELSE NewNode]
      /\ armed' = (armed /\ (cs = {} \/ rq # <<>>))
  BY <1>1
<1>3. keep \in Seq(Names) /\ IsInjective(keep) /\ ToSet(keep) \subseteq ToSet(eq) /\ Sorted(keep, nd)
  <2>1. eq \in Seq(Names) /\ IsInjective(eq) /\ Sorted(eq, nd) /\ Len(eq) - k \in 0 .. Len(eq)
    BY DEF Fits, Placed
  <2> QED
    BY <2>1, SortedPart
<1> HIDE DEF keep
<1>4. Placed(tree', resendq', expireq')
  BY <1>2, <1>3 DEF Fits, Placed
<1>5. /\ tree' \subseteq tr /\ tr \subseteq Names /\ \A n \in tree' : node'[n] = nd[n]
      /\ \A n \in Names : node'[n] = nd[n] \/ node'[n] = NewNode
  BY <1>2 DEF Fits, Placed
<1>6. node' \in [Names -> Node] /\ \A n \in Names : node'[n].left >= -1
  <2>1. \A n \in Names : node'[n] \in Node
    BY <1>5, NewNodeTyped DEF Fits
  <2>2. \A n \in Names : node'[n].left >= -1
    BY <1>5, NewNodeTyped DEF Fits
  <2> QED
    BY <1>2, <2>1, <2>2
<1>7. Sorted(resendq', node') /\ Sorted(expireq', node')
  <2>1. Sorted(rq, nd) /\ \A n \in ToSet(rq) : node'[n].left = nd[n].left
    BY <1>2, <1>4, <1>5 DEF Fits, Placed
  <2>2. \A n \in ToSet(keep) : node'[n].left = nd[n].left
    BY <1>2, <1>4, <1>5 DEF Placed
  <2> QED
    BY <1>2, <1>3, <1>4, <2>1, <2>2, SortedSame DEF Placed
<1>8. (\A n \in ToSet(resendq') : Asks(node'[n])) /\ (\A n \in ToSet(expireq') : Settles(node'[n]))
  BY <1>2, <1>3, <1>4, <1>5 DEF Fits, Placed
<1>9. Fits(tree', resendq', expireq', node')
  BY <1>4, <1>6, <1>7, <1>8 DEF Fits
<1>10. Waits(tree', node', ctx')
  <2>1. ASSUME NEW n \in tr, n \notin tree' PROVE nd[n].waiting = <<>>
    BY <1>2, <2>1 DEF Fits, Settles
  <2>2. ASSUME NEW c \in Ctxs, ctx'[c].node # Nil
        PROVE  ctx'[c].node \in tree' /\ ctx'[c].state = "again"
    <3>1. ctx'[c].node \in tr /\ ctx'[c].state = "again"
      BY <1>2, <2>2 DEF Waits
    <3>2. c \in ToSet(nd[ctx'[c].node].waiting)
      BY <1>2, <3>1 DEF Waits
    <3>3. nd[ctx'[c].node].waiting # <<>>
      BY <3>2 DEF ToSet
    <3> QED
      BY <2>1, <3>1, <3>3
  <2>3. \A n \in tree' : /\ IsInjective(node'[n].waiting)
                         /\ ToSet(node'[n].waiting) = {c \in Ctxs : ctx'[c].node = n}
    BY <1>2, <1>5 DEF Waits
  <2> QED
    BY <2>2, <2>3 DEF Waits
<1>11. ctx' \in [Ctxs -> Request] /\ armed' \in BOOLEAN
  <2>1. Free \in Request
    BY FreeTyped
  <2>2. ctx \in [Ctxs -> Request] /\ armed \in BOOLEAN
    BY DEF IInv, Good
  <2>3. ctx' \in [Ctxs -> Request]
    BY <1>2, <2>1, <2>2 DEF Freed
  <2>4. armed' \in BOOLEAN
    <3>1. (armed /\ (cs = {} \/ rq # <<>>)) \in BOOLEAN
      OBVIOUS
    <3> QED
      BY ONLY <1>2, <3>1
  <2> QED
    BY <2>3, <2>4
<1>12. resendq' # <<>> => armed'
  BY <1>2
<1> QED
  BY <1>9, <1>10, <1>11, <1>12 DEF Good, Works, IInv

-----------------------------------------------------------------------------
(* All that is known of the state after a step.                            *)
Kept == Good(tree', node', resendq', expireq', ctx', armed', asked', job')

(* The elements of a queue are finitely many.                              *)
LEMMA QueueFinite ==
    ASSUME NEW S, NEW q \in Seq(S)
    PROVE  ToSet(q) \subseteq S /\ IsFiniteSet(ToSet(q))
<1>1. Len(q) \in Nat /\ DOMAIN q = 1 .. Len(q) /\ q \in [1 .. Len(q) -> S]
  OBVIOUS
<1>2. ToSet(q) \subseteq S
  BY <1>1 DEF ToSet
<1>3. q \in Surjection(1 .. Len(q), ToSet(q))
  BY <1>1 DEF Surjection, ToSet
<1>4. IsFiniteSet(1 .. Len(q))
  BY <1>1, FS_Interval
<1> QED
  BY <1>2, <1>3, <1>4, FS_Surjection

(* What is known of the state before a step.                               *)
LEMMA Before ==
    ASSUME Given, IInv
    PROVE  /\ Placed(tree, resendq, expireq) /\ Fits(tree, resendq, expireq, node)
           /\ Waits(tree, node, ctx) /\ Works(job, ctx)
           /\ node \in [Names -> Node] /\ tree \subseteq Names
           /\ \A n \in Names : node[n].left \in Int /\ node[n].valid \in Int /\ node[n].left >= -1
           /\ \A n \in ToSet(resendq) : n \in tree /\ Asks(node[n])
           /\ \A n \in ToSet(expireq) : n \in tree /\ Settles(node[n])
           /\ \A n \in tree : n \in ToSet(resendq) \/ n \in ToSet(expireq)
           /\ ctx \in [Ctxs -> Request] /\ armed \in BOOLEAN /\ asked \subseteq Question
           /\ resendq # <<>> => armed
           /\ conf.names \subseteq Names /\ conf.wanted \subseteq Names /\ conf.ctxs \subseteq Ctxs
           /\ Nil \notin Names /\ Nil \notin conf.idents /\ Nil \notin Job
           /\ Expire \in Nat /\ Resend \in Nat /\ MaxRec \in Nat /\ Ttls \subseteq Nat
<1>1. Fits(tree, resendq, expireq, node) /\ conf \in Scenarios
  BY DEF IInv, Good
<1>2. \A n \in Names : node[n].left \in Int /\ node[n].valid \in Int
  BY <1>1 DEF Fits, Node
<1>3. /\ conf.names \subseteq Names /\ conf.wanted \subseteq Names /\ conf.ctxs \subseteq Ctxs
      /\ Nil \notin Names /\ Nil \notin conf.idents /\ Nil \notin Job
      /\ Expire \in Nat /\ Resend \in Nat /\ MaxRec \in Nat /\ Ttls \subseteq Nat
  BY <1>1 DEF Given, ResolverAssumption, Job
<1>4. /\ Placed(tree, resendq, expireq)
      /\ node \in [Names -> Node] /\ tree \subseteq Names
      /\ \A n \in Names : node[n].left >= -1
      /\ \A n \in ToSet(resendq) : n \in tree /\ Asks(node[n])
      /\ \A n \in ToSet(expireq) : n \in tree /\ Settles(node[n])
      /\ \A n \in tree : n \in ToSet(resendq) \/ n \in ToSet(expireq)
  BY <1>1 DEF Fits, Placed
<1> QED
  BY <1>1, <1>2, <1>3, <1>4 DEF IInv, Good

(* The requests of a job.                                                  *)
LEMMA JobFacts ==
    ASSUME Given, IInv, job # Nil
    PROVE  /\ job \in Job /\ job.name \in Names /\ job.cs \in Seq(Ctxs)
           /\ IsInjective(job.cs) /\ job.cs # <<>> /\ Head(job.cs) \in ToSet(job.cs)
           /\ ToSet(job.cs) \in SUBSET Ctxs /\ IsFiniteSet(ToSet(job.cs))
           /\ \A c \in ToSet(job.cs) : ctx[c].state = "again" /\ ctx[c].node = Nil
           /\ \A c \in Ctxs : Freed(ToSet(job.cs))[c].node = ctx[c].node
           /\ \A c \in Ctxs : Freed(ToSet(job.cs))[c] = ctx[c] \/ Freed(ToSet(job.cs))[c].node = Nil
<1>1. /\ job \in Job /\ IsInjective(job.cs) /\ job.cs # <<>>
      /\ \A c \in ToSet(job.cs) : ctx[c].state = "again" /\ ctx[c].node = Nil
  BY Before DEF Works
<1>2. job.name \in Names /\ job.cs \in Seq(Ctxs)
  BY <1>1 DEF Job
<1>3. Head(job.cs) \in ToSet(job.cs)
  BY <1>1, <1>2, QueueHead
<1>4. ToSet(job.cs) \in SUBSET Ctxs /\ IsFiniteSet(ToSet(job.cs))
  BY <1>2, QueueFinite
<1>5. \A c \in Ctxs : /\ Freed(ToSet(job.cs))[c].node = ctx[c].node
                      /\ Freed(ToSet(job.cs))[c] = ctx[c] \/ Freed(ToSet(job.cs))[c].node = Nil
  BY <1>1 DEF Freed, Free
<1> QED
  BY <1>1, <1>2, <1>3, <1>4, <1>5

(* Nobody else begins or ceases to wait.                                   *)
LEMMA WaitsSame ==
    ASSUME NEW tr, NEW nd, NEW cx, Waits(tr, nd, cx), NEW nx, NEW new,
           \A n \in tr : nx[n].waiting = nd[n].waiting,
           \A c \in Ctxs : new[c].node = cx[c].node /\ (new[c].state = cx[c].state \/ new[c].node = Nil)
    PROVE  Waits(tr, nx, new)
<1>1. \A n : {c \in Ctxs : new[c].node = n} = {c \in Ctxs : cx[c].node = n}
  OBVIOUS
<1> QED
  BY <1>1 DEF Waits

(* A valid answer is in its queue, and goes to its head when it is used.   *)
LEMMA UsedFits ==
    ASSUME Given, IInv, NEW n, Usable(n)
    PROVE  Fits(tree, resendq, ToHead(expireq, n), Touched(n)) /\ Waits(tree, Touched(n), ctx)
<1> DEFINE new == [node[n] EXCEPT !.left = Expire]
<1>1. n \in tree /\ n \in Names /\ node[n].valid >= 0 /\ node[n] \in Node
  BY Before DEF Usable
<1>2. n \notin ToSet(resendq) /\ n \in ToSet(expireq)
  BY <1>1, Before DEF Asks
<1>3. new \in Node /\ new.left = Expire /\ new.waiting = node[n].waiting /\ new.ans = node[n].ans
  <2>1. Expire \in Int
    BY Before
  <2>2. new \in Node
    BY <1>1, <2>1, NodeWritten
  <2>3. node[n] \in Node
    BY <1>1
  <2> QED
    BY ONLY <2>2, <2>3 DEF Node
<1> HIDE DEF new
<1>4. Settles(new)
  BY <1>2, <1>3, Before DEF Settles
<1>5. Touched(n) = [node EXCEPT ![n] = new]
  BY <1>1 DEF Touched, new
<1>6. Fits(tree, resendq, ToHead(expireq, n), Touched(n))
  <2>1. Without(resendq, n) = resendq
    BY <1>2 DEF Without
  <2>2. Fits(tree, Without(resendq, n), ToHead(expireq, n), [node EXCEPT ![n] = new])
    BY <1>1, <1>3, <1>4, Before, FitsSettle
  <2> QED
    BY <1>5, <2>1, <2>2
<1>7. \A m \in tree : Touched(n)[m].waiting = node[m].waiting
  BY <1>3, <1>5, Before
<1> QED
  BY <1>6, <1>7, Before, WaitsSame

(* ngx_resolve_name *)
LEMMA StartKeeps ==
    ASSUME Given, IInv, NEW c \in conf.ctxs, NEW n \in conf.wanted, Start(c, n)
    PROVE  Kept
<1> DEFINE new == [Free EXCEPT !.state = "again"]
<1>1. c \in Ctxs /\ n \in Names
  BY Before
<1>2. /\ ctx[c].state = "free" /\ ctx' = [ctx EXCEPT ![c] = new]
      /\ job' = [cs |-> <<c>>, name |-> n, new |-> TRUE]
      /\ tree' = tree /\ node' = node /\ resendq' = resendq /\ expireq' = expireq
      /\ armed' = armed /\ asked' = asked
  BY DEF Start
<1>3. new \in Request /\ new.node = Nil /\ new.state = "again"
  BY FreeTyped
<1> HIDE DEF new
<1>4. ctx[c].node = Nil
  BY <1>1, <1>2, Before DEF Waits
<1>5. ctx' \in [Ctxs -> Request] /\ ctx'[c] = new /\ \A d \in Ctxs \ {c} : ctx'[d] = ctx[d]
  BY <1>1, <1>2, <1>3, Before
<1>6. Waits(tree, node, ctx')
  <2>1. \A d \in Ctxs : ctx'[d].node = ctx[d].node /\ (ctx'[d].state = ctx[d].state \/ ctx'[d].node = Nil)
    BY <1>3, <1>4, <1>5
  <2> QED
    BY <2>1, Before, WaitsSame
<1>7. Works(job', ctx')
  <2>1. job' \in Job /\ job'.cs = <<c>>
    BY <1>1, <1>2 DEF Job
  <2>2. IsInjective(<<c>>) /\ <<c>> # <<>> /\ ToSet(<<c>>) = {c}
    BY DEF IsInjective, ToSet
  <2> QED
    BY <1>3, <1>5, <2>1, <2>2 DEF Works
<1> QED
  BY <1>2, <1>5, <1>6, <1>7, Before DEF Kept, Good

LEMMA CachedKeeps ==
    ASSUME Given, IInv, Cached \/ TooManyAliases
    PROVE  Kept
<1>1. /\ job # Nil /\ Usable(job.name) /\ job' = Nil /\ asked' = asked
      /\ Done(ToSet(job.cs), tree, resendq, ToHead(expireq, job.name), Touched(job.name))
  BY DEF Cached, TooManyAliases
<1>2. /\ Fits(tree, resendq, ToHead(expireq, job.name), Touched(job.name))
      /\ Waits(tree, Touched(job.name), ctx)
  BY <1>1, UsedFits
<1>3. Waits(tree, Touched(job.name), Freed(ToSet(job.cs)))
  BY <1>1, <1>2, JobFacts, WaitsSame
<1> QED
  BY <1>1, <1>2, <1>3, Before, JobFacts, DoneKeeps DEF Kept

LEMMA CachedAliasKeeps ==
    ASSUME Given, IInv, CachedAlias
    PROVE  Kept
<1> DEFINE h == Head(job.cs)
           new == [ctx[h] EXCEPT !.rec = @ + 1]
<1>1. /\ job # Nil /\ Usable(job.name) /\ node[job.name].cname # Nil /\ ctx[h].rec < MaxRec
      /\ ctx' = [ctx EXCEPT ![h] = new]
      /\ node' = Touched(job.name) /\ expireq' = ToHead(expireq, job.name)
      /\ job' = [job EXCEPT !.name = node[job.name].cname]
      /\ tree' = tree /\ resendq' = resendq /\ armed' = armed /\ asked' = asked
  BY DEF CachedAlias, MayFollow, Deeper
<1>2. /\ Fits(tree', resendq', expireq', node')
      /\ Waits(tree, node', ctx)
  BY <1>1, UsedFits
<1>3. h \in Ctxs /\ ctx[h] \in Request
  BY <1>1, JobFacts, Before
<1>4. new \in Request /\ new.node = ctx[h].node /\ new.state = ctx[h].state
  <2>1. ctx[h].rec \in 0 .. MaxRec /\ MaxRec \in Nat
    BY <1>3, Before DEF Request
  <2>2. ctx[h].rec + 1 \in 0 .. MaxRec
    BY <1>1, <2>1
  <2>3. new \in Request
    BY <1>3, <2>2, RequestWritten
  <2> QED
    BY ONLY <1>3, <2>3 DEF Request
<1> HIDE DEF new, h
<1>5. ctx' \in [Ctxs -> Request] /\ \A c \in Ctxs : ctx'[c].node = ctx[c].node /\ ctx'[c].state = ctx[c].state
  BY <1>1, <1>3, <1>4, Before
<1>6. Waits(tree', node', ctx')
  BY <1>1, <1>2, <1>5, WaitsSame
<1>7. Works(job', ctx')
  <2>1. node[job.name].cname \in Names
    BY <1>1, JobFacts, Before DEF Node
  <2>2. job' \in Job /\ job'.cs = job.cs
    BY <1>1, <2>1, JobFacts DEF Job
  <2> QED
    BY <1>1, <1>5, <2>2, JobFacts DEF Works
<1> QED
  BY <1>1, <1>2, <1>5, <1>6, <1>7, Before DEF Kept, Good

(* Those who begin to wait.                                                *)
LEMMA WaitFacts ==
    ASSUME Given, IInv, job # Nil, Wait(job.cs, job.name)
    PROVE  /\ ctx' \in [Ctxs -> Request]
           /\ \A c \in ToSet(job.cs) : ctx'[c].node = job.name /\ ctx'[c].state = "again"
           /\ \A c \in Ctxs \ ToSet(job.cs) : ctx'[c] = ctx[c]
<1> DEFINE C == ToSet(job.cs)
           n == job.name
           new(c) == [ctx[c] EXCEPT !.node = n, !.timer = @ \/ c = Head(job.cs)]
<1>1. ctx' = [c \in Ctxs |-> IF c \in C THEN new(c) ELSE ctx[c]]
  BY DEF Wait
<1>2. C \subseteq Ctxs /\ n \in Names /\ ctx \in [Ctxs -> Request] /\ \A c \in C : ctx[c].state = "again"
  BY JobFacts, Before
<1> HIDE DEF C, n
<1>3. ASSUME NEW c \in C PROVE new(c) \in Request /\ new(c).node = n /\ new(c).state = "again"
  <2>1. ctx[c] \in Request /\ ctx[c].state = "again"
    BY <1>2
  <2>2. new(c) \in Request
    BY <1>2, <2>1 DEF Request
  <2>3. new(c).node = n /\ new(c).state = "again"
    BY <1>2, <2>1 DEF Request
  <2> QED
    BY <2>2, <2>3
<1> HIDE DEF new
<1>4. \A c \in C : ctx'[c] = new(c)
  BY <1>1, <1>2
<1>5. \A c \in Ctxs \ C : ctx'[c] = ctx[c]
  BY <1>1
<1>6. ctx' \in [Ctxs -> Request]
  BY <1>1, <1>2, <1>3
<1> QED
  BY <1>3, <1>4, <1>5, <1>6 DEF C, n

(* Who waits, waits for a name in the tree that is not settled.            *)
LEMMA NobodyWaits ==
    ASSUME Given, IInv, NEW n \in Names, MustAsk(n)
    PROVE  \A c \in Ctxs : ctx[c].node # n
<1>1. SUFFICES ASSUME NEW c \in Ctxs, ctx[c].node = n PROVE FALSE
  OBVIOUS
<1>2. n \in tree /\ c \in ToSet(node[n].waiting)
  BY <1>1, Before DEF Waits
<1>3. node[n].waiting # <<>>
  BY <1>2 DEF ToSet
<1> QED
  BY <1>2, <1>3 DEF MustAsk

LEMMA JoinKeeps ==
    ASSUME Given, IInv, Join
    PROVE  Kept
<1> DEFINE n == job.name
           new == [node[n] EXCEPT !.waiting = job.cs \o @]
<1>1. /\ job # Nil /\ n \in tree /\ node[n].waiting # <<>> /\ Wait(job.cs, n) /\ job' = Nil
      /\ node' = [node EXCEPT ![n] = new]
      /\ tree' = tree /\ resendq' = resendq /\ expireq' = expireq /\ armed' = armed /\ asked' = asked
  BY DEF Join
<1>2. n \in Names /\ node[n] \in Node /\ node[n].waiting \in Seq(Ctxs)
  <2>1. n \in Names /\ node[n] \in Node
    BY <1>1, Before
  <2> QED
    BY <2>1 DEF Node
<1>3. n \in ToSet(resendq) /\ n \notin ToSet(expireq) /\ Asks(node[n])
  BY <1>1, Before DEF Settles
<1>4. /\ IsInjective(node[n].waiting)
      /\ ToSet(node[n].waiting) = {c \in Ctxs : ctx[c].node = n}
  BY <1>1, Before DEF Waits
<1>5. /\ job.cs \o node[n].waiting \in Seq(Ctxs)
      /\ IsInjective(job.cs \o node[n].waiting)
      /\ ToSet(job.cs \o node[n].waiting) = ToSet(job.cs) \cup ToSet(node[n].waiting)
  <2>1. job.cs \in Seq(Ctxs) /\ IsInjective(job.cs) /\ ToSet(job.cs) \cap ToSet(node[n].waiting) = {}
    BY <1>1, <1>2, <1>4, JobFacts, Before
  <2> HIDE DEF n
  <2> QED
    BY <1>2, <1>4, <2>1, QueueJoin
<1>6. /\ new \in Node /\ new.waiting = job.cs \o node[n].waiting
      /\ new.left = node[n].left /\ new.valid = node[n].valid
  <2>1. new \in Node
    BY <1>2, <1>5, NodeWritten
  <2> QED
    BY <1>2, <2>1 DEF Node
<1> HIDE DEF new
<1>7. Fits(tree', resendq', expireq', node')
  <2>1. Asks(new) /\ new.left >= -1
    BY <1>2, <1>3, <1>6, Before DEF Asks
  <2> QED
    BY <1>1, <1>2, <1>3, <1>6, <2>1, Before, FitsChange
<1>8. /\ ctx' \in [Ctxs -> Request]
      /\ \A c \in ToSet(job.cs) : ctx'[c].node = n /\ ctx'[c].state = "again"
      /\ \A c \in Ctxs \ ToSet(job.cs) : ctx'[c] = ctx[c]
      /\ ToSet(job.cs) \subseteq Ctxs /\ \A c \in ToSet(job.cs) : ctx[c].node = Nil
  BY <1>1, WaitFacts, JobFacts
<1>9. node'[n] = new /\ \A m \in Names \ {n} : node'[m] = node[m]
  BY <1>1, <1>2, Before
<1> HIDE DEF n
<1>10. Waits(tree', node', ctx')
  <2>1. ASSUME NEW c \in Ctxs, ctx'[c].node # Nil
        PROVE  ctx'[c].node \in tree' /\ ctx'[c].state = "again"
    BY <1>1, <1>8, <2>1, Before DEF Waits
  <2>2. ASSUME NEW m \in tree
        PROVE  /\ IsInjective(node'[m].waiting)
               /\ ToSet(node'[m].waiting) = {c \in Ctxs : ctx'[c].node = m}
    <3>1. CASE m = n
      <4>1. {c \in Ctxs : ctx'[c].node = n} = ToSet(job.cs) \cup {c \in Ctxs : ctx[c].node = n}
        BY <1>8
      <4> QED
        BY <1>4, <1>5, <1>6, <1>9, <3>1, <4>1
    <3>2. CASE m # n
      <4>1. m \in Names /\ node'[m] = node[m] /\ m # Nil
        BY <1>9, <3>2, Before
      <4>2. {c \in Ctxs : ctx'[c].node = m} = {c \in Ctxs : ctx[c].node = m}
        BY <1>8, <3>2, <4>1
      <4> QED
        BY <4>1, <4>2, Before DEF Waits
    <3> QED
      BY <3>1, <3>2
  <2> QED
    BY <1>1, <2>1, <2>2 DEF Waits
<1> QED
  BY <1>1, <1>7, <1>8, <1>10, Before DEF Kept, Good, Works

(* ngx_resolver_send_query for a name nobody waited for.                   *)
LEMMA AskKeeps ==
    ASSUME Given, IInv, NEW f \in [conf.types -> conf.idents], Ask(f)
    PROVE  Kept
<1> DEFINE n == job.name
           new == [NewNode EXCEPT !.ident = f, !.left = Resend, !.waiting = job.cs]
<1>1. /\ job # Nil /\ MustAsk(n) /\ Wait(job.cs, n) /\ job' = Nil
      /\ tree' = tree \cup {n} /\ node' = [node EXCEPT ![n] = new]
      /\ asked' = asked \cup {[name |-> n, type |-> t, ident |-> f[t]] : t \in conf.types}
      /\ armed' = (armed \/ Without(resendq, n) = <<>>)
      /\ resendq' = ToHead(resendq, n) /\ expireq' = Without(expireq, n)
  BY DEF Ask, ResendEmpty
<1>2. n \in Names /\ job.cs \in Seq(Ctxs) /\ IsInjective(job.cs) /\ ToSet(job.cs) \subseteq Ctxs
  BY <1>1, JobFacts
<1>3. new \in Node /\ new.waiting = job.cs /\ new.left = Resend /\ Asks(new)
  <2>1. job.cs \in Seq(Ctxs) /\ Resend \in Int /\ f \in [conf.types -> conf.idents]
    BY <1>2, Before
  <2>2. new.waiting = job.cs /\ new.left = Resend /\ new.valid = -1
    BY DEF NewNode
  <2>3. new \in Node
    <3>1. \A r \in Node : \A w \in Seq(Ctxs), l \in Int, g \in [conf.types -> conf.idents \cup {Nil}] :
             [r EXCEPT !.ident = g, !.left = l, !.waiting = w] \in Node
      BY DEF Node
    <3>2. f \in [conf.types -> conf.idents \cup {Nil}]
      OBVIOUS
    <3> QED
      BY <2>1, <3>1, <3>2, NewNodeTyped
  <2> HIDE DEF new
  <2> QED
    BY <2>1, <2>2, <2>3 DEF Asks
<1> HIDE DEF new
<1>4. Fits(tree', resendq', expireq', node')
  BY <1>1, <1>2, <1>3, Before, FitsAsk
<1>5. /\ ctx' \in [Ctxs -> Request]
      /\ \A c \in ToSet(job.cs) : ctx'[c].node = n /\ ctx'[c].state = "again"
      /\ \A c \in Ctxs \ ToSet(job.cs) : ctx'[c] = ctx[c]
      /\ \A c \in ToSet(job.cs) : ctx[c].node = Nil
      /\ \A c \in Ctxs : ctx[c].node # n
  BY <1>1, <1>2, WaitFacts, JobFacts, NobodyWaits
<1>6. node'[n] = new /\ \A m \in Names \ {n} : node'[m] = node[m]
  BY <1>1, <1>2, Before
<1>7. asked' \subseteq Question
  <2>1. \A t \in conf.types : [name |-> n, type |-> t, ident |-> f[t]] \in Question
    BY <1>2 DEF Question
  <2> QED
    BY <1>1, <2>1, Before
<1> HIDE DEF n
<1>8. Waits(tree', node', ctx')
  <2>1. ASSUME NEW c \in Ctxs, ctx'[c].node # Nil
        PROVE  ctx'[c].node \in tree' /\ ctx'[c].state = "again"
    BY <1>1, <1>5, <2>1, Before DEF Waits
  <2>2. ASSUME NEW m \in tree'
        PROVE  /\ IsInjective(node'[m].waiting)
               /\ ToSet(node'[m].waiting) = {c \in Ctxs : ctx'[c].node = m}
    <3>1. CASE m = n
      <4>1. {c \in Ctxs : ctx'[c].node = n} = ToSet(job.cs)
        BY <1>2, <1>5
      <4> QED
        BY <1>2, <1>3, <1>6, <3>1, <4>1
    <3>2. CASE m # n
      <4>1. m \in tree /\ m \in Names /\ node'[m] = node[m] /\ m # Nil
        BY <1>1, <1>6, <2>2, <3>2, Before
      <4>2. {c \in Ctxs : ctx'[c].node = m} = {c \in Ctxs : ctx[c].node = m}
        BY <1>5, <3>2, <4>1
      <4> QED
        BY <4>1, <4>2, Before DEF Waits
    <3> QED
      BY <3>1, <3>2
  <2> QED
    BY <2>1, <2>2 DEF Waits
<1>9. armed' \in BOOLEAN /\ armed'
  <2>1. Without(resendq, n) # <<>> => armed
    BY Before, StillThere DEF Placed
  <2> QED
    BY <1>1, <2>1, Before
<1> QED
  BY <1>1, <1>4, <1>5, <1>7, <1>8, <1>9 DEF Kept, Good, Works

(* What is left when a name that nobody waits for is taken out.            *)
LEMMA ForgetFits ==
    ASSUME Given, IInv, NEW n \in Names, \A c \in Ctxs : ctx[c].node # n
    PROVE  /\ Fits(tree \ {n}, Without(resendq, n), Without(expireq, n), node)
           /\ Waits(tree \ {n}, node, ctx)
           /\ Without(resendq, n) # <<>> => armed
<1>1. Fits(tree \ {n}, Without(resendq, n), Without(expireq, n), node)
  BY Before, FitsForget
<1>2. Waits(tree \ {n}, node, ctx)
  BY Before DEF Waits
<1>3. Without(resendq, n) # <<>> => armed
  BY Before, StillThere DEF Placed
<1> QED
  BY <1>1, <1>2, <1>3

LEMMA AskInvalidKeeps ==
    ASSUME Given, IInv, AskInvalid
    PROVE  Kept
<1>1. /\ job # Nil /\ MustAsk(job.name) /\ job' = Nil /\ asked' = asked
      /\ Done(ToSet(job.cs), tree \ {job.name}, Without(resendq, job.name),
              Without(expireq, job.name), node)
  BY DEF AskInvalid
<1>2. /\ Fits(tree \ {job.name}, Without(resendq, job.name), Without(expireq, job.name), node)
      /\ Waits(tree \ {job.name}, node, ctx)
      /\ Without(resendq, job.name) # <<>> => armed
  BY <1>1, JobFacts, NobodyWaits, ForgetFits
<1>3. Waits(tree \ {job.name}, node, Freed(ToSet(job.cs)))
  BY <1>1, <1>2, JobFacts, WaitsSame
<1> QED
  BY <1>1, <1>2, <1>3, JobFacts, DoneKeeps DEF Kept

(* A node that is in no queue is written over.                             *)
LEMMA FitsNew ==
    ASSUME Given, NEW tr, NEW rq, NEW eq, NEW nd, Fits(tr, rq, eq, nd), NEW n \in Names, n \notin tr
    PROVE  Fits(tr, rq, eq, [nd EXCEPT ![n] = NewNode])
<1>1. n \notin ToSet(rq) /\ n \notin ToSet(eq)
  BY DEF Fits, Placed
<1>2. NewNode \in Node /\ NewNode.left >= -1
  BY NewNodeTyped
<1> QED
  BY <1>1, <1>2, FitsChange

LEMMA FailsKeeps ==
    ASSUME Given, IInv, Fails
    PROVE  Kept
<1> DEFINE n == job.name
<1>1. /\ job # Nil /\ job' = Nil /\ armed' = armed /\ asked' = asked
      /\ ctx' = IF job.new THEN [ctx EXCEPT ![Head(job.cs)] = Free] ELSE ctx
      /\ \/ /\ MustAsk(n)
            /\ tree' = tree \ {n} /\ resendq' = Without(resendq, n) /\ expireq' = Without(expireq, n)
            /\ node' = [node EXCEPT ![n] = NewNode]
         \/ /\ Usable(n) /\ node' = Touched(n) /\ expireq' = ToHead(expireq, n)
            /\ tree' = tree /\ resendq' = resendq
         \/ tree' = tree /\ node' = node /\ resendq' = resendq /\ expireq' = expireq
  BY DEF Fails
<1>2. n \in Names
  BY <1>1, JobFacts
<1>3. /\ Fits(tree', resendq', expireq', node') /\ Waits(tree', node', ctx)
      /\ resendq' # <<>> => armed
  <2>1. CASE /\ MustAsk(n)
             /\ tree' = tree \ {n} /\ resendq' = Without(resendq, n) /\ expireq' = Without(expireq, n)
             /\ node' = [node EXCEPT ![n] = NewNode]
    <3>1. /\ Fits(tree \ {n}, Without(resendq, n), Without(expireq, n), node)
          /\ Waits(tree \ {n}, node, ctx)
          /\ Without(resendq, n) # <<>> => armed
      BY <1>2, <2>1, NobodyWaits, ForgetFits
    <3>2. n \notin tree \ {n}
      OBVIOUS
    <3>3. Fits(tree \ {n}, Without(resendq, n), Without(expireq, n), [node EXCEPT ![n] = NewNode])
      BY <1>2, <3>1, <3>2, FitsNew
    <3>4. \A m \in tree \ {n} : node'[m].waiting = node[m].waiting
      BY <2>1, Before
    <3>5. Waits(tree \ {n}, node', ctx)
      BY <3>1, <3>4, WaitsSame
    <3> QED
      BY <2>1, <3>1, <3>3, <3>5
  <2>2. CASE /\ Usable(n) /\ node' = Touched(n) /\ expireq' = ToHead(expireq, n)
             /\ tree' = tree /\ resendq' = resendq
    BY <2>2, UsedFits, Before
  <2>3. CASE tree' = tree /\ node' = node /\ resendq' = resendq /\ expireq' = expireq
    BY <2>3, Before
  <2> QED
    BY <1>1, <2>1, <2>2, <2>3
<1>4. /\ ctx' \in [Ctxs -> Request]
      /\ \A c \in Ctxs : /\ ctx'[c].node = ctx[c].node
                         /\ ctx'[c].state = ctx[c].state \/ ctx'[c].node = Nil
  <2>1. Head(job.cs) \in Ctxs /\ ctx[Head(job.cs)].node = Nil
    BY <1>1, JobFacts
  <2> QED
    BY <1>1, <2>1, Before, FreeTyped
<1>5. Waits(tree', node', ctx')
  BY <1>3, <1>4, WaitsSame
<1> QED
  BY <1>1, <1>3, <1>4, <1>5, Before DEF Kept, Good, Works

-----------------------------------------------------------------------------
(* The node of an answer that is awaited.                                  *)
LEMMA ExpectedFacts ==
    ASSUME Given, IInv, NEW q \in asked, Expected(q)
    PROVE  /\ job = Nil /\ q.name \in Names /\ q.name \in tree /\ q.type \in conf.types
           /\ node[q.name] \in Node /\ node[q.name].left >= -1
           /\ q.name \in ToSet(resendq) /\ q.name \notin ToSet(expireq) /\ Asks(node[q.name])
           /\ resendq # <<>> /\ armed
           /\ node[q.name].waiting \in Seq(Ctxs) /\ IsInjective(node[q.name].waiting)
           /\ ToSet(node[q.name].waiting) = {c \in Ctxs : ctx[c].node = q.name}
           /\ ToSet(node[q.name].waiting) \in SUBSET Ctxs
           /\ IsFiniteSet(ToSet(node[q.name].waiting))
           /\ \A c \in ToSet(node[q.name].waiting) : ctx[c].state = "again"
<1> DEFINE n == q.name
<1>1. job = Nil /\ n \in tree /\ n \in Names /\ q.type \in conf.types /\ node[n].ans[q.type] = "open"
  BY Before DEF Expected, Question
<1>2. node[n] \in Node /\ node[n].left >= -1
  BY <1>1, Before
<1>3. n \in ToSet(resendq) /\ n \notin ToSet(expireq) /\ Asks(node[n])
  BY <1>1, Before DEF Settles
<1>4. resendq # <<>> /\ armed
  <2>1. resendq # <<>>
    BY <1>3 DEF ToSet
  <2> QED
    BY <2>1, Before
<1>5. node[n].waiting \in Seq(Ctxs)
  BY <1>2 DEF Node
<1>6. IsInjective(node[n].waiting) /\ ToSet(node[n].waiting) = {c \in Ctxs : ctx[c].node = n}
  BY <1>1, Before DEF Waits
<1>7. IsFiniteSet(ToSet(node[n].waiting))
  BY <1>5, QueueFinite
<1>8. \A c \in ToSet(node[n].waiting) : ctx[c].state = "again"
  BY <1>1, <1>6, Before DEF Waits
<1> QED
  BY <1>1, <1>2, <1>3, <1>4, <1>5, <1>6, <1>7, <1>8

(* Those who waited for a name wait no more.                               *)
LEMMA AllTold ==
    ASSUME Given, IInv, NEW n \in Names, NEW tr, tree \ {n} \subseteq tr, tr \subseteq tree,
           NEW nx, \A m \in tree \ {n} : nx[m].waiting = node[m].waiting,
           n \in tr => nx[n].waiting = <<>>,
           NEW cx, \A c \in Ctxs : IF ctx[c].node = n THEN cx[c].node = Nil
                                   ELSE /\ cx[c].node = ctx[c].node
                                        /\ cx[c].state = ctx[c].state \/ cx[c].node = Nil
    PROVE  Waits(tr, nx, cx)
<1>1. n # Nil
  BY Before
<1>2. ASSUME NEW c \in Ctxs, cx[c].node # Nil PROVE cx[c].node \in tr /\ cx[c].state = "again"
  BY <1>2, Before DEF Waits
<1>3. ASSUME NEW m \in tr
      PROVE  IsInjective(nx[m].waiting) /\ ToSet(nx[m].waiting) = {c \in Ctxs : cx[c].node = m}
  <2>1. CASE m = n
    <3>1. IsInjective(<<>>) /\ ToSet(<<>>) = {}
      BY DEF IsInjective, ToSet
    <3>2. {c \in Ctxs : cx[c].node = n} = {}
      BY <1>1
    <3> QED
      BY <1>3, <2>1, <3>1, <3>2
  <2>2. CASE m # n
    <3>1. m \in tree /\ m # Nil /\ nx[m].waiting = node[m].waiting
      BY <1>3, <2>2, Before
    <3>2. {c \in Ctxs : cx[c].node = m} = {c \in Ctxs : ctx[c].node = m}
      BY <2>2, <3>1
    <3> QED
      BY <3>1, <3>2, Before DEF Waits
  <2> QED
    BY <2>1, <2>2
<1> QED
  BY <1>2, <1>3 DEF Waits

(* A truncated answer.                                                     *)
LEMMA TruncatedKeeps ==
    ASSUME Given, IInv, NEW q \in asked, Truncated(q)
    PROVE  Kept
<1> DEFINE n == q.name
           new == [node[n] EXCEPT !.tcp[q.type] = TRUE, !.left = Resend]
<1>1. /\ Expected(q) /\ expireq' = expireq /\ ctx' = ctx /\ armed' = armed
      /\ asked' = asked /\ job' = job
      /\ IF node[n].waiting = <<>>
         THEN /\ tree' = tree \ {n} /\ resendq' = Without(resendq, n)
              /\ node' = [node EXCEPT ![n] = NewNode]
         ELSE /\ node' = [node EXCEPT ![n] = new]
              /\ resendq' = ToHead(resendq, n) /\ tree' = tree
  BY ExpectedFacts, Before DEF Truncated
<1>2. Fits(tree', resendq', expireq', node') /\ Waits(tree', node', ctx)
  <2>1. CASE node[n].waiting = <<>>
    <3>1. Fits(tree \ {n}, Without(resendq, n), Without(expireq, n), node)
      BY Before, FitsForget
    <3>2. Without(expireq, n) = expireq
      BY <1>1, ExpectedFacts DEF Without
    <3>3. n \in Names /\ n \notin tree \ {n}
      BY <1>1, ExpectedFacts
    <3>4. Fits(tree \ {n}, Without(resendq, n), Without(expireq, n), [node EXCEPT ![n] = NewNode])
      BY <3>1, <3>3, FitsNew
    <3>5. Waits(tree \ {n}, node', ctx)
      <4>1. \A m \in tree \ {n} : node'[m].waiting = node[m].waiting
        BY <1>1, <2>1, Before
      <4>2. \A c \in Ctxs : ctx[c].node # n
        <5>1. ToSet(node[n].waiting) = {}
          BY <2>1 DEF ToSet
        <5>2. ASSUME NEW c \in Ctxs, ctx[c].node = n PROVE c \in ToSet(node[n].waiting)
          BY <1>1, <5>2, ExpectedFacts
        <5> HIDE DEF n
        <5> QED
          BY <5>1, <5>2
      <4> HIDE DEF n
      <4> QED
        BY <3>3, <4>1, <4>2, AllTold
    <3> QED
      BY <1>1, <2>1, <3>2, <3>4, <3>5
  <2>2. CASE node[n].waiting # <<>>
    <3>1. n \in Names /\ n \in tree /\ node[n] \in Node /\ Asks(node[n]) /\ q.type \in conf.types
      BY <1>1, ExpectedFacts
    <3>2. Resend \in Int
      BY Before
    <3>3. /\ new \in Node /\ new.left = Resend /\ new.valid = node[n].valid
          /\ new.waiting = node[n].waiting
      <4>1. node[n] \in Node /\ q.type \in conf.types
        BY <3>1
      <4> QED
        BY ONLY <3>2, <4>1 DEF Node
    <3> HIDE DEF new
    <3>4. Asks(new)
      BY <3>1, <3>2, <3>3 DEF Asks
    <3>5. Fits(tree \cup {n}, ToHead(resendq, n), Without(expireq, n), [node EXCEPT ![n] = new])
      BY <3>1, <3>3, <3>4, Before, FitsAsk
    <3>6. Without(expireq, n) = expireq /\ tree \cup {n} = tree
      BY <1>1, <3>1, ExpectedFacts DEF Without
    <3>7. \A m \in tree : node'[m].waiting = node[m].waiting
      BY <1>1, <2>2, <3>1, <3>3, Before
    <3>8. Waits(tree, node', ctx)
      BY <3>7, Before, WaitsSame
    <3> QED
      BY <1>1, <2>2, <3>5, <3>6, <3>8
  <2> QED
    BY <2>1, <2>2
<1> QED
  BY <1>1, <1>2, ExpectedFacts, Before DEF Kept, Good, Works

(* A node takes note of an answer and goes on asking.                      *)
LEMMA NoteFits ==
    ASSUME Given, IInv, NEW q \in asked, Expected(q), NEW new \in Node,
           new.left = node[q.name].left, new.valid = node[q.name].valid,
           new.waiting = node[q.name].waiting,
           node' = [node EXCEPT ![q.name] = new], tree' = tree, resendq' = resendq,
           expireq' = expireq, ctx' = ctx, armed' = armed, asked' = asked, job' = job
    PROVE  Kept
<1>1. Asks(new) /\ q.name \in Names /\ q.name \notin ToSet(expireq) /\ new.left >= -1
  BY ExpectedFacts DEF Asks
<1>2. Fits(tree, resendq, expireq, node')
  BY <1>1, Before, FitsChange
<1>3. \A m \in tree : node'[m].waiting = node[m].waiting
  BY <1>1, Before
<1>4. Waits(tree, node', ctx)
  BY <1>3, Before, WaitsSame
<1> QED
  BY <1>2, <1>4, ExpectedFacts, Before DEF Kept, Good, Works

LEMMA HalfKeeps ==
    ASSUME Given, IInv, NEW q \in asked, NEW kind, Half(q, kind)
    PROVE  Kept
<1> DEFINE n == q.name
<1>1. PICK a \in {"none", "some"} :
        /\ node' = [[node EXCEPT ![n].ans[q.type] = a] EXCEPT ![n].code = @ \/ kind = "error"]
        /\ Expected(q) /\ tree' = tree /\ resendq' = resendq /\ expireq' = expireq
        /\ ctx' = ctx /\ armed' = armed /\ asked' = asked /\ job' = job
  BY DEF Half, Noted
<1> DEFINE new == [[node[n] EXCEPT !.ans[q.type] = a] EXCEPT !.code = @ \/ kind = "error"]
<1>2. n \in Names /\ node[n] \in Node /\ q.type \in conf.types
  BY <1>1, ExpectedFacts
<1>3. /\ new \in Node /\ new.left = node[n].left /\ new.valid = node[n].valid
      /\ new.waiting = node[n].waiting
  <2> DEFINE r == [node[n] EXCEPT !.ans[q.type] = a]
             b == r.code \/ kind = "error"
  <2>1. r \in Node /\ r.left = node[n].left /\ r.valid = node[n].valid /\ r.waiting = node[n].waiting
    <3>1. node[n] \in Node /\ q.type \in conf.types
      BY <1>2
    <3> QED
      BY ONLY <3>1 DEF Node
  <2>2. b \in BOOLEAN
    OBVIOUS
  <2>3. new = [r EXCEPT !.code = b]
    OBVIOUS
  <2> HIDE DEF new, r, b
  <2>4. /\ [r EXCEPT !.code = b] \in Node /\ [r EXCEPT !.code = b].left = r.left
        /\ [r EXCEPT !.code = b].valid = r.valid /\ [r EXCEPT !.code = b].waiting = r.waiting
    BY ONLY <2>1, <2>2 DEF Node
  <2> QED
    BY <2>1, <2>3, <2>4
<1>4. node' = [node EXCEPT ![n] = new]
  BY <1>1, <1>2, Before
<1> HIDE DEF new
<1> QED
  BY <1>1, <1>3, <1>4, NoteFits

LEMMA UselessKeeps ==
    ASSUME Given, IInv, NEW q \in asked, NEW kind, Useless(q, kind)
    PROVE  Kept
<1> DEFINE n == q.name
<1>1. PICK a \in {"none", "some"} :
        /\ node' = [node EXCEPT ![n].ans[q.type] = a]
        /\ Expected(q) /\ tree' = tree /\ resendq' = resendq /\ expireq' = expireq
        /\ ctx' = ctx /\ armed' = armed /\ asked' = asked /\ job' = job
  BY DEF Useless, Noted
<1> DEFINE new == [node[n] EXCEPT !.ans[q.type] = a]
<1>2. n \in Names /\ node[n] \in Node /\ q.type \in conf.types
  BY <1>1, ExpectedFacts
<1>3. /\ new \in Node /\ new.left = node[n].left /\ new.valid = node[n].valid
      /\ new.waiting = node[n].waiting
  BY ONLY <1>2 DEF Node
<1>4. node' = [node EXCEPT ![n] = new]
  BY <1>1, <1>2, Before
<1> HIDE DEF new
<1> QED
  BY <1>1, <1>3, <1>4, NoteFits

(* The requests of a list are freed.                                       *)
LEMMA FreedFacts ==
    ASSUME Given, IInv, NEW q \in asked, Expected(q)
    PROVE  \A c \in Ctxs :
             LET cx == Freed(ToSet(node[q.name].waiting))
             IN  IF ctx[c].node = q.name THEN cx[c].node = Nil
                 ELSE cx[c].node = ctx[c].node /\ cx[c].state = ctx[c].state
<1>1. \A c \in Ctxs : c \in ToSet(node[q.name].waiting) <=> ctx[c].node = q.name
  BY ExpectedFacts
<1> QED
  BY <1>1, FreeTyped DEF Freed

LEMMA FailedKeeps ==
    ASSUME Given, IInv, NEW q \in asked, NEW kind, Failed(q, kind)
    PROVE  Kept
<1> DEFINE n == q.name
           cs == ToSet(node[n].waiting)
           nx == [node EXCEPT ![n].waiting = <<>>]
           new == [node[n] EXCEPT !.waiting = <<>>]
<1>1. /\ Expected(q) /\ asked' = asked /\ job' = job
      /\ Done(cs, tree \ {n}, Without(resendq, n), expireq, nx)
  BY DEF Failed
<1>2. n \in Names /\ node[n] \in Node /\ node[n].left >= -1
  BY <1>1, ExpectedFacts
<1>3. new \in Node /\ new.left = node[n].left
  <2>1. <<>> \in Seq(Ctxs) /\ node[n] \in Node
    BY <1>2
  <2> QED
    BY ONLY <2>1 DEF Node
<1>4. nx = [node EXCEPT ![n] = new] /\ \A m \in Names \ {n} : nx[m] = node[m]
  BY <1>2, Before
<1> HIDE DEF new, nx
<1>5. Fits(tree \ {n}, Without(resendq, n), expireq, nx)
  <2>1. Fits(tree \ {n}, Without(resendq, n), Without(expireq, n), node)
    BY Before, FitsForget
  <2>2. Without(expireq, n) = expireq
    BY <1>1, ExpectedFacts DEF Without
  <2>3. /\ Fits(tree \ {n}, Without(resendq, n), expireq, node)
        /\ n \notin ToSet(Without(resendq, n)) /\ n \notin ToSet(expireq) /\ n \notin tree \ {n}
    BY <2>1, <2>2 DEF Fits, Placed
  <2> QED
    BY <1>2, <1>3, <1>4, <2>3, FitsChange
<1>6. Waits(tree \ {n}, nx, Freed(cs))
  <2>1. \A m \in tree \ {n} : nx[m].waiting = node[m].waiting
    BY <1>4, Before
  <2>2. \A c \in Ctxs : IF ctx[c].node = n THEN Freed(cs)[c].node = Nil
                        ELSE Freed(cs)[c].node = ctx[c].node /\ Freed(cs)[c].state = ctx[c].state
    BY <1>1, FreedFacts
  <2>3. tree \ {n} \subseteq tree \ {n} /\ tree \ {n} \subseteq tree /\ n \notin tree \ {n}
    OBVIOUS
  <2> HIDE DEF cs, n
  <2> QED
    BY <1>2, <2>1, <2>2, <2>3, AllTold
<1>7. cs \in SUBSET Ctxs /\ IsFiniteSet(cs) /\ job = Nil /\ armed
  BY <1>1, ExpectedFacts
<1> HIDE DEF cs, n
<1> QED
  BY <1>1, <1>5, <1>6, <1>7, DoneKeeps DEF Kept

(* The node with the last answer that was awaited: nobody waits for it.    *)
SettledIn(n, nx) ==
    /\ Fits(tree, Without(resendq, n), ToHead(expireq, n), nx)
    /\ nx[n].waiting = <<>> /\ \A o \in tree \ {n} : nx[o].waiting = node[o].waiting

LEMMA SettledFits ==
    ASSUME Given, IInv, NEW q \in asked, Expected(q), ~OtherOpen(q),
           NEW a \in {"none", "some"}, NEW ttl \in Ttls
    PROVE  /\ SettledIn(q.name, Settled(q, a, ttl))
           /\ \A m \in Names \cup {Nil} : SettledIn(q.name, [Settled(q, a, ttl) EXCEPT ![q.name].cname = m])
<1> DEFINE n == q.name
           low == [[node[n] EXCEPT !.ans[q.type] = a]
                     EXCEPT !.valid = ttl, !.left = Expire, !.waiting = <<>>]
           high(m) == [low EXCEPT !.cname = m]
<1>1. n \in Names /\ n \in tree /\ node[n] \in Node /\ q.type \in conf.types
  BY ExpectedFacts
<1>2. \A t \in conf.types \ {q.type} : node[n].ans[t] # "open"
  BY DEF OtherOpen
<1>3. ttl \in Int /\ Expire \in Int /\ <<>> \in Seq(Ctxs)
  BY Before
<1>4. low \in Node /\ low.left = Expire /\ low.waiting = <<>> /\ \A t \in conf.types : low.ans[t] # "open"
  <2>1. node[n] \in Node /\ q.type \in conf.types
    BY <1>1
  <2>2. low \in Node
    BY ONLY <1>3, <2>1 DEF Node
  <2>3. low.left = Expire /\ low.waiting = <<>> /\ low.ans = [node[n].ans EXCEPT ![q.type] = a]
    BY ONLY <1>3, <2>1 DEF Node
  <2>4. DOMAIN node[n].ans = conf.types
    BY <2>1 DEF Node
  <2> HIDE DEF low
  <2> QED
    BY <1>2, <2>1, <2>2, <2>3, <2>4
<1>5. Settled(q, a, ttl) = [node EXCEPT ![n] = low]
  BY <1>1, Before DEF Settled, Noted
<1>6. \A m : [Settled(q, a, ttl) EXCEPT ![n].cname = m] = [node EXCEPT ![n] = high(m)]
  BY <1>1, <1>5, Before
<1> HIDE DEF low
<1>7. \A m \in Names \cup {Nil} :
        high(m) \in Node /\ high(m).left = Expire /\ high(m).waiting = <<>> /\ high(m).ans = low.ans
  BY ONLY <1>4 DEF Node
<1> HIDE DEF high
<1>8. ASSUME NEW new \in Node, new.left = Expire, new.waiting = <<>>,
             \A t \in conf.types : new.ans[t] # "open"
      PROVE  SettledIn(n, [node EXCEPT ![n] = new])
  <2> DEFINE nx == [node EXCEPT ![n] = new]
  <2>1. Settles(new)
    BY <1>3, <1>8 DEF Settles
  <2>2. nx[n].waiting = <<>> /\ \A o \in tree \ {n} : nx[o].waiting = node[o].waiting
    BY <1>1, <1>8, Before
  <2>3. Fits(tree, Without(resendq, n), ToHead(expireq, n), nx)
    <3> HIDE DEF n
    <3> QED
      BY <1>1, <1>8, <2>1, Before, FitsSettle
  <2> QED
    BY <2>2, <2>3 DEF SettledIn
<1>9. SettledIn(n, Settled(q, a, ttl))
  BY <1>4, <1>5, <1>8
<1>10. ASSUME NEW m \in Names \cup {Nil}
       PROVE  SettledIn(n, [Settled(q, a, ttl) EXCEPT ![n].cname = m])
  <2>1. SettledIn(n, [node EXCEPT ![n] = high(m)])
    BY <1>4, <1>7, <1>8
  <2> QED
    BY <1>6, <2>1
<1> QED
  BY <1>9, <1>10

(* Settled, and all who waited are told.                                   *)
LEMMA ToldKeeps ==
    ASSUME Given, IInv, NEW q \in asked, Expected(q), NEW nx, SettledIn(q.name, nx),
           Done(ToSet(node[q.name].waiting), tree, Without(resendq, q.name), ToHead(expireq, q.name), nx),
           asked' = asked, job' = job
    PROVE  Kept
<1> DEFINE n == q.name
           cs == ToSet(node[n].waiting)
<1>1. \A c \in Ctxs : IF ctx[c].node = n THEN Freed(cs)[c].node = Nil
                      ELSE Freed(cs)[c].node = ctx[c].node /\ Freed(cs)[c].state = ctx[c].state
  BY FreedFacts
<1>2. cs \in SUBSET Ctxs /\ IsFiniteSet(cs) /\ job = Nil /\ armed /\ n \in Names
  BY ExpectedFacts
<1>3. Waits(tree, nx, Freed(cs))
  <2>1. tree \ {n} \subseteq tree /\ tree \subseteq tree
    OBVIOUS
  <2> HIDE DEF cs
  <2> QED
    BY <1>1, <1>2, <2>1, AllTold DEF SettledIn
<1> QED
  BY <1>2, <1>3, DoneKeeps DEF Kept, SettledIn

LEMMA ResolvedKeeps ==
    ASSUME Given, IInv, NEW q \in asked, NEW kind, NEW ttl \in Ttls, Resolved(q, kind, ttl)
    PROVE  Kept
<1>1. PICK a \in {"none", "some"} :
        /\ Expected(q) /\ ~OtherOpen(q) /\ asked' = asked /\ job' = job
        /\ Done(ToSet(node[q.name].waiting), tree, Without(resendq, q.name),
                ToHead(expireq, q.name), Settled(q, a, ttl))
  BY DEF Resolved
<1> DEFINE nx == Settled(q, a, ttl)
<1>2. SettledIn(q.name, nx)
  BY <1>1, SettledFits
<1> HIDE DEF nx
<1> QED
  BY <1>1, <1>2, ToldKeeps DEF nx

LEMMA AliasKeeps ==
    ASSUME Given, IInv, NEW q \in asked, NEW m \in conf.names, NEW ttl \in Ttls, Alias(q, m, ttl)
    PROVE  Kept
<1> DEFINE n == q.name
           cs == node[n].waiting
           nx == [Settled(q, "none", ttl) EXCEPT ![n].cname = m]
           rq == Without(resendq, n)
           eq == ToHead(expireq, n)
           h == Head(cs)
           new == [ctx[h] EXCEPT !.rec = @ + 1]
           cx == [ctx EXCEPT ![h] = new]
<1>1. /\ Expected(q) /\ ~OtherOpen(q) /\ asked' = asked
      /\ \/ /\ cs = <<>> /\ node' = nx /\ resendq' = rq /\ expireq' = eq
            /\ tree' = tree /\ ctx' = ctx /\ armed' = armed /\ job' = job
         \/ Done(ToSet(cs), tree, rq, eq, nx) /\ job' = job
         \/ /\ cs # <<>> /\ ctx[h].rec < MaxRec
            /\ ctx' = [c \in Ctxs |-> IF c \in ToSet(cs)
                                      THEN [cx[c] EXCEPT !.node = Nil]
                                      ELSE ctx[c]]
            /\ job' = [cs |-> cs, name |-> m, new |-> FALSE]
            /\ node' = nx /\ resendq' = rq /\ expireq' = eq
            /\ tree' = tree /\ armed' = armed
  BY DEF Alias, MayFollow, Deeper
<1>2. /\ SettledIn(n, nx) /\ Fits(tree, rq, eq, nx)
      /\ nx[n].waiting = <<>> /\ \A o \in tree \ {n} : nx[o].waiting = node[o].waiting
  <2>1. m \in Names \cup {Nil}
    BY Before
  <2>2. SettledIn(n, nx)
    BY <1>1, <2>1, SettledFits
  <2> HIDE DEF nx
  <2> QED
    BY <2>2 DEF SettledIn
<1>3. /\ job = Nil /\ n \in Names /\ n \in tree /\ armed
      /\ cs \in Seq(Ctxs) /\ IsInjective(cs) /\ ToSet(cs) \subseteq Ctxs
      /\ ToSet(cs) = {c \in Ctxs : ctx[c].node = n}
      /\ \A c \in ToSet(cs) : ctx[c].state = "again"
  BY <1>1, ExpectedFacts
<1> HIDE DEF nx
<1>4. CASE /\ cs = <<>> /\ node' = nx /\ resendq' = rq /\ expireq' = eq
           /\ tree' = tree /\ ctx' = ctx /\ armed' = armed /\ job' = job
  <2>1. node[n].waiting = nx[n].waiting
    BY <1>2, <1>4
  <2>2. \A o \in tree : nx[o].waiting = node[o].waiting
    BY <1>2, <2>1
  <2>3. Waits(tree, nx, ctx)
    BY <2>2, Before, WaitsSame
  <2> QED
    BY <1>1, <1>2, <1>3, <1>4, <2>3, Before DEF Kept, Good, Works
<1>5. CASE Done(ToSet(cs), tree, rq, eq, nx) /\ job' = job
  BY <1>1, <1>2, <1>5, ToldKeeps
<1>6. CASE /\ cs # <<>> /\ ctx[h].rec < MaxRec
           /\ ctx' = [c \in Ctxs |-> IF c \in ToSet(cs)
                                     THEN [cx[c] EXCEPT !.node = Nil]
                                     ELSE ctx[c]]
           /\ job' = [cs |-> cs, name |-> m, new |-> FALSE]
           /\ node' = nx /\ resendq' = rq /\ expireq' = eq
           /\ tree' = tree /\ armed' = armed
  <2>1. h \in ToSet(cs) /\ h \in Ctxs /\ ctx[h] \in Request
    BY <1>3, <1>6, QueueHead, Before
  <2>2. new \in Request /\ new.state = ctx[h].state
    <3>1. ctx[h].rec \in 0 .. MaxRec /\ MaxRec \in Nat
      BY <2>1, Before DEF Request
    <3>2. ctx[h].rec + 1 \in 0 .. MaxRec
      <4>1. ctx[h].rec < MaxRec
        BY <1>6
      <4> HIDE DEF h, cx
      <4> QED
        BY <3>1, <4>1
    <3>3. new \in Request
      BY <2>1, <3>2, RequestWritten
    <3> QED
      BY ONLY <2>1, <3>3 DEF Request
  <2>3. cx \in [Ctxs -> Request] /\ \A c \in Ctxs : cx[c].state = ctx[c].state
    BY <2>1, <2>2, Before
  <2> HIDE DEF cx, new, h
  <2>5. ctx' = [c \in Ctxs |-> IF c \in ToSet(cs) THEN [cx[c] EXCEPT !.node = Nil] ELSE ctx[c]]
    BY <1>6
  <2>6. \A c \in Ctxs : /\ [cx[c] EXCEPT !.node = Nil] \in Request
                        /\ [cx[c] EXCEPT !.node = Nil].node = Nil
                        /\ [cx[c] EXCEPT !.node = Nil].state = ctx[c].state
    <3>1. ASSUME NEW r \in Request
          PROVE  /\ [r EXCEPT !.node = Nil] \in Request /\ [r EXCEPT !.node = Nil].node = Nil
                 /\ [r EXCEPT !.node = Nil].state = r.state
      BY ONLY <3>1 DEF Request
    <3> QED
      BY <2>3, <3>1
  <2>7. /\ ctx' \in [Ctxs -> Request]
        /\ \A c \in ToSet(cs) : ctx'[c].node = Nil /\ ctx'[c].state = "again"
        /\ \A c \in Ctxs \ ToSet(cs) : ctx'[c] = ctx[c]
    <3>1. \A c \in Ctxs : ctx'[c] \in Request
      BY <2>5, <2>6, Before
    <3>2. \A c \in ToSet(cs) : ctx'[c].node = Nil /\ ctx'[c].state = "again"
      BY <1>3, <2>5, <2>6
    <3> QED
      BY <2>5, <3>1, <3>2
  <2>8. Waits(tree, nx, ctx')
    <3>1. \A c \in Ctxs : IF ctx[c].node = n THEN ctx'[c].node = Nil
                          ELSE ctx'[c].node = ctx[c].node /\ ctx'[c].state = ctx[c].state
      BY <1>3, <2>7
    <3>2. tree \ {n} \subseteq tree /\ tree \subseteq tree
      OBVIOUS
    <3> HIDE DEF n, cs, rq, eq
    <3> QED
      BY <1>2, <1>3, <3>1, <3>2, AllTold
  <2>9. Works(job', ctx')
    <3>1. job' \in Job /\ job'.cs = cs
      BY <1>3, <1>6, Before DEF Job
    <3> QED
      BY <1>3, <1>6, <2>7, <3>1 DEF Works
  <2> HIDE DEF cs
  <2> QED
    BY <1>1, <1>2, <1>3, <1>6, <2>7, <2>8, <2>9, Before DEF Kept, Good
<1> QED
  BY <1>1, <1>4, <1>5, <1>6

-----------------------------------------------------------------------------
(* A request gives up, or runs out of time.                                *)
LEMMA GiveUpKeeps ==
    ASSUME Given, IInv, NEW c \in Ctxs, GiveUp(c)
    PROVE  Kept
<1>1. /\ job = Nil /\ asked' = asked /\ job' = job
      /\ Done({c}, tree, resendq, expireq, Cancelled(c))
  BY DEF GiveUp
<1>2. \A d \in Ctxs : Freed({c})[d] = IF d = c THEN Free ELSE ctx[d]
  BY DEF Freed
<1>3. Free.node = Nil
  BY FreeTyped
<1>4. CASE ctx[c].node = Nil
  <2>1. Cancelled(c) = node
    BY <1>4 DEF Cancelled
  <2>2. Waits(tree, node, Freed({c}))
    BY <1>2, <1>3, <1>4, Before, WaitsSame
  <2>3. {c} \in SUBSET Ctxs /\ IsFiniteSet({c})
    BY FS_Singleton
  <2> QED
    BY <1>1, <2>1, <2>2, <2>3, Before, DoneKeeps DEF Kept
<1>5. CASE ctx[c].node # Nil
  <2> DEFINE n == ctx[c].node
             w == Without(node[n].waiting, c)
             new == [node[n] EXCEPT !.waiting = w]
             nx == [node EXCEPT ![n] = new]
  <2>1. n \in tree /\ n \in Names /\ node[n] \in Node
    BY <1>5, Before DEF Waits
  <2>2. /\ node[n].waiting \in Seq(Ctxs) /\ IsInjective(node[n].waiting)
        /\ ToSet(node[n].waiting) = {d \in Ctxs : ctx[d].node = n}
    BY <2>1, Before DEF Waits, Node
  <2>3. n \in ToSet(resendq) /\ n \notin ToSet(expireq) /\ Asks(node[n]) /\ node[n].left >= -1
    <3>1. c \in ToSet(node[n].waiting)
      BY <2>2
    <3>2. node[n].waiting # <<>>
      BY <3>1 DEF ToSet
    <3> QED
      BY <2>1, <3>2, Before DEF Settles
  <2>4. w \in Seq(Ctxs) /\ IsInjective(w) /\ ToSet(w) = ToSet(node[n].waiting) \ {c}
    BY <2>2, QueueWithout
  <2>5. Cancelled(c) = nx
    BY <1>5, <2>1, Before DEF Cancelled
  <2> HIDE DEF w
  <2>6. new \in Node /\ new.left = node[n].left /\ new.valid = node[n].valid /\ new.waiting = w
    <3>1. node[n] \in Node
      BY <2>1
    <3> QED
      BY ONLY <2>4, <3>1 DEF Node
  <2> HIDE DEF new
  <2>7. Asks(new)
    BY <2>3, <2>6 DEF Asks
  <2>8. Fits(tree, resendq, expireq, nx)
    BY <2>1, <2>3, <2>6, <2>7, Before, FitsChange
  <2>9. nx[n] = new /\ \A m \in Names \ {n} : nx[m] = node[m]
    BY <2>1, Before
  <2> HIDE DEF nx
  <2>10. Waits(tree, nx, Freed({c}))
    <3>1. ASSUME NEW d \in Ctxs, Freed({c})[d].node # Nil
          PROVE  Freed({c})[d].node \in tree /\ Freed({c})[d].state = "again"
      BY <1>2, <1>3, <3>1, Before DEF Waits
    <3>2. ASSUME NEW m \in tree
          PROVE  /\ IsInjective(nx[m].waiting)
                 /\ ToSet(nx[m].waiting) = {d \in Ctxs : Freed({c})[d].node = m}
      <4>1. m \in Names /\ m # Nil
        BY Before
      <4>2. CASE m = n
        <5>1. {d \in Ctxs : Freed({c})[d].node = n} = {d \in Ctxs : ctx[d].node = n} \ {c}
          BY <1>2, <1>3, <4>1, <4>2
        <5> QED
          BY <2>2, <2>4, <2>6, <2>9, <4>2, <5>1
      <4>3. CASE m # n
        <5>1. {d \in Ctxs : Freed({c})[d].node = m} = {d \in Ctxs : ctx[d].node = m}
          BY <1>2, <1>3, <4>1, <4>3
        <5> QED
          BY <2>9, <4>1, <4>3, <5>1, Before DEF Waits
      <4> QED
        BY <4>2, <4>3
    <3> QED
      BY <3>1, <3>2 DEF Waits
  <2>11. {c} \in SUBSET Ctxs /\ IsFiniteSet({c})
    BY FS_Singleton
  <2> QED
    BY <1>1, <2>5, <2>8, <2>10, <2>11, Before, DoneKeeps DEF Kept
<1> QED
  BY <1>4, <1>5

(* Time passes, for all nodes alike.                                       *)
LEMMA TickKeeps ==
    ASSUME Given, IInv, Tick
    PROVE  Kept
<1> DEFINE less(i) == Max({-1, i - 1})
           new(n) == [node[n] EXCEPT !.left = less(@), !.valid = less(@)]
<1>1. /\ job = Nil /\ tree' = tree /\ resendq' = resendq /\ expireq' = expireq
      /\ ctx' = ctx /\ armed' = armed /\ asked' = asked /\ job' = job
      /\ node' = [n \in Names |-> IF n \notin tree THEN node[n] ELSE new(n)]
  BY DEF Tick
<1>2. ASSUME NEW i \in Int PROVE less(i) = IF i - 1 >= -1 THEN i - 1 ELSE -1
  <2> DEFINE m == IF i - 1 >= -1 THEN i - 1 ELSE -1
  <2>1. m \in {-1, i - 1} /\ \A y \in {-1, i - 1} : m >= y
    OBVIOUS
  <2>2. \A x \in {-1, i - 1} : (\A y \in {-1, i - 1} : x >= y) => x = m
    OBVIOUS
  <2> HIDE DEF m
  <2>3. less(i) = m
    BY <2>1, <2>2 DEF Max
  <2> QED
    BY <2>3 DEF m
<1> HIDE DEF less
<1>3. \A i \in Int : less(i) \in Int /\ less(i) >= -1 /\ (i >= -1 => less(i) <= i)
  BY <1>2
<1>4. \A i, j \in Int : i >= j => less(i) >= less(j)
  BY <1>2
<1>5. less(-1) = -1
  BY <1>2
<1>6. ASSUME NEW n \in Names
      PROVE  /\ new(n) \in Node /\ new(n).left = less(node[n].left)
             /\ new(n).valid = less(node[n].valid)
             /\ new(n).waiting = node[n].waiting /\ new(n).ans = node[n].ans
  <2>1. node[n] \in Node /\ node[n].left \in Int /\ node[n].valid \in Int
    BY Before
  <2>2. less(node[n].left) \in Int /\ less(node[n].valid) \in Int
    BY <1>3, <2>1
  <2> QED
    BY ONLY <2>1, <2>2 DEF Node
<1> HIDE DEF new
<1>7. /\ \A n \in tree : n \in Names /\ node'[n] = new(n)
      /\ \A n \in Names \ tree : node'[n] = node[n]
  BY <1>1, Before
<1>8. node' \in [Names -> Node] /\ \A n \in Names : node'[n].left >= -1
  <2>1. \A n \in Names : node'[n] \in Node
    BY <1>6, <1>7, Before
  <2>2. \A n \in Names : node'[n].left >= -1
    BY <1>3, <1>6, <1>7, Before
  <2> QED
    BY <1>1, <2>1, <2>2
<1>9. ASSUME NEW q \in Seq(Names), ToSet(q) \subseteq tree, Sorted(q, node) PROVE Sorted(q, node')
  <2>1. \A i \in 1 .. Len(q) : q[i] \in tree
    BY <1>9 DEF ToSet
  <2>2. \A i \in 1 .. Len(q) : node[q[i]].left \in Int /\ node'[q[i]].left = less(node[q[i]].left)
    BY <1>6, <1>7, <2>1, Before
  <2> QED
    BY <1>4, <1>9, <2>2 DEF Sorted
<1>10. Sorted(resendq, node') /\ Sorted(expireq, node')
  BY <1>9, Before DEF Fits, Placed
<1>11. \A n \in ToSet(resendq) : Asks(node'[n])
  <2>1. ASSUME NEW n \in ToSet(resendq) PROVE Asks(node'[n])
    <3>1. /\ n \in Names /\ n \in tree /\ node[n].valid = -1 /\ node[n].left <= Resend
          /\ node[n].left \in Int /\ node[n].left >= -1 /\ Resend \in Int
      BY Before DEF Asks
    <3>2. node'[n].valid = -1 /\ node'[n].left = less(node[n].left)
      BY <1>5, <1>6, <1>7, <3>1
    <3>3. less(node[n].left) \in Int /\ less(node[n].left) <= node[n].left
      BY <1>3, <3>1
    <3> QED
      BY <3>1, <3>2, <3>3 DEF Asks
  <2> QED
    BY <2>1
<1>12. \A n \in ToSet(expireq) : Settles(node'[n])
  <2>1. ASSUME NEW n \in ToSet(expireq) PROVE Settles(node'[n])
    <3>1. /\ n \in Names /\ n \in tree /\ node[n].waiting = <<>> /\ node[n].left <= Expire
          /\ \A t \in conf.types : node[n].ans[t] # "open"
          /\ node[n].left \in Int /\ node[n].left >= -1 /\ Expire \in Int
      BY Before DEF Settles
    <3>2. /\ node'[n].waiting = node[n].waiting /\ node'[n].ans = node[n].ans
          /\ node'[n].left = less(node[n].left)
      BY <1>6, <1>7, <3>1
    <3>3. less(node[n].left) \in Int /\ less(node[n].left) <= node[n].left
      BY <1>3, <3>1
    <3>4. node'[n].left <= Expire
      BY <3>1, <3>2, <3>3
    <3> QED
      BY <3>1, <3>2, <3>4 DEF Settles
  <2> QED
    BY <2>1
<1>13. Fits(tree, resendq, expireq, node')
  BY <1>8, <1>10, <1>11, <1>12, Before DEF Fits
<1>14. Waits(tree, node', ctx)
  BY <1>6, <1>7, Before, WaitsSame
<1> QED
  BY <1>1, <1>13, <1>14, Before DEF Kept, Good, Works

(* ngx_resolver_resend_handler                                             *)
LEMMA ResendKeeps ==
    ASSUME Given, IInv, ResendHandler
    PROVE  Kept
<1>1. PICK k \in 0 .. Len(resendq) :
        LET due == SubSeq(resendq, Len(resendq) - k + 1, Len(resendq))
            rest == SubSeq(resendq, 1, Len(resendq) - k)
            sent == ToSet(due) \cap Wanted
        IN /\ job = Nil
           /\ resendq' = Only(resendq, sent) \o rest
           /\ tree' = tree \ (ToSet(due) \ sent)
           /\ node' = [n \in Names |-> IF n \in sent THEN [node[n] EXCEPT !.left = Resend]
                                       ELSE IF n \in tree' THEN node[n] ELSE NewNode]
           /\ armed' = (resendq' # <<>>)
           /\ expireq' = expireq /\ ctx' = ctx /\ asked' = asked /\ job' = job
  <2>1. Tail_(resendq, Due, Len(resendq)) \in 0 .. Len(resendq)
    <3>1. resendq \in Seq(Names) /\ Len(resendq) \in Nat
      BY Before DEF Placed
    <3> QED
      BY <3>1, TailIsPart
  <2> QED
    BY <2>1 DEF ResendHandler
<1> DEFINE l == Len(resendq)
           due == SubSeq(resendq, l - k + 1, l)
           rest == SubSeq(resendq, 1, l - k)
           sent == ToSet(due) \cap Wanted
           again == Only(resendq, sent)
<1>2. /\ job = Nil
      /\ resendq' = again \o rest
      /\ tree' = tree \ (ToSet(due) \ sent)
      /\ node' = [n \in Names |-> IF n \in sent THEN [node[n] EXCEPT !.left = Resend]
                                  ELSE IF n \in tree' THEN node[n] ELSE NewNode]
      /\ armed' = (resendq' # <<>>)
      /\ expireq' = expireq /\ ctx' = ctx /\ asked' = asked /\ job' = job
  BY <1>1
<1>3. resendq \in Seq(Names) /\ IsInjective(resendq) /\ l \in Nat /\ DOMAIN resendq = 1 .. l
  BY Before DEF Placed
<1>4. /\ rest \in Seq(Names) /\ IsInjective(rest) /\ ToSet(rest) \subseteq ToSet(resendq)
      /\ Sorted(rest, node)
  <2>1. l - k \in 0 .. l /\ Sorted(resendq, node)
    BY <1>3, Before DEF Fits
  <2> QED
    BY <1>3, <2>1, SortedPart
<1>5. /\ due \in Seq(Names) /\ IsInjective(due) /\ ToSet(due) \cap ToSet(rest) = {}
      /\ ToSet(due) \cup ToSet(rest) = ToSet(resendq)
  <2>1. CASE k = l
    <3>1. due = resendq /\ rest = <<>>
      BY <1>3, <2>1
    <3>2. ToSet(rest) = {}
      BY <3>1 DEF ToSet
    <3> HIDE DEF due, rest, l
    <3>3. due \in Seq(Names) /\ IsInjective(due) /\ ToSet(due) = ToSet(resendq)
      BY <1>3, <3>1
    <3> QED
      BY <3>2, <3>3
  <2>2. CASE k # l
    <3>1. l - k \in 1 .. l
      <4>1. k \in 0 .. l
        OBVIOUS
      <4> HIDE DEF l
      <4> QED
        BY <1>3, <2>2, <4>1
    <3> DEFINE b == l - k
    <3>2. /\ due \in Seq(Names) /\ DOMAIN due = 1 .. l - b
          /\ \A i \in 1 .. l - b : due[i] = resendq[i + b]
      BY <1>3, <3>1, QueuePart
    <3>3. DOMAIN rest = 1 .. b /\ \A i \in 1 .. b : rest[i] = resendq[i]
      BY <1>3, <3>1
    <3>4. b \in 1 .. l
      BY <3>1
    <3> HIDE DEF b, due, rest
    <3>5. \A i \in 1 .. l - b : i + b \in 1 .. l /\ i + b > b
      BY <1>3, <3>4
    <3>6. IsInjective(due)
      <4>1. ASSUME NEW i \in 1 .. l - b, NEW j \in 1 .. l - b, due[i] = due[j] PROVE i = j
        <5>1. i + b = j + b
          BY <1>3, <3>2, <3>5, <4>1 DEF IsInjective
        <5> QED
          BY <3>4, <5>1
      <4> QED
        BY <3>2, <4>1 DEF IsInjective
    <3>7. ASSUME NEW x \in ToSet(due), x \in ToSet(rest) PROVE FALSE
      <4>1. PICK i \in 1 .. l - b : x = resendq[i + b]
        BY <3>2 DEF ToSet
      <4>2. PICK j \in 1 .. b : x = resendq[j]
        BY <3>3, <3>7 DEF ToSet
      <4>3. j \in 1 .. l /\ i + b \in 1 .. l /\ j # i + b
        BY <1>3, <3>4, <3>5
      <4> QED
        BY <1>3, <4>1, <4>2, <4>3 DEF IsInjective
    <3>8. ASSUME NEW x \in ToSet(resendq) PROVE x \in ToSet(due) \cup ToSet(rest)
      <4>1. PICK i \in 1 .. l : x = resendq[i]
        BY <1>3 DEF ToSet
      <4>2. CASE i <= b
        BY <3>3, <4>1, <4>2 DEF ToSet
      <4>3. CASE i > b
        <5>1. i - b \in 1 .. l - b /\ (i - b) + b = i
          BY <1>3, <3>4, <4>3
        <5> QED
          BY <3>2, <4>1, <5>1 DEF ToSet
      <4> QED
        BY <1>3, <3>4, <4>2, <4>3
    <3>9. ToSet(due) \subseteq ToSet(resendq)
      BY <1>3, <3>2, <3>5 DEF ToSet
    <3> QED
      BY <1>4, <3>2, <3>6, <3>7, <3>8, <3>9
  <2> QED
    BY <2>1, <2>2
<1>6. /\ again \in Seq(Names) /\ IsInjective(again)
      /\ ToSet(again) = sent /\ sent = ToSet(due) \cap Wanted
  <2>1. sent \subseteq ToSet(resendq)
    BY <1>5
  <2> HIDE DEF sent, due
  <2>2. again \in Seq(Names) /\ IsInjective(again) /\ ToSet(again) = ToSet(resendq) \cap sent
    BY <1>3, OnlyThose
  <2> QED
    BY <2>1, <2>2 DEF sent
<1> HIDE DEF due, rest, again, sent
<1>7. /\ resendq' \in Seq(Names) /\ IsInjective(resendq')
      /\ ToSet(resendq') = ToSet(again) \cup ToSet(rest)
  <2>1. ToSet(again) \cap ToSet(rest) = {}
    BY <1>5, <1>6
  <2> QED
    BY <1>2, <1>4, <1>6, <2>1, QueueJoin
<1>8. Placed(tree', resendq', expireq')
  BY <1>2, <1>5, <1>6, <1>7, Before DEF Placed
<1> DEFINE new(n) == [node[n] EXCEPT !.left = Resend]
<1>9. ASSUME NEW n \in Names
      PROVE  /\ new(n) \in Node /\ new(n).left = Resend /\ new(n).valid = node[n].valid
             /\ new(n).waiting = node[n].waiting
  <2>1. node[n] \in Node /\ Resend \in Int
    BY Before
  <2> QED
    BY ONLY <2>1 DEF Node
<1>10. /\ \A n \in ToSet(again) : n \in Names /\ node'[n] = new(n)
       /\ \A n \in tree' \ ToSet(again) : n \in Names /\ node'[n] = node[n]
       /\ \A n \in Names : node'[n] \in {new(n), node[n], NewNode}
  <2>1. tree' \subseteq Names /\ ToSet(again) \subseteq tree'
    BY <1>7, <1>8 DEF Placed
  <2> QED
    BY <1>2, <1>6, <2>1
<1> HIDE DEF new
<1>11. node' \in [Names -> Node] /\ \A n \in Names : node'[n].left >= -1
  <2>1. \A n \in Names : node'[n] \in Node
    BY <1>9, <1>10, NewNodeTyped, Before
  <2>2. Resend >= -1
    BY Before
  <2>3. \A n \in Names : node'[n].left >= -1
    BY <1>9, <1>10, <2>2, NewNodeTyped, Before
  <2> QED
    BY <1>2, <2>1, <2>3
<1>12. \A n \in ToSet(rest) : n \in Names /\ n \notin ToSet(again) /\ node'[n] = node[n] /\ Asks(node[n])
  <2>1. ASSUME NEW n \in ToSet(rest) PROVE n \in tree' /\ n \notin ToSet(again) /\ Asks(node[n])
    BY <1>4, <1>5, <1>6, <1>7, <1>8, Before DEF Placed
  <2> QED
    BY <1>10, <2>1
<1>13. \A n \in ToSet(again) : Asks(node'[n]) /\ node'[n].left = Resend
  <2>1. ASSUME NEW n \in ToSet(again) PROVE Asks(node'[n]) /\ node'[n].left = Resend
    <3>1. n \in Names /\ n \in ToSet(resendq) /\ node'[n] = new(n) /\ Resend \in Int
      BY <1>5, <1>6, <1>10, Before
    <3>2. node[n].valid = -1
      BY <3>1, Before DEF Asks
    <3>3. Resend <= Resend
      BY <3>1
    <3> QED
      BY <1>9, <3>1, <3>2, <3>3 DEF Asks
  <2> QED
    BY <2>1
<1>14. Sorted(resendq', node')
  <2>1. Sorted(rest, node')
    BY <1>4, <1>12, SortedSame
  <2>2. Sorted(again, node')
    <3>1. \A i \in 1 .. Len(again) : again[i] \in ToSet(again)
      BY <1>6 DEF ToSet
    <3>2. Resend >= Resend
      BY Before
    <3> QED
      BY <1>13, <3>1, <3>2 DEF Sorted
  <2>3. \A x \in ToSet(again), y \in ToSet(rest) : node'[x].left >= node'[y].left
    <3>1. ASSUME NEW x \in ToSet(again), NEW y \in ToSet(rest) PROVE node'[x].left >= node'[y].left
      <4>1. node'[x].left = Resend /\ node'[y].left = node[y].left /\ node[y].left <= Resend
        BY <1>12, <1>13 DEF Asks
      <4>2. node[y].left \in Int /\ Resend \in Int
        BY <1>12, Before
      <4> QED
        BY <4>1, <4>2
    <3> QED
      BY <3>1
  <2> QED
    BY <1>2, <1>4, <1>6, <2>1, <2>2, <2>3, SortedJoin
<1>15. Sorted(expireq', node') /\ \A n \in ToSet(expireq') : Settles(node'[n])
  <2>1. \A n \in ToSet(expireq) : node'[n] = node[n]
    BY <1>2, <1>7, <1>8, <1>10 DEF Placed
  <2>2. expireq \in Seq(Names) /\ Sorted(expireq, node)
    BY Before DEF Fits, Placed
  <2>3. Sorted(expireq, node')
    BY <2>1, <2>2, SortedSame
  <2> QED
    BY <1>2, <2>1, <2>3, Before
<1>16. Fits(tree', resendq', expireq', node')
  BY <1>7, <1>8, <1>11, <1>12, <1>13, <1>14, <1>15 DEF Fits
<1>17. Waits(tree', node', ctx')
  <2>1. tree' \subseteq tree /\ tree \subseteq Names
    BY <1>2, Before
  <2>2. \A n \in tree' : node'[n].waiting = node[n].waiting
    BY <1>9, <1>10
  <2>3. ASSUME NEW c \in Ctxs, ctx[c].node # Nil PROVE ctx[c].node \in tree' /\ ctx[c].state = "again"
    <3>1. ctx[c].node \in tree /\ ctx[c].state = "again" /\ c \in ToSet(node[ctx[c].node].waiting)
      BY <2>3, Before DEF Waits
    <3>2. node[ctx[c].node].waiting # <<>> /\ ctx[c].node \in Names
      BY <2>1, <3>1 DEF ToSet
    <3>3. ctx[c].node \in Wanted
      BY <3>2 DEF Wanted
    <3> QED
      BY <1>2, <1>6, <3>1, <3>3
  <2>4. \A n \in tree' : /\ IsInjective(node'[n].waiting)
                         /\ ToSet(node'[n].waiting) = {c \in Ctxs : ctx[c].node = n}
    BY <2>1, <2>2, Before DEF Waits
  <2> QED
    BY <1>2, <2>3, <2>4 DEF Waits
<1> QED
  BY <1>2, <1>16, <1>17, Before DEF Kept, Good, Works

-----------------------------------------------------------------------------
LEMMA InitGood == ResolverAssumption /\ Init => IInv
<1> SUFFICES ASSUME Given, Init PROVE IInv
  BY DEF Given
<1>1. tree = {} /\ node = [n \in Names |-> NewNode] /\ resendq = <<>> /\ expireq = <<>>
  BY DEF Init
<1>2. ToSet(<<>>) = {} /\ IsInjective(<<>>) /\ <<>> \in Seq(Names) /\ \A nd : Sorted(<<>>, nd)
  BY DEF ToSet, IsInjective, Sorted
<1>3. Fits(tree, resendq, expireq, node)
  BY <1>1, <1>2, NewNodeTyped DEF Fits, Placed
<1>4. ctx \in [Ctxs -> Request] /\ \A c \in Ctxs : ctx[c].node = Nil
  BY FreeTyped DEF Init
<1>5. Waits(tree, node, ctx)
  BY <1>1, <1>4 DEF Waits
<1> QED
  BY <1>1, <1>3, <1>4, <1>5 DEF Init, IInv, Good, Works

LEMMA NextKeeps == ResolverAssumption /\ IInv /\ [Next]_vars => IInv'
<1> SUFFICES ASSUME Given, IInv, [Next]_vars PROVE IInv'
  BY DEF Given
<1>1. conf' = conf /\ conf \in Scenarios
  BY DEF Next, vars, IInv
<1>2. Kept
  <2>1. CASE UNCHANGED vars
    BY <2>1 DEF vars, IInv, Kept
  <2>2. CASE \E c \in conf.ctxs : GiveUp(c) \/ TimeoutHandler(c) \/ \E n \in conf.wanted : Start(c, n)
    BY <2>2, GiveUpKeeps, StartKeeps, Before DEF TimeoutHandler
  <2>3. CASE Locked
    BY <2>3, CachedKeeps, CachedAliasKeeps, JoinKeeps, AskInvalidKeeps, FailsKeeps, AskKeeps DEF Locked
  <2>4. CASE \E q \in asked : Answer(q)
    BY <2>4, TruncatedKeeps, HalfKeeps, FailedKeeps, UselessKeeps, ResolvedKeeps, AliasKeeps DEF Answer
  <2>5. CASE ResendHandler
    BY <2>5, ResendKeeps
  <2>6. CASE Tick
    BY <2>6, TickKeeps
  <2> QED
    BY <2>1, <2>2, <2>3, <2>4, <2>5, <2>6 DEF Next
<1> QED
  BY <1>1, <1>2 DEF Kept, IInv, Good, Fits, Placed, Sorted, Asks, Settles, Waits, Works,
     Node, Request, Question, Job

(* The inductive invariant implies what the run checks.                    *)
LEMMA GoodIsExact == ResolverAssumption /\ IInv => ListsExact
<1> SUFFICES ASSUME Given, IInv PROVE ListsExact
  BY DEF Given
<1>1. TypeOK
  <2>1. ASSUME NEW n \in Names
        PROVE  /\ node[n].cname \in Names \cup {Nil} /\ node[n].left >= -1
               /\ \A t \in conf.types : node[n].ans[t] \in {"open", "none", "some"}
    BY Before DEF Node
  <2>2. ASSUME NEW c \in Ctxs PROVE ctx[c].state \in {"free", "again"} /\ ctx[c].rec \in 0 .. MaxRec
    BY Before DEF Request
  <2> QED
    BY <2>1, <2>2, Before DEF TypeOK
<1>2. InOneQueue
  <2>1. /\ IsInjective(resendq \o expireq)
        /\ ToSet(resendq \o expireq) = ToSet(resendq) \cup ToSet(expireq)
    BY Before, QueueJoin DEF Placed
  <2>2. ToSet(resendq) \cup ToSet(expireq) = tree
    BY Before DEF Placed
  <2> QED
    BY <2>1, <2>2, Before DEF InOneQueue, Asks, Settles
<1>3. WaitersListed
  <2>1. ASSUME NEW c \in Working PROVE c \in Ctxs /\ ctx[c].node = Nil
    BY <2>1, JobFacts DEF Working
  <2>2. ASSUME NEW c \in Ctxs, ctx[c].node # Nil
        PROVE  ctx[c].node \in tree /\ c \in ToSet(node[ctx[c].node].waiting)
    BY <2>2, Before DEF Waits
  <2>3. ASSUME NEW n \in tree
        PROVE  /\ IsInjective(node[n].waiting)
               /\ \A c \in ToSet(node[n].waiting) :
                    ctx[c].state = "again" /\ ctx[c].node = n /\ c \notin Working
    <3>1. n # Nil
      BY Before
    <3>2. \A c \in ToSet(node[n].waiting) : c \in Ctxs /\ ctx[c].node = n
      BY Before DEF Waits
    <3>3. \A c \in ToSet(node[n].waiting) : ctx[c].state = "again" /\ c \notin Working
      BY <2>1, <3>1, <3>2, Before DEF Waits
    <3> QED
      BY <3>2, <3>3, Before DEF Waits
  <2> QED
    BY <2>2, <2>3 DEF WaitersListed
<1>4. NothingOverlooked
  <2>1. ASSUME NEW q \in {resendq, expireq}, NEW i \in DOMAIN q, NEW j \in DOMAIN q, i < j
        PROVE  node[q[i]].left >= node[q[j]].left
    <3>1. q \in Seq(Names) /\ Sorted(q, node)
      BY Before DEF Fits, Placed
    <3>2. DOMAIN q = 1 .. Len(q)
      BY <3>1
    <3> QED
      BY <2>1, <3>1, <3>2 DEF Sorted
  <2> QED
    BY <2>1, Before DEF NothingOverlooked
<1> QED
  BY <1>1, <1>2, <1>3, <1>4 DEF ListsExact

(* Whatever answers come, late, twice, truncated or none, however names    *)
(* are aliases of each other, and whichever allocations fail: each name is *)
(* in one queue and in its place there, each request that waits is in the  *)
(* list of its name and in no other, none that was freed is in any, and    *)
(* the timer of the questions is set while there are any.                  *)
THEOREM ResolverListsAreExact == Spec => []ListsExact
<1>1. ResolverAssumption
  BY ResolverAssumption
<1>2. Init => IInv
  BY <1>1, InitGood
<1>3. IInv /\ [Next]_vars => IInv'
  BY <1>1, NextKeeps
<1>4. IInv => ListsExact
  BY <1>1, GoodIsExact
<1> QED
  BY <1>2, <1>3, <1>4, PTL DEF Spec
=============================================================================
