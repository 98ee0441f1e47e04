--------------------------- MODULE RequestsProofs ---------------------------
(***************************************************************************)
(* For any number of subrequests, nested in any way: the references to the *)
(* main request are exact, no alert is logged, and nothing that uses the   *)
(* request is left when it is freed; what the client is sent is in the     *)
(* order of the document, complete unless there was an error.  One failure *)
(* is excepted, that of a write event that cannot be armed while a         *)
(* reference is still to be given back (GivenTwice): then the code gives   *)
(* it back twice.                                                          *)
(***************************************************************************)
EXTENDS Requests, QueueProofs, FiniteSetTheorems

(* The types, as sets of records. *)
Handlers == {"none", "handler", "upstream", "writer", "finalizer", "empty", "terminate"}

Request ==
    [parent : Reqs \cup {Nil}, write : Handlers, background : BOOLEAN, waited : BOOLEAN,
     postponed : Seq(Reqs \cup Pieces), held : {<<>>} \cup {<<p>> : p \in Pieces},
     aio : BOOLEAN, ext : BOOLEAN, done : BOOLEAN, logged : BOOLEAN,
     doc : Seq(Reqs \cup Pieces)]

OfRequest == {"run", "content", "finalize"}

StepTyped ==
    /\ step.op \in {"rest", "loop"} \cup OfRequest
    /\ step.op \in OfRequest => step.r \in Reqs
    /\ step.op = "finalize" => step.rc \in {"done", "ok", "error"}

Types ==
    /\ req \in [Reqs -> Request]
    /\ count \in Nat
    /\ posted \in Seq(Reqs)
    /\ data \in Reqs
    /\ {buffered, error, terminated, freed, alert} \subseteq BOOLEAN
    /\ sent \in Seq(Pieces)
    /\ StepTyped

(* The request that the worker is busy with; the reference that a content  *)
(* handler gives back when it returns.                                     *)
About(x) == step.op \in OfRequest /\ step.r = x
Doing(x) == step.op = "content" /\ step.r = x
Ending(x) == step.op = "finalize" /\ step.r = x /\ step.rc # "done"
Returning == step.op = "finalize" /\ step.rc = "done"
Pending == IF Returning THEN 1 ELSE 0

Exts == {x \in Reqs : req[x].ext}
Open(x) == IF x = Main THEN ~req[x].done ELSE ~req[x].logged

(* What is known of any request, created or not. *)
Existing ==
    /\ req[Main].write # "none" /\ ~req[Main].background /\ ~req[Main].logged
    /\ \A x \in Reqs : req[x].write = "none" =>
          ~req[x].logged /\ req[x].held = <<>> /\ ~req[x].aio /\ ~req[x].ext
    /\ \A x \in Subs : req[x].write # "none" =>
          /\ req[x].parent \in Reqs /\ req[req[x].parent].write # "none"
          /\ ~req[req[x].parent].background
    /\ \A x \in ToSet(posted) : req[x].write # "none"
    /\ req[data].write # "none" /\ ~req[data].background
    /\ step.op \in OfRequest => req[step.r].write # "none"

(* A request that waits to be run is not being run, and waits once. *)
Turns ==
    /\ IsInjective(posted)
    /\ step.op \in OfRequest => step.r \notin ToSet(posted)
    /\ step.op = "rest" => posted = <<>>

(* The handlers of a request are those that its state calls for. *)
Handled ==
    /\ \A x \in Reqs : req[x].ext => req[x].write = "upstream" /\ ~req[x].logged /\ ~Doing(x) /\ ~Ending(x)
    /\ step.op = "content" => req[step.r].write \in {"handler", "upstream"} /\ ~req[step.r].logged
    /\ Returning => req[step.r].write = "upstream" /\ req[step.r].ext
    /\ step.op = "finalize" /\ ~Returning =>
          req[step.r].write \in {"handler", "upstream", "writer", "finalizer"}
    /\ \A x \in Reqs : req[x].write = "terminate" => x = Main /\ terminated

(* A subrequest that was finalised for good is not run again. *)
Quiet ==
    \A x \in Reqs : req[x].logged =>
        /\ ~req[x].ext /\ ~req[x].aio /\ x # data
        /\ req[x].write = "empty" \/ (req[x].background /\ x \notin ToSet(posted) /\ ~About(x))

(* A buffer that waits for a thread, and what may happen before. *)
Reading ==
    \A x \in Reqs :
        /\ req[x].aio => req[x].held # <<>>
        /\ req[x].held # <<>> =>
              /\ Open(x) /\ ~req[x].ext
              /\ req[x].write = "writer"
                 \/ (req[x].write \in {"handler", "upstream"} /\ (Doing(x) \/ Ending(x)))

MainDone == req[Main].done => req[Main].write = "empty" /\ data = Main

(* P holds the requests from the main one to the active one. *)
OnPath(P) ==
    /\ Main \in P /\ data \in P
    /\ \A x \in P : req[x].write # "none" /\ ~req[x].background
    /\ \A x \in P \ {Main} : ~req[x].logged /\ req[x].parent \in P /\ req[x].parent # data
    /\ \A x, y \in P \ {Main} : req[x].parent = req[y].parent => x = y

(* Subrequests in the output of their parent, each in one place; if its    *)
(* turn has come it is the first.                                          *)
Children(r) ==
    {z \in Subs : /\ req[z].write # "none" /\ ~req[z].logged /\ ~req[z].background
                  /\ req[z].parent = r}
Placed(q, K, P) ==
    \A i \in 1 .. Len(q) : q[i] \in Reqs =>
        /\ q[i] \in K
        /\ \A j \in 1 .. Len(q) : q[j] = q[i] => j = i
        /\ q[i] \in P => i = 1
Queued(P) == \A r \in Reqs : Placed(req[r].postponed, Children(r), P)

(* The last thing that a request produces is a buffer. *)
LastIsSub(q) == q # <<>> /\ q[Len(q)] \in Reqs
HasSub(q) == \E i \in 1 .. Len(q) : q[i] \in Reqs
Ended ==
    \A x \in Reqs :
        (req[x].write \in {"writer", "finalizer"} \/ (Ending(x) /\ step.rc = "ok")) =>
            ~LastIsSub(req[x].doc)
Tidy(q) == q # <<>> /\ ~LastIsSub(q)
Closed(P) ==
    \A x \in Reqs :
        (~LastIsSub(req[x].doc) /\ req[x].held = <<>> /\ ((x \in P /\ x # data) \/ HasSub(req[x].postponed))) =>
            Tidy(req[x].postponed)

Tree == \E P \in SUBSET Reqs : OnPath(P) /\ Queued(P) /\ Closed(P)

(* Before a termination. *)
Going ==
    /\ Reading /\ MainDone /\ Ended /\ Tree
    /\ error => step.op = "finalize" /\ step.rc = "error"
    /\ count = Cardinality(Held) + Pending

(* After a termination that a thread delays: the requests that may still   *)
(* drop a reference, and one that does not before the thread is ready.     *)
Owners ==
    {x \in Reqs : \/ req[x].ext \/ Doing(x)
                  \/ (req[x].write \in {"handler", "writer"} /\ ~req[x].logged)}
Stays(x) ==
    /\ req[x].write = "writer" \/ (req[x].write = "handler" /\ x \notin ToSet(posted) /\ (About(x) => Ending(x)))
    /\ ~req[x].logged
Delayed ==
    /\ error /\ req[data].write = "finalizer"
    /\ count >= Cardinality(Owners) + Pending
    /\ count = Cardinality(Owners) + Pending => \E x \in Reqs : Stays(x)

(* After a termination that nothing delays. *)
Doomed ==
    /\ (step.op = "loop" /\ posted = <<Main>>) \/ (step.op = "run" /\ step.r = Main /\ posted = <<>>)
    /\ \A x \in Reqs : ~req[x].ext /\ ~req[x].aio

Freed ==
    /\ step \in {Loop, Rest} /\ count = 0
    /\ \A x \in Reqs : ~req[x].ext /\ ~req[x].aio

IInv ==
    /\ Types /\ ~alert /\ Existing
    /\ freed => Freed
    /\ ~freed => Turns /\ Handled /\ Quiet /\ count <= Cardinality(Created) + 1 + Pending
    /\ ~freed /\ ~terminated => Going
    /\ ~freed /\ terminated /\ req[Main].write # "terminate" => Delayed
    /\ ~freed /\ terminated /\ req[Main].write = "terminate" => Doomed

-----------------------------------------------------------------------------
(* The lists of posted requests and of output.                             *)

LEMMA PostedOnce ==
    ASSUME NEW p \in Seq(Reqs), IsInjective(p), NEW x \in Reqs
    PROVE  /\ Post(p, x) \in Seq(Reqs) /\ IsInjective(Post(p, x))
           /\ ToSet(Post(p, x)) = ToSet(p) \cup {x}
<1>1. CASE x \in ToSet(p)
  BY <1>1 DEF Post
<1>2. CASE x \notin ToSet(p)
  BY <1>2, QueueAppend DEF Post
<1> QED
  BY <1>1, <1>2

LEMMA LeastPlace ==
    ASSUME NEW S \in SUBSET Nat, S # {}
    PROVE  /\ Min(S) \in S
           /\ \A y \in S : Min(S) <= y
<1>1. PICK m \in S : \A y \in S : ~(<<y, m>> \in OpToRel(<, Nat))
  BY WFMin, NatLessThanWellFounded
<1>2. m \in Nat /\ \A y \in S : y \in Nat /\ ~(y < m)
  BY <1>1 DEF OpToRel
<1>3. \A y \in S : m <= y
  BY <1>2
<1> QED
  BY <1>3 DEF Min

(* What the postpone filter leaves alone. *)
Unfiltered(rq, r) ==
    /\ req' \in [Reqs -> Request]
    /\ \A x \in Reqs :
        /\ req'[x].parent = rq[x].parent /\ req'[x].write = rq[x].write
        /\ req'[x].background = rq[x].background /\ req'[x].waited = rq[x].waited
        /\ req'[x].aio = rq[x].aio /\ req'[x].ext = rq[x].ext
        /\ req'[x].done = rq[x].done /\ req'[x].logged = rq[x].logged
        /\ req'[x].doc = rq[x].doc
    /\ \A x \in Reqs \ {r} : req'[x].postponed = rq[x].postponed /\ req'[x].held = rq[x].held
    /\ req'[r].held = <<>>

Unsent(r, p) ==
    r # data /\ data' = data /\ posted' = posted /\ req'[r].postponed = p /\ sent' = sent
Passed(r, p) ==
    /\ r = data /\ data' = data /\ posted' = posted /\ req'[r].postponed = <<>> /\ ~HasSub(p)
    /\ sent' = sent \o p
Woken(r, p, i) ==
    /\ sent' = sent \o SubSeq(p, 1, i - 1) /\ \A j \in 1 .. i - 1 : p[j] \notin Reqs
    /\ r = data /\ p[i] \in Reqs /\ data' = p[i] /\ posted' = Post(posted, p[i])
    /\ Len(req'[r].postponed) = Len(p) - i
    /\ \A j \in 1 .. Len(p) - i : req'[r].postponed[j] = p[j + i]

LEMMA Filter ==
    ASSUME RequestsAssumption, NEW rq \in [Reqs -> Request], NEW r \in Reqs,
           NEW out \in {<<>>} \cup {<<p>> : p \in Pieces}, data \in Reqs, posted \in Seq(Reqs),
           sent \in Seq(Pieces), buffered \in BOOLEAN,
           PostponeFilter(rq, r, out)
    PROVE  LET p == rq[r].postponed \o out IN
           /\ Unfiltered(rq, r)
           /\ sent' \in Seq(Pieces) /\ buffered' \in BOOLEAN
           /\ p \in Seq(Reqs \cup Pieces)
           /\ Unsent(r, p) \/ Passed(r, p) \/ \E i \in 1 .. Len(p) : Woken(r, p, i)
<1> DEFINE p == rq[r].postponed \o out
           subs == {i \in DOMAIN p : IsSub(p[i])}
           n == IF r # data THEN 0 ELSE IF subs = {} THEN Len(p) ELSE Min(subs) - 1
           wake == r = data /\ subs # {}
           rest == SubSeq(p, IF wake THEN n + 2 ELSE n + 1, Len(p))
<1>1. p \in Seq(Reqs \cup Pieces)
  <2>1. rq[r].postponed \in Seq(Reqs \cup Pieces)
    BY DEF Request
  <2>2. out \in Seq(Reqs \cup Pieces)
    <3>1. CASE out = <<>>
      BY <3>1
    <3>2. CASE out # <<>>
      <4>1. PICK z \in Pieces : out = <<z>>
        BY SMTT(30), <3>2
      <4> QED
        BY <4>1
    <3> QED
      BY <3>1, <3>2
  <2> QED
    BY <2>1, <2>2, ConcatProperties
<1>2. /\ sent' = sent \o SubSeq(p, 1, n)
      /\ buffered' \in (IF n = 0 THEN {buffered} ELSE BOOLEAN)
      /\ req' = [rq EXCEPT ![r].postponed = rest, ![r].held = <<>>]
      /\ data' = IF wake THEN p[n + 1] ELSE data
      /\ posted' = IF wake THEN Post(posted, p[n + 1]) ELSE posted
  BY DEF PostponeFilter, PutAside
<1> HIDE DEF p
<1>3. /\ DOMAIN p = 1 .. Len(p) /\ Len(p) \in Nat
      /\ \A i \in 1 .. Len(p) : p[i] \in Reqs \cup Pieces
  BY <1>1
<1>a. subs \subseteq 1 .. Len(p) /\ \A i \in 1 .. Len(p) : i \in subs <=> p[i] \in Reqs
  BY <1>3 DEF IsSub
<1>b. /\ wake <=> (r = data /\ subs # {})
      /\ r # data => n = 0
      /\ r = data /\ subs = {} => n = Len(p)
      /\ r = data /\ subs # {} => n = Min(subs) - 1
  OBVIOUS
<1>c. /\ wake => rest = SubSeq(p, n + 2, Len(p))
      /\ ~wake => rest = SubSeq(p, n + 1, Len(p))
  OBVIOUS
<1> HIDE DEF subs, n, wake, rest
<1>4. subs # {} => Min(subs) \in subs /\ \A y \in subs : Min(subs) <= y
  <2>1. subs \in SUBSET Nat
    BY <1>3, <1>a
  <2> QED
    BY <2>1, LeastPlace
<1>5. /\ n \in 0 .. Len(p)
      /\ wake => n + 1 \in 1 .. Len(p) /\ p[n + 1] \in Reqs
      /\ \A i \in 1 .. n : i \notin subs
  <2>1. CASE r # data
    BY <1>3, <1>b, <2>1
  <2>2. CASE r = data /\ subs = {}
    BY <1>3, <1>b, <2>2
  <2>3. CASE r = data /\ subs # {}
    <3> DEFINE m == Min(subs)
    <3>1. n = m - 1 /\ m \in 1 .. Len(p) /\ p[m] \in Reqs /\ \A y \in subs : m <= y
      BY <1>a, <1>b, <1>4, <2>3
    <3> HIDE DEF m
    <3>2. n \in 0 .. Len(p) /\ n + 1 = m
      BY <1>3, <3>1
    <3>3. ASSUME NEW i \in 1 .. n PROVE i \notin subs
      BY <1>3, <3>1, <3>2
    <3> QED
      BY <3>1, <3>2, <3>3
  <2> QED
    BY <2>1, <2>2, <2>3
<1>6. rest \in Seq(Reqs \cup Pieces)
  <2>1. CASE wake
    <3>1. n + 2 \in Int /\ Len(p) \in Int /\ \A i \in n + 2 .. Len(p) : p[i] \in Reqs \cup Pieces
      BY <1>3, <1>5
    <3>2. SubSeq(p, n + 2, Len(p)) \in Seq(Reqs \cup Pieces)
      BY <3>1, SubSeqProperties
    <3> QED
      BY <1>c, <2>1, <3>2
  <2>2. CASE ~wake
    <3>1. n + 1 \in Int /\ Len(p) \in Int /\ \A i \in n + 1 .. Len(p) : p[i] \in Reqs \cup Pieces
      BY <1>3, <1>5
    <3>2. SubSeq(p, n + 1, Len(p)) \in Seq(Reqs \cup Pieces)
      BY <3>1, SubSeqProperties
    <3> QED
      BY <1>c, <2>2, <3>2
  <2> QED
    BY <2>1, <2>2
<1>7. sent' \in Seq(Pieces)
  <2>1. \A i \in 1 .. n : p[i] \in Pieces
    BY <1>3, <1>5, <1>a
  <2>2. 1 \in Int /\ n \in Int
    BY <1>3, <1>5
  <2>3. SubSeq(p, 1, n) \in Seq(Pieces)
    BY <2>1, <2>2, SubSeqProperties
  <2> QED
    BY <1>2, <2>3, ConcatProperties
<1>8. Unfiltered(rq, r) /\ req'[r].postponed = rest
  <2>1. rq[r] \in Request
    OBVIOUS
  <2>2. [rq[r] EXCEPT !.postponed = rest, !.held = <<>>] \in Request
    BY <1>6, <2>1 DEF Request
  <2>3. /\ \A x \in Reqs \ {r} : req'[x] = rq[x]
        /\ req'[r] = [rq[r] EXCEPT !.postponed = rest, !.held = <<>>]
        /\ req' \in [Reqs -> Request]
    BY <1>2, <2>2
  <2>4. /\ req'[r].parent = rq[r].parent /\ req'[r].write = rq[r].write
        /\ req'[r].background = rq[r].background /\ req'[r].waited = rq[r].waited
        /\ req'[r].aio = rq[r].aio /\ req'[r].ext = rq[r].ext
        /\ req'[r].done = rq[r].done /\ req'[r].logged = rq[r].logged
        /\ req'[r].doc = rq[r].doc /\ req'[r].held = <<>> /\ req'[r].postponed = rest
    BY <2>1, <2>3 DEF Request
  <2> QED
    BY <2>3, <2>4 DEF Unfiltered
<1>9. CASE r # data
  <2>1. n = 0 /\ ~wake
    BY <1>b, <1>9
  <2>2. rest = p
    BY <1>1, <1>c, <2>1, SubSeqFull
  <2>3. Unsent(r, p)
    <3>1. SubSeq(p, 1, 0) = <<>> /\ sent \o <<>> = sent
      OBVIOUS
    <3> QED
      BY <1>2, <1>8, <1>9, <2>1, <2>2, <3>1 DEF Unsent
  <2> QED
    BY <1>1, <1>2, <1>7, <1>8, <2>3 DEF p
<1>10. CASE r = data /\ subs = {}
  <2>1. n = Len(p) /\ ~wake
    BY <1>b, <1>10
  <2>2. rest = <<>>
    <3>1. n + 1 \in Int /\ Len(p) \in Int /\ Len(p) < n + 1
      BY <1>3, <2>1
    <3> QED
      BY <1>c, <2>1, <3>1, SubSeqEmpty
  <2>3. ~HasSub(p)
    BY <1>a, <1>10 DEF HasSub
  <2>4. Passed(r, p)
    <3>1. SubSeq(p, 1, Len(p)) = p
      BY <1>1, SubSeqFull
    <3> QED
      BY <1>2, <1>8, <1>10, <2>1, <2>2, <2>3, <3>1 DEF Passed
  <2> QED
    BY <1>1, <1>2, <1>7, <1>8, <2>4 DEF p
<1>11. CASE r = data /\ subs # {}
  <2>0. wake
    BY <1>b, <1>11
  <2>1. n + 1 \in 1 .. Len(p) /\ p[n + 1] \in Reqs /\ (n + 1) + 1 = n + 2
    BY <1>3, <1>5, <2>0
  <2>2. data' = p[n + 1] /\ posted' = Post(posted, p[n + 1]) /\ req'[r].postponed = rest
    BY <1>2, <1>8, <2>0
  <2>4. /\ Len(rest) = Len(p) - (n + 1)
        /\ \A j \in 1 .. Len(p) - (n + 1) : rest[j] = p[j + (n + 1)]
    <3>1. n + 2 \in Int /\ Len(p) \in Int /\ \A i \in n + 2 .. Len(p) : p[i] \in Reqs \cup Pieces
      BY <1>3, <1>5
    <3>2. /\ Len(SubSeq(p, n + 2, Len(p))) = IF n + 2 <= Len(p) THEN Len(p) - (n + 2) + 1 ELSE 0
          /\ \A j \in 1 .. Len(p) - (n + 2) + 1 : SubSeq(p, n + 2, Len(p))[j] = p[n + 2 + j - 1]
      BY <3>1, SubSeqProperties
    <3>3. rest = SubSeq(p, n + 2, Len(p)) /\ n \in Int
      BY <1>c, <1>5, <1>3, <2>0
    <3>a. PICK l \in Nat : l = Len(p)
      BY <1>3
    <3>b. PICK m \in Int : m = n
      BY <3>3
    <3>4. Len(rest) = Len(p) - (n + 1)
      <4>1. CASE m + 2 <= l
        <5>1. Len(rest) = l - (m + 2) + 1
          BY <3>2, <3>3, <3>a, <3>b, <4>1
        <5>2. l - (m + 2) + 1 = l - (m + 1)
          OBVIOUS
        <5> QED
          BY <3>a, <3>b, <5>1, <5>2
      <4>2. CASE ~(m + 2 <= l)
        <5>1. Len(rest) = 0
          BY <3>2, <3>3, <3>a, <3>b, <4>2
        <5>2. m + 1 <= l
          BY <2>1, <3>a, <3>b
        <5>3. l - (m + 1) = 0
          BY <4>2, <5>2
        <5> QED
          BY <3>a, <3>b, <5>1, <5>3
      <4> QED
        BY <4>1, <4>2
    <3>5. ASSUME NEW j \in 1 .. Len(p) - (n + 1) PROVE rest[j] = p[j + (n + 1)]
      <4>1. j \in 1 .. Len(p) - (n + 2) + 1 /\ n + 2 + j - 1 = j + (n + 1)
        BY <1>3, <3>3, <3>5
      <4> QED
        BY <3>2, <3>3, <4>1
    <3> QED
      BY <3>4, <3>5
  <2>5. /\ sent' = sent \o SubSeq(p, 1, (n + 1) - 1)
        /\ \A j \in 1 .. (n + 1) - 1 : p[j] \notin Reqs
    <3>1. (n + 1) - 1 = n
      BY <1>3, <1>5
    <3>2. \A j \in 1 .. n : p[j] \notin Reqs
      BY <1>3, <1>5, <1>a
    <3> QED
      BY <1>2, <3>1, <3>2
  <2>3. \E i \in 1 .. Len(p) : Woken(r, p, i)
    BY <1>11, <2>1, <2>2, <2>4, <2>5 DEF Woken
  <2> QED
    BY <1>1, <1>2, <1>7, <1>8, <2>3 DEF p
<1> QED
  BY <1>9, <1>10, <1>11

(* What the content handler has noted of r: nothing, or what it produced.  *)
Noting(rq, r) ==
    \A x \in Reqs :
        /\ rq[x].parent = req[x].parent /\ rq[x].write = req[x].write
        /\ rq[x].background = req[x].background /\ rq[x].waited = req[x].waited
        /\ rq[x].aio = req[x].aio /\ rq[x].ext = req[x].ext
        /\ rq[x].done = req[x].done /\ rq[x].logged = req[x].logged
        /\ rq[x].postponed = req[x].postponed /\ rq[x].held = req[x].held
        /\ x # r => rq[x].doc = req[x].doc

Following(rq, r, out) ==
    \/ \E z \in Pieces : out = <<z>>
    \/ out = <<>> /\ rq[r].doc = req[r].doc /\ req[r].held = <<>>

(* Output that passes the postpone filter, or wakes a subrequest, leaves   *)
(* the tree of requests in order.                                          *)
LEMMA FilterTree ==
    ASSUME RequestsAssumption, req \in [Reqs -> Request], data \in Reqs,
           NEW rq \in [Reqs -> Request], NEW r \in Reqs,
           NEW out, NEW p \in Seq(Reqs \cup Pieces), p = rq[r].postponed \o out,
           NEW P \in SUBSET Reqs, OnPath(P), Queued(P), Closed(P),
           Noting(rq, r), Following(rq, r, out), Unfiltered(rq, r),
           Unsent(r, p) \/ Passed(r, p) \/ \E i \in 1 .. Len(p) : Woken(r, p, i)
    PROVE  Tree'
<1> DEFINE q == req[r].postponed
<1>0. /\ req[r] \in Request /\ Pieces \cap Reqs = {} /\ Main \in Reqs /\ Subs = Reqs \ {Main}
      /\ \A x \in P : x \in Reqs
  BY DEF RequestsAssumption, Reqs
<1>1. q \in Seq(Reqs \cup Pieces) /\ Len(q) \in Nat /\ Len(p) \in Nat
  BY <1>0 DEF Request
<1>2. p = q \o out
  BY DEF Noting
<1> HIDE DEF q
<1>3. /\ \A i \in 1 .. Len(q) : p[i] = q[i] /\ i \in 1 .. Len(p)
      /\ \A i \in 1 .. Len(p) : p[i] \in Reqs => i \in 1 .. Len(q)
      /\ (\E z \in Pieces : out = <<z>>) => p # <<>> /\ p[Len(p)] \notin Reqs
      /\ out = <<>> => p = q
  <2>1. CASE out = <<>>
    <3>1. p = q
      BY <1>1, <1>2, <2>1, ConcatEmptySeq
    <3> QED
      BY <1>1, <2>1, <3>1
  <2>2. CASE out # <<>>
    <3>1. PICK z \in Pieces : out = <<z>>
      BY <2>2 DEF Following
    <3>2. /\ Len(p) = Len(q) + 1 /\ p[Len(q) + 1] = z
          /\ \A i \in 1 .. Len(q) : p[i] = q[i]
      BY <1>1, <1>2, <3>1
    <3>3. z \notin Reqs
      BY <1>0
    <3>4. p # <<>> /\ p[Len(p)] \notin Reqs
      BY <1>1, <3>2, <3>3
    <3>5. ASSUME NEW i \in 1 .. Len(p), p[i] \in Reqs PROVE i \in 1 .. Len(q)
      <4>1. i # Len(q) + 1
        BY <3>2, <3>3, <3>5
      <4> QED
        BY <1>1, <3>2, <4>1
    <3>6. \A i \in 1 .. Len(q) : p[i] = q[i] /\ i \in 1 .. Len(p)
      BY <1>1, <3>2
    <3> QED
      BY <2>2, <3>4, <3>5, <3>6
  <2> QED
    BY <2>1, <2>2
<1>4. Placed(p, Children(r), P)
  <2>1. Placed(q, Children(r), P)
    BY DEF Queued, q
  <2>2. ASSUME NEW i \in 1 .. Len(p), p[i] \in Reqs
        PROVE  /\ p[i] \in Children(r)
               /\ \A j \in 1 .. Len(p) : p[j] = p[i] => j = i
               /\ p[i] \in P => i = 1
    <3>1. i \in 1 .. Len(q) /\ p[i] = q[i]
      BY <1>3, <2>2
    <3>2. /\ q[i] \in Children(r)
          /\ q[i] \in P => i = 1
          /\ \A j \in 1 .. Len(q) : q[j] = q[i] => j = i
      BY <2>1, <2>2, <3>1 DEF Placed
    <3>3. ASSUME NEW j \in 1 .. Len(p), p[j] = p[i] PROVE j = i
      <4>1. j \in 1 .. Len(q) /\ q[j] = q[i]
        BY <1>3, <2>2, <3>1, <3>3
      <4> QED
        BY <3>2, <4>1
    <3> QED
      BY <3>1, <3>2, <3>3
  <2> QED
    BY <2>2 DEF Placed
<1>5. (~LastIsSub(req'[r].doc) /\ (HasSub(p) \/ (r \in P /\ r # data))) => Tidy(p)
  <2>1. CASE \E z \in Pieces : out = <<z>>
    BY <1>3, <2>1 DEF LastIsSub, Tidy
  <2>2. CASE out = <<>> /\ rq[r].doc = req[r].doc /\ req[r].held = <<>>
    <3>1. p = q /\ req'[r].doc = req[r].doc
      BY <1>3, <2>2 DEF Unfiltered
    <3> QED
      BY <2>2, <3>1 DEF Closed, q
  <2> QED
    BY <2>1, <2>2 DEF Following
<1>6. /\ req' \in [Reqs -> Request]
      /\ \A x \in Reqs :
          /\ req'[x].parent = req[x].parent /\ req'[x].write = req[x].write
          /\ req'[x].background = req[x].background /\ req'[x].logged = req[x].logged
          /\ x # r => req'[x].doc = req[x].doc /\ req'[x].postponed = req[x].postponed /\ req'[x].held = req[x].held
  BY DEF Noting, Unfiltered
<1>7. \A x \in Reqs : Children(x)' = Children(x)
  BY <1>0, <1>6 DEF Children
<1>8. CASE Unsent(r, p)
  <2>1. r # data /\ data' = data /\ req'[r].postponed = p
    BY <1>8 DEF Unsent
  <2>2. OnPath(P)'
    BY ZenonT(60), <1>0, <1>6, <2>1 DEF OnPath
  <2>3. Queued(P)'
    BY <1>4, <1>6, <1>7, <2>1 DEF Queued
  <2>4. Closed(P)'
    <3>1. ASSUME NEW x \in Reqs, ~LastIsSub(req'[x].doc), req'[x].held = <<>>,
                 (x \in P /\ x # data') \/ HasSub(req'[x].postponed)
          PROVE  Tidy(req'[x].postponed)
      <4>1. CASE x = r
        BY <1>5, <2>1, <3>1, <4>1
      <4>2. CASE x # r
        BY <1>6, <2>1, <3>1, <4>2 DEF Closed
      <4> QED
        BY <4>1, <4>2
    <3> QED
      BY <3>1 DEF Closed
  <2> QED
    BY <2>2, <2>3, <2>4 DEF Tree
<1>9. CASE Passed(r, p)
  <2>1. r = data /\ data' = data /\ req'[r].postponed = <<>>
    BY <1>9 DEF Passed
  <2>2. OnPath(P)'
    BY ZenonT(60), <1>0, <1>6, <2>1 DEF OnPath
  <2>3. Queued(P)'
    <3>1. Placed(<<>>, Children(r), P)
      BY DEF Placed
    <3> QED
      BY <1>6, <1>7, <2>1, <3>1 DEF Queued
  <2>4. Closed(P)'
    <3>1. ~HasSub(<<>>)
      BY DEF HasSub
    <3>2. ASSUME NEW x \in Reqs, ~LastIsSub(req'[x].doc), req'[x].held = <<>>,
                 (x \in P /\ x # data') \/ HasSub(req'[x].postponed)
          PROVE  Tidy(req'[x].postponed)
      <4>1. x # r
        BY <2>1, <3>1, <3>2
      <4> QED
        BY <1>6, <2>1, <3>2, <4>1 DEF Closed
    <3> QED
      BY <3>2 DEF Closed
  <2> QED
    BY <2>2, <2>3, <2>4 DEF Tree
<1>10. ASSUME NEW k \in 1 .. Len(p), Woken(r, p, k) PROVE Tree'
  <2> DEFINE w == req'[r].postponed
  <2>1. PICK s \in Reqs : s = p[k]
    BY <1>10 DEF Woken
  <2>2. r = data /\ data' = s /\ req'[r].postponed = w
    BY <1>10, <2>1 DEF Woken
  <2>3. /\ Len(w) = Len(p) - k
        /\ \A i \in 1 .. Len(w) : w[i] = p[i + k] /\ i + k \in 1 .. Len(p) /\ i + k # k
    <3>1. Len(p) - k \in Nat /\ k \in Nat \ {0}
      BY <1>1
    <3>3. Len(w) = Len(p) - k /\ \A i \in 1 .. Len(p) - k : w[i] = p[i + k]
      BY <1>10 DEF Woken
    <3> HIDE DEF w
    <3>4. ASSUME NEW i \in 1 .. Len(w) PROVE w[i] = p[i + k] /\ i + k \in 1 .. Len(p) /\ i + k # k
      <4>1. i \in 1 .. Len(p) - k
        BY <3>3, <3>4
      <4>2. i + k \in 1 .. Len(p) /\ i + k # k
        BY <1>1, <3>1, <4>1
      <4> QED
        BY <3>3, <4>1, <4>2
    <3> QED
      BY <3>3, <3>4
  <2> HIDE DEF w
  <2>4. s \in Children(r) /\ \A j \in 1 .. Len(p) : p[j] = s => j = k
    BY <1>4, <2>1 DEF Placed
  <2>5. /\ s # Main /\ req[s].write # "none" /\ ~req[s].logged /\ ~req[s].background
        /\ req[s].parent = r
    BY <1>0, <2>4 DEF Children
  <2>6. s \notin P /\ s # r
    BY <2>2, <2>5 DEF OnPath
  <2>7. PICK Q \in SUBSET Reqs : Q = P \cup {s}
    BY <2>1
  <2>8. OnPath(Q)'
    <3>1. Main \in Q /\ data' \in Q
      BY <2>2, <2>7 DEF OnPath
    <3>2. ASSUME NEW x \in Q PROVE req'[x].write # "none" /\ ~req'[x].background
      BY ZenonT(60), <1>0, <1>6, <2>5, <2>7, <3>2 DEF OnPath
    <3>3. ASSUME NEW x \in Q \ {Main} PROVE ~req'[x].logged /\ req'[x].parent \in Q /\ req'[x].parent # data'
      <4>1. CASE x = s
        <5>1. ~req'[s].logged /\ req'[s].parent = r
          BY <1>6, <2>1, <2>5
        <5>2. r \in Q
          BY <2>2, <2>7 DEF OnPath
        <5> QED
          BY <2>2, <2>6, <4>1, <5>1, <5>2
      <4>2. CASE x # s
        <5>1. x \in P \ {Main} /\ x \in Reqs
          BY <1>0, <2>7, <4>2
        <5>2. ~req[x].logged /\ req[x].parent \in P
          BY <5>1 DEF OnPath
        <5> QED
          BY <1>6, <2>2, <2>6, <2>7, <5>1, <5>2
      <4> QED
        BY <4>1, <4>2
    <3>4. ASSUME NEW x \in Q \ {Main}, NEW y \in Q \ {Main}, req'[x].parent = req'[y].parent PROVE x = y
      <4>1. \A z \in Q \ {Main} : z # s => z \in P \ {Main} /\ req[z].parent # r
        BY <2>2, <2>7 DEF OnPath
      <4>2. req[x].parent = req[y].parent
        BY <1>6, <2>7, <3>4
      <4>3. CASE x # s /\ y # s
        BY <4>1, <4>2, <4>3 DEF OnPath
      <4>4. CASE x = s \/ y = s
        BY <2>5, <4>1, <4>2, <4>4
      <4> QED
        BY <4>3, <4>4
    <3> QED
      BY <3>1, <3>2, <3>3, <3>4 DEF OnPath
  <2>9. Queued(Q)'
    <3>1. ASSUME NEW x \in Reqs, x # r PROVE Placed(req[x].postponed, Children(x), Q)
      <4>1. Placed(req[x].postponed, Children(x), P)
        BY DEF Queued
      <4>2. s \notin Children(x)
        BY <2>5, <3>1 DEF Children
      <4> QED
        BY <2>7, <4>1, <4>2 DEF Placed
    <3>2. Placed(w, Children(r), Q)
      <4>1. ASSUME NEW i \in 1 .. Len(w), w[i] \in Reqs
            PROVE  /\ w[i] \in Children(r) /\ w[i] \notin Q
                   /\ \A j \in 1 .. Len(w) : w[j] = w[i] => j = i
        <5>1. i + k \in 1 .. Len(p) /\ w[i] = p[i + k] /\ i + k # k
          BY <2>3, <4>1
        <5>2. w[i] \in Children(r) /\ \A j \in 1 .. Len(p) : p[j] = p[i + k] => j = i + k
          BY <1>4, <4>1, <5>1 DEF Placed
        <5>3. w[i] # s
          BY <2>1, <5>1, <5>2
        <5>4. w[i] \notin P
          BY <1>0, <2>2, <5>2 DEF OnPath, Children
        <5>5. ASSUME NEW j \in 1 .. Len(w), w[j] = w[i] PROVE j = i
          <6>1. j + k = i + k
            BY <2>3, <5>1, <5>2, <5>5
          <6>2. j \in Int /\ i \in Int /\ k \in Int
            BY <1>1, <2>3
          <6> QED
            BY <6>1, <6>2
        <5> QED
          BY <2>7, <5>2, <5>3, <5>4, <5>5
      <4> QED
        BY <4>1 DEF Placed
    <3> QED
      BY <1>6, <1>7, <2>2, <3>1, <3>2 DEF Queued
  <2>10. Closed(Q)'
    <3>1. HasSub(p)
      BY <2>1 DEF HasSub
    <3>2. ASSUME ~LastIsSub(req'[r].doc) PROVE Tidy(w)
      <4>1. p # <<>> /\ p[Len(p)] \notin Reqs
        BY <1>5, <3>1, <3>2 DEF LastIsSub, Tidy
      <4>2. k # Len(p)
        BY <2>1, <4>1
      <4>3. Len(w) \in 1 .. Len(w) /\ Len(w) + k = Len(p)
        BY <1>1, <2>3, <4>2
      <4>4. w[Len(w)] = p[Len(p)]
        BY <2>3, <4>3
      <4>5. w # <<>>
        BY <4>3
      <4> QED
        BY <4>1, <4>4, <4>5 DEF LastIsSub, Tidy
    <3>3. ASSUME NEW x \in Reqs, x # r,
                 ~LastIsSub(req'[x].doc), req'[x].held = <<>>,
                 (x \in Q /\ x # data') \/ HasSub(req'[x].postponed)
          PROVE  Tidy(req'[x].postponed)
      <4>1. (x \in P /\ x # data) \/ HasSub(req[x].postponed)
        BY <1>6, <2>2, <2>7, <3>3
      <4> QED
        BY <1>6, <3>3, <4>1 DEF Closed
    <3> QED
      BY <2>2, <3>2, <3>3 DEF Closed
  <2> QED
    BY <2>7, <2>8, <2>9, <2>10 DEF Tree
<1> QED
  BY <1>8, <1>9, <1>10


-----------------------------------------------------------------------------
(* What the worker is doing says in which state the requests are.          *)

Live ==
    /\ Types /\ ~alert /\ Existing /\ ~freed /\ req[Main].write # "terminate"
    /\ Turns /\ Handled /\ Quiet /\ count <= Cardinality(Created) + 1 + Pending
    /\ ~terminated => Going
    /\ terminated => Delayed

LEMMA Constants ==
    ASSUME RequestsAssumption
    PROVE  /\ Main \in Reqs /\ Subs = Reqs \ {Main} /\ Nil \notin Reqs
           /\ IsFiniteSet(Reqs) /\ Pieces \cap Reqs = {}
           /\ \A S \in SUBSET Reqs : IsFiniteSet(S)
<1>1. IsFiniteSet(Reqs)
  BY FS_AddElement DEF RequestsAssumption, Reqs
<1>2. \A S \in SUBSET Reqs : IsFiniteSet(S)
  BY <1>1, FS_Subset
<1> QED
  BY <1>1, <1>2 DEF RequestsAssumption, Reqs

LEMMA LiveNext == Live' => IInv'
BY DEF Live, IInv

LEMMA Acting ==
    ASSUME RequestsAssumption, IInv,
           \/ step.op \in {"content", "finalize"}
           \/ step.op = "run" /\ req[step.r].write # "terminate"
           \/ step.op = "rest" /\ ~freed
           \/ step.op = "loop" /\ ~freed /\ posted # <<Main>>
    PROVE  Live
<1>1. ~freed
  BY DEF IInv, Freed, Loop, Rest
<1>2. req[Main].write = "terminate" => terminated
  BY <1>1, Constants DEF IInv, Handled
<1>3. req[Main].write # "terminate"
  BY <1>1, <1>2 DEF IInv, Doomed
<1> QED
  BY <1>1, <1>3 DEF IInv, Live

(* Nothing in the tree of requests changes.                                *)
SameTree ==
    /\ data' = data
    /\ \A x \in Reqs :
        /\ req'[x].parent = req[x].parent /\ req'[x].background = req[x].background
        /\ req'[x].postponed = req[x].postponed
        /\ req'[x].write = "none" <=> req[x].write = "none"
        /\ req'[x].logged = req[x].logged \/ req[x].background
        /\ (req'[x].doc = req[x].doc /\ req'[x].held = req[x].held) \/ req'[x].held # <<>>

LEMMA TreeSame ==
    ASSUME RequestsAssumption, Tree, SameTree
    PROVE  Tree'
<1>1. PICK P \in SUBSET Reqs : OnPath(P) /\ Queued(P) /\ Closed(P)
  BY DEF Tree
<1>2. \A x \in Reqs : Children(x)' = Children(x)
  BY Constants DEF SameTree, Children
<1>3. OnPath(P)'
  BY <1>1, Constants DEF SameTree, OnPath
<1>4. Queued(P)'
  BY <1>1, <1>2 DEF SameTree, Queued
<1>5. Closed(P)'
  BY <1>1 DEF SameTree, Closed
<1> QED
  BY <1>3, <1>4, <1>5 DEF Tree

(* A step that only goes on to another request or to another part of one.  *)
GoesOn ==
    /\ ~Returning /\ ~Returning'
    /\ StepTyped' /\ buffered' \in BOOLEAN
    /\ posted' \in Seq(Reqs) /\ IsInjective(posted') /\ ToSet(posted') \subseteq ToSet(posted)
    /\ step'.op = "rest" => posted' = <<>>
    /\ step'.op \in OfRequest => step'.r \notin ToSet(posted') /\ req[step'.r].write # "none"
    /\ step'.op = "content" =>
          req[step'.r].write = "handler" /\ ~req[step'.r].logged /\ ~req[step'.r].ext
    /\ step'.op = "finalize" =>
          /\ req[step'.r].write \in {"handler", "upstream", "writer", "finalizer"}
          /\ ~req[step'.r].ext
    /\ ~terminated /\ step'.op = "finalize" /\ step'.rc = "ok" => ~LastIsSub(req[step'.r].doc)
    /\ \A x \in Reqs : About(x)' /\ req[x].logged => req[x].write = "empty"
    /\ ~terminated => \A x \in Reqs : req[x].held # <<>> => req[x].write = "writer" \/ Doing(x)' \/ Ending(x)'
    /\ error' \in {error, TRUE}
    /\ error' /\ ~terminated => step'.op = "finalize" /\ step'.rc = "error"
    /\ \A x \in Reqs : terminated /\ About(x)' /\ ~Ending(x)' /\ req[x].write = "handler" =>
            x \in ToSet(posted) \/ (About(x) /\ ~Ending(x))

LEMMA Frame ==
    ASSUME RequestsAssumption, Live, GoesOn,
           UNCHANGED <<req, count, data, terminated, freed, sent, alert>>
    PROVE  Live'
<1> USE DEF Live
<1>1. Types' /\ ~alert' /\ ~freed' /\ req'[Main].write # "terminate"
  BY DEF Types, GoesOn
<1>2. Existing'
  BY DEF Existing, GoesOn
<1>3. Turns'
  BY DEF Turns, GoesOn
<1>4. Handled'
  <2>1. \A x \in Reqs : req[x].ext => req[x].write = "upstream" /\ ~req[x].logged /\ ~Doing(x)' /\ ~Ending(x)'
    BY DEF Handled, GoesOn, Doing, Ending, Returning
  <2>2. \A x \in Reqs : req[x].write = "terminate" => x = Main /\ terminated
    BY DEF Handled
  <2> QED
    BY <2>1, <2>2 DEF Handled, GoesOn, Returning
<1>5. Quiet'
  BY DEF Quiet, GoesOn
<1>6. count' <= Cardinality(Created') + 1 + Pending'
  BY DEF GoesOn, Pending, Created
<1>7. ASSUME ~terminated PROVE Going'
  <2>1. Reading'
    BY <1>7 DEF Going, Reading, GoesOn, Open
  <2>2. MainDone' /\ Ended'
    BY <1>7 DEF Going, MainDone, Ended, GoesOn, Ending
  <2>3. Tree'
    <3>1. SameTree
      BY DEF SameTree
    <3> QED
      BY <1>7, <3>1, TreeSame DEF Going
  <2>4. Held' = Held /\ Pending' = Pending
    BY DEF Held, Created, Pending, GoesOn
  <2> QED
    BY <1>7, <2>1, <2>2, <2>3, <2>4 DEF Going, GoesOn
<1>8. ASSUME terminated PROVE Delayed'
  <2>1. Owners' \subseteq Owners /\ Owners \in SUBSET Reqs
    BY DEF Owners, GoesOn, Doing
  <2>2. Cardinality(Owners') <= Cardinality(Owners) /\ Cardinality(Owners') \in Nat /\ Cardinality(Owners) \in Nat
    BY <2>1, Constants, FS_Subset, FS_CardinalityType
  <2>3. \A x \in Reqs : Stays(x) => Stays(x)'
    BY <1>8 DEF Stays, GoesOn
  <2>4. Pending' = 0 /\ Pending = 0
    BY DEF Pending, GoesOn
  <2>5. error'
    <3>1. error /\ error \in BOOLEAN
      BY <1>8 DEF Delayed, Types
    <3>2. error' \in {error, TRUE}
      BY DEF GoesOn
    <3> QED
      BY <3>1, <3>2
  <2> QED
    BY <1>8, <2>2, <2>3, <2>4, <2>5 DEF Delayed, Types
<1> QED
  BY <1>1, <1>2, <1>3, <1>4, <1>5, <1>6, <1>7, <1>8

LEMMA WaitStep ==
    ASSUME RequestsAssumption, IInv, NEW r \in Reqs, WaitSubrequest(r) \/ ContentFails(r)
    PROVE  IInv'
<1>1. step = Content(r) /\ Live
  BY Acting DEF WaitSubrequest, ContentFails, Working, Content
<1>2. step.op = "content" /\ step.r = r
  BY <1>1 DEF Content
<1>3. GoesOn
  <2>1. CASE WaitSubrequest(r)
    <3>1. /\ step' = Loop /\ step'.op = "loop" /\ req[r].held = <<>>
          /\ posted' = posted /\ buffered' = buffered /\ error' = error
      BY <2>1 DEF WaitSubrequest, Loop
    <3> QED
      BY <1>1, <1>2, <3>1 DEF GoesOn, Live, Types, Turns, Going, Reading, Returning, StepTyped, OfRequest,
                              About, Doing, Ending
  <2>2. CASE ContentFails(r)
    <3>1. /\ step' = Finalize(r, "error") /\ step'.op = "finalize" /\ step'.r = r /\ step'.rc = "error"
          /\ posted' = posted /\ buffered' = buffered /\ error' = error
      BY <2>2 DEF ContentFails, Finalize
    <3>2. /\ req[r].write \in {"handler", "upstream"} /\ ~req[r].ext /\ ~req[r].logged
          /\ r \notin ToSet(posted)
      BY <1>1, <1>2 DEF Live, Handled, Doing, Turns, OfRequest
    <3>3. ~terminated => \A x \in Reqs : req[x].held # <<>> => req[x].write = "writer" \/ Doing(x)' \/ Ending(x)'
      BY <1>1, <1>2, <3>1 DEF Live, Going, Reading, Doing, Ending
    <3> QED
      BY <1>1, <1>2, <3>1, <3>2, <3>3 DEF GoesOn, Live, Types, Turns, Returning, StepTyped, OfRequest,
                              About, Ending
  <2> QED
    BY <2>1, <2>2
<1> QED
  BY <1>1, <1>3, Frame, LiveNext DEF WaitSubrequest, ContentFails

(* The request is freed, or about to be: nothing but the loop goes on.     *)
LEMMA FreedStep ==
    ASSUME IInv, freed, LoopEnds \/ UNCHANGED vars
    PROVE  IInv'
<1>1. CASE UNCHANGED vars
  BY <1>1 DEF IInv, vars, Types, StepTyped, Existing, Freed
<1>2. CASE LoopEnds
  <2>1. /\ step' = Rest /\ step'.op = "rest"
        /\ UNCHANGED <<req, count, posted, data, buffered, error, terminated, freed, sent, alert>>
    BY <1>2 DEF LoopEnds, Rest
  <2> QED
    BY <2>1 DEF IInv, Types, StepTyped, Existing, Freed, OfRequest
<1> QED
  BY <1>1, <1>2

LEMMA DoomedSteps ==
    ASSUME RequestsAssumption, IInv, ~freed, req[Main].write = "terminate", RunPosted \/ RunTerminate
    PROVE  IInv'
<1>1. Types /\ ~alert /\ Existing /\ Turns /\ Handled /\ Quiet /\ terminated /\ Doomed
      /\ count <= Cardinality(Created) + 1 + Pending
  BY Constants DEF IInv, Handled
<1>2. CASE RunPosted
  <2>1. posted = <<Main>> /\ step = Loop
    BY <1>1, <1>2 DEF RunPosted, Doomed, Loop
  <2>2. /\ step' = Run(Main) /\ step'.op = "run" /\ step'.r = Main /\ posted' = <<>>
        /\ UNCHANGED <<req, count, data, buffered, error, terminated, freed, sent, alert>>
    BY <1>2, <2>1 DEF RunPosted, Run
  <2>3. Types' /\ ~alert' /\ Existing' /\ Doomed'
    BY <1>1, <2>1, <2>2, Constants DEF Types, StepTyped, Existing, OfRequest, Doomed, ToSet, Loop
  <2>4. Turns' /\ Handled' /\ Quiet'
    BY <1>1, <2>1, <2>2, Constants DEF Turns, Handled, Quiet, Existing, OfRequest, ToSet, IsInjective,
                                       Doing, Ending, Returning, About
  <2>5. count' <= Cardinality(Created') + 1 + Pending'
    BY <1>1, <2>1, <2>2 DEF Created, Pending, Returning, Loop
  <2> QED
    BY <1>1, <2>2, <2>3, <2>4, <2>5 DEF IInv
<1>3. CASE RunTerminate
  <2>1. step'  = Loop /\ step'.op = "loop" /\ count' = 0 /\ freed' = ~Blocked(req)
        /\ UNCHANGED <<req, posted, data, buffered, error, terminated, sent, alert>>
    BY <1>3 DEF RunTerminate, Loop
  <2>2. /\ \A x \in Reqs : ~req[x].ext /\ ~req[x].aio
        /\ freed'
    BY <1>1, <2>1 DEF Doomed, Blocked
  <2> QED
    BY <1>1, <2>1, <2>2 DEF IInv, Types, StepTyped, Existing, Freed, OfRequest
<1> QED
  BY <1>2, <1>3

LEMMA LoopSteps ==
    ASSUME RequestsAssumption, IInv, LoopEnds \/ RunPosted
    PROVE  IInv'
<1>1. CASE freed
  BY <1>1, FreedStep DEF RunPosted
<1>2. CASE ~freed /\ req[Main].write = "terminate"
  <2>1. posted # <<>>
    BY <1>2, Constants DEF IInv, Doomed, Handled, LoopEnds, RunPosted, Loop
  <2> QED
    BY <1>2, <2>1, DoomedSteps DEF LoopEnds
<1>3. CASE ~freed /\ req[Main].write # "terminate"
  <2>1. Live /\ step.op = "loop"
    BY <1>3 DEF IInv, Live, LoopEnds, RunPosted, Loop
  <2>2. UNCHANGED <<req, count, data, buffered, error, terminated, freed, sent, alert>>
    BY DEF LoopEnds, RunPosted
  <2>3. ~terminated => ~error /\ \A x \in Reqs : req[x].held # <<>> => req[x].write = "writer"
    BY <2>1 DEF Live, Going, Reading, Doing, Ending
  <2>4. GoesOn
    <3>1. CASE LoopEnds
      <4>1. step'.op = "rest" /\ posted' = posted /\ posted = <<>>
        BY <1>3, <3>1 DEF LoopEnds, Rest
      <4> QED
        BY <2>1, <2>2, <2>3, <4>1 DEF GoesOn, Live, Types, Turns, Returning, StepTyped, OfRequest,
                              About, Doing, Ending
    <3>2. CASE RunPosted
      <4>1. /\ step' = Run(Head(posted)) /\ posted' = Tail(posted) /\ posted # <<>>
            /\ posted \in Seq(Reqs) /\ IsInjective(posted)
        BY <2>1, <3>2 DEF RunPosted, Live, Types, Turns
      <4>2. PICK x \in Reqs : x = Head(posted)
        BY <4>1
      <4>3. /\ x \in ToSet(posted) /\ posted' \in Seq(Reqs) /\ IsInjective(posted')
            /\ ToSet(posted') = ToSet(posted) \ {x}
        BY <4>1, <4>2, QueueHead
      <4>4. step'.op = "run" /\ step'.r = x
        BY <4>1, <4>2 DEF Run
      <4>5. req[x].write # "none" /\ (req[x].logged => req[x].write = "empty")
        BY <2>1, <4>3 DEF Live, Existing, Quiet
      <4> QED
        BY <2>1, <2>2, <2>3, <4>3, <4>4, <4>5 DEF GoesOn, Live, Types, Returning, StepTyped, OfRequest,
                              About, Doing, Ending
    <3> QED
      BY <3>1, <3>2
  <2> QED
    BY <2>1, <2>2, <2>4, Frame, LiveNext
<1> QED
  BY <1>1, <1>2, <1>3

LEMMA RunSteps ==
    ASSUME RequestsAssumption, IInv, NEW r \in Reqs,
           RunHandler(r) \/ RunIdle(r) \/ RunFinalizer(r) \/ RunWriterFails(r)
    PROVE  IInv'
<1>1. /\ step = Run(r) /\ req[r].write # "terminate"
      /\ UNCHANGED <<req, count, posted, data, buffered, terminated, freed, sent, alert>>
      /\ error' = error \/ (RunWriterFails(r) /\ error' = TRUE)
  BY DEF RunHandler, RunIdle, RunFinalizer, RunWriterFails, Running
<1>2. step.op = "run" /\ step.r = r
  BY <1>1 DEF Run
<1>3. Live
  BY <1>1, <1>2, Acting
<1>4. /\ ~terminated => ~error /\ \A x \in Reqs : req[x].held # <<>> => req[x].write = "writer"
      /\ r \notin ToSet(posted) /\ req[r].write # "none"
      /\ req[r].logged => req[r].write = "empty"
      /\ req[r].ext => req[r].write = "upstream"
      /\ ~terminated /\ req[r].write = "finalizer" => ~LastIsSub(req[r].doc)
  BY <1>2, <1>3 DEF Live, Going, Reading, Doing, Ending, Turns, OfRequest, Existing, Quiet, About, Handled, Ended
<1>5. GoesOn
  <2>1. CASE RunHandler(r)
    <3>1. /\ step'.op = "content" /\ step'.r = r /\ req[r].write = "handler"
          /\ error' = error
      BY <2>1 DEF RunHandler, Content, Running
    <3> QED
      BY <1>1, <1>2, <1>3, <1>4, <3>1 DEF GoesOn, Live, Types, Turns, Returning, StepTyped, OfRequest,
                              About, Doing, Ending
  <2>2. CASE RunIdle(r)
    <3>1. step'.op = "loop" /\ error' = error
      BY <2>2 DEF RunIdle, Loop
    <3> QED
      BY <1>1, <1>2, <1>3, <1>4, <3>1 DEF GoesOn, Live, Types, Turns, Returning, StepTyped, OfRequest,
                              About, Doing, Ending
  <2>3. CASE RunFinalizer(r)
    <3>1. /\ step'.op = "finalize" /\ step'.r = r /\ step'.rc = "ok" /\ req[r].write = "finalizer"
          /\ error' = error
      BY <2>3 DEF RunFinalizer, Finalize, Running
    <3> QED
      BY <1>1, <1>2, <1>3, <1>4, <3>1 DEF GoesOn, Live, Types, Turns, Returning, StepTyped, OfRequest,
                              About, Doing, Ending
  <2>4. CASE RunWriterFails(r)
    <3>1. step'.op = "finalize" /\ step'.r = r /\ step'.rc = "error" /\ req[r].write = "writer"
      BY <2>4 DEF RunWriterFails, Finalize, Running
    <3> QED
      BY <1>1, <1>2, <1>3, <1>4, <3>1 DEF GoesOn, Live, Types, Turns, Returning, StepTyped, OfRequest,
                              About, Doing, Ending
  <2> QED
    BY <2>1, <2>2, <2>3, <2>4
<1> QED
  BY <1>1, <1>3, <1>5, Frame, LiveNext

LEMMA ClientWriteStep ==
    ASSUME RequestsAssumption, IInv, ClientWrite
    PROVE  IInv'
<1>1. /\ step.op = "rest" /\ ~freed /\ step' = Run(data) /\ buffered' = FALSE
      /\ UNCHANGED <<req, count, posted, data, error, terminated, freed, sent, alert>>
  BY DEF ClientWrite, Ready, Rest
<1>2. Live /\ posted = <<>> /\ data \in Reqs /\ req[data].write # "none" /\ ~req[data].logged
  BY <1>1, Acting DEF Live, Turns, Types, Existing, Quiet
<1>3. /\ ~terminated => ~error /\ \A x \in Reqs : req[x].held # <<>> => req[x].write = "writer"
      /\ terminated => req[data].write = "finalizer"
  BY <1>1, <1>2 DEF Live, Going, Reading, Doing, Ending, Delayed
<1>4. step'.op = "run" /\ step'.r = data /\ ToSet(posted) = {}
  BY <1>1, <1>2 DEF Run, ToSet
<1>5. GoesOn
  BY <1>1, <1>2, <1>3, <1>4 DEF GoesOn, Live, Types, Turns, Returning, StepTyped, OfRequest, About, Doing, Ending
<1> QED
  BY <1>1, <1>2, <1>5, Frame, LiveNext

-----------------------------------------------------------------------------
(* What the steps leave as it is.                                          *)

(* No request is created. *)
Lasting ==
    /\ \A x \in Reqs : /\ req'[x].parent = req[x].parent /\ req'[x].background = req[x].background
                       /\ req'[x].write = "none" <=> req[x].write = "none"
                       /\ req[x].write = "none" => req'[x] = req[x]
    /\ ~req'[Main].logged
    /\ data' \in Reqs /\ req[data'].write # "none" /\ ~req[data'].background
    /\ posted' \in Seq(Reqs) /\ \A x \in ToSet(posted') : x \in Reqs /\ req[x].write # "none"
    /\ step'.op \in OfRequest => step'.r \in Reqs /\ req[step'.r].write # "none"

LEMMA ExistingSame ==
    ASSUME RequestsAssumption, Existing, Lasting
    PROVE  Existing' /\ Created' = Created
<1>1. Created' = Created
  BY DEF Lasting, Created
<1>2. req'[Main].write # "none" /\ ~req'[Main].background /\ ~req'[Main].logged
  BY Constants DEF Lasting, Existing
<1>3. ASSUME NEW x \in Reqs, req'[x].write = "none"
      PROVE  ~req'[x].logged /\ req'[x].held = <<>> /\ ~req'[x].aio /\ ~req'[x].ext
  <2>1. req[x].write = "none"
    BY <1>3 DEF Lasting
  <2>2. req'[x] = req[x]
    BY <2>1 DEF Lasting
  <2> QED
    BY <2>1, <2>2 DEF Existing
<1>4. ASSUME NEW x \in Subs, req'[x].write # "none"
      PROVE  /\ req'[x].parent \in Reqs /\ req'[req'[x].parent].write # "none"
             /\ ~req'[req'[x].parent].background
  <2>1. x \in Reqs /\ req[x].write # "none"
    BY <1>4, Constants DEF Lasting
  <2>2. PICK p \in Reqs : p = req[x].parent
    BY <2>1 DEF Existing
  <2>3. req[p].write # "none" /\ ~req[p].background
    BY <1>4, <2>1, <2>2 DEF Existing
  <2>4. req'[x].parent = p /\ req'[p].write # "none" /\ ~req'[p].background
    BY <2>1, <2>2, <2>3 DEF Lasting
  <2> QED
    BY <2>4
<1>5. /\ \A x \in ToSet(posted') : req'[x].write # "none"
      /\ req'[data'].write # "none" /\ ~req'[data'].background
      /\ step'.op \in OfRequest => req'[step'.r].write # "none"
  BY DEF Lasting
<1> QED
  BY <1>1, <1>2, <1>3, <1>4, <1>5 DEF Existing

LEMMA HeldSame ==
    ASSUME Created' = Created, \A x \in Reqs : Open(x)' <=> Open(x)
    PROVE  Held' = Held
<1>1. Held = {x \in Created : Open(x)}
  BY DEF Held, Open
<1>2. Held' = {x \in Created' : Open(x)'}
  BY DEF Held, Open
<1>3. Created \subseteq Reqs
  BY DEF Created
<1> QED
  BY <1>1, <1>2, <1>3

-----------------------------------------------------------------------------
(* The content handler.                                                    *)

LEMMA BufferIsPiece ==
    ASSUME RequestsAssumption, req \in [Reqs -> Request], NEW r \in Reqs, Buffers(r) < MaxChunks[r]
    PROVE  NewBuffer(r) \in Pieces
<1>1. Buffers(r) \in Nat
  <2> DEFINE d == req[r].doc
  <2>1. DOMAIN d = 1 .. Len(d) /\ Len(d) \in Nat
    BY DEF Request
  <2>2. IsFiniteSet(1 .. Len(d))
    BY <2>1, FS_Interval
  <2>3. {i \in DOMAIN d : ~IsSub(d[i])} \subseteq 1 .. Len(d)
    BY <2>1
  <2> QED
    BY <2>2, <2>3, FS_Subset, FS_CardinalityType DEF Buffers
<1>2. MaxChunks[r] \in Nat
  BY DEF RequestsAssumption
<1>3. Buffers(r) + 1 \in 1 .. MaxChunks[r]
  BY <1>1, <1>2
<1>4. <<r, Buffers(r) + 1>> \in {r} \X (1 .. MaxChunks[r])
  BY <1>3
<1> QED
  BY <1>4 DEF NewBuffer, Pieces

(* A record that is the other one but for what it has produced.            *)
Continues(new, old) ==
    /\ new.parent = old.parent /\ new.write = old.write
    /\ new.background = old.background /\ new.waited = old.waited
    /\ new.aio = old.aio /\ new.ext = old.ext
    /\ new.done = old.done /\ new.logged = old.logged
    /\ new.postponed = old.postponed /\ new.held = old.held

LEMMA NotedIs ==
    ASSUME NEW rq \in [Reqs -> Request], NEW r \in Reqs, NEW z \in Reqs \cup Pieces
    PROVE  /\ Noted(rq, r, z) \in [Reqs -> Request]
           /\ \A x \in Reqs \ {r} : Noted(rq, r, z)[x] = rq[x]
           /\ Continues(Noted(rq, r, z)[r], rq[r])
           /\ Noted(rq, r, z)[r].doc = Append(rq[r].doc, z)
<1>1. rq[r] \in Request /\ rq[r].doc \in Seq(Reqs \cup Pieces)
  BY DEF Request
<1>2. Append(rq[r].doc, z) \in Seq(Reqs \cup Pieces)
  BY <1>1
<1>3. [rq[r] EXCEPT !.doc = Append(rq[r].doc, z)] \in Request
  BY <1>1, <1>2 DEF Request
<1>4. Noted(rq, r, z) = [rq EXCEPT ![r] = [rq[r] EXCEPT !.doc = Append(rq[r].doc, z)]]
  BY DEF Noted
<1>5. /\ Noted(rq, r, z) \in [Reqs -> Request]
      /\ \A x \in Reqs \ {r} : Noted(rq, r, z)[x] = rq[x]
      /\ Noted(rq, r, z)[r] = [rq[r] EXCEPT !.doc = Append(rq[r].doc, z)]
  BY <1>3, <1>4
<1> QED
  BY <1>1, <1>5 DEF Request, Continues

LEMMA ContentFacts ==
    ASSUME RequestsAssumption, IInv, NEW r \in Reqs, Working(r)
    PROVE  /\ Live /\ step.op = "content" /\ step.r = r
           /\ req[r].write \in {"handler", "upstream"} /\ ~req[r].logged /\ ~req[r].ext
           /\ r \notin ToSet(posted) /\ Pending = 0
           /\ ~terminated => /\ ~error /\ Open(r)
                             /\ \A x \in Reqs \ {r} : req[x].held # <<>> => req[x].write = "writer"
           /\ terminated => error /\ r # data
<1>1. step.op = "content" /\ step.r = r
  BY DEF Working, Content
<1>2. Live
  BY <1>1, Acting
<1>3. req[r].write \in {"handler", "upstream"} /\ ~req[r].logged /\ ~req[r].ext /\ r \notin ToSet(posted)
  BY <1>1, <1>2 DEF Live, Handled, Doing, Turns, OfRequest
<1>4. Pending = 0
  BY <1>1 DEF Pending, Returning
<1>5. ~terminated => /\ ~error /\ Open(r)
                     /\ \A x \in Reqs \ {r} : req[x].held # <<>> => req[x].write = "writer"
  BY <1>1, <1>2, <1>3 DEF Live, Going, Reading, Doing, Ending, MainDone, Open
<1>6. terminated => error /\ r # data
  BY <1>2, <1>3 DEF Live, Delayed
<1> QED
  BY <1>1, <1>2, <1>3, <1>4, <1>5, <1>6

LEMMA OutputAioStep ==
    ASSUME RequestsAssumption, IInv, NEW r \in Reqs, OutputAio(r)
    PROVE  IInv'
<1>1. Working(r) /\ MayOutput(r) /\ UNCHANGED <<count, posted, data, buffered, error, terminated, freed, step, sent, alert>>
  BY DEF OutputAio
<1>2. /\ Live /\ step.op = "content" /\ step.r = r
      /\ req[r].write \in {"handler", "upstream"} /\ ~req[r].logged /\ ~req[r].ext
      /\ r \notin ToSet(posted) /\ Pending = 0
      /\ ~terminated => /\ ~error /\ Open(r)
                        /\ \A x \in Reqs \ {r} : req[x].held # <<>> => req[x].write = "writer"
  BY <1>1, ContentFacts
<1>3. PICK b \in Pieces : b = NewBuffer(r)
  BY <1>1, <1>2, BufferIsPiece DEF MayOutput, Live, Types
<1>4. PICK rq \in [Reqs -> Request] :
        /\ rq = [req EXCEPT ![r].held = <<b>>, ![r].aio = TRUE]
        /\ \A x \in Reqs \ {r} : rq[x] = req[x]
        /\ rq[r] = [req[r] EXCEPT !.held = <<b>>, !.aio = TRUE]
  <2>1. req \in [Reqs -> Request] /\ req[r] \in Request
    BY <1>2 DEF Live, Types
  <2>2. [req[r] EXCEPT !.held = <<b>>, !.aio = TRUE] \in Request
    BY <2>1 DEF Request
  <2>3. [req EXCEPT ![r].held = <<b>>, ![r].aio = TRUE] = [req EXCEPT ![r] = [req[r] EXCEPT !.held = <<b>>, !.aio = TRUE]]
    BY <2>1
  <2>4. [req EXCEPT ![r] = [req[r] EXCEPT !.held = <<b>>, !.aio = TRUE]] \in [Reqs -> Request]
    BY <2>1, <2>2
  <2> QED
    BY <2>1, <2>3, <2>4
<1>5. req' = Noted(rq, r, b)
  BY <1>3, <1>4 DEF OutputAio
<1>6. /\ req' \in [Reqs -> Request]
      /\ \A x \in Reqs \ {r} : req'[x] = req[x]
      /\ req'[r].parent = req[r].parent /\ req'[r].write = req[r].write
      /\ req'[r].background = req[r].background /\ req'[r].ext = req[r].ext
      /\ req'[r].done = req[r].done /\ req'[r].logged = req[r].logged
      /\ req'[r].postponed = req[r].postponed
      /\ req'[r].held # <<>>
  <2>1. /\ rq[r].parent = req[r].parent /\ rq[r].write = req[r].write
        /\ rq[r].background = req[r].background /\ rq[r].ext = req[r].ext
        /\ rq[r].done = req[r].done /\ rq[r].logged = req[r].logged
        /\ rq[r].postponed = req[r].postponed /\ rq[r].held = <<b>>
    BY <1>2, <1>4 DEF Live, Types, Request
  <2>2. /\ req' \in [Reqs -> Request] /\ \A x \in Reqs \ {r} : req'[x] = rq[x]
        /\ Continues(req'[r], rq[r])
    BY <1>5, NotedIs
  <2>3. <<b>> # <<>>
    OBVIOUS
  <2> QED
    BY <1>4, <2>1, <2>2, <2>3 DEF Continues
<1>7. Types' /\ ~alert' /\ ~freed' /\ req'[Main].write # "terminate"
  BY ZenonT(60), <1>1, <1>2, <1>6, Constants DEF Live, Types, StepTyped
<1>8. Existing' /\ Created' = Created
  <2>1. Lasting
    BY SMTT(30), <1>1, <1>2, <1>6, Constants DEF Lasting, Live, Existing, Types, ToSet
  <2> QED
    BY <1>2, <2>1, ExistingSame DEF Live
<1>9. Turns' /\ Handled'
  BY <1>1, <1>2, <1>6, Constants DEF Live, Turns, Handled, Doing, Ending, Returning, Existing, StepTyped, OfRequest
<1>10. Quiet'
  BY <1>1, <1>2, <1>6 DEF Live, Quiet, About
<1>11. Created' = Created /\ Pending' = Pending
  BY <1>1, <1>8 DEF Pending, Returning
<1>12. ASSUME ~terminated PROVE Going'
  <2>1. SameTree
    BY <1>1, <1>6 DEF SameTree
  <2>2. Tree'
    BY <1>2, <1>12, <2>1, TreeSame DEF Live, Going
  <2>3. Reading'
    BY <1>1, <1>2, <1>6, <1>12 DEF Live, Going, Reading, Open, Doing, Ending
  <2>4. MainDone' /\ Ended'
    BY <1>1, <1>2, <1>6, <1>12, Constants DEF Live, Going, MainDone, Ended, Ending
  <2>5. Held' = Held
    <3>1. \A x \in Reqs : Open(x)' <=> Open(x)
      BY <1>6 DEF Open
    <3> QED
      BY <1>8, <3>1, HeldSame
  <2> QED
    BY <1>1, <1>2, <1>11, <1>12, <2>2, <2>3, <2>4, <2>5 DEF Live, Going
<1>13. ASSUME terminated PROVE Delayed'
  <2>1. Owners' = Owners
    BY <1>1, <1>6 DEF Owners, Doing
  <2>2. \A x \in Reqs : Stays(x)' <=> Stays(x)
    BY <1>1, <1>6 DEF Stays, About, Ending
  <2> QED
    BY <1>1, <1>2, <1>6, <1>11, <1>13, <2>1, <2>2 DEF Live, Delayed, Types
<1> QED
  BY <1>1, <1>2, <1>7, <1>8, <1>9, <1>10, <1>11, <1>12, <1>13, LiveNext DEF Live

(* One request changes, and the tree of them does not.                     *)
Alters(r) ==
    /\ req' \in [Reqs -> Request] /\ \A x \in Reqs \ {r} : req'[x] = req[x]
    /\ req'[r].parent = req[r].parent /\ req'[r].background = req[r].background
    /\ req'[r].waited = req[r].waited
    /\ req'[r].postponed = req[r].postponed /\ req'[r].doc = req[r].doc
    /\ req'[r].held = req[r].held
    /\ req[r].write # "none" /\ req'[r].write \notin {"none", "terminate"}

Follows ==
    /\ data' = data
    /\ posted' \in Seq(Reqs) /\ \A x \in ToSet(posted') : x \in Reqs /\ req[x].write # "none"
    /\ step'.op \in OfRequest => step'.r \in Reqs /\ req[step'.r].write # "none"

LEMMA OneAltered ==
    ASSUME RequestsAssumption, Live, NEW r \in Reqs, Alters(r), Follows,
           req'[r].logged = req[r].logged \/ (req[r].background /\ r # Main)
    PROVE  Existing' /\ Created' = Created /\ (Tree => Tree') /\ req'[Main].write # "terminate"
<1>1. Lasting
  BY Constants DEF Lasting, Alters, Follows, Live, Types, Existing
<1>2. Existing' /\ Created' = Created
  BY <1>1, ExistingSame DEF Live
<1>3. SameTree
  BY DEF SameTree, Alters, Follows
<1>4. req'[Main].write # "terminate"
  BY Constants DEF Alters, Live
<1> QED
  BY <1>2, <1>3, <1>4, TreeSame

LEMMA StartUpstreamStep ==
    ASSUME RequestsAssumption, IInv, NEW r \in Reqs, StartUpstream(r)
    PROVE  IInv'
<1>1. /\ Working(r) /\ req[r].held = <<>> /\ req[r].write = "handler" /\ count' = count + 1
      /\ step'.op = "finalize" /\ step'.r = r /\ step'.rc = "done"
      /\ UNCHANGED <<posted, data, buffered, error, terminated, freed, sent, alert>>
  BY DEF StartUpstream, Finalize
<1>2. /\ Live /\ step.op = "content" /\ step.r = r
      /\ ~req[r].logged /\ ~req[r].ext
      /\ r \notin ToSet(posted) /\ Pending = 0
      /\ ~terminated => /\ ~error /\ Open(r)
                        /\ \A x \in Reqs \ {r} : req[x].held # <<>> => req[x].write = "writer"
  BY <1>1, ContentFacts
<1>3. /\ Alters(r) /\ req'[r].logged = req[r].logged /\ req'[r].done = req[r].done
      /\ req'[r].aio = req[r].aio /\ req'[r].ext /\ req'[r].write = "upstream"
  <2>1. req \in [Reqs -> Request] /\ req[r] \in Request
    BY <1>2 DEF Live, Types
  <2>2. req' = [req EXCEPT ![r] = [req[r] EXCEPT !.write = "upstream", !.ext = TRUE]]
    BY <2>1 DEF StartUpstream
  <2>3. [req[r] EXCEPT !.write = "upstream", !.ext = TRUE] \in Request
    BY <2>1 DEF Request, Handlers
  <2> QED
    BY <1>1, <2>1, <2>2, <2>3 DEF Alters, Request
<1>4. Pending' = 1 /\ Returning'
  BY <1>1 DEF Pending, Returning
<1>5. Follows
  BY <1>1, <1>2 DEF Follows, Live, Types, Existing, ToSet, OfRequest
<1>6. Existing' /\ Created' = Created /\ (Tree => Tree') /\ req'[Main].write # "terminate"
  BY <1>2, <1>3, <1>5, OneAltered
<1>7. Types'
  BY <1>1, <1>2, <1>3 DEF Live, Types, StepTyped, Alters, OfRequest
<1>8. Turns' /\ Handled'
  BY <1>1, <1>2, <1>3 DEF Live, Turns, Handled, Alters, Doing, Ending, Returning, OfRequest
<1>9. Quiet'
  BY <1>1, <1>2, <1>3 DEF Live, Quiet, About, Alters, OfRequest
<1>10. ASSUME ~terminated PROVE Going'
  <2>1. Reading'
    BY <1>1, <1>2, <1>3, <1>10 DEF Live, Going, Reading, Open, Doing, Ending, Alters
  <2>2. MainDone' /\ Ended'
    BY <1>1, <1>2, <1>3, <1>10, Constants DEF Live, Going, MainDone, Ended, Ending, Alters
  <2>3. Held' = Held
    <3>1. \A x \in Reqs : Open(x)' <=> Open(x)
      BY <1>3 DEF Open, Alters
    <3> QED
      BY <1>6, <3>1, HeldSame
  <2>4. Cardinality(Held) \in Nat
    BY Constants, FS_CardinalityType DEF Held, Created
  <2> QED
    BY <1>1, <1>2, <1>4, <1>6, <1>10, <2>1, <2>2, <2>3, <2>4 DEF Live, Going
<1>11. ASSUME terminated PROVE Delayed'
  <2>1. Owners' = Owners
    BY <1>1, <1>2, <1>3 DEF Owners, Doing, Alters
  <2>2. \A x \in Reqs : Stays(x) => Stays(x)'
    BY <1>1, <1>2, <1>3 DEF Stays, About, Ending, Alters, OfRequest
  <2>3. Cardinality(Owners) \in Nat
    BY Constants, FS_CardinalityType DEF Owners
  <2>4. r # data
    BY <1>2, <1>11, <1>1 DEF Live, Delayed
  <2> QED
    BY <1>1, <1>2, <1>3, <1>4, <1>11, <2>1, <2>2, <2>3, <2>4 DEF Live, Delayed, Types, Alters
<1>12. count' <= Cardinality(Created') + 1 + Pending'
  <2>1. Cardinality(Created) \in Nat
    BY Constants, FS_CardinalityType DEF Created
  <2> QED
    BY <1>1, <1>2, <1>4, <1>6, <2>1 DEF Live, Types
<1> QED
  BY <1>1, <1>2, <1>6, <1>7, <1>8, <1>9, <1>10, <1>11, <1>12, LiveNext DEF Live

LEMMA UpstreamAgainStep ==
    ASSUME RequestsAssumption, IInv, NEW r \in Reqs, UpstreamAgain(r)
    PROVE  IInv'
<1>1. /\ Working(r) /\ req[r].held = <<>> /\ req[r].write = "upstream"
      /\ step'.op = "loop"
      /\ UNCHANGED <<count, posted, data, buffered, error, terminated, freed, sent, alert>>
  BY DEF UpstreamAgain, Loop
<1>2. /\ Live /\ step.op = "content" /\ step.r = r
      /\ ~req[r].logged /\ ~req[r].ext
      /\ r \notin ToSet(posted) /\ Pending = 0
      /\ ~terminated => /\ ~error /\ Open(r)
                        /\ \A x \in Reqs \ {r} : req[x].held # <<>> => req[x].write = "writer"
      /\ terminated => r # data
  BY <1>1, ContentFacts
<1>3. /\ Alters(r) /\ req'[r].logged = req[r].logged /\ req'[r].done = req[r].done
      /\ req'[r].aio = req[r].aio /\ req'[r].ext /\ req'[r].write = "upstream"
  <2>1. req \in [Reqs -> Request] /\ req[r] \in Request
    BY <1>2 DEF Live, Types
  <2>2. req' = [req EXCEPT ![r] = [req[r] EXCEPT !.ext = TRUE]]
    BY <2>1 DEF UpstreamAgain
  <2>3. [req[r] EXCEPT !.ext = TRUE] \in Request
    BY <2>1 DEF Request, Handlers
  <2> QED
    BY <1>1, <2>1, <2>2, <2>3 DEF Alters, Request
<1>4. Pending' = 0 /\ ~Returning'
  BY <1>1 DEF Pending, Returning
<1>5. Follows
  BY <1>1, <1>2 DEF Follows, Live, Types, Existing, ToSet, OfRequest
<1>6. Existing' /\ Created' = Created /\ (Tree => Tree') /\ req'[Main].write # "terminate"
  BY <1>2, <1>3, <1>5, OneAltered
<1>7. Types'
  BY <1>1, <1>2, <1>3 DEF Live, Types, StepTyped, Alters, OfRequest
<1>8. Turns' /\ Handled'
  BY <1>1, <1>2, <1>3 DEF Live, Turns, Handled, Alters, Doing, Ending, Returning, OfRequest
<1>9. Quiet'
  BY <1>1, <1>2, <1>3 DEF Live, Quiet, About, Alters, OfRequest
<1>10. ASSUME ~terminated PROVE Going'
  <2>1. Reading'
    BY <1>1, <1>2, <1>3, <1>10 DEF Live, Going, Reading, Open, Doing, Ending, Alters
  <2>2. MainDone' /\ Ended'
    BY <1>1, <1>2, <1>3, <1>10, Constants DEF Live, Going, MainDone, Ended, Ending, Alters
  <2>3. Held' = Held
    <3>1. \A x \in Reqs : Open(x)' <=> Open(x)
      BY <1>3 DEF Open, Alters
    <3> QED
      BY <1>6, <3>1, HeldSame
  <2> QED
    BY <1>1, <1>2, <1>4, <1>6, <1>10, <2>1, <2>2, <2>3 DEF Live, Going
<1>11. ASSUME terminated PROVE Delayed'
  <2>1. Owners' = Owners
    BY <1>1, <1>2, <1>3 DEF Owners, Doing, Alters
  <2>2. \A x \in Reqs : Stays(x) => Stays(x)'
    BY <1>1, <1>2, <1>3 DEF Stays, About, Ending, Alters, OfRequest
  <2> QED
    BY <1>1, <1>2, <1>3, <1>4, <1>11, <2>1, <2>2 DEF Live, Delayed, Types, Alters
<1> QED
  BY <1>1, <1>2, <1>4, <1>6, <1>7, <1>8, <1>9, <1>10, <1>11, LiveNext DEF Live

(* An upstream has an answer, or the client leaves.                        *)
LEMMA UpstreamEventStep ==
    ASSUME RequestsAssumption, IInv, NEW r \in Reqs, UpstreamEvent(r)
    PROVE  IInv'
<1>1. /\ step.op = "rest" /\ ~freed /\ req[r].ext
      /\ step'.op = "content" /\ step'.r = r
      /\ UNCHANGED <<count, posted, data, buffered, error, terminated, freed, sent, alert>>
  BY DEF UpstreamEvent, Ready, Content, Rest
<1>2. /\ Live /\ posted = <<>> /\ ToSet(posted) = {} /\ Pending = 0
      /\ req[r].write = "upstream" /\ ~req[r].logged /\ (~terminated => req[r].held = <<>> /\ ~error)
      /\ terminated => r # data
  <2>1. Live
    BY <1>1, Acting
  <2> QED
    BY <1>1, <2>1 DEF Live, Turns, Handled, Reading, Going, Delayed, ToSet, Pending, Returning
<1>3. /\ Alters(r) /\ req'[r].logged = req[r].logged /\ req'[r].done = req[r].done
      /\ req'[r].aio = req[r].aio /\ ~req'[r].ext /\ req'[r].write = "upstream"
  <2>1. req \in [Reqs -> Request] /\ req[r] \in Request
    BY <1>2 DEF Live, Types
  <2>2. req' = [req EXCEPT ![r] = [req[r] EXCEPT !.ext = FALSE]]
    BY <2>1 DEF UpstreamEvent
  <2>3. [req[r] EXCEPT !.ext = FALSE] \in Request
    BY <2>1 DEF Request, Handlers
  <2> QED
    BY <1>2, <2>1, <2>2, <2>3 DEF Alters, Request
<1>4. Pending' = 0 /\ ~Returning'
  BY <1>1 DEF Pending, Returning
<1>5. Follows
  BY <1>1, <1>2 DEF Follows, Live, Types, Existing, ToSet, OfRequest
<1>6. Existing' /\ Created' = Created /\ (Tree => Tree') /\ req'[Main].write # "terminate"
  BY <1>2, <1>3, <1>5, OneAltered
<1>7. Types'
  BY <1>1, <1>2, <1>3 DEF Live, Types, StepTyped, Alters, OfRequest
<1>8. Turns' /\ Handled'
  BY <1>1, <1>2, <1>3 DEF Live, Turns, Handled, Alters, Doing, Ending, Returning, OfRequest
<1>9. Quiet'
  BY <1>1, <1>2, <1>3 DEF Live, Quiet, About, Alters, OfRequest
<1>10. ASSUME ~terminated PROVE Going'
  <2>1. Reading'
    BY <1>1, <1>2, <1>3, <1>10 DEF Live, Going, Reading, Open, Doing, Ending, Alters
  <2>2. MainDone' /\ Ended'
    BY <1>1, <1>2, <1>3, <1>10, Constants DEF Live, Going, MainDone, Ended, Ending, Alters
  <2>3. Held' = Held
    <3>1. \A x \in Reqs : Open(x)' <=> Open(x)
      BY <1>3 DEF Open, Alters
    <3> QED
      BY <1>6, <3>1, HeldSame
  <2> QED
    BY <1>1, <1>2, <1>4, <1>6, <1>10, <2>1, <2>2, <2>3 DEF Live, Going
<1>11. ASSUME terminated PROVE Delayed'
  <2>1. Owners' = Owners
    BY <1>1, <1>2, <1>3 DEF Owners, Doing, Alters
  <2>2. \A x \in Reqs : Stays(x) => Stays(x)'
    BY <1>1, <1>2, <1>3 DEF Stays, About, Ending, Alters, OfRequest
  <2> QED
    BY <1>1, <1>2, <1>3, <1>4, <1>11, <2>1, <2>2 DEF Live, Delayed, Types, Alters
<1> QED
  BY <1>1, <1>2, <1>4, <1>6, <1>7, <1>8, <1>9, <1>10, <1>11, LiveNext DEF Live

LEMMA AioDoneStep ==
    ASSUME RequestsAssumption, IInv, NEW r \in Reqs, AioDone(r)
    PROVE  IInv'
<1>1. /\ step.op = "rest" /\ ~freed /\ req[r].aio
      /\ step' = Run(IF req[r].done \/ terminated THEN data ELSE r)
      /\ UNCHANGED <<count, posted, data, buffered, error, terminated, freed, sent, alert>>
  BY DEF AioDone, Ready, Rest
<1>2. /\ Live /\ posted = <<>> /\ ToSet(posted) = {} /\ Pending = 0
      /\ req[r].write \notin {"none", "terminate"} /\ ~req[r].logged
      /\ data \in Reqs /\ req[data].write # "none" /\ ~req[data].logged
  <2>1. Live
    BY <1>1, Acting
  <2>2. req[r].write # "none" /\ ~req[r].logged
    BY <1>1, <2>1 DEF Live, Existing, Quiet
  <2>3. req[r].write # "terminate"
    BY <2>1 DEF Live, Handled
  <2> QED
    BY <1>1, <2>1, <2>2, <2>3 DEF Live, Turns, Types, Existing, Quiet, ToSet, Pending, Returning
<1>3. /\ Alters(r) /\ req'[r].logged = req[r].logged /\ req'[r].done = req[r].done
      /\ ~req'[r].aio /\ req'[r].ext = req[r].ext /\ req'[r].write = req[r].write
  <2>1. req \in [Reqs -> Request] /\ req[r] \in Request
    BY <1>2 DEF Live, Types
  <2>2. req' = [req EXCEPT ![r] = [req[r] EXCEPT !.aio = FALSE]]
    BY <2>1 DEF AioDone
  <2>3. [req[r] EXCEPT !.aio = FALSE] \in Request
    BY <2>1 DEF Request, Handlers
  <2> QED
    BY <1>2, <2>1, <2>2, <2>3 DEF Alters, Request
<1>x. PICK t \in {data, r} : step'.op = "run" /\ step'.r = t /\ (terminated => t = data)
  BY <1>1 DEF Run
<1>4. /\ Pending' = 0 /\ ~Returning' /\ t \in Reqs /\ req[t].write # "none" /\ ~req[t].logged
  BY <1>2, <1>x DEF Pending, Returning
<1>5. Follows
  BY <1>1, <1>2, <1>x, <1>4 DEF Follows, Live, Types, Existing, ToSet, OfRequest
<1>6. Existing' /\ Created' = Created /\ (Tree => Tree') /\ req'[Main].write # "terminate"
  BY <1>2, <1>3, <1>5, OneAltered
<1>7. Types'
  BY <1>1, <1>2, <1>3, <1>x, <1>4 DEF Live, Types, StepTyped, Alters, OfRequest
<1>8. Turns' /\ Handled'
  BY SMTT(30), <1>1, <1>2, <1>3, <1>x, <1>4 DEF Live, Turns, Handled, Alters, Doing, Ending, Returning, OfRequest
<1>9. Quiet'
  BY <1>1, <1>2, <1>3, <1>x, <1>4 DEF Live, Quiet, About, Alters, OfRequest
<1>10. ASSUME ~terminated PROVE Going'
  <2>1. Reading'
    BY <1>1, <1>2, <1>3, <1>x, <1>10 DEF Live, Going, Reading, Open, Doing, Ending, Alters
  <2>2. MainDone' /\ Ended'
    BY <1>1, <1>2, <1>3, <1>x, <1>10, Constants DEF Live, Going, MainDone, Ended, Ending, Alters
  <2>3. Held' = Held
    <3>1. \A x \in Reqs : Open(x)' <=> Open(x)
      BY <1>3 DEF Open, Alters
    <3> QED
      BY <1>6, <3>1, HeldSame
  <2>4. ~error'
    BY <1>1, <1>2, <1>10 DEF Live, Going
  <2> QED
    BY <1>1, <1>2, <1>4, <1>6, <1>10, <2>1, <2>2, <2>3, <2>4 DEF Live, Going
<1>11. ASSUME terminated PROVE Delayed'
  <2>1. Owners' = Owners
    BY <1>1, <1>2, <1>3, <1>x DEF Owners, Doing, Alters
  <2>2. \A x \in Reqs : Stays(x) => Stays(x)'
    BY <1>1, <1>2, <1>3, <1>x, <1>11 DEF Live, Delayed, Stays, About, Ending, Alters, OfRequest
  <2> QED
    BY <1>1, <1>2, <1>3, <1>4, <1>11, <2>1, <2>2 DEF Live, Delayed, Types, Alters
<1> QED
  BY <1>1, <1>2, <1>4, <1>6, <1>7, <1>8, <1>9, <1>10, <1>11, LiveNext DEF Live

LEMMA ClientGoneStep ==
    ASSUME RequestsAssumption, IInv, ClientGone
    PROVE  IInv'
<1>1. /\ step.op = "rest" /\ ~freed /\ req[data].write \in {"upstream", "writer"}
      /\ step'.op = "finalize" /\ step'.r = data /\ step'.rc = "error"
      /\ error' \in {error, TRUE}
      /\ UNCHANGED <<count, posted, data, buffered, terminated, freed, sent, alert>>
  BY DEF ClientGone, Ready, Finalize, Rest
<1>2. /\ Live /\ posted = <<>> /\ ToSet(posted) = {} /\ Pending = 0
      /\ data \in Reqs /\ req[data].write # "none" /\ ~req[data].logged
      /\ ~terminated
  <2>1. Live
    BY <1>1, Acting
  <2> QED
    BY <1>1, <2>1 DEF Live, Turns, Types, Existing, Quiet, Delayed, ToSet, Pending, Returning
<1>3. PICK r \in Reqs : r = data
  BY <1>2
<1>4. /\ Alters(r) /\ req'[r].logged = req[r].logged /\ req'[r].done = req[r].done
      /\ req'[r].aio = req[r].aio /\ ~req'[r].ext /\ req'[r].write = req[r].write
  <2>1. req \in [Reqs -> Request] /\ req[r] \in Request
    BY <1>2 DEF Live, Types
  <2>2. req' = [req EXCEPT ![r] = [req[r] EXCEPT !.ext = FALSE]]
    BY <1>3, <2>1 DEF ClientGone
  <2>3. [req[r] EXCEPT !.ext = FALSE] \in Request
    BY <2>1 DEF Request, Handlers
  <2> QED
    BY <1>1, <1>3, <2>1, <2>2, <2>3 DEF Alters, Request
<1>5. Pending' = 0 /\ ~Returning'
  BY <1>1 DEF Pending, Returning
<1>6. Follows
  BY <1>1, <1>2, <1>3 DEF Follows, Live, Types, Existing, ToSet, OfRequest
<1>7. Existing' /\ Created' = Created /\ (Tree => Tree') /\ req'[Main].write # "terminate"
  BY <1>2, <1>4, <1>6, OneAltered
<1>8. Types'
  <2>1. StepTyped' /\ req' \in [Reqs -> Request]
    BY <1>1, <1>3, <1>4 DEF StepTyped, Alters, OfRequest
  <2>2. error' \in BOOLEAN
    BY <1>1, <1>2 DEF Live, Types
  <2>3. data' \in Reqs /\ sent' \in Seq(Pieces) /\ posted' \in Seq(Reqs) /\ count' \in Nat
    BY <1>1, <1>2 DEF Live, Types
  <2>4. {buffered', terminated', freed', alert'} \subseteq BOOLEAN
    BY <1>1, <1>2 DEF Live, Types
  <2> QED
    BY <2>1, <2>2, <2>3, <2>4 DEF Types
<1>9. Turns' /\ Handled'
  BY <1>1, <1>2, <1>3, <1>4 DEF Live, Turns, Handled, Alters, Doing, Ending, Returning, OfRequest
<1>10. Quiet'
  BY <1>1, <1>2, <1>3, <1>4 DEF Live, Quiet, About, Alters, OfRequest
<1>11. Going'
  <2>1. Reading'
    BY <1>1, <1>2, <1>3, <1>4 DEF Live, Going, Reading, Open, Doing, Ending, Alters
  <2>2. MainDone' /\ Ended'
    BY <1>1, <1>2, <1>3, <1>4, Constants DEF Live, Going, MainDone, Ended, Ending, Alters
  <2>3. Held' = Held
    <3>1. \A x \in Reqs : Open(x)' <=> Open(x)
      BY <1>4 DEF Open, Alters
    <3> QED
      BY <1>7, <3>1, HeldSame
  <2>4. step'.op = "finalize" /\ step'.rc = "error"
    BY <1>1
  <2> QED
    BY <1>1, <1>2, <1>5, <1>7, <2>1, <2>2, <2>3, <2>4 DEF Live, Going
<1> QED
  BY <1>1, <1>2, <1>5, <1>7, <1>8, <1>9, <1>10, <1>11, LiveNext DEF Live

-----------------------------------------------------------------------------
(* Finalisation.                                                           *)

LEMMA EndingFacts ==
    ASSUME RequestsAssumption, IInv, NEW r \in Reqs, FinalizingOk(r)
    PROVE  /\ Live /\ ~terminated /\ ~error /\ Ending(r) /\ step.op = "finalize" /\ step.r = r
           /\ step.rc = "ok"
           /\ req[r].write \in {"handler", "upstream", "writer", "finalizer"}
           /\ ~req[r].logged /\ ~req[r].ext /\ Open(r) /\ r \notin ToSet(posted)
           /\ Pending = 0 /\ ~LastIsSub(req[r].doc)
           /\ \A x \in Reqs \ {r} : req[x].held # <<>> => req[x].write = "writer"
<1>1. step.op = "finalize" /\ step.r = r /\ step.rc = "ok" /\ ~error
  BY DEF FinalizingOk, Finalizing
<1>2. Live
  BY <1>1, Acting
<1>3. ~terminated
  BY <1>1, <1>2 DEF Live, Delayed
<1>4. Ending(r) /\ Pending = 0 /\ About(r) /\ ~Returning
  BY <1>1 DEF Ending, Pending, Returning, About, OfRequest
<1>5. /\ req[r].write \in {"handler", "upstream", "writer", "finalizer"} /\ ~req[r].ext
  BY <1>1, <1>2, <1>4 DEF Live, Handled, Ending
<1>6. ~req[r].logged /\ r \notin ToSet(posted)
  BY <1>1, <1>2, <1>4, <1>5 DEF Live, Quiet, Turns, OfRequest
<1>7. Open(r)
  BY <1>2, <1>3, <1>5, <1>6 DEF Live, Going, MainDone, Open
<1>8. ~LastIsSub(req[r].doc)
  BY <1>1, <1>2, <1>3, <1>4 DEF Live, Going, Ended
<1>9. \A x \in Reqs \ {r} : req[x].held # <<>> => req[x].write = "writer"
  BY <1>1, <1>2, <1>3 DEF Live, Going, Reading, Doing, Ending
<1> QED
  BY <1>1, <1>2, <1>3, <1>4, <1>5, <1>6, <1>7, <1>8, <1>9

LEMMA FinalizeLaterStep ==
    ASSUME RequestsAssumption, IInv, NEW r \in Reqs, FinalizeLater(r)
    PROVE  IInv'
<1>1. /\ FinalizingOk(r) /\ step'.op = "loop"
      /\ UNCHANGED <<count, posted, data, buffered, error, terminated, freed, sent, alert>>
  BY DEF FinalizeLater, Loop
<1>2. /\ Live /\ ~terminated /\ ~error /\ Ending(r) /\ step.op = "finalize" /\ step.r = r
      /\ step.rc = "ok"
      /\ req[r].write \in {"handler", "upstream", "writer", "finalizer"}
      /\ ~req[r].logged /\ ~req[r].ext /\ Open(r) /\ r \notin ToSet(posted)
      /\ Pending = 0 /\ ~LastIsSub(req[r].doc)
      /\ \A x \in Reqs \ {r} : req[x].held # <<>> => req[x].write = "writer"
  BY <1>1, EndingFacts
<1>3. /\ Alters(r) /\ req'[r].logged = req[r].logged /\ req'[r].done = req[r].done
      /\ req'[r].aio = req[r].aio /\ req'[r].ext = req[r].ext /\ req'[r].write = "writer"
  <2>1. req \in [Reqs -> Request] /\ req[r] \in Request
    BY <1>2 DEF Live, Types
  <2>2. req' = [req EXCEPT ![r] = [req[r] EXCEPT !.write = "writer"]]
    BY <2>1 DEF FinalizeLater, WriterSet
  <2>3. [req[r] EXCEPT !.write = "writer"] \in Request
    BY <2>1 DEF Request, Handlers
  <2> QED
    BY ZenonT(60), <1>2, <2>1, <2>2, <2>3 DEF Alters, Request
<1>4. Pending' = 0 /\ ~Returning'
  BY <1>1 DEF Pending, Returning
<1>5. Follows
  BY <1>1, <1>2 DEF Follows, Live, Types, Existing, ToSet, OfRequest
<1>6. Existing' /\ Created' = Created /\ (Tree => Tree') /\ req'[Main].write # "terminate"
  BY <1>2, <1>3, <1>5, OneAltered
<1>7. Types'
  BY <1>1, <1>2, <1>3 DEF Live, Types, StepTyped, Alters, OfRequest
<1>8. Turns' /\ Handled'
  BY <1>1, <1>2, <1>3 DEF Live, Turns, Handled, Alters, Doing, Ending, Returning, OfRequest
<1>9. Quiet'
  BY <1>1, <1>2, <1>3 DEF Live, Quiet, About, Alters, OfRequest
<1>10. Going'
  <2>1. Reading'
    BY <1>1, <1>2, <1>3 DEF Live, Going, Reading, Open, Doing, Ending, Alters
  <2>2. MainDone'
    BY <1>1, <1>2, <1>3, Constants DEF Live, Going, MainDone, Open, Alters
  <2>3. Ended'
    BY <1>1, <1>2, <1>3, Constants DEF Live, Going, Ended, Ending, Alters
  <2>4. Held' = Held
    <3>1. \A x \in Reqs : Open(x)' <=> Open(x)
      BY <1>3 DEF Open, Alters
    <3> QED
      BY <1>6, <3>1, HeldSame
  <2> QED
    BY <1>1, <1>2, <1>4, <1>6, <2>1, <2>2, <2>3, <2>4 DEF Live, Going
<1> QED
  BY <1>1, <1>2, <1>4, <1>6, <1>7, <1>8, <1>9, <1>10, LiveNext DEF Live

LEMMA FinalizeInactiveStep ==
    ASSUME RequestsAssumption, IInv, NEW r \in Reqs, r # Main, FinalizeInactive(r)
    PROVE  IInv'
<1>1. /\ FinalizingOk(r) /\ step'.op = "loop" /\ posted' = Post(posted, req[r].parent)
      /\ UNCHANGED <<count, data, buffered, error, terminated, freed, sent, alert>>
      /\ req[r].held = <<>>
  BY DEF FinalizeInactive, Loop, Drained
<1>2. /\ Live /\ ~terminated /\ ~error /\ Ending(r) /\ step.op = "finalize" /\ step.r = r
      /\ step.rc = "ok"
      /\ req[r].write \in {"handler", "upstream", "writer", "finalizer"}
      /\ ~req[r].logged /\ ~req[r].ext /\ Open(r) /\ r \notin ToSet(posted)
      /\ Pending = 0 /\ ~LastIsSub(req[r].doc)
      /\ \A x \in Reqs \ {r} : req[x].held # <<>> => req[x].write = "writer"
  BY <1>1, EndingFacts
<1>3. /\ Alters(r) /\ req'[r].logged = req[r].logged /\ req'[r].done \in BOOLEAN
      /\ req'[r].aio = req[r].aio /\ req'[r].ext = req[r].ext /\ req'[r].write = "finalizer"
  <2>1. req \in [Reqs -> Request] /\ req[r] \in Request
    BY <1>2 DEF Live, Types
  <2>2. req' = [req EXCEPT ![r] = [req[r] EXCEPT !.write = "finalizer", !.done = req[r].waited]]
    BY <2>1 DEF FinalizeInactive, Inactive
  <2>3. [req[r] EXCEPT !.write = "finalizer", !.done = req[r].waited] \in Request
    BY <2>1 DEF Request, Handlers
  <2> QED
    BY <1>2, <2>1, <2>2, <2>3 DEF Alters, Request
<1>4. Pending' = 0 /\ ~Returning'
  BY <1>1 DEF Pending, Returning
<1>x. PICK p \in Reqs : p = req[r].parent /\ req[p].write # "none" /\ ~req[p].background
  BY <1>2, Constants DEF Live, Existing
<1>y. posted' \in Seq(Reqs) /\ IsInjective(posted') /\ ToSet(posted') = ToSet(posted) \cup {p}
  BY <1>1, <1>2, <1>x, PostedOnce DEF Live, Types, Turns
<1>5. Follows
  <2>1. \A x \in ToSet(posted) : x \in Reqs /\ req[x].write # "none"
    BY <1>2 DEF Live, Types, Existing, ToSet
  <2> QED
    BY <1>1, <1>x, <1>y, <2>1 DEF Follows, OfRequest
<1>6. Existing' /\ Created' = Created /\ (Tree => Tree') /\ req'[Main].write # "terminate"
  BY <1>2, <1>3, <1>5, OneAltered
<1>7. Types'
  BY <1>1, <1>2, <1>3, <1>y DEF Live, Types, StepTyped, Alters, OfRequest
<1>8. Turns' /\ Handled'
  <2>1. Turns'
    BY <1>1, <1>y DEF Turns, OfRequest
  <2>2. Handled'
    BY <1>1, <1>2, <1>3 DEF Live, Handled, Alters, Doing, Ending, Returning, OfRequest
  <2> QED
    BY <2>1, <2>2
<1>9. Quiet'
  BY <1>1, <1>2, <1>3, <1>x, <1>y DEF Live, Quiet, About, Alters, OfRequest
<1>10. Going'
  <2>1. Reading'
    BY <1>1, <1>2, <1>3 DEF Live, Going, Reading, Open, Doing, Ending, Alters
  <2>2. MainDone'
    BY <1>1, <1>2, <1>3, Constants DEF Live, Going, MainDone, Open, Alters
  <2>3. Ended'
    BY <1>1, <1>2, <1>3, Constants DEF Live, Going, Ended, Ending, Alters
  <2>4. Held' = Held
    <3>1. \A x \in Reqs : Open(x)' <=> Open(x)
      BY <1>3 DEF Open, Alters
    <3> QED
      BY <1>6, <3>1, HeldSame
  <2> QED
    BY <1>1, <1>2, <1>4, <1>6, <2>1, <2>2, <2>3, <2>4 DEF Live, Going
<1> QED
  BY <1>1, <1>2, <1>4, <1>6, <1>7, <1>8, <1>9, <1>10, LiveNext DEF Live

(* What an upstream or a thread works for holds a reference; the last      *)
(* reference is that of the only such request.                             *)
LEMMA LastReference ==
    ASSUME RequestsAssumption, Live, ~terminated, Pending = 0, NEW r \in Reqs, Open(r), req[r].write # "none"
    PROVE  /\ r \in Held /\ count \in Nat \ {0} /\ Cardinality(Held \ {r}) = count - 1
           /\ count = 1 => \A x \in Reqs \ {r} : ~req[x].ext /\ ~req[x].aio
<1>1. Held = {x \in Created : Open(x)} /\ Held \in SUBSET Reqs /\ IsFiniteSet(Held)
  BY Constants DEF Held, Open, Created
<1>2. r \in Held
  BY <1>1 DEF Created
<1>3. Cardinality(Held \ {r}) = Cardinality(Held) - 1 /\ Cardinality(Held) \in Nat /\ IsFiniteSet(Held \ {r})
  BY <1>1, <1>2, FS_RemoveElement, FS_CardinalityType
<1>4. count = Cardinality(Held) /\ count \in Nat
  <2>1. count = Cardinality(Held) + Pending
    BY DEF Live, Going
  <2> QED
    BY <1>3, <2>1
<1>5. Cardinality(Held \ {r}) \in Nat
  BY <1>3, FS_CardinalityType
<1>6. ASSUME NEW x \in Reqs, req[x].ext \/ req[x].aio PROVE x \in Held
  <2>1. req[x].write # "none"
    BY <1>6 DEF Live, Existing
  <2>2. Open(x)
    <3>1. CASE req[x].aio
      BY <3>1 DEF Live, Going, Reading
    <3>2. CASE req[x].ext
      BY <3>2 DEF Live, Going, MainDone, Handled, Open
    <3> QED
      BY <1>6, <3>1, <3>2
  <2> QED
    BY <1>1, <2>1, <2>2 DEF Created
<1>7. count = 1 => Held \ {r} = {}
  BY <1>3, <1>4, FS_EmptySet
<1> QED
  BY <1>2, <1>3, <1>4, <1>5, <1>6, <1>7

LEMMA FreedNext ==
    Types' /\ ~alert' /\ Existing' /\ freed' /\ Freed' => IInv'
BY DEF IInv

LEMMA FinalizeBackgroundStep ==
    ASSUME RequestsAssumption, IInv, NEW r \in Reqs, r # Main, FinalizeBackground(r)
    PROVE  IInv'
<1>1. /\ FinalizingOk(r) /\ step'.op = "loop" /\ step' = Loop
      /\ alert' = (alert \/ count = 0) /\ count' = count - 1 /\ freed' = (count = 1)
      /\ UNCHANGED <<posted, data, buffered, error, terminated, sent>>
      /\ req[r].held = <<>> /\ req[r].background
  BY DEF FinalizeBackground, FinalizeConnection, Loop, Drained
<1>2. /\ Live /\ ~terminated /\ ~error /\ Ending(r) /\ step.op = "finalize" /\ step.r = r
      /\ step.rc = "ok"
      /\ req[r].write \in {"handler", "upstream", "writer", "finalizer"}
      /\ ~req[r].logged /\ ~req[r].ext /\ Open(r) /\ r \notin ToSet(posted)
      /\ Pending = 0 /\ ~LastIsSub(req[r].doc)
      /\ \A x \in Reqs \ {r} : req[x].held # <<>> => req[x].write = "writer"
  BY <1>1, EndingFacts
<1>a. ~req[r].aio /\ r # data
  BY <1>1, <1>2 DEF Live, Going, Reading, Existing
<1>b. /\ r \in Held /\ count \in Nat \ {0} /\ Cardinality(Held \ {r}) = count - 1
      /\ count = 1 => \A x \in Reqs \ {r} : ~req[x].ext /\ ~req[x].aio
  BY <1>2, LastReference
<1>3. /\ Alters(r) /\ req'[r].logged /\ req'[r].done
      /\ req'[r].aio = req[r].aio /\ req'[r].ext = req[r].ext /\ req'[r].write = req[r].write
  <2>1. req \in [Reqs -> Request] /\ req[r] \in Request
    BY <1>2 DEF Live, Types
  <2>2. req' = [req EXCEPT ![r] = [req[r] EXCEPT !.done = TRUE, !.logged = TRUE]]
    BY <2>1 DEF FinalizeBackground
  <2>3. [req[r] EXCEPT !.done = TRUE, !.logged = TRUE] \in Request
    BY <2>1 DEF Request, Handlers
  <2> QED
    BY <1>2, <2>1, <2>2, <2>3 DEF Alters, Request
<1>4. Pending' = 0 /\ ~Returning'
  BY <1>1 DEF Pending, Returning
<1>5. Follows
  BY <1>1, <1>2 DEF Follows, Live, Types, Existing, ToSet, OfRequest
<1>6. Existing' /\ Created' = Created /\ (Tree => Tree') /\ req'[Main].write # "terminate"
  BY <1>1, <1>2, <1>3, <1>5, OneAltered
<1>7. Types' /\ ~alert'
  <2>x. count' \in Nat /\ ~(count = 0)
    BY <1>1, <1>b
  <2>y. ~alert
    BY <1>2 DEF Live
  <2>1. count' \in Nat /\ ~alert'
    BY <1>1, <2>x, <2>y
  <2>2. freed' \in BOOLEAN
    BY <1>1
  <2> QED
    BY <1>1, <1>2, <1>3, <2>1, <2>2 DEF Live, Types, StepTyped, Alters, OfRequest
<1>8. CASE freed'
  <2>1. count = 1
    BY <1>1, <1>8
  <2>2. \A x \in Reqs : ~req'[x].ext /\ ~req'[x].aio
    BY <1>2, <1>3, <1>a, <1>b, <2>1 DEF Alters
  <2>3. Freed'
    BY <1>1, <2>1, <2>2 DEF Freed
  <2> QED
    BY <1>6, <1>7, <1>8, <2>3, FreedNext
<1>9. CASE ~freed'
  <2>1. Turns' /\ Handled'
    BY <1>1, <1>2, <1>3 DEF Live, Turns, Handled, Alters, Doing, Ending, Returning, OfRequest
  <2>2. Quiet'
    <3>1. \A x \in Reqs : ~About(x)'
      BY <1>1 DEF About, OfRequest
    <3>2. ~req'[r].ext /\ ~req'[r].aio /\ r # data' /\ req'[r].background /\ r \notin ToSet(posted')
      BY <1>1, <1>2, <1>3, <1>a DEF Alters
    <3>3. ASSUME NEW x \in Reqs \ {r}, req'[x].logged
          PROVE  /\ ~req'[x].ext /\ ~req'[x].aio /\ x # data'
                 /\ req'[x].write = "empty" \/ (req'[x].background /\ x \notin ToSet(posted'))
      BY <1>1, <1>2, <1>3, <3>3 DEF Live, Quiet, Alters
    <3> QED
      BY <3>1, <3>2, <3>3 DEF Quiet
  <2>3. Reading'
    BY <1>1, <1>2, <1>3 DEF Live, Going, Reading, Open, Doing, Ending, Alters
  <2>4. MainDone'
    BY <1>1, <1>2, <1>3, Constants DEF Live, Going, MainDone, Open, Alters
  <2>5. Ended'
    BY <1>1, <1>2, <1>3, Constants DEF Live, Going, Ended, Ending, Alters
  <2>6. Held' = Held \ {r}
    <3>1. \A x \in Reqs \ {r} : Open(x)' <=> Open(x)
      BY <1>3 DEF Open, Alters
    <3>2. ~Open(r)'
      BY <1>3 DEF Open
    <3>3. Held = {x \in Created : Open(x)} /\ Held' = {x \in Created' : Open(x)'} /\ Created \in SUBSET Reqs
      BY DEF Held, Open, Created
    <3> QED
      BY <1>6, <3>1, <3>2, <3>3
  <2>7. Going'
    BY <1>1, <1>2, <1>4, <1>6, <1>b, <2>3, <2>4, <2>5, <2>6 DEF Live, Going
  <2>8. count' <= Cardinality(Created') + 1 + Pending'
    <3>1. Cardinality(Created) \in Nat
      BY Constants, FS_CardinalityType DEF Created
    <3> QED
      BY <1>1, <1>2, <1>4, <1>6, <1>b, <3>1 DEF Live
  <2> QED
    BY <1>1, <1>2, <1>6, <1>7, <1>9, <2>1, <2>2, <2>7, <2>8, LiveNext DEF Live
<1> QED
  BY <1>8, <1>9

(* While the main request is being finalised nothing is left of the others *)
(* in the order of the output: its turn has come.                          *)
LEMMA LastTurn ==
    ASSUME RequestsAssumption, Live, ~terminated, ~LastIsSub(req[Main].doc),
           req[Main].held = <<>>, req[Main].postponed = <<>>
    PROVE  data = Main
<1>1. PICK P \in SUBSET Reqs : OnPath(P) /\ Closed(P)
  BY DEF Live, Going, Tree
<1> QED
  BY <1>1, Constants DEF OnPath, Closed, Tidy

LEMMA FinalizeMainStep ==
    ASSUME RequestsAssumption, IInv, FinalizeMain
    PROVE  IInv'
<1>0. PICK r \in Reqs : r = Main
  BY Constants
<1>1. /\ FinalizingOk(r)
      /\ req[r].held = <<>> /\ req[r].postponed = <<>>
  BY <1>0 DEF FinalizeMain, Drained
<1>2. /\ Live /\ ~terminated /\ ~error /\ Ending(r) /\ step.op = "finalize" /\ step.r = r
      /\ step.rc = "ok"
      /\ req[r].write \in {"handler", "upstream", "writer", "finalizer"}
      /\ ~req[r].logged /\ ~req[r].ext /\ Open(r) /\ r \notin ToSet(posted)
      /\ Pending = 0 /\ ~LastIsSub(req[r].doc)
      /\ \A x \in Reqs \ {r} : req[x].held # <<>> => req[x].write = "writer"
  BY <1>1, EndingFacts
<1>c. data = Main
  BY <1>0, <1>1, <1>2, LastTurn
<1>d. /\ step'.op = "loop" /\ step' = Loop
      /\ alert' = (alert \/ count = 0) /\ count' = count - 1 /\ freed' = (count = 1)
      /\ UNCHANGED <<posted, data, buffered, error, terminated, sent>>
  BY <1>c DEF FinalizeMain, FinalizeConnection, Loop
<1>a. ~req[r].aio
  BY <1>1, <1>2 DEF Live, Going, Reading, Existing
<1>b. /\ r \in Held /\ count \in Nat \ {0} /\ Cardinality(Held \ {r}) = count - 1
      /\ count = 1 => \A x \in Reqs \ {r} : ~req[x].ext /\ ~req[x].aio
  BY <1>2, LastReference
<1>3. /\ Alters(r) /\ req'[r].logged = req[r].logged /\ req'[r].done
      /\ req'[r].aio = req[r].aio /\ req'[r].ext = req[r].ext /\ req'[r].write = "empty"
  <2>1. req \in [Reqs -> Request] /\ req[r] \in Request
    BY <1>2 DEF Live, Types
  <2>2. req' = [req EXCEPT ![r] = [req[r] EXCEPT !.done = TRUE, !.write = "empty"]]
    BY <1>0, <1>c, <2>1 DEF FinalizeMain
  <2>3. [req[r] EXCEPT !.done = TRUE, !.write = "empty"] \in Request
    BY <2>1 DEF Request, Handlers
  <2> QED
    BY <1>2, <2>1, <2>2, <2>3 DEF Alters, Request
<1>4. Pending' = 0 /\ ~Returning'
  BY <1>d DEF Pending, Returning
<1>5. Follows
  BY <1>d, <1>2 DEF Follows, Live, Types, Existing, ToSet, OfRequest
<1>6. Existing' /\ Created' = Created /\ (Tree => Tree') /\ req'[Main].write # "terminate"
  BY <1>2, <1>3, <1>5, OneAltered
<1>7. Types' /\ ~alert'
  <2>x. count' \in Nat /\ ~(count = 0)
    BY <1>d, <1>b
  <2>y. ~alert
    BY <1>2 DEF Live
  <2>1. count' \in Nat /\ ~alert'
    BY <1>d, <2>x, <2>y
  <2>2. freed' \in BOOLEAN
    BY <1>d
  <2> QED
    BY <1>d, <1>2, <1>3, <2>1, <2>2 DEF Live, Types, StepTyped, Alters, OfRequest
<1>8. CASE freed'
  <2>1. count = 1
    BY <1>d, <1>8
  <2>2. \A x \in Reqs : ~req'[x].ext /\ ~req'[x].aio
    BY <1>2, <1>3, <1>a, <1>b, <2>1 DEF Alters
  <2>3. Freed'
    BY <1>d, <2>1, <2>2 DEF Freed
  <2> QED
    BY <1>6, <1>7, <1>8, <2>3, FreedNext
<1>9. CASE ~freed'
  <2>1. Turns' /\ Handled'
    BY <1>d, <1>2, <1>3 DEF Live, Turns, Handled, Alters, Doing, Ending, Returning, OfRequest
  <2>2. Quiet'
    BY <1>d, <1>2, <1>3, <1>a DEF Live, Quiet, About, Alters, OfRequest
  <2>3. Reading'
    BY <1>d, <1>1, <1>2, <1>3 DEF Live, Going, Reading, Open, Doing, Ending, Alters
  <2>4. MainDone'
    BY <1>0, <1>c, <1>d, <1>2, <1>3 DEF MainDone
  <2>5. Ended'
    BY <1>d, <1>2, <1>3, Constants DEF Live, Going, Ended, Ending, Alters
  <2>6. Held' = Held \ {r}
    <3>1. \A x \in Reqs \ {r} : Open(x)' <=> Open(x)
      BY <1>3 DEF Open, Alters
    <3>2. ~Open(r)'
      BY <1>0, <1>3 DEF Open
    <3>3. Held = {x \in Created : Open(x)} /\ Held' = {x \in Created' : Open(x)'} /\ Created \in SUBSET Reqs
      BY DEF Held, Open, Created
    <3> QED
      BY <1>6, <3>1, <3>2, <3>3
  <2>7. Going'
    BY <1>d, <1>2, <1>4, <1>6, <1>b, <2>3, <2>4, <2>5, <2>6 DEF Live, Going
  <2>8. count' <= Cardinality(Created') + 1 + Pending'
    <3>1. Cardinality(Created) \in Nat
      BY Constants, FS_CardinalityType DEF Created
    <3> QED
      BY <1>d, <1>2, <1>4, <1>6, <1>b, <3>1 DEF Live
  <2> QED
    BY <1>d, <1>2, <1>6, <1>7, <1>9, <2>1, <2>2, <2>7, <2>8, LiveNext DEF Live
<1> QED
  BY <1>8, <1>9

LEMMA FinalizeDoneStep ==
    ASSUME RequestsAssumption, IInv, NEW r \in Reqs, FinalizeDone(r)
    PROVE  IInv'
<1>1. /\ step.op = "finalize" /\ step.r = r /\ step.rc = "done" /\ step' = Loop /\ step'.op = "loop"
      /\ alert' = (alert \/ count = 0) /\ count' = count - 1 /\ freed' = (count = 1)
      /\ UNCHANGED <<req, posted, data, buffered, error, terminated, sent>>
  BY DEF FinalizeDone, Finalizing, FinalizeConnection, Loop
<1>2. Live
  BY <1>1, Acting
<1>3. req[r].ext /\ req[r].write = "upstream" /\ ~req[r].logged /\ Pending = 1 /\ Pending' = 0 /\ ~Returning'
  BY <1>1, <1>2 DEF Live, Handled, Returning, Pending
<1>4. /\ Cardinality(Held) \in Nat /\ Cardinality(Owners) \in Nat
      /\ IsFiniteSet(Held) /\ IsFiniteSet(Owners)
  BY Constants, FS_CardinalityType DEF Held, Created, Owners
<1>5. count \in Nat /\ count >= 2
  <2>1. CASE ~terminated
    <3>1. r \in Held
      BY <1>2, <1>3, <2>1 DEF Live, Going, MainDone, Held, Created
    <3>2. Cardinality(Held) # 0
      BY <1>4, <3>1, FS_EmptySet
    <3> QED
      BY <1>2, <1>3, <1>4, <2>1, <3>2 DEF Live, Going, Types
  <2>2. CASE terminated
    <3>1. r \in Owners
      BY <1>3 DEF Owners
    <3>2. Cardinality(Owners) # 0
      BY <1>4, <3>1, FS_EmptySet
    <3> QED
      BY <1>2, <1>3, <1>4, <2>2, <3>2 DEF Live, Delayed, Types
  <2> QED
    BY <2>1, <2>2
<1>6. ~freed' /\ ~alert' /\ count' \in Nat
  <2>1. count' \in Nat /\ ~(count = 0) /\ ~(count = 1)
    BY <1>1, <1>5
  <2>2. ~alert
    BY <1>2 DEF Live
  <2> QED
    BY <1>1, <2>1, <2>2
<1>7. Types' /\ Existing' /\ Created' = Created /\ req'[Main].write # "terminate"
  BY <1>1, <1>2, <1>6 DEF Live, Types, StepTyped, Existing, Created, OfRequest
<1>8. Turns' /\ Handled' /\ Quiet'
  BY <1>1, <1>2 DEF Live, Turns, Handled, Quiet, Doing, Ending, Returning, OfRequest, About
<1>9. ASSUME ~terminated PROVE Going'
  <2>1. Reading' /\ MainDone' /\ Ended'
    BY <1>1, <1>2, <1>9 DEF Live, Going, Reading, MainDone, Ended, Open, Doing, Ending
  <2>2. SameTree
    BY <1>1 DEF SameTree
  <2>3. Tree'
    BY <1>2, <1>9, <2>2, TreeSame DEF Live, Going
  <2>4. Held' = Held
    BY <1>1 DEF Held, Created
  <2>5. ~error
    BY <1>1, <1>2, <1>9 DEF Live, Going
  <2> QED
    BY <1>1, <1>2, <1>3, <1>4, <1>9, <2>1, <2>3, <2>4, <2>5 DEF Live, Going
<1>10. ASSUME terminated PROVE Delayed'
  <2>1. Owners' = Owners
    BY <1>1 DEF Owners, Doing
  <2>2. \A x \in Reqs : Stays(x) => Stays(x)'
    BY <1>1 DEF Stays, About, Ending, OfRequest
  <2> QED
    BY <1>1, <1>2, <1>3, <1>4, <1>5, <1>10, <2>1, <2>2 DEF Live, Delayed, Types
<1>11. count' <= Cardinality(Created') + 1 + Pending'
  <2>1. Cardinality(Created) \in Nat
    BY Constants, FS_CardinalityType DEF Created
  <2> QED
    BY <1>1, <1>2, <1>3, <1>5, <1>7, <2>1 DEF Live
<1> QED
  BY <1>1, <1>2, <1>6, <1>7, <1>8, <1>9, <1>10, <1>11, LiveNext DEF Live

-----------------------------------------------------------------------------
(* Termination: the upstreams end, and one request gets a handler.         *)
Ceases(w, h) ==
    /\ req' \in [Reqs -> Request]
    /\ \A x \in Reqs :
        /\ req'[x].parent = req[x].parent /\ req'[x].background = req[x].background
        /\ req'[x].held = req[x].held /\ req'[x].aio = req[x].aio
        /\ req'[x].done = req[x].done /\ req'[x].logged = req[x].logged
        /\ ~req'[x].ext
        /\ x # w => req'[x].write = req[x].write
        /\ req[x].write = "none" /\ x # w => req'[x] = req[x]
    /\ req'[w].write = h

LEMMA CeasesIs ==
    ASSUME req \in [Reqs -> Request], Existing, NEW w \in Reqs, NEW h \in Handlers,
           req' = [[r \in Reqs |-> [req[r] EXCEPT !.ext = FALSE]] EXCEPT ![w].write = h]
    PROVE  Ceases(w, h)
<1>1. PICK rq \in [Reqs -> Request] :
        /\ rq = [r \in Reqs |-> [req[r] EXCEPT !.ext = FALSE]]
        /\ \A x \in Reqs : rq[x] = [req[x] EXCEPT !.ext = FALSE]
  <2>1. \A x \in Reqs : [req[x] EXCEPT !.ext = FALSE] \in Request
    BY DEF Request
  <2>2. [r \in Reqs |-> [req[r] EXCEPT !.ext = FALSE]] \in [Reqs -> Request]
    BY <2>1
  <2> QED
    BY <2>2
<1>2. req' = [rq EXCEPT ![w] = [rq[w] EXCEPT !.write = h]]
  BY <1>1
<1>3. [rq[w] EXCEPT !.write = h] \in Request
  <2>1. rq[w] \in Request
    BY <1>1
  <2> QED
    BY <2>1 DEF Request
<1>4. /\ req' \in [Reqs -> Request] /\ req'[w] = [rq[w] EXCEPT !.write = h]
      /\ \A x \in Reqs \ {w} : req'[x] = rq[x]
  BY <1>2, <1>3
<1>5. ASSUME NEW x \in Reqs
      PROVE  /\ req'[x].parent = req[x].parent /\ req'[x].background = req[x].background
             /\ req'[x].held = req[x].held /\ req'[x].aio = req[x].aio
             /\ req'[x].done = req[x].done /\ req'[x].logged = req[x].logged
             /\ ~req'[x].ext
             /\ x # w => req'[x].write = req[x].write
  <2>1. req[x] \in Request /\ rq[x] = [req[x] EXCEPT !.ext = FALSE]
    BY <1>1
  <2>2. CASE x = w
    BY <1>4, <2>1, <2>2 DEF Request
  <2>3. CASE x # w
    BY <1>4, <2>1, <2>3 DEF Request
  <2> QED
    BY <2>2, <2>3
<1>6. ASSUME NEW x \in Reqs, req[x].write = "none", x # w PROVE req'[x] = req[x]
  <2>1. req[x] \in Request /\ req[x].ext = FALSE
    BY <1>6 DEF Existing, Request
  <2>2. req'[x] = [req[x] EXCEPT !.ext = FALSE]
    BY <1>1, <1>4, <1>6
  <2> QED
    BY <2>1, <2>2 DEF Request
<1>7. req'[w].write = h
  <2>1. rq[w] \in Request
    OBVIOUS
  <2> QED
    BY <1>4, <2>1 DEF Request
<1> QED
  BY <1>4, <1>5, <1>6, <1>7 DEF Ceases

(* The references suffice: for the upstreams that end, and for those that  *)
(* may give one back before the thread is ready.                           *)
Left == {x \in Reqs : req[x].write \in {"handler", "writer"} /\ ~req[x].logged /\ x # data}
Spare(refs) ==
    /\ refs >= Cardinality(Exts) + Cardinality(Left)
    /\ refs = Cardinality(Exts) + Cardinality(Left) =>
          \E x \in Left : req[x].write = "writer" \/ x \notin ToSet(posted)

LEMMA TerminateStep ==
    ASSUME RequestsAssumption, Live, step.op \in {"rest", "finalize"}, ~Returning,
           NEW refs \in Nat, refs > Cardinality(Exts), refs <= Cardinality(Created) + 1,
           Blocked(req) => Spare(refs), Terminate(refs)
    PROVE  IInv'
<1>1. /\ terminated' = TRUE /\ count' = refs - Cardinality(Exts)
      /\ alert' = (alert \/ (Exts # {} /\ refs <= Cardinality(Exts)))
      /\ step'.op = "loop" /\ UNCHANGED <<data, buffered, freed, sent>>
      /\ Blocked(req) => posted' = posted /\ error' = TRUE
      /\ ~Blocked(req) => posted' = <<Main>> /\ error' = error
  BY DEF Terminate, TerminateFrom, Loop, Exts
<1>2. Cardinality(Exts) \in Nat /\ Cardinality(Left) \in Nat /\ Cardinality(Created) \in Nat
  BY Constants, FS_CardinalityType DEF Exts, Left, Created
<1>3. ~alert' /\ ~freed' /\ count' \in Nat /\ count' <= Cardinality(Created) + 1
  <2>1. count' \in Nat /\ count' <= Cardinality(Created) + 1 /\ ~(refs <= Cardinality(Exts))
    BY <1>1, <1>2
  <2>2. ~alert /\ ~freed
    BY DEF Live
  <2> QED
    BY <1>1, <2>1, <2>2
<1>4. Pending' = 0 /\ ~Returning'
  BY <1>1 DEF Pending, Returning
<1>5. CASE Blocked(req)
  <2>1. PICK w \in Reqs : w = data /\ Ceases(w, "finalizer")
    <3>1. req' = [[r \in Reqs |-> [req[r] EXCEPT !.ext = FALSE]] EXCEPT ![data].write = "finalizer"]
      BY <1>5 DEF Terminate, TerminateFrom
    <3>2. "finalizer" \in Handlers /\ data \in Reqs /\ req \in [Reqs -> Request] /\ Existing
      BY DEF Handlers, Live, Types
    <3> QED
      BY <3>1, <3>2, CeasesIs
  <2>2. posted' = posted /\ error' = TRUE
    BY <1>1, <1>5
  <2>3. ~req[w].logged /\ req[w].write # "none" /\ Main \in Reqs /\ req[Main].write # "terminate"
    BY <2>1, Constants DEF Live, Quiet, Existing
  <2>4. Types'
    BY <1>1, <1>3, <2>1, <2>2 DEF Live, Types, StepTyped, OfRequest, Ceases
  <2>5. Existing' /\ Created' = Created
    <3>0. \A x \in ToSet(posted) : x \in Reqs /\ req[x].write # "none"
      BY DEF Live, Types, Existing, ToSet
    <3>1. Lasting
      BY <1>1, <2>1, <2>2, <2>3, <3>0 DEF Lasting, Ceases, Live, Types, Existing, OfRequest
    <3> QED
      BY <3>1, ExistingSame DEF Live
  <2>6. req'[Main].write # "terminate"
    BY <2>1, <2>3 DEF Ceases
  <2>7. Turns' /\ Handled'
    BY <1>1, <1>4, <2>1, <2>2 DEF Live, Turns, Handled, Ceases, OfRequest
  <2>8. Quiet'
    BY <1>1, <2>1, <2>2, <2>3 DEF Live, Quiet, Ceases, OfRequest, About
  <2>9. Delayed'
    <3>1. Owners' = Left
      BY <1>1, <2>1 DEF Owners, Left, Doing, Ceases
    <3>2. Spare(refs)
      BY <1>5
    <3>3. ASSUME NEW x \in Left, req[x].write = "writer" \/ x \notin ToSet(posted) PROVE x \in Reqs /\ Stays(x)'
      <4>1. x \in Reqs /\ req[x].write \in {"handler", "writer"} /\ ~req[x].logged /\ x # w
        BY <2>1 DEF Left
      <4> QED
        BY <1>1, <2>1, <2>2, <3>3, <4>1 DEF Stays, Ceases, About, OfRequest
    <3>4. error' /\ req'[data'].write = "finalizer"
      BY <1>1, <2>1, <2>2 DEF Ceases
    <3>5. /\ count' >= Cardinality(Left)
          /\ count' = Cardinality(Left) => \E x \in Left : req[x].write = "writer" \/ x \notin ToSet(posted)
      BY <1>1, <1>2, <3>2 DEF Spare
    <3>6. count' = Cardinality(Left) => \E x \in Reqs : Stays(x)'
      BY <3>3, <3>5
    <3>7. Cardinality(Left) + 0 = Cardinality(Left)
      BY <1>2
    <3> QED
      BY <1>4, <3>1, <3>4, <3>5, <3>6, <3>7 DEF Delayed
  <2>10. count' <= Cardinality(Created') + 1 + Pending'
    BY <1>2, <1>3, <1>4, <2>5
  <2>11. terminated'
    BY <1>1
  <2>12. Live'
    BY <1>3, <2>4, <2>5, <2>6, <2>7, <2>8, <2>9, <2>10, <2>11 DEF Live
  <2> QED
    BY <2>12, LiveNext
<1>6. CASE ~Blocked(req)
  <2>1. PICK w \in Reqs : w = Main /\ Ceases(w, "terminate")
    <3>1. req' = [[r \in Reqs |-> [req[r] EXCEPT !.ext = FALSE]] EXCEPT ![Main].write = "terminate"]
      BY <1>6 DEF Terminate, TerminateFrom
    <3>2. "terminate" \in Handlers /\ Main \in Reqs /\ req \in [Reqs -> Request] /\ Existing
      BY Constants DEF Handlers, Live, Types
    <3> QED
      BY <3>1, <3>2, CeasesIs
  <2>2. posted' = <<Main>> /\ error' = error
    BY <1>1, <1>6
  <2>3. ~req[w].logged /\ req[w].write # "none"
    BY <2>1 DEF Live, Existing
  <2>x. posted' \in Seq(Reqs) /\ ToSet(posted') = {w} /\ IsInjective(posted')
    BY <2>1, <2>2 DEF ToSet, IsInjective
  <2>4. Types'
    BY <1>1, <1>3, <2>1, <2>2, <2>x DEF Live, Types, StepTyped, OfRequest, Ceases
  <2>5. Existing' /\ Created' = Created
    <3>1. Lasting
      BY <1>1, <2>1, <2>x, <2>3 DEF Lasting, Ceases, Live, Types, Existing, OfRequest
    <3> QED
      BY <3>1, ExistingSame DEF Live
  <2>6. req'[Main].write = "terminate"
    BY <2>1 DEF Ceases
  <2>7. Turns' /\ Handled'
    BY <1>1, <1>4, <2>1, <2>x DEF Live, Turns, Handled, Ceases, OfRequest
  <2>8. Quiet'
    BY <1>1, <2>1, <2>x, <2>3 DEF Live, Quiet, Ceases, OfRequest, About
  <2>9. Doomed'
    BY <1>1, <1>6, <2>1, <2>2 DEF Doomed, Ceases, Blocked
  <2>10. count' <= Cardinality(Created') + 1 + Pending'
    BY <1>2, <1>3, <1>4, <2>5
  <2> QED
    BY <1>1, <1>3, <2>4, <2>5, <2>6, <2>7, <2>8, <2>9, <2>10 DEF IInv
<1> QED
  BY <1>5, <1>6

LEMMA ConnectionCloseStep ==
    ASSUME RequestsAssumption, IInv, ConnectionClose
    PROVE  IInv'
<1>1. step.op = "rest" /\ ~freed /\ ~terminated /\ Terminate(count + 1)
  BY DEF ConnectionClose, Ready, Rest
<1>2. Live /\ ~Returning /\ Pending = 0 /\ posted = <<>>
  BY <1>1, Acting DEF Returning, Pending, Live, Turns
<1>3. Held \in SUBSET Reqs /\ Exts \subseteq Held /\ Left \subseteq Held /\ Exts \cap Left = {} /\ Held \subseteq Created
  BY <1>1, <1>2, Constants DEF Held, Created, Exts, Left, Live, Going, Handled, MainDone, Existing
<1>4. /\ IsFiniteSet(Held) /\ IsFiniteSet(Exts) /\ IsFiniteSet(Left) /\ IsFiniteSet(Created)
      /\ Created \in SUBSET Reqs
  BY <1>3, Constants DEF Created, Exts, Left
<1>5. PICK ne, nl, nh, nc \in Nat : ne = Cardinality(Exts) /\ nl = Cardinality(Left) /\ nh = Cardinality(Held) /\ nc = Cardinality(Created)
  BY <1>4, FS_CardinalityType
<1>6. ne + nl <= nh
  <2>1. Cardinality(Exts \cup Left) = ne + nl
    <3>1. Cardinality(Exts \cap Left) = 0
      BY <1>3, FS_EmptySet
    <3>2. Cardinality(Exts \cup Left) = Cardinality(Exts) + Cardinality(Left) - Cardinality(Exts \cap Left)
      BY <1>4, FS_Union
    <3> QED
      BY <1>5, <3>1, <3>2
  <2>2. Exts \cup Left \subseteq Held
    BY <1>3
  <2> QED
    BY <1>4, <1>5, <2>1, <2>2, FS_Subset
<1>7. nh <= nc /\ count = nh
  <2>1. nh <= nc
    BY <1>3, <1>4, <1>5, FS_Subset
  <2> QED
    BY <1>1, <1>2, <1>5, <2>1 DEF Live, Going
<1>8. count + 1 \in Nat /\ count + 1 > ne /\ count + 1 <= nc + 1 /\ count + 1 > ne + nl
  BY <1>5, <1>6, <1>7
<1>9. Spare(count + 1)
  <2>1. count + 1 >= Cardinality(Exts) + Cardinality(Left) /\ ~(count + 1 = Cardinality(Exts) + Cardinality(Left))
    BY <1>5, <1>8
  <2> QED
    BY <2>1 DEF Spare
<1> QED
  BY <1>1, <1>2, <1>5, <1>8, <1>9, TerminateStep

LEMMA FinalizeErrorStep ==
    ASSUME RequestsAssumption, IInv, NEW r \in Reqs, FinalizeError(r)
    PROVE  IInv'
<1>1. step.op = "finalize" /\ step.r = r /\ step.rc # "done" /\ Terminate(count)
  BY DEF FinalizeError, Finalizing
<1>2. Live /\ ~Returning /\ Pending = 0 /\ Ending(r) /\ About(r)
  BY <1>1, Acting DEF Returning, Pending, Ending, About, OfRequest
<1>3. /\ req[r].write \in {"handler", "upstream", "writer", "finalizer"} /\ ~req[r].ext /\ ~req[r].logged
      /\ r \notin ToSet(posted)
  BY <1>1, <1>2 DEF Live, Handled, Quiet, Turns, OfRequest
<1>4. /\ IsFiniteSet(Held) /\ IsFiniteSet(Exts) /\ IsFiniteSet(Left) /\ IsFiniteSet(Created) /\ IsFiniteSet(Owners)
      /\ Exts \cap Left = {} /\ Held \in SUBSET Reqs /\ Held \subseteq Created
  BY <1>2, Constants DEF Held, Created, Exts, Left, Owners, Live, Handled
<1>5. PICK ne, nl, nh, nc, no \in Nat :
        /\ ne = Cardinality(Exts) /\ nl = Cardinality(Left) /\ nh = Cardinality(Held)
        /\ nc = Cardinality(Created) /\ no = Cardinality(Owners)
  BY <1>4, FS_CardinalityType
<1>6. PICK U : U = Exts \cup Left
  OBVIOUS
<1>7. Cardinality(U) = ne + nl /\ IsFiniteSet(U)
  <2>1. Cardinality(Exts \cap Left) = 0
    BY <1>4, FS_EmptySet
  <2>2. /\ Cardinality(Exts \cup Left) = Cardinality(Exts) + Cardinality(Left) - Cardinality(Exts \cap Left)
        /\ IsFiniteSet(Exts \cup Left)
    BY <1>4, FS_Union
  <2> QED
    BY <1>5, <1>6, <2>1, <2>2
<1>8. CASE ~terminated
  <2>1. Exts \subseteq Held /\ Left \subseteq Held /\ r \in Held /\ r \notin Exts
    BY <1>2, <1>3, <1>8 DEF Held, Created, Exts, Left, Live, Going, Handled, MainDone, Existing
  <2>2. count = nh
    BY <1>2, <1>5, <1>8 DEF Live, Going
  <2>3. nh > ne
    <3>1. Exts # Held
      BY <2>1
    <3> QED
      BY <1>4, <1>5, <2>1, <3>1, FS_Subset
  <2>4. nh <= nc
    BY <1>4, <1>5, FS_Subset
  <2>5. U \subseteq Held
    BY <1>6, <2>1
  <2>6. ne + nl <= nh /\ (ne + nl = nh => U = Held)
    BY <1>4, <1>5, <1>7, <2>5, FS_Subset
  <2>7. ASSUME Blocked(req), U = Held PROVE \E x \in Left : req[x].write = "writer" \/ x \notin ToSet(posted)
    <3>1. PICK x \in Reqs : req[x].aio
      BY <2>7 DEF Blocked
    <3>2. Open(x) /\ ~req[x].ext /\ req[x].write # "none" /\ (req[x].write = "writer" \/ x = r)
      BY <1>1, <1>2, <1>8, <3>1 DEF Live, Going, Reading, Existing, Doing, Ending
    <3>3. x \in Held
      BY <3>2 DEF Held, Open, Created
    <3>4. x \in Left
      BY <1>6, <2>7, <3>2, <3>3 DEF Exts
    <3> QED
      BY <1>3, <3>2, <3>4
  <2>8. ASSUME Blocked(req) PROVE Spare(count)
    BY <1>5, <2>2, <2>6, <2>7, <2>8 DEF Spare
  <2>9. count \in Nat /\ count > Cardinality(Exts) /\ count <= Cardinality(Created) + 1
    BY <1>5, <2>2, <2>3, <2>4
  <2> QED
    BY <1>1, <1>2, <2>8, <2>9, TerminateStep
<1>9. CASE terminated
  <2>1. U \subseteq Owners
    BY <1>6 DEF Exts, Left, Owners
  <2>2. ne + nl <= no
    BY <1>4, <1>5, <1>7, <2>1, FS_Subset
  <2>3. /\ count \in Nat /\ count >= no /\ count <= nc + 1
        /\ count = no => \E x \in Reqs : Stays(x)
    BY <1>2, <1>5, <1>9 DEF Live, Delayed, Types
  <2>4. ASSUME NEW x \in Reqs, Stays(x) PROVE x \in Left /\ (req[x].write = "writer" \/ x \notin ToSet(posted))
    BY <1>2, <1>9, <2>4 DEF Live, Delayed, Stays, Left
  <2>5. Spare(count)
    <3>1. count >= ne + nl
      BY <2>2, <2>3
    <3>2. count = ne + nl => count = no
      BY <2>2, <2>3
    <3> QED
      BY <1>5, <2>3, <2>4, <3>1, <3>2 DEF Spare
  <2>6. count > ne
    <3>1. ASSUME Left # {} PROVE nl > 0
      BY <1>4, <1>5, <3>1, FS_EmptySet
    <3>2. CASE Left = {}
      <4>1. count # no
        BY <2>3, <2>4, <3>2
      <4> QED
        BY <2>2, <2>3, <4>1
    <3>3. CASE Left # {}
      BY <2>2, <2>3, <3>1, <3>3
    <3> QED
      BY <3>2, <3>3
  <2> QED
    BY <1>1, <1>2, <1>5, <2>3, <2>5, <2>6, TerminateStep
<1> QED
  BY <1>8, <1>9

(* A subrequest hands its turn back to its parent.                         *)
HandsBack(r, p) ==
    /\ req' \in [Reqs -> Request]
    /\ \A x \in Reqs :
        /\ req'[x].parent = req[x].parent /\ req'[x].background = req[x].background
        /\ req'[x].held = req[x].held /\ req'[x].aio = req[x].aio /\ req'[x].ext = req[x].ext
        /\ req'[x].doc = req[x].doc
        /\ x # r => req'[x].done = req[x].done /\ req'[x].logged = req[x].logged
                    /\ req'[x].write = req[x].write
        /\ x # p => req'[x].postponed = req[x].postponed
    /\ \A x \in Reqs \ {r, p} : req'[x] = req[x]
    /\ req'[r].done /\ req'[r].logged /\ req'[r].write = "empty"
    /\ req'[p].postponed = Unlinked(req[p].postponed, r)

LEMMA UnlinkedIs ==
    ASSUME NEW S, NEW q \in Seq(S), NEW r
    PROVE  \/ q # <<>> /\ q[1] = r /\ Unlinked(q, r) \in Seq(S) /\ Len(Unlinked(q, r)) = Len(q) - 1
              /\ \A i \in 1 .. Len(q) - 1 : Unlinked(q, r)[i] = q[i + 1]
           \/ (q # <<>> => q[1] # r) /\ Unlinked(q, r) = q
<1>1. CASE q # <<>> /\ q[1] = r
  <2>1. Unlinked(q, r) = Tail(q)
    BY <1>1 DEF Unlinked
  <2>2. Tail(q) \in Seq(S) /\ Len(Tail(q)) = Len(q) - 1 /\ \A i \in 1 .. Len(q) - 1 : Tail(q)[i] = q[i + 1]
    BY <1>1, HeadTailProperties
  <2> QED
    BY <1>1, <2>1, <2>2
<1>2. CASE ~(q # <<>> /\ q[1] = r)
  BY <1>2 DEF Unlinked
<1> QED
  BY <1>1, <1>2

LEMMA HandsBackIs ==
    ASSUME req \in [Reqs -> Request], NEW r \in Reqs, NEW p \in Reqs, r # p,
           req' = [req EXCEPT ![r].done = TRUE, ![r].logged = TRUE, ![r].write = "empty",
                              ![p].postponed = Unlinked(@, r)]
    PROVE  HandsBack(r, p)
<1>1. PICK new \in Request : new = [req[r] EXCEPT !.done = TRUE, !.logged = TRUE, !.write = "empty"]
  <2>1. req[r] \in Request
    OBVIOUS
  <2>2. [req[r] EXCEPT !.done = TRUE, !.logged = TRUE, !.write = "empty"] \in Request
    BY <2>1 DEF Request, Handlers
  <2> QED
    BY <2>2
<1>2. req[p] \in Request /\ req[p].postponed \in Seq(Reqs \cup Pieces)
  BY DEF Request
<1>3. PICK q \in Seq(Reqs \cup Pieces) : q = Unlinked(req[p].postponed, r)
  <2>1. Unlinked(req[p].postponed, r) \in Seq(Reqs \cup Pieces)
    BY <1>2, UnlinkedIs
  <2> QED
    BY <2>1
<1>4. PICK old \in Request : old = [req[p] EXCEPT !.postponed = q]
  BY <1>2 DEF Request
<1>5. req' = [[req EXCEPT ![r] = new] EXCEPT ![p] = old]
  BY <1>1, <1>3, <1>4
<1>6. /\ req' \in [Reqs -> Request] /\ req'[r] = new /\ req'[p] = old
      /\ \A x \in Reqs \ {r, p} : req'[x] = req[x]
  BY <1>5
<1>7. /\ new.parent = req[r].parent /\ new.background = req[r].background
      /\ new.held = req[r].held /\ new.aio = req[r].aio /\ new.ext = req[r].ext
      /\ new.doc = req[r].doc /\ new.postponed = req[r].postponed
      /\ new.done /\ new.logged /\ new.write = "empty"
  BY <1>1 DEF Request
<1>8. /\ old.parent = req[p].parent /\ old.background = req[p].background
      /\ old.held = req[p].held /\ old.aio = req[p].aio /\ old.ext = req[p].ext
      /\ old.doc = req[p].doc /\ old.postponed = q
      /\ old.done = req[p].done /\ old.logged = req[p].logged /\ old.write = req[p].write
  BY <1>2, <1>4 DEF Request
<1> QED
  BY ZenonT(60), <1>3, <1>6, <1>7, <1>8 DEF HandsBack

LEMMA HandBackTree ==
    ASSUME RequestsAssumption, req \in [Reqs -> Request], Tree,
           NEW r \in Reqs, NEW p \in Reqs, r # Main, r = data, p = req[r].parent,
           ~req[Main].logged, req[Main].write # "none", ~req[Main].background,
           HandsBack(r, p), data' = p
    PROVE  Tree' /\ p # r /\ req[p].write # "none" /\ ~req[p].background /\ ~req[p].logged
<1>1. PICK P \in SUBSET Reqs : OnPath(P) /\ Queued(P) /\ Closed(P)
  BY DEF Tree
<1>2. /\ p \in P /\ p # r /\ req[p].write # "none" /\ ~req[p].background
      /\ r \in P /\ ~req[r].logged
  BY <1>1 DEF OnPath
<1>3. ~req[p].logged
  BY <1>1, <1>2 DEF OnPath
<1>4. PICK Q \in SUBSET Reqs : Q = P \ {r}
  BY <1>1
<1>5. OnPath(Q)'
  <2>1. Main \in Q /\ data' \in Q
    BY <1>1, <1>2, <1>4 DEF OnPath
  <2>2. ASSUME NEW x \in Q PROVE req'[x].write # "none" /\ ~req'[x].background
    <3>1. x \in P /\ x \in Reqs /\ x # r
      BY <1>4, <2>2
    <3> QED
      BY <1>1, <3>1 DEF OnPath, HandsBack
  <2>3. ASSUME NEW x \in Q \ {Main}
        PROVE  ~req'[x].logged /\ req'[x].parent \in Q /\ req'[x].parent # data'
    <3>1. x \in P \ {Main} /\ x \in Reqs /\ x # r
      BY <1>4, <2>3
    <3>2. ~req[x].logged /\ req[x].parent \in P /\ req[x].parent # data /\ req[x].parent # p
      BY <1>1, <1>2, <3>1 DEF OnPath
    <3> QED
      BY <1>4, <3>1, <3>2 DEF HandsBack
  <2>4. ASSUME NEW x \in Q \ {Main}, NEW y \in Q \ {Main}, req'[x].parent = req'[y].parent PROVE x = y
    <3>1. x \in P \ {Main} /\ y \in P \ {Main} /\ x \in Reqs /\ y \in Reqs
      BY <1>4
    <3>2. req[x].parent = req[y].parent
      BY <2>4, <3>1 DEF HandsBack
    <3> QED
      BY <1>1, <3>1, <3>2 DEF OnPath
  <2> QED
    BY <2>1, <2>2, <2>3, <2>4 DEF OnPath
<1>6. PICK q \in Seq(Reqs \cup Pieces) : q = req[p].postponed
  BY DEF Request
<1>7. PICK u : u = Unlinked(q, r) /\ req'[p].postponed = u
  BY <1>6 DEF HandsBack
<1>8. \/ /\ Len(q) \in Nat \ {0} /\ q[1] = r /\ u \in Seq(Reqs \cup Pieces) /\ Len(u) = Len(q) - 1
         /\ \A i \in 1 .. Len(q) - 1 : u[i] = q[i + 1]
      \/ (q # <<>> => q[1] # r) /\ u = q
  BY <1>6, <1>7, UnlinkedIs
<1>9. Placed(q, Children(p), P)
  BY <1>1, <1>6 DEF Queued
<1>a. \A x \in Reqs : Children(x)' = Children(x) \ {r}
  <2>1. ASSUME NEW x \in Reqs PROVE Children(x)' = Children(x) \ {r}
    <3>1. \A z \in Subs : (z \in Children(x)') <=> (z \in Children(x) /\ z # r)
      BY Constants DEF HandsBack, Children
    <3>2. Children(x)' \subseteq Subs /\ Children(x) \subseteq Subs
      BY DEF Children
    <3> QED
      BY <3>1, <3>2
  <2> QED
    BY <2>1
<1>b. Placed(u, Children(p) \ {r}, Q)
  <2>1. CASE (q # <<>> => q[1] # r) /\ u = q
    <3>1. ASSUME NEW i \in 1 .. Len(q), q[i] \in Reqs PROVE q[i] # r
      <4>1. q[i] \in P => i = 1
        BY <1>9, <3>1 DEF Placed
      <4>2. q # <<>>
        BY <3>1
      <4> QED
        BY <1>2, <2>1, <4>1, <4>2
    <3> QED
      BY <1>4, <1>9, <2>1, <3>1 DEF Placed
  <2>2. CASE /\ Len(q) \in Nat \ {0} /\ q[1] = r /\ u \in Seq(Reqs \cup Pieces) /\ Len(u) = Len(q) - 1
             /\ \A i \in 1 .. Len(q) - 1 : u[i] = q[i + 1]
    <3>1. ASSUME NEW i \in 1 .. Len(u), u[i] \in Reqs
          PROVE  /\ u[i] \in Children(p) \ {r} /\ u[i] \notin Q
                 /\ \A j \in 1 .. Len(u) : u[j] = u[i] => j = i
      <4>1. i + 1 \in 1 .. Len(q) /\ u[i] = q[i + 1] /\ i + 1 # 1 /\ i \in Nat
        BY <2>2
      <4>2. PICK k \in 1 .. Len(q) : k = i + 1
        BY <4>1
      <4>3. q[k] \in Reqs /\ u[i] = q[k] /\ k # 1
        BY <3>1, <4>1, <4>2
      <4>4. /\ q[k] \in Children(p) /\ q[k] \notin P
            /\ \A j \in 1 .. Len(q) : q[j] = q[k] => j = k
        BY <1>9, <4>3 DEF Placed
      <4>5. ASSUME NEW j \in 1 .. Len(u), u[j] = u[i] PROVE j = i
        <5>1. j + 1 \in 1 .. Len(q) /\ u[j] = q[j + 1] /\ j \in Nat
          BY <2>2
        <5>2. j + 1 = k
          BY <4>3, <4>4, <4>5, <5>1
        <5> QED
          BY <4>1, <4>2, <5>1, <5>2
      <4> QED
        BY <1>2, <1>4, <4>3, <4>4, <4>5
    <3> QED
      BY <3>1 DEF Placed
  <2> QED
    BY <1>8, <2>1, <2>2
<1>c. Queued(Q)'
  <2>1. ASSUME NEW x \in Reqs, x # p PROVE Placed(req'[x].postponed, Children(x)', Q)
    <3>1. req'[x].postponed = req[x].postponed
      BY <2>1 DEF HandsBack
    <3>2. r \notin Children(x)
      BY <2>1 DEF Children
    <3>3. Placed(req[x].postponed, Children(x), P)
      BY <1>1 DEF Queued
    <3>4. Placed(req[x].postponed, Children(x), Q)
      BY <1>4, <3>3 DEF Placed
    <3>5. Children(x)' = Children(x)
      <4>1. Children(x)' = Children(x) \ {r}
        BY <1>a
      <4> QED
        BY <3>2, <4>1
    <3> QED
      BY <3>1, <3>4, <3>5
  <2>2. Placed(req'[p].postponed, Children(p)', Q)
    BY <1>7, <1>a, <1>b
  <2> QED
    BY <2>1, <2>2 DEF Queued
<1>d. HasSub(u) => HasSub(q) /\ (Tidy(q) => Tidy(u))
  <2>1. CASE u = q
    BY <2>1
  <2>2. CASE /\ Len(q) \in Nat \ {0} /\ q[1] = r /\ u \in Seq(Reqs \cup Pieces) /\ Len(u) = Len(q) - 1
             /\ \A i \in 1 .. Len(q) - 1 : u[i] = q[i + 1]
    <3>1. ASSUME HasSub(u) PROVE HasSub(q) /\ u # <<>> /\ u[Len(u)] = q[Len(q)]
      <4>1. PICK i \in 1 .. Len(u) : u[i] \in Reqs
        BY <3>1 DEF HasSub
      <4>2. i + 1 \in 1 .. Len(q) /\ u[i] = q[i + 1]
        BY <2>2
      <4>3. HasSub(q)
        BY <4>1, <4>2 DEF HasSub
      <4>4. Len(u) \in 1 .. Len(q) - 1 /\ Len(u) + 1 = Len(q)
        BY <2>2, <4>1
      <4>5. u[Len(u)] = q[Len(q)]
        BY <2>2, <4>4
      <4>6. u # <<>>
        BY <4>4, <2>2
      <4> QED
        BY <4>3, <4>5, <4>6
    <3> QED
      BY <3>1 DEF Tidy, LastIsSub
  <2> QED
    BY <1>8, <2>1, <2>2
<1>e. Closed(Q)'
  <2>1. ASSUME NEW x \in Reqs, ~LastIsSub(req'[x].doc), req'[x].held = <<>>,
               (x \in Q /\ x # data') \/ HasSub(req'[x].postponed)
        PROVE  Tidy(req'[x].postponed)
    <3>1. req[x].doc = req'[x].doc /\ req[x].held = <<>>
      BY <2>1 DEF HandsBack
    <3>2. CASE x # p
      <4>1. req'[x].postponed = req[x].postponed
        BY <3>2 DEF HandsBack
      <4>2. (x \in P /\ x # data) \/ HasSub(req[x].postponed)
        BY <1>4, <2>1, <4>1
      <4> QED
        BY <1>1, <2>1, <3>1, <4>1, <4>2 DEF Closed
    <3>3. CASE x = p
      <4>1. HasSub(u)
        BY <1>7, <2>1, <3>3
      <4>2. HasSub(req[x].postponed)
        BY <1>6, <1>d, <3>3, <4>1
      <4>3. Tidy(req[x].postponed)
        BY <1>1, <2>1, <3>1, <4>2 DEF Closed
      <4> QED
        BY <1>6, <1>7, <1>d, <3>3, <4>1, <4>3
    <3> QED
      BY <3>2, <3>3
  <2> QED
    BY <2>1 DEF Closed
<1> QED
  BY <1>2, <1>3, <1>5, <1>c, <1>e DEF Tree

LEMMA FinalizeActiveStep ==
    ASSUME RequestsAssumption, IInv, NEW r \in Reqs, r # Main, FinalizeActive(r)
    PROVE  IInv'
<1>1. /\ FinalizingOk(r) /\ step'.op = "loop" /\ step' = Loop
      /\ alert' = (alert \/ req[r].logged) /\ count' = count - 1
      /\ UNCHANGED <<buffered, error, terminated, freed, sent>>
      /\ req[r].held = <<>> /\ ~req[r].background /\ r = data
  BY DEF FinalizeActive, Loop, Drained
<1>2. /\ Live /\ ~terminated /\ ~error /\ Ending(r) /\ step.op = "finalize" /\ step.r = r
      /\ step.rc = "ok"
      /\ req[r].write \in {"handler", "upstream", "writer", "finalizer"}
      /\ ~req[r].logged /\ ~req[r].ext /\ Open(r) /\ r \notin ToSet(posted)
      /\ Pending = 0 /\ ~LastIsSub(req[r].doc)
      /\ \A x \in Reqs \ {r} : req[x].held # <<>> => req[x].write = "writer"
  BY <1>1, EndingFacts
<1>a. ~req[r].aio
  BY <1>1, <1>2 DEF Live, Going, Reading, Existing
<1>b. /\ r \in Held /\ count \in Nat \ {0} /\ Cardinality(Held \ {r}) = count - 1
  BY <1>2, LastReference
<1>3. PICK p \in Reqs : p = req[r].parent
  BY <1>2, Constants DEF Live, Existing
<1>c. p # r
  BY <1>1, <1>2, <1>3, Constants DEF Live, Going, Tree, OnPath
<1>d. data' = p /\ posted' = Post(posted, p)
  BY <1>3 DEF FinalizeActive
<1>e. HandsBack(r, p)
  <2>1. req' = [req EXCEPT ![r].done = TRUE, ![r].logged = TRUE, ![r].write = "empty",
                           ![p].postponed = Unlinked(@, r)]
    BY <1>3 DEF FinalizeActive
  <2> QED
    BY <1>2, <1>c, <2>1, HandsBackIs DEF Live, Types
<1>f. Tree' /\ req[p].write # "none" /\ ~req[p].background /\ ~req[p].logged
  BY <1>1, <1>2, <1>3, <1>d, <1>e, HandBackTree DEF Live, Types, Going, Existing
<1>g. posted' \in Seq(Reqs) /\ IsInjective(posted') /\ ToSet(posted') = ToSet(posted) \cup {p}
  BY <1>2, <1>d, PostedOnce DEF Live, Types, Turns
<1>4. Pending' = 0 /\ ~Returning'
  BY <1>1 DEF Pending, Returning
<1>5. Existing' /\ Created' = Created
  <2>1. \A x \in Reqs : req[x].write = "none" => x \notin {r, p}
    BY <1>2, <1>f
  <2>2. \A x \in Reqs :
            /\ req'[x].parent = req[x].parent /\ req'[x].background = req[x].background
            /\ req'[x].write = "none" <=> req[x].write = "none"
    BY <1>2, <1>e, <1>f, <2>1 DEF HandsBack
  <2>5. \A x \in Reqs : req[x].write = "none" => req'[x] = req[x]
    BY <1>e, <2>1 DEF HandsBack
  <2>8. ~req'[Main].logged
    BY <1>2, <1>e, Constants DEF HandsBack, Live, Existing
  <2>3. \A x \in ToSet(posted') : x \in Reqs /\ req[x].write # "none"
    <3>1. \A x \in ToSet(posted) : x \in Reqs /\ req[x].write # "none"
      BY <1>2 DEF Live, Types, Existing, ToSet
    <3> QED
      BY <1>f, <1>g, <3>1
  <2>4. /\ data' \in Reqs /\ req[data'].write # "none" /\ ~req[data'].background
        /\ step'.op \notin OfRequest
    BY <1>1, <1>d, <1>f DEF OfRequest
  <2>6. posted' \in Seq(Reqs)
    BY <1>g
  <2>7. Lasting
    BY <2>2, <2>3, <2>4, <2>5, <2>6, <2>8 DEF Lasting
  <2> QED
    BY <1>2, <2>7, ExistingSame DEF Live
<1>6. req'[Main].write # "terminate"
  BY <1>2, <1>e, Constants DEF HandsBack, Live
<1>7. Types' /\ ~alert'
  <2>x. count' \in Nat
    BY <1>1, <1>b
  <2>y. ~alert /\ ~req[r].logged
    BY <1>2 DEF Live
  <2>1. count' \in Nat /\ ~alert'
    BY <1>1, <2>x, <2>y
  <2> QED
    BY <1>1, <1>2, <1>d, <1>e, <1>g, <2>1 DEF Live, Types, StepTyped, HandsBack, OfRequest
<1>8. Turns' /\ Handled'
  <2>1. Turns'
    BY <1>1, <1>g DEF Turns, OfRequest
  <2>2. Handled
    BY <1>2 DEF Live
  <2>3. \A x \in Reqs : req'[x].ext => req'[x].write = "upstream" /\ ~req'[x].logged
    BY <1>2, <1>e, <2>2 DEF HandsBack, Handled
  <2>4. \A x \in Reqs : req'[x].write = "terminate" => x = Main /\ terminated'
    BY <1>2, <1>e, <1>6, <2>2 DEF HandsBack, Handled
  <2> QED
    BY <1>1, <1>4, <2>1, <2>3, <2>4 DEF Handled, Doing, Ending
<1>9. Quiet'
  BY <1>1, <1>2, <1>a, <1>c, <1>d, <1>e, <1>f, <1>g DEF Live, Quiet, About, HandsBack, OfRequest
<1>10. Going'
  <2>1. Reading'
    BY <1>1, <1>2, <1>a, <1>e DEF Live, Going, Reading, Open, Doing, Ending, HandsBack
  <2>2. MainDone'
    BY <1>1, <1>2, <1>e, Constants DEF Live, Going, MainDone, HandsBack
  <2>3. Ended'
    BY <1>1, <1>2, <1>e DEF Live, Going, Ended, Ending, HandsBack
  <2>4. Held' = Held \ {r}
    <3>1. \A x \in Reqs \ {r} : Open(x)' <=> Open(x)
      BY <1>e DEF Open, HandsBack
    <3>2. ~Open(r)'
      BY <1>e DEF Open, HandsBack
    <3>3. Held = {x \in Created : Open(x)} /\ Held' = {x \in Created' : Open(x)'} /\ Created \in SUBSET Reqs
      BY DEF Held, Open, Created
    <3> QED
      BY <1>5, <3>1, <3>2, <3>3
  <2> QED
    BY <1>1, <1>2, <1>4, <1>b, <1>f, <2>1, <2>2, <2>3, <2>4 DEF Live, Going
<1>11. count' <= Cardinality(Created') + 1 + Pending'
  <2>1. Cardinality(Created) \in Nat
    BY Constants, FS_CardinalityType DEF Created
  <2> QED
    BY <1>1, <1>2, <1>4, <1>5, <1>b, <2>1 DEF Live
<1> QED
  BY <1>1, <1>2, <1>5, <1>6, <1>7, <1>8, <1>9, <1>10, <1>11, LiveNext DEF Live

-----------------------------------------------------------------------------
(* A subrequest is created.                                                *)
Begins(r, s, background) ==
    /\ req' \in [Reqs -> Request]
    /\ \A x \in Reqs \ {r, s} : req'[x] = req[x]
    /\ req'[r].parent = req[r].parent /\ req'[r].background = req[r].background
    /\ req'[r].held = req[r].held /\ req'[r].aio = req[r].aio /\ req'[r].ext = req[r].ext
    /\ req'[r].done = req[r].done /\ req'[r].logged = req[r].logged
    /\ req'[r].write = req[r].write
    /\ req'[s].parent = r /\ req'[s].write = "handler" /\ req'[s].background = background
    /\ req'[s].postponed = <<>> /\ req'[s].held = <<>> /\ req'[s].doc = <<>>
    /\ ~req'[s].aio /\ ~req'[s].ext /\ ~req'[s].done /\ ~req'[s].logged
    /\ background => req'[r] = req[r] /\ data' = data
    /\ ~background => /\ req'[r].postponed = Append(req[r].postponed, s)
                      /\ req'[r].doc = Append(req[r].doc, s)
                      /\ data' = IF data = r /\ req[r].postponed = <<>> THEN s ELSE data

LEMMA BeginsIs ==
    ASSUME RequestsAssumption, req \in [Reqs -> Request], NEW r \in Reqs, NEW s \in Subs, r # s,
           NEW background \in BOOLEAN, NEW waited \in BOOLEAN,
           Subrequest(r, s, background, waited)
    PROVE  Begins(r, s, background)
<1>1. PICK new \in Request :
        new = [NewRequest EXCEPT !.parent = r, !.write = "handler",
                                 !.background = background, !.waited = waited]
  <2>1. <<>> \in Seq(Reqs \cup Pieces) /\ r \in Reqs \cup {Nil}
    OBVIOUS
  <2>2. [NewRequest EXCEPT !.parent = r, !.write = "handler",
                           !.background = background, !.waited = waited] \in Request
    BY <2>1 DEF Request, NewRequest, Handlers
  <2> QED
    BY <2>2
<1>2. /\ new.parent = r /\ new.write = "handler" /\ new.background = background
      /\ new.postponed = <<>> /\ new.held = <<>> /\ new.doc = <<>>
      /\ ~new.aio /\ ~new.ext /\ ~new.done /\ ~new.logged
  BY <1>1 DEF NewRequest
<1>3. s \in Reqs /\ req[r] \in Request /\ req[r].postponed \in Seq(Reqs \cup Pieces)
  BY Constants DEF Request
<1>4. CASE background
  <2>1. req' = [req EXCEPT ![s] = new] /\ data' = data
    BY <1>1, <1>4 DEF Subrequest
  <2>2. /\ req' \in [Reqs -> Request] /\ req'[s] = new
        /\ \A x \in Reqs \ {s} : req'[x] = req[x]
    BY <1>1, <1>3, <2>1
  <2>3. req'[r] = req[r]
    BY <2>2
  <2> QED
    BY <1>2, <1>4, <2>1, <2>2, <2>3 DEF Begins
<1>5. CASE ~background
  <2>1. PICK old \in Request : old = [req[r] EXCEPT !.postponed = Append(req[r].postponed, s)]
    <3>0. Append(req[r].postponed, s) \in Seq(Reqs \cup Pieces)
      BY <1>3
    <3>1. PICK q \in Seq(Reqs \cup Pieces) : q = Append(req[r].postponed, s)
      BY <3>0
    <3>2. [req[r] EXCEPT !.postponed = q] \in Request
      BY <1>3, <3>1 DEF Request
    <3> QED
      BY <3>1, <3>2
  <2>2. PICK rq : rq = [req EXCEPT ![s] = new, ![r].postponed = Append(@, s)]
    OBVIOUS
  <2>3. rq = [[req EXCEPT ![s] = new] EXCEPT ![r] = old]
    BY <1>3, <2>1, <2>2
  <2>4. /\ rq \in [Reqs -> Request] /\ rq[s] = new /\ rq[r] = old
        /\ \A x \in Reqs \ {r, s} : rq[x] = req[x]
    BY <1>1, <1>3, <2>1, <2>3
  <2>5. /\ req' = Noted(rq, r, s)
        /\ data' = IF data = r /\ req[r].postponed = <<>> THEN s ELSE data
    BY <1>1, <1>5, <2>2 DEF Subrequest
  <2>6. /\ old.parent = req[r].parent /\ old.background = req[r].background
        /\ old.held = req[r].held /\ old.aio = req[r].aio /\ old.ext = req[r].ext
        /\ old.done = req[r].done /\ old.logged = req[r].logged
        /\ old.write = req[r].write /\ old.doc = req[r].doc
        /\ old.postponed = Append(req[r].postponed, s)
    BY <1>3, <2>1 DEF Request
  <2>7. /\ req' \in [Reqs -> Request]
        /\ \A x \in Reqs \ {r} : req'[x] = rq[x]
        /\ Continues(req'[r], old)
        /\ req'[r].doc = Append(old.doc, s)
    BY <1>3, <2>4, <2>5, NotedIs
  <2>8. req'[s] = new /\ \A x \in Reqs \ {r, s} : req'[x] = req[x]
    BY <1>3, <2>4, <2>7
  <2> QED
    BY <1>2, <1>5, <2>5, <2>6, <2>7, <2>8 DEF Begins, Continues
<1> QED
  BY <1>4, <1>5

LEMMA BeginsTree ==
    ASSUME RequestsAssumption, req \in [Reqs -> Request], Existing, Tree,
           NEW r \in Reqs, NEW s \in Subs, req[r].write # "none", req[s].write = "none", ~req[r].background,
           NEW background \in BOOLEAN, Begins(r, s, background)
    PROVE  Tree'
<1>1. PICK P \in SUBSET Reqs : OnPath(P) /\ Queued(P) /\ Closed(P)
  BY DEF Tree
<1>2. s \in Reqs /\ s # Main /\ r # s /\ s \notin P /\ s # data /\ Main \in Reqs
  BY <1>1, Constants DEF OnPath
<1>3. \A x \in Reqs \ {r, s} : req'[x] = req[x]
  BY DEF Begins
<1>4. \A x \in Reqs : s \notin Children(x)
  BY DEF Children
<1>5. \A x \in Reqs : Children(x) \subseteq Children(x)' /\ (x # r \/ background => Children(x)' = Children(x))
  <2>1. ASSUME NEW x \in Reqs, NEW z \in Subs, z # s PROVE z \in Children(x)' <=> z \in Children(x)
    <3>1. z \in Reqs
      BY Constants
    <3>2. CASE z = r
      BY <3>2 DEF Begins, Children
    <3>3. CASE z # r
      BY <1>3, <2>1, <3>1, <3>3 DEF Children
    <3> QED
      BY <3>2, <3>3
  <2>2. ASSUME NEW x \in Reqs, x # r \/ background PROVE s \notin Children(x)'
    BY <2>2 DEF Begins, Children
  <2>3. \A x \in Reqs : Children(x)' \subseteq Subs /\ Children(x) \subseteq Subs
    BY DEF Children
  <2>4. ASSUME NEW x \in Reqs PROVE Children(x) \subseteq Children(x)'
    BY <1>4, <2>1, <2>3
  <2>5. ASSUME NEW x \in Reqs, x # r \/ background PROVE Children(x)' \subseteq Children(x)
    BY <2>1, <2>2, <2>3, <2>5
  <2> QED
    BY <2>4, <2>5
<1>6. ~background => s \in Children(r)'
  BY DEF Begins, Children
<1>7. /\ req'[r].parent = req[r].parent /\ req'[r].background = req[r].background
      /\ req'[r].logged = req[r].logged /\ req'[r].write = req[r].write /\ req'[r].held = req[r].held
      /\ req'[s].parent = r /\ req'[s].write = "handler" /\ req'[s].background = background
      /\ ~req'[s].logged /\ req'[s].postponed = <<>> /\ req'[s].doc = <<>>
  BY DEF Begins
<1>8. ~HasSub(<<>>) /\ Placed(<<>>, Children(s)', P) /\ Placed(<<>>, Children(s)', P \cup {s})
  BY DEF HasSub, Placed
<1>9. ASSUME NEW x \in Reqs
      PROVE  Placed(req[x].postponed, Children(x)', P) /\ Placed(req[x].postponed, Children(x)', P \cup {s})
  <2>1. Placed(req[x].postponed, Children(x), P)
    BY <1>1 DEF Queued
  <2> QED
    BY <1>4, <1>5, <2>1 DEF Placed
<1>10. CASE background
  <2>1. req'[r] = req[r] /\ data' = data
    BY <1>10 DEF Begins
  <2>2. OnPath(P)'
    <3>1. \A x \in P : x \in Reqs /\ req'[x] = req[x]
      BY <1>1, <1>2, <1>3, <2>1
    <3> QED
      BY <1>1, <2>1, <3>1 DEF OnPath
  <2>3. Queued(P)'
    BY <1>3, <1>7, <1>8, <1>9, <2>1 DEF Queued
  <2>4. Closed(P)'
    <3>1. ASSUME NEW x \in Reqs, ~LastIsSub(req'[x].doc), req'[x].held = <<>>,
                 (x \in P /\ x # data') \/ HasSub(req'[x].postponed)
          PROVE  Tidy(req'[x].postponed)
      <4>1. x # s
        BY <1>2, <1>7, <1>8, <3>1
      <4>2. req'[x] = req[x]
        BY <1>3, <2>1, <4>1
      <4> QED
        BY <1>1, <2>1, <3>1, <4>2 DEF Closed
    <3> QED
      BY <3>1 DEF Closed
  <2> QED
    BY <2>2, <2>3, <2>4 DEF Tree
<1>11. CASE ~background
  <2>1. PICK q \in Seq(Reqs \cup Pieces) : q = req[r].postponed
    BY DEF Request
  <2>2. /\ req'[r].postponed = Append(q, s) /\ req'[r].doc = Append(req[r].doc, s)
        /\ data' = IF data = r /\ q = <<>> THEN s ELSE data
    BY <1>11, <2>1 DEF Begins
  <2>3. LastIsSub(req'[r].doc)
    <3>1. req[r].doc \in Seq(Reqs \cup Pieces)
      BY DEF Request
    <3>2. PICK d \in Seq(Reqs \cup Pieces) : d = req[r].doc
      BY <3>1
    <3>a. Len(Append(d, s)) = Len(d) + 1 /\ Append(d, s)[Len(d) + 1] = s /\ Len(d) \in Nat
      BY <3>2
    <3>b. Len(d) + 1 # 0 /\ Len(<<>>) = 0
      BY <3>a
    <3>3. Append(d, s) # <<>> /\ Append(d, s)[Len(Append(d, s))] = s
      BY <3>a, <3>b
    <3> QED
      BY <1>2, <2>2, <3>2, <3>3 DEF LastIsSub
  <2>4. /\ Len(q) \in Nat /\ Len(Append(q, s)) = Len(q) + 1 /\ Append(q, s)[Len(q) + 1] = s
        /\ \A i \in 1 .. Len(q) : Append(q, s)[i] = q[i]
    BY <2>1
  <2>5. ASSUME NEW Q \in SUBSET Reqs, Q = P \cup {s} => q = <<>>, Q \in {P, P \cup {s}}
        PROVE  Placed(Append(q, s), Children(r)', Q)
    <3> DEFINE u == Append(q, s)
    <3> HIDE DEF u
    <3>0. Len(u) = Len(q) + 1 /\ u[Len(q) + 1] = s /\ \A i \in 1 .. Len(q) : u[i] = q[i]
      BY <2>4 DEF u
    <3>1. Placed(q, Children(r), P) /\ Placed(q, Children(r)', Q)
      BY <1>1, <1>9, <2>1, <2>5 DEF Queued
    <3>2. \A i \in 1 .. Len(q) : q[i] # s
      BY <1>2, <1>4, <3>1 DEF Placed
    <3>3. ASSUME NEW i \in 1 .. Len(u), u[i] \in Reqs
          PROVE  /\ u[i] \in Children(r)'
                 /\ \A j \in 1 .. Len(u) : u[j] = u[i] => j = i
                 /\ u[i] \in Q => i = 1
      <4>1. CASE i = Len(q) + 1
        <5>1. u[i] = s /\ s \in Children(r)'
          BY <1>6, <1>11, <3>0, <4>1
        <5>2. \A j \in 1 .. Len(u) : j # Len(q) + 1 => j \in 1 .. Len(q)
          BY <2>4, <3>0
        <5>3. \A j \in 1 .. Len(u) : u[j] = s => j = i
          BY <3>0, <3>2, <4>1, <5>2
        <5>4. s \in Q => i = 1
          BY <1>2, <2>4, <2>5, <4>1
        <5> QED
          BY <5>1, <5>3, <5>4
      <4>2. CASE i # Len(q) + 1
        <5>1. i \in 1 .. Len(q) /\ u[i] = q[i]
          BY <2>4, <3>0, <4>2
        <5>2. /\ q[i] \in Children(r)' /\ (q[i] \in Q => i = 1)
              /\ \A j \in 1 .. Len(q) : q[j] = q[i] => j = i
          BY <3>1, <3>3, <5>1 DEF Placed
        <5>3. ASSUME NEW j \in 1 .. Len(u), u[j] = u[i] PROVE j = i
          <6>1. j # Len(q) + 1
            BY <3>0, <3>2, <5>1, <5>3
          <6>2. j \in 1 .. Len(q) /\ u[j] = q[j]
            BY <2>4, <3>0, <6>1
          <6> QED
            BY <5>1, <5>2, <5>3, <6>2
        <5> QED
          BY <5>1, <5>2, <5>3
      <4> QED
        BY <4>1, <4>2
    <3>4. Placed(u, Children(r)', Q)
      BY <3>3 DEF Placed
    <3> QED
      BY <3>4 DEF u
  <2>6. ASSUME NEW Q \in SUBSET Reqs, Q = P \cup {s} => q = <<>>, Q \in {P, P \cup {s}}
        PROVE  Queued(Q)'
    <3>1. ASSUME NEW x \in Reqs PROVE Placed(req'[x].postponed, Children(x)', Q)
      <4>1. CASE x = r
        BY <2>2, <2>5, <2>6, <4>1
      <4>2. CASE x = s
        BY <1>7, <1>8, <2>6, <4>2
      <4>3. CASE x \notin {r, s}
        BY <1>3, <1>9, <2>6, <4>3
      <4> QED
        BY <4>1, <4>2, <4>3
    <3> QED
      BY <3>1 DEF Queued
  <2>7. CASE data = r /\ q = <<>>
    <3>1. PICK Q \in SUBSET Reqs : Q = P \cup {s}
      BY <1>2
    <3>2. data' = s
      BY <2>2, <2>7
    <3>3. Queued(Q)'
      BY <2>6, <2>7, <3>1
    <3>4. OnPath(Q)'
      <4>0. \A x \in P : /\ req'[x].parent = req[x].parent /\ req'[x].background = req[x].background
                         /\ req'[x].logged = req[x].logged /\ req'[x].write = req[x].write
        BY <1>1, <1>2, <1>3, <1>7
      <4>1. Main \in Q /\ data' \in Q
        BY <1>1, <3>1, <3>2 DEF OnPath
      <4>2. ASSUME NEW x \in Q PROVE req'[x].write # "none" /\ ~req'[x].background
        BY <1>1, <1>7, <1>11, <3>1, <4>0 DEF OnPath
      <4>3. ASSUME NEW x \in Q \ {Main} PROVE ~req'[x].logged /\ req'[x].parent \in Q /\ req'[x].parent # data'
        <5>1. CASE x = s
          BY <1>1, <1>2, <1>7, <2>7, <3>1, <3>2, <5>1 DEF OnPath
        <5>2. CASE x # s
          <6>1. x \in P \ {Main}
            BY <3>1, <4>3, <5>2
          <6> QED
            BY SMTT(30), <1>1, <1>2, <3>1, <3>2, <4>0, <6>1 DEF OnPath
        <5> QED
          BY <5>1, <5>2
      <4>4. ASSUME NEW x \in Q \ {Main}, NEW y \in Q \ {Main}, req'[x].parent = req'[y].parent PROVE x = y
        <5>1. \A z \in P \ {Main} : req'[z].parent = req[z].parent /\ req[z].parent # r
          BY <1>1, <2>7, <4>0 DEF OnPath
        <5>2. CASE x # s /\ y # s
          <6>1. x \in P \ {Main} /\ y \in P \ {Main}
            BY <3>1, <4>4, <5>2
          <6> QED
            BY <1>1, <4>4, <5>1, <6>1 DEF OnPath
        <5>3. CASE x = s \/ y = s
          BY <1>7, <3>1, <4>4, <5>1, <5>3
        <5> QED
          BY <5>2, <5>3
      <4> QED
        BY <4>1, <4>2, <4>3, <4>4 DEF OnPath
    <3>5. Closed(Q)'
      <4>1. ASSUME NEW x \in Reqs, ~LastIsSub(req'[x].doc), req'[x].held = <<>>,
                   (x \in Q /\ x # data') \/ HasSub(req'[x].postponed)
            PROVE  Tidy(req'[x].postponed)
        <5>1. x # s
          BY <1>7, <1>8, <3>2, <4>1
        <5>2. x # r
          BY <2>3, <4>1
        <5>3. req'[x] = req[x]
          BY <1>3, <5>1, <5>2
        <5>4. (x \in P /\ x # data) \/ HasSub(req[x].postponed)
          BY <2>7, <3>1, <4>1, <5>1, <5>2, <5>3
        <5> QED
          BY <1>1, <4>1, <5>3, <5>4 DEF Closed
      <4> QED
        BY <4>1 DEF Closed
    <3> QED
      BY <3>3, <3>4, <3>5 DEF Tree
  <2>8. CASE ~(data = r /\ q = <<>>)
    <3>1. data' = data
      BY <2>2, <2>8
    <3>2. P # P \cup {s}
      BY <1>2
    <3>3. Queued(P)'
      BY <2>6, <3>2
    <3>4. OnPath(P)'
      <4>0. \A x \in P : /\ req'[x].parent = req[x].parent /\ req'[x].background = req[x].background
                         /\ req'[x].logged = req[x].logged /\ req'[x].write = req[x].write
        BY <1>1, <1>2, <1>3, <1>7
      <4> QED
        BY <1>1, <3>1, <4>0 DEF OnPath
    <3>5. Closed(P)'
      <4>1. ASSUME NEW x \in Reqs, ~LastIsSub(req'[x].doc), req'[x].held = <<>>,
                   (x \in P /\ x # data') \/ HasSub(req'[x].postponed)
            PROVE  Tidy(req'[x].postponed)
        <5>1. x # s
          BY <1>2, <1>7, <1>8, <4>1
        <5>2. x # r
          BY <2>3, <4>1
        <5>3. req'[x] = req[x]
          BY <1>3, <5>1, <5>2
        <5> QED
          BY <1>1, <3>1, <4>1, <5>3 DEF Closed
      <4> QED
        BY <4>1 DEF Closed
    <3> QED
      BY <3>3, <3>4, <3>5 DEF Tree
  <2> QED
    BY <2>7, <2>8
<1> QED
  BY <1>10, <1>11

LEMMA SubrequestStep ==
    ASSUME RequestsAssumption, IInv, NEW r \in Reqs, NEW s \in Subs,
           NEW background \in BOOLEAN, NEW waited \in BOOLEAN, Subrequest(r, s, background, waited)
    PROVE  IInv'
<1>1. /\ Working(r) /\ MayOutput(r) /\ s \notin Created /\ s \in Reqs /\ s # Main /\ Main \in Reqs
      /\ count' = count + 1 /\ posted' = Post(posted, s)
      /\ UNCHANGED <<buffered, error, terminated, freed, step, sent, alert>>
  BY Constants DEF Subrequest, Referenced
<1>2. /\ Live /\ step.op = "content" /\ step.r = r
      /\ req[r].write \in {"handler", "upstream"} /\ ~req[r].logged /\ ~req[r].ext
      /\ r \notin ToSet(posted) /\ Pending = 0
      /\ ~terminated => /\ ~error /\ Open(r)
                        /\ \A x \in Reqs \ {r} : req[x].held # <<>> => req[x].write = "writer"
      /\ terminated => error /\ r # data
  BY <1>1, ContentFacts
<1>3. /\ req[s].write = "none" /\ r # s /\ ~req[r].background /\ req[r].held = <<>>
      /\ s \notin ToSet(posted) /\ s # data
  BY <1>1, <1>2 DEF Created, MayOutput, Live, Existing
<1>4. Begins(r, s, background)
  BY <1>2, <1>3, BeginsIs DEF Live, Types
<1>5. posted' \in Seq(Reqs) /\ IsInjective(posted') /\ ToSet(posted') = ToSet(posted) \cup {s}
  BY <1>1, <1>2, PostedOnce DEF Live, Types, Turns
<1>6. Pending' = 0 /\ ~Returning'
  BY <1>1, <1>2 DEF Pending, Returning
<1>7. data' \in {data, s} /\ (data' = s => ~background) /\ (r # data => data' = data)
  <2>1. CASE background
    BY <1>3, <1>4, <2>1 DEF Begins
  <2>2. CASE ~background
    <3>1. data' = IF data = r /\ req[r].postponed = <<>> THEN s ELSE data
      BY <1>4, <2>2 DEF Begins
    <3> QED
      BY <2>2, <3>1
  <2> QED
    BY <2>1, <2>2
<1>8. \A x \in Reqs \ {s} :
        /\ req'[x].parent = req[x].parent /\ req'[x].background = req[x].background
        /\ req'[x].held = req[x].held /\ req'[x].aio = req[x].aio /\ req'[x].ext = req[x].ext
        /\ req'[x].done = req[x].done /\ req'[x].logged = req[x].logged
        /\ req'[x].write = req[x].write
  BY <1>4 DEF Begins
<1>9. /\ req'[s].parent = r /\ req'[s].write = "handler" /\ req'[s].background = background
      /\ req'[s].held = <<>> /\ ~req'[s].aio /\ ~req'[s].ext /\ ~req'[s].done /\ ~req'[s].logged
      /\ req'[s].doc = <<>>
  BY <1>4 DEF Begins
<1>10. Existing'
  <2>1. req'[Main].write # "none" /\ ~req'[Main].background /\ ~req'[Main].logged
    BY <1>1, <1>2, <1>8 DEF Live, Existing
  <2>2. ASSUME NEW x \in Reqs, req'[x].write = "none"
        PROVE  ~req'[x].logged /\ req'[x].held = <<>> /\ ~req'[x].aio /\ ~req'[x].ext
    BY <1>2, <1>8, <1>9, <2>2 DEF Live, Existing
  <2>3. ASSUME NEW x \in Subs, req'[x].write # "none"
        PROVE  /\ req'[x].parent \in Reqs /\ req'[req'[x].parent].write # "none"
               /\ ~req'[req'[x].parent].background
    <3>1. CASE x = s
      BY <1>2, <1>3, <1>8, <1>9, <3>1
    <3>2. CASE x # s
      <4>1. x \in Reqs /\ req[x].write # "none" /\ req'[x].parent = req[x].parent
        BY <1>8, <2>3, <3>2, Constants
      <4>2. PICK p \in Reqs : p = req[x].parent /\ req[p].write # "none" /\ ~req[p].background
        BY <1>2, <2>3, <4>1 DEF Live, Existing
      <4>3. p # s
        BY <1>3, <4>2
      <4> QED
        BY <1>8, <4>1, <4>2, <4>3
    <3> QED
      BY <3>1, <3>2
  <2>4. \A x \in ToSet(posted') : req'[x].write # "none"
    <3>1. \A x \in ToSet(posted) : x \in Reqs /\ req[x].write # "none"
      BY <1>2 DEF Live, Existing, Types, ToSet
    <3> QED
      BY <1>3, <1>5, <1>8, <1>9, <3>1
  <2>5. req'[data'].write # "none" /\ ~req'[data'].background
    BY <1>2, <1>3, <1>7, <1>8, <1>9 DEF Live, Existing, Types
  <2>6. step'.op \in OfRequest => req'[step'.r].write # "none"
    BY <1>1, <1>2, <1>3, <1>8
  <2> QED
    BY <2>1, <2>2, <2>3, <2>4, <2>5, <2>6 DEF Existing
<1>11. Types' /\ ~alert' /\ ~freed' /\ req'[Main].write # "terminate"
  BY <1>1, <1>2, <1>4, <1>5, <1>7, <1>8 DEF Live, Types, StepTyped, Begins
<1>12. Turns'
  BY <1>1, <1>2, <1>3, <1>5 DEF Live, Turns
<1>13. Handled'
  <2>1. ASSUME NEW x \in Reqs, req'[x].ext
        PROVE  req'[x].write = "upstream" /\ ~req'[x].logged /\ ~Doing(x)' /\ ~Ending(x)'
    <3>1. x # s
      BY <1>9, <2>1
    <3> QED
      BY <1>1, <1>2, <1>8, <2>1, <3>1 DEF Live, Handled, Doing, Ending
  <2>2. step'.op = "content" => req'[step'.r].write \in {"handler", "upstream"} /\ ~req'[step'.r].logged
    BY <1>1, <1>2, <1>3, <1>8
  <2>3. step'.op = "content"
    BY <1>1, <1>2
  <2>4. \A x \in Reqs : req'[x].write = "terminate" => x = Main /\ terminated'
    BY <1>1, <1>2, <1>8, <1>9 DEF Live, Handled
  <2> QED
    BY <1>6, <2>1, <2>2, <2>3, <2>4 DEF Handled
<1>14. Quiet'
  <2>1. ASSUME NEW x \in Reqs, req'[x].logged
        PROVE  /\ ~req'[x].ext /\ ~req'[x].aio /\ x # data'
               /\ req'[x].write = "empty" \/ (req'[x].background /\ x \notin ToSet(posted') /\ ~About(x)')
    <3>1. x # s
      BY <1>9, <2>1
    <3>2. /\ req'[x].ext = req[x].ext /\ req'[x].aio = req[x].aio /\ req'[x].write = req[x].write
          /\ req'[x].background = req[x].background /\ req[x].logged
      BY <1>8, <2>1, <3>1
    <3>3. /\ ~req[x].ext /\ ~req[x].aio /\ x # data
          /\ req[x].write = "empty" \/ (req[x].background /\ x \notin ToSet(posted) /\ ~About(x))
      BY <1>2, <3>2 DEF Live, Quiet
    <3>4. x # data' /\ (x \notin ToSet(posted) => x \notin ToSet(posted')) /\ (~About(x) => ~About(x)')
      BY <1>1, <1>5, <1>7, <3>1, <3>3 DEF About
    <3> QED
      BY <3>2, <3>3, <3>4
  <2> QED
    BY <2>1 DEF Quiet
<1>15. Created' = Created \cup {s} /\ Cardinality(Created') = Cardinality(Created) + 1 /\ Cardinality(Created) \in Nat
  <2>1. \A x \in Reqs : x \in Created' <=> (x \in Created \/ x = s)
    BY <1>8, <1>9 DEF Created
  <2>2. Created' = Created \cup {s}
    BY <1>1, <2>1 DEF Created
  <2> QED
    BY <1>1, <2>2, Constants, FS_AddElement, FS_CardinalityType DEF Created
<1>16. ASSUME ~terminated PROVE Going'
  <2>1. Reading'
    BY <1>1, <1>2, <1>8, <1>9, <1>16 DEF Live, Going, Reading, Open, Doing, Ending
  <2>2. MainDone'
    <3>1. ASSUME req'[Main].done PROVE req'[Main].write = "empty" /\ data' = Main
      <4>1. req[Main].done /\ req'[Main].write = req[Main].write
        BY <1>1, <1>8, <3>1
      <4>2. req[Main].write = "empty" /\ data = Main
        BY <1>2, <1>16, <4>1 DEF Live, Going, MainDone
      <4>3. r # Main
        BY <1>2, <4>2
      <4> QED
        BY <1>7, <4>1, <4>2, <4>3
    <3> QED
      BY <3>1 DEF MainDone
  <2>3. Ended'
    <3>1. ASSUME NEW x \in Reqs, req'[x].write \in {"writer", "finalizer"} \/ (Ending(x)' /\ step'.rc = "ok")
          PROVE  ~LastIsSub(req'[x].doc)
      <4>1. x \notin {r, s}
        BY <1>1, <1>2, <1>8, <1>9, <1>3, <3>1 DEF Ending
      <4>2. req'[x] = req[x]
        BY <1>4, <4>1 DEF Begins
      <4> QED
        BY <1>1, <1>2, <1>16, <3>1, <4>2 DEF Live, Going, Ended, Ending
    <3> QED
      BY <3>1 DEF Ended
  <2>4. Tree'
    BY <1>2, <1>3, <1>4, <1>16, BeginsTree DEF Live, Types, Going
  <2>5. Held' = Held \cup {s} /\ Cardinality(Held') = Cardinality(Held) + 1
    <3>1. Held = {x \in Created : Open(x)} /\ Held' = {x \in Created' : Open(x)'} /\ Created \in SUBSET Reqs
      BY DEF Held, Open, Created
    <3>2. \A x \in Reqs \ {s} : Open(x)' <=> Open(x)
      BY <1>8 DEF Open
    <3>3. Open(s)'
      BY <1>9 DEF Open
    <3>4. Held' = Held \cup {s} /\ s \notin Held /\ Held \in SUBSET Reqs
      BY <1>1, <1>15, <3>1, <3>2, <3>3
    <3> QED
      BY <3>4, Constants, FS_AddElement
  <2>6. Cardinality(Held) \in Nat
    BY Constants, FS_CardinalityType DEF Held, Created
  <2> QED
    BY <1>1, <1>2, <1>6, <1>16, <2>1, <2>2, <2>3, <2>4, <2>5, <2>6 DEF Live, Going
<1>17. ASSUME terminated PROVE Delayed'
  <2>1. data' = data /\ data \in Reqs /\ data # s
    BY <1>2, <1>3, <1>7, <1>17 DEF Live, Types
  <2>2. Owners' = Owners \cup {s} /\ s \notin Owners
    <3>1. \A x \in Reqs \ {s} : x \in Owners' <=> x \in Owners
      BY <1>1, <1>8 DEF Owners, Doing
    <3>2. s \in Owners' /\ s \notin Owners
      BY <1>1, <1>2, <1>3, <1>9 DEF Owners, Doing, Live, Existing
    <3>3. Owners \subseteq Reqs /\ Owners' \subseteq Reqs
      BY DEF Owners
    <3> QED
      BY <3>1, <3>2, <3>3
  <2>3. Cardinality(Owners') = Cardinality(Owners) + 1 /\ Cardinality(Owners) \in Nat
    BY <2>2, Constants, FS_AddElement, FS_CardinalityType DEF Owners
  <2>4. ASSUME NEW x \in Reqs, Stays(x) PROVE Stays(x)'
    <3>1. x # s
      BY <1>3, <2>4 DEF Stays
    <3> QED
      BY <1>1, <1>5, <1>8, <2>4, <3>1 DEF Stays, About, Ending
  <2>5. error' /\ req'[data'].write = "finalizer"
    BY <1>1, <1>2, <1>8, <1>17, <2>1 DEF Live, Delayed
  <2> QED
    BY <1>1, <1>2, <1>6, <1>17, <2>3, <2>4, <2>5 DEF Live, Delayed, Types
<1>18. count' <= Cardinality(Created') + 1 + Pending'
  BY <1>1, <1>2, <1>6, <1>15 DEF Live, Types
<1> QED
  BY <1>1, <1>2, <1>10, <1>11, <1>12, <1>13, <1>14, <1>16, <1>17, <1>18, LiveNext DEF Live

-----------------------------------------------------------------------------
(* Output of a request passes the postpone filter.                         *)
Sifted(r) ==
    /\ req' \in [Reqs -> Request]
    /\ \A x \in Reqs :
        /\ req'[x].parent = req[x].parent /\ req'[x].write = req[x].write
        /\ req'[x].background = req[x].background
        /\ req'[x].aio = req[x].aio /\ req'[x].ext = req[x].ext
        /\ req'[x].done = req[x].done /\ req'[x].logged = req[x].logged
        /\ x # r => req'[x] = req[x]
    /\ req'[r].held = <<>>
    /\ data' \in Reqs /\ req[data'].write # "none" /\ ~req[data'].background /\ ~req[data'].logged
    /\ data' # data => data = r /\ data' # r /\ ~terminated
    /\ posted' \in Seq(Reqs) /\ IsInjective(posted')
    /\ data' = data => posted' = posted
    /\ data' # data => ToSet(posted') = ToSet(posted) \cup {data'}
    /\ sent' \in Seq(Pieces) /\ buffered' \in BOOLEAN

LEMMA SameRecord ==
    ASSUME NEW a \in Request, NEW b \in Request, Continues(a, b), a.doc = b.doc
    PROVE  a = b
BY DEF Request, Continues

LEMMA FilterStep ==
    ASSUME RequestsAssumption, Live, NEW r \in Reqs, NEW rq \in [Reqs -> Request],
           NEW out \in {<<>>} \cup {<<p>> : p \in Pieces},
           Noting(rq, r), ~terminated => Following(rq, r, out), terminated => r # data,
           PostponeFilter(rq, r, out)
    PROVE  Sifted(r) /\ req'[r].doc = rq[r].doc /\ (~terminated => Tree')
<1> DEFINE p == rq[r].postponed \o out
<1>1. /\ Unfiltered(rq, r)
      /\ sent' \in Seq(Pieces) /\ buffered' \in BOOLEAN
      /\ p \in Seq(Reqs \cup Pieces)
      /\ Unsent(r, p) \/ Passed(r, p) \/ \E i \in 1 .. Len(p) : Woken(r, p, i)
  BY Filter DEF Live, Types
<1>2. data \in Reqs /\ posted \in Seq(Reqs) /\ IsInjective(posted) /\ req \in [Reqs -> Request]
  BY DEF Live, Types, Turns
<1>3. \A x \in Reqs :
        /\ req'[x].parent = req[x].parent /\ req'[x].write = req[x].write
        /\ req'[x].background = req[x].background
        /\ req'[x].aio = req[x].aio /\ req'[x].ext = req[x].ext
        /\ req'[x].done = req[x].done /\ req'[x].logged = req[x].logged
  BY <1>1 DEF Unfiltered, Noting
<1>4. ASSUME NEW x \in Reqs, x # r PROVE req'[x] = req[x]
  <2>1. /\ Continues(req'[x], req[x]) /\ req'[x].doc = req[x].doc
        /\ req'[x] \in Request /\ req[x] \in Request
    BY <1>1, <1>2, <1>4 DEF Unfiltered, Noting, Continues
  <2> QED
    BY <2>1, SameRecord
<1>5. req'[r].held = <<>> /\ req'[r].doc = rq[r].doc /\ req' \in [Reqs -> Request]
  BY <1>1 DEF Unfiltered
<1>6. ASSUME ~terminated PROVE Tree'
  <2>1. Following(rq, r, out) /\ Tree
    BY <1>6 DEF Live, Going
  <2>2. PICK P \in SUBSET Reqs : OnPath(P) /\ Queued(P) /\ Closed(P)
    BY <2>1 DEF Tree
  <2> QED
    BY <1>1, <1>2, <2>1, <2>2, FilterTree
<1>7. CASE data' = data /\ posted' = posted
  <2>1. req[data].write # "none" /\ ~req[data].background /\ ~req[data].logged
    BY <1>2 DEF Live, Existing, Quiet
  <2> QED
    BY <1>1, <1>2, <1>3, <1>4, <1>5, <1>6, <1>7, <2>1 DEF Sifted
<1>8. CASE \E i \in 1 .. Len(p) : Woken(r, p, i)
  <2>1. PICK i \in 1 .. Len(p) : Woken(r, p, i)
    BY <1>8
  <2>2. ~terminated /\ r = data /\ p[i] \in Reqs /\ data' = p[i] /\ posted' = Post(posted, p[i])
    BY <2>1 DEF Woken
  <2>3. PICK P \in SUBSET Reqs : OnPath(P) /\ Queued(P)
    BY <2>2 DEF Live, Going, Tree
  <2>4. PICK q \in Seq(Reqs \cup Pieces) : q = req[r].postponed
    BY <1>2 DEF Request
  <2>5. p = q \o out /\ (out = <<>> \/ \E z \in Pieces : out = <<z>>)
    BY <2>4 DEF Noting
  <2>6. i \in 1 .. Len(q) /\ p[i] = q[i]
    <3>1. CASE out = <<>>
      <4>1. p = q
        BY <2>4, <2>5, <3>1, ConcatEmptySeq
      <4> QED
        BY <4>1
    <3>2. CASE \E z \in Pieces : out = <<z>>
      <4>1. PICK z \in Pieces : out = <<z>>
        BY <3>2
      <4>2. /\ Len(p) = Len(q) + 1 /\ p[Len(q) + 1] = z
            /\ \A j \in 1 .. Len(q) : p[j] = q[j]
        BY <2>4, <2>5, <4>1
      <4>3. z \notin Reqs
        BY Constants
      <4>4. i # Len(q) + 1
        BY <2>2, <4>2, <4>3
      <4>5. Len(q) \in Nat
        BY <2>4
      <4> HIDE DEF p
      <4>6. i \in 1 .. Len(q)
        BY <4>2, <4>4, <4>5
      <4> QED
        BY <4>2, <4>6
    <3> QED
      BY <2>5, <3>1, <3>2
  <2>7. q[i] \in Children(r)
    BY <2>2, <2>3, <2>4, <2>6 DEF Queued, Placed
  <2>8. PICK s \in Reqs : s = p[i]
    BY <2>2
  <2>9. req[s].write # "none" /\ ~req[s].logged /\ ~req[s].background /\ s # Main /\ req[s].parent = r
    BY <2>6, <2>7, <2>8, Constants DEF Children
  <2>10. s # r
    BY <2>2, <2>3, <2>9 DEF OnPath
  <2>11. posted' \in Seq(Reqs) /\ IsInjective(posted') /\ ToSet(posted') = ToSet(posted) \cup {s}
    BY <1>2, <2>2, <2>8, PostedOnce
  <2> HIDE DEF p
  <2> QED
    BY <1>1, <1>2, <1>3, <1>4, <1>5, <1>6, <2>2, <2>8, <2>9, <2>10, <2>11 DEF Sifted
<1> QED
  BY <1>1, <1>7, <1>8 DEF Unsent, Passed

(* What the worker does after it.                                          *)
GoesOnWith(r) ==
    \/ step' = step
    \/ step'.op = "loop"
    \/ /\ step'.op = "finalize" /\ step'.r = r /\ step'.rc = "ok"
       /\ req[r].write \in {"upstream", "writer"} /\ ~req[r].ext
       /\ ~terminated => ~LastIsSub(req'[r].doc)

LEMMA SiftedStep ==
    ASSUME RequestsAssumption, Live, NEW r \in Reqs, Sifted(r), GoesOnWith(r),
           step.op \in {"content", "run"}, step.r = r, req[r].write # "empty", ~terminated => Tree' /\ ~req[r].aio,
           req[r].write \in {"writer", "finalizer"} => req'[r].doc = req[r].doc,
           UNCHANGED <<count, error, terminated, freed, alert>>
    PROVE  IInv'
<1>1. /\ About(r) /\ ~Ending(r) /\ ~Returning /\ Pending = 0 /\ r \notin ToSet(posted)
      /\ req[r].write # "none"
      /\ \A x \in Reqs : About(x) => x = r
  BY DEF Live, Turns, Existing, About, Ending, Returning, Pending, OfRequest
<1>2. /\ ~Returning' /\ Pending' = 0 /\ \A x \in Reqs : About(x)' => x = r
      /\ \A x \in Reqs : Doing(x)' => Doing(x)
      /\ \A x \in Reqs : Ending(x)' => x = r /\ step'.op = "finalize"
      /\ step'.op \in OfRequest => step'.r = r
      /\ step'.op # "rest"
  BY <1>1 DEF GoesOnWith, Returning, Pending, About, Doing, Ending, OfRequest
<1>3. \A x \in Reqs :
        /\ req'[x].parent = req[x].parent /\ req'[x].write = req[x].write
        /\ req'[x].background = req[x].background
        /\ req'[x].aio = req[x].aio /\ req'[x].ext = req[x].ext
        /\ req'[x].done = req[x].done /\ req'[x].logged = req[x].logged
        /\ x # r => req'[x] = req[x]
  BY DEF Sifted
<1>4. r \notin ToSet(posted') /\ \A x \in ToSet(posted') : x \in ToSet(posted) \/ x = data'
  BY <1>1 DEF Sifted
<1>5. Existing' /\ Created' = Created
  <2>0. \A x \in ToSet(posted) : x \in Reqs /\ req[x].write # "none"
    BY DEF Live, Existing, Types, ToSet
  <2>1. \A x \in ToSet(posted') : x \in Reqs /\ req[x].write # "none"
    BY <1>4, <2>0 DEF Sifted
  <2>2. Lasting
    BY <1>1, <1>2, <1>3, <2>1, Constants DEF Lasting, Sifted, Live, Existing
  <2> QED
    BY <2>2, ExistingSame DEF Live
<1>6. Types' /\ ~alert' /\ ~freed' /\ req'[Main].write # "terminate"
  <2>1. StepTyped'
    BY DEF Live, Types, StepTyped, GoesOnWith, OfRequest
  <2> QED
    BY <1>3, <2>1, Constants DEF Live, Types, Sifted
<1>7. Turns'
  BY <1>2, <1>4 DEF Turns, Sifted
<1>8. Handled'
  <2>1. ASSUME NEW x \in Reqs, req'[x].ext
        PROVE  req'[x].write = "upstream" /\ ~req'[x].logged /\ ~Doing(x)' /\ ~Ending(x)'
    <3>1. req[x].ext /\ req[x].write = "upstream" /\ ~req[x].logged /\ ~Doing(x)
      BY <1>3, <2>1 DEF Live, Handled
    <3>2. ~Ending(x)'
      BY <1>2, <3>1 DEF GoesOnWith
    <3> QED
      BY <1>2, <1>3, <3>1, <3>2
  <2>2. step'.op = "content" => req'[step'.r].write \in {"handler", "upstream"} /\ ~req'[step'.r].logged
    BY <1>3 DEF Live, Handled, GoesOnWith
  <2>3. step'.op = "finalize" => req'[step'.r].write \in {"handler", "upstream", "writer", "finalizer"}
    BY <1>3 DEF GoesOnWith
  <2>4. \A x \in Reqs : req'[x].write = "terminate" => x = Main /\ terminated'
    BY <1>3 DEF Live, Handled
  <2> QED
    BY <1>2, <2>1, <2>2, <2>3, <2>4 DEF Handled
<1>9. Quiet'
  <2>1. ASSUME NEW x \in Reqs, req'[x].logged
        PROVE  /\ ~req'[x].ext /\ ~req'[x].aio /\ x # data'
               /\ req'[x].write = "empty" \/ (req'[x].background /\ x \notin ToSet(posted') /\ ~About(x)')
    <3>1. /\ req[x].logged /\ ~req[x].ext /\ ~req[x].aio
          /\ req[x].write = "empty" \/ (req[x].background /\ x \notin ToSet(posted) /\ ~About(x))
      BY <1>3, <2>1 DEF Live, Quiet
    <3>2. x # data'
      BY <3>1 DEF Sifted
    <3>3. CASE req[x].write = "empty"
      BY <1>3, <3>1, <3>2, <3>3
    <3>4. CASE req[x].background /\ x \notin ToSet(posted) /\ ~About(x)
      <4>1. x # r
        BY <1>1, <3>4
      <4> QED
        BY <1>2, <1>3, <1>4, <3>1, <3>2, <3>4, <4>1
    <3> QED
      BY <3>1, <3>3, <3>4
  <2> QED
    BY <2>1 DEF Quiet
<1>10. ASSUME ~terminated PROVE Going'
  <2>1. Reading'
    <3>1. ASSUME NEW x \in Reqs, req'[x].aio PROVE req'[x].held # <<>>
      BY <1>3, <1>10, <3>1 DEF Live, Going, Reading
    <3>2. ASSUME NEW x \in Reqs, req'[x].held # <<>>
          PROVE  Open(x)' /\ ~req'[x].ext /\ req'[x].write = "writer"
      <4>1. x # r
        BY <3>2 DEF Sifted
      <4>2. ~Doing(x) /\ ~Ending(x)
        BY <1>1, <4>1 DEF Doing, Ending, About, OfRequest
      <4>3. Open(x) /\ ~req[x].ext /\ req[x].write = "writer"
        BY <1>3, <1>10, <3>2, <4>1, <4>2 DEF Live, Going, Reading
      <4> QED
        BY <1>3, <4>3 DEF Open
    <3> QED
      BY <3>1, <3>2 DEF Reading
  <2>2. MainDone'
    <3>1. ASSUME req'[Main].done PROVE req'[Main].write = "empty" /\ data' = Main
      <4>1. req[Main].done /\ req[Main].write = "empty" /\ data = Main
        BY <1>3, <1>10, <3>1, Constants DEF Live, Going, MainDone
      <4>2. data' = data
        <5>1. r # data
          BY <4>1
        <5> QED
          BY <5>1 DEF Sifted
      <4> QED
        BY <1>3, <4>1, <4>2, Constants
    <3> QED
      BY <3>1 DEF MainDone
  <2>3. Ended'
    <3>1. ASSUME NEW x \in Reqs, req'[x].write \in {"writer", "finalizer"} PROVE ~LastIsSub(req'[x].doc)
      <4>1. ~LastIsSub(req[x].doc) /\ req'[x].doc = req[x].doc
        BY <1>3, <1>10, <3>1 DEF Live, Going, Ended
      <4> QED
        BY <4>1
    <3>2. ASSUME NEW x \in Reqs, Ending(x)' PROVE ~LastIsSub(req'[x].doc)
      <4>1. x = r /\ step'.op = "finalize"
        BY <1>2, <3>2
      <4> QED
        BY <1>10, <4>1 DEF GoesOnWith
    <3> QED
      BY <3>1, <3>2 DEF Ended
  <2>4. Held' = Held
    <3>1. \A x \in Reqs : Open(x)' <=> Open(x)
      BY <1>3 DEF Open
    <3> QED
      BY <1>5, <3>1, HeldSame
  <2>5. ~error'
    BY <1>10 DEF Live, Going
  <2> QED
    BY <1>1, <1>2, <1>10, <2>1, <2>2, <2>3, <2>4, <2>5 DEF Live, Going
<1>11. ASSUME terminated PROVE Delayed'
  <2>1. data' = data /\ posted' = posted
    BY <1>11 DEF Sifted
  <2>2. Owners' \subseteq Owners /\ Owners \in SUBSET Reqs
    BY <1>2, <1>3 DEF Owners
  <2>3. Cardinality(Owners') <= Cardinality(Owners) /\ Cardinality(Owners') \in Nat /\ Cardinality(Owners) \in Nat
    BY <2>2, Constants, FS_Subset, FS_CardinalityType
  <2>4. ASSUME NEW x \in Reqs, Stays(x) PROVE Stays(x)'
    <3>1. req'[x].write = req[x].write /\ ~req'[x].logged
      BY <1>3, <2>4 DEF Stays
    <3>2. CASE req[x].write = "writer"
      BY <3>1, <3>2 DEF Stays
    <3>3. CASE req[x].write # "writer"
      <4>1. req[x].write = "handler" /\ x \notin ToSet(posted) /\ x # r
        BY <1>1, <2>4, <3>3 DEF Stays
      <4>2. ~About(x)'
        BY <1>2, <4>1
      <4> QED
        BY <2>1, <3>1, <4>1, <4>2 DEF Stays
    <3> QED
      BY <3>2, <3>3
  <2>5. error' /\ req'[data'].write = "finalizer"
    BY <1>3, <1>11, <2>1 DEF Live, Delayed, Types
  <2> QED
    BY <1>1, <1>2, <1>11, <2>3, <2>4, <2>5 DEF Live, Delayed, Types
<1>12. count' <= Cardinality(Created') + 1 + Pending'
  BY <1>1, <1>2, <1>5 DEF Live
<1> QED
  BY <1>5, <1>6, <1>7, <1>8, <1>9, <1>10, <1>11, <1>12, LiveNext DEF Live

LEMMA NewOutput ==
    ASSUME RequestsAssumption, IInv, NEW r \in Reqs, Working(r), MayOutput(r), ~(error /\ r = data),
           PostponeFilter(Noted(req, r, NewBuffer(r)), r, <<NewBuffer(r)>>)
    PROVE  /\ Sifted(r) /\ (~terminated => Tree' /\ ~req[r].aio)
           /\ ~LastIsSub(req'[r].doc)
<1>1. /\ Live /\ step.op = "content" /\ step.r = r
      /\ terminated => error /\ r # data
  BY ContentFacts
<1>2. PICK b \in Pieces : b = NewBuffer(r)
  BY <1>1, BufferIsPiece DEF MayOutput, Live, Types
<1>3. PICK rq : rq = Noted(req, r, b)
  OBVIOUS
<1>4. /\ rq \in [Reqs -> Request] /\ \A x \in Reqs \ {r} : rq[x] = req[x]
      /\ Continues(rq[r], req[r]) /\ rq[r].doc = Append(req[r].doc, b)
  BY SMTT(30), <1>1, <1>3, NotedIs DEF Live, Types
<1>5. Noting(rq, r)
  BY <1>4 DEF Noting, Continues
<1>6. PICK out \in {<<p>> : p \in Pieces} : out = <<b>>
  BY <1>2
<1>7. Following(rq, r, out)
  BY <1>2, <1>6 DEF Following
<1>8. PostponeFilter(rq, r, out)
  BY <1>2, <1>3, <1>6
<1>9. out \in {<<>>} \cup {<<p>> : p \in Pieces}
  BY <1>6
<1>10. Sifted(r) /\ req'[r].doc = rq[r].doc /\ (~terminated => Tree')
  BY <1>1, <1>4, <1>5, <1>7, <1>8, <1>9, FilterStep
<1>11. ~terminated => ~req[r].aio
  BY <1>1 DEF MayOutput, Live, Going, Reading
<1>12. ~LastIsSub(req'[r].doc)
  <2>1. PICK d \in Seq(Reqs \cup Pieces) : d = req[r].doc
    BY <1>1 DEF Live, Types, Request
  <2>2. PICK e : e = Append(d, b)
    OBVIOUS
  <2>3. Len(e) = Len(d) + 1 /\ e[Len(d) + 1] = b
    BY <2>2, <2>1
  <2>4. b \notin Reqs
    BY Constants
  <2>5. req'[r].doc = e
    BY <1>4, <1>10, <2>1, <2>2
  <2> QED
    BY <2>3, <2>4, <2>5 DEF LastIsSub
<1> QED
  BY <1>10, <1>11, <1>12

LEMMA OutputStep ==
    ASSUME RequestsAssumption, IInv, NEW r \in Reqs, Output(r)
    PROVE  IInv'
<1>1. /\ Working(r) /\ MayOutput(r) /\ ~(error /\ r = data)
      /\ PostponeFilter(Noted(req, r, NewBuffer(r)), r, <<NewBuffer(r)>>)
      /\ UNCHANGED <<count, error, terminated, freed, step, alert>>
  BY DEF Output
<1>2. /\ Live /\ step.op = "content" /\ step.r = r /\ req[r].write \in {"handler", "upstream"}
  BY <1>1, ContentFacts
<1>3. Sifted(r) /\ (~terminated => Tree' /\ ~req[r].aio)
  BY <1>1, NewOutput
<1>4. GoesOnWith(r)
  BY <1>1 DEF GoesOnWith
<1> QED
  BY <1>1, <1>2, <1>3, <1>4, SiftedStep

LEMMA CompleteStep ==
    ASSUME RequestsAssumption, IInv, NEW r \in Reqs, Complete(r)
    PROVE  IInv'
<1>1. /\ Working(r) /\ step' = Finalize(r, "ok")
      /\ step'.op = "finalize" /\ step'.r = r /\ step'.rc = "ok"
      /\ UNCHANGED <<count, error, terminated, freed, alert>>
  BY DEF Complete, Finalize
<1>2. /\ Live /\ step.op = "content" /\ step.r = r
      /\ req[r].write \in {"handler", "upstream"} /\ ~req[r].logged /\ ~req[r].ext
      /\ r \notin ToSet(posted)
      /\ ~terminated => /\ ~error /\ Open(r)
                        /\ \A x \in Reqs \ {r} : req[x].held # <<>> => req[x].write = "writer"
  BY <1>1, ContentFacts
<1>3. CASE /\ req[r].doc # <<>> => ~IsSub(Last(req[r].doc))
           /\ UNCHANGED <<req, posted, data, buffered, sent>>
  <2>1. ~LastIsSub(req[r].doc)
    BY <1>3 DEF LastIsSub, IsSub, Last
  <2>2. ~terminated => \A x \in Reqs : req[x].held # <<>> => req[x].write = "writer" \/ Doing(x)' \/ Ending(x)'
    BY <1>1, <1>2 DEF Ending
  <2>3. GoesOn
    BY <1>1, <1>2, <1>3, <2>1, <2>2 DEF GoesOn, Live, Types, Turns, Returning, StepTyped, OfRequest, About, Ending
  <2> QED
    BY <1>1, <1>2, <1>3, <2>3, Frame, LiveNext
<1>4. CASE /\ req[r].write = "upstream" /\ MayOutput(r) /\ ~(error /\ r = data)
           /\ PostponeFilter(Noted(req, r, NewBuffer(r)), r, <<NewBuffer(r)>>)
  <2>1. /\ Sifted(r) /\ (~terminated => Tree' /\ ~req[r].aio)
        /\ ~LastIsSub(req'[r].doc)
    BY <1>1, <1>4, NewOutput
  <2>2. GoesOnWith(r)
    BY <1>1, <1>2, <1>4, <2>1 DEF GoesOnWith
  <2> QED
    BY <1>1, <1>2, <2>1, <2>2, SiftedStep
<1> QED
  BY <1>3, <1>4 DEF Complete

LEMMA RunOutputSteps ==
    ASSUME RequestsAssumption, IInv, NEW r \in Reqs, RunWaiting(r) \/ RunWriter(r)
    PROVE  IInv'
<1>1. /\ step = Run(r) /\ step.op = "run" /\ step.r = r /\ req[r].write \in {"handler", "writer"}
      /\ ~(error /\ r = data)
      /\ UNCHANGED <<count, error, terminated, freed, alert>>
  BY DEF RunWaiting, RunWriter, Running, Run
<1>2. Live /\ ~Doing(r) /\ ~Ending(r) /\ ~req[r].ext
  BY <1>1, Acting DEF Doing, Ending, Live, Handled
<1>3. terminated => r # data
  BY <1>1, <1>2 DEF Live, Delayed
<1>4. req \in [Reqs -> Request] /\ Noting(req, r)
  BY <1>2 DEF Live, Types, Noting
<1>5. ASSUME NEW out \in {<<>>} \cup {<<p>> : p \in Pieces}, PostponeFilter(req, r, out),
             ~terminated /\ out = <<>> => req[r].held = <<>>
      PROVE  Sifted(r) /\ req'[r].doc = req[r].doc /\ (~terminated => Tree')
  <2>1. ~terminated => Following(req, r, out)
    BY <1>5 DEF Following
  <2> QED
    BY <1>2, <1>3, <1>4, <1>5, <2>1, FilterStep
<1>6. CASE RunWaiting(r)
  <2>1. PostponeFilter(req, r, <<>>) /\ step'.op = "loop" /\ req[r].write = "handler"
    BY <1>6 DEF RunWaiting, Loop, Running
  <2>2. ~terminated => req[r].held = <<>> /\ ~req[r].aio
    BY <1>2, <2>1 DEF Live, Going, Reading
  <2>3. Sifted(r) /\ req'[r].doc = req[r].doc /\ (~terminated => Tree')
    BY <1>5, <2>1, <2>2
  <2>4. GoesOnWith(r)
    BY <2>1 DEF GoesOnWith
  <2> QED
    BY <1>1, <1>2, <2>1, <2>2, <2>3, <2>4, SiftedStep
<1>7. CASE RunWriter(r)
  <2>1. /\ PostponeFilter(req, r, req[r].held) /\ req[r].write = "writer" /\ ~req[r].aio
        /\ step'.op = "loop" \/ (step'.op = "finalize" /\ step'.r = r /\ step'.rc = "ok")
    BY <1>7 DEF RunWriter, Loop, Finalize, Running
  <2>2. PICK out \in {<<>>} \cup {<<p>> : p \in Pieces} : out = req[r].held
    BY <1>4 DEF Request
  <2>3. Sifted(r) /\ req'[r].doc = req[r].doc /\ (~terminated => Tree')
    BY <1>5, <2>1, <2>2
  <2>4. ~terminated => ~LastIsSub(req'[r].doc)
    BY <1>2, <2>1, <2>3 DEF Live, Going, Ended
  <2>5. GoesOnWith(r)
    BY <1>2, <2>1, <2>4 DEF GoesOnWith
  <2> QED
    BY <1>1, <1>2, <2>1, <2>3, <2>5, SiftedStep
<1> QED
  BY <1>6, <1>7

(* A writer that cannot wait for the client closes the request: if that    *)
(* frees it, nothing is left that uses it.                                 *)
LEMMA RunWriterUnarmedStep ==
    ASSUME RequestsAssumption, IInv, NEW r \in Reqs, RunWriterUnarmed(r), freed'
    PROVE  IInv' /\ ~req[r].aio /\ ~freed
<1>1. /\ step = Run(r) /\ step.op = "run" /\ step.r = r /\ req[r].write = "writer"
      /\ count = 1 /\ ~Blocked(req) /\ count' = 0 /\ alert' = alert
      /\ step' = Loop /\ step'.op = "loop" /\ UNCHANGED <<error, terminated>>
  BY DEF RunWriterUnarmed, CloseRequest, Running, Run, Loop, IInv, Types
<1>2. Live /\ ~Doing(r) /\ ~Ending(r) /\ ~req[r].ext /\ ~freed /\ About(r) /\ Pending = 0
  BY <1>1, Acting DEF Doing, Ending, Live, Handled, About, OfRequest, Pending, Returning
<1>3. \A x \in Reqs : ~req[x].aio
  BY <1>1 DEF Blocked
<1>4. ~req[r].logged /\ req[r].write # "none"
  BY <1>1, <1>2 DEF Live, Quiet
<1>5. \A x \in Reqs : ~req[x].ext
  <2>1. CASE ~terminated
    <3>1. Open(r)
      BY <1>1, <1>2, <1>4, <2>1 DEF Live, Going, MainDone, Open
    <3> QED
      BY <1>1, <1>2, <1>4, <2>1, <3>1, LastReference
  <2>2. CASE terminated
    <3>1. Owners \in SUBSET Reqs /\ IsFiniteSet(Owners) /\ r \in Owners
      BY <1>1, <1>4, Constants DEF Owners
    <3>2. Cardinality(Owners \ {r}) = Cardinality(Owners) - 1 /\ Cardinality(Owners) \in Nat
      BY <3>1, FS_RemoveElement, FS_CardinalityType
    <3>3. IsFiniteSet(Owners \ {r}) /\ Cardinality(Owners \ {r}) \in Nat
      BY <3>1, FS_RemoveElement, FS_CardinalityType
    <3>4. count >= Cardinality(Owners) + Pending
      BY <1>2, <2>2 DEF Live, Delayed
    <3>5. Cardinality(Owners \ {r}) = 0
      BY <1>1, <1>2, <3>2, <3>3, <3>4
    <3>6. Owners \ {r} = {}
      BY <3>3, <3>5, FS_EmptySet
    <3> QED
      BY <1>2, <3>6 DEF Owners
  <2> QED
    BY <2>1, <2>2
<1>6. Sifted(r)
  <2>1. PostponeFilter(req, r, req[r].held) /\ ~(error /\ r = data)
    BY <1>3 DEF RunWriterUnarmed
  <2>2. req \in [Reqs -> Request] /\ Noting(req, r)
    BY <1>2 DEF Live, Types, Noting
  <2>3. PICK out \in {<<>>} \cup {<<p>> : p \in Pieces} : out = req[r].held
    BY <2>2 DEF Request
  <2>4. ~terminated => Following(req, r, out)
    BY <2>3 DEF Following
  <2>5. terminated => r # data
    BY <1>2, <2>1 DEF Live, Delayed
  <2> QED
    BY <1>2, <2>1, <2>2, <2>3, <2>4, <2>5, FilterStep
<1>7. Existing'
  <2>1. \A x \in ToSet(posted) : x \in Reqs /\ req[x].write # "none"
    BY <1>2 DEF Live, Existing, Types, ToSet
  <2>4. \A x \in ToSet(posted') : x \in ToSet(posted) \/ x = data'
    BY <1>6 DEF Sifted
  <2>2. \A x \in ToSet(posted') : x \in Reqs /\ req[x].write # "none"
    BY <1>6, <2>1, <2>4 DEF Sifted
  <2>3. Lasting
    BY <1>1, <1>2, <1>4, <1>6, <2>2, Constants DEF Lasting, Sifted, Live, Existing, OfRequest
  <2> QED
    BY <1>2, <2>3, ExistingSame DEF Live
<1>8. Types'
  <2>1. StepTyped'
    BY <1>1 DEF StepTyped, OfRequest
  <2> QED
    BY <1>1, <1>2, <1>6, <2>1 DEF Live, Types, Sifted
<1>9. Freed'
  BY <1>1, <1>3, <1>5, <1>6 DEF Freed, Sifted
<1> QED
  BY <1>1, <1>2, <1>3, <1>7, <1>8, <1>9, FreedNext DEF Live

-----------------------------------------------------------------------------
(* The invariant.                                                          *)

LEMMA InitIInv ==
    ASSUME RequestsAssumption, Init
    PROVE  IInv
<1>1. /\ Main \in Reqs /\ Subs = Reqs \ {Main} /\ IsFiniteSet(Reqs)
      /\ count = 1 /\ posted = <<>> /\ data = Main /\ ~buffered /\ ~error
      /\ ~terminated /\ ~freed /\ sent = <<>> /\ ~alert
      /\ buffered = FALSE /\ error = FALSE /\ terminated = FALSE /\ freed = FALSE /\ alert = FALSE
      /\ step.op = "content" /\ step.r = Main
  BY Constants DEF Init, Start, Content
<1>2. /\ req \in [Reqs -> Request]
      /\ req[Main].write = "handler"
      /\ \A x \in Reqs \ {Main} : req[x].write = "none"
      /\ \A x \in Reqs : /\ ~req[x].background /\ ~req[x].logged /\ ~req[x].done /\ ~req[x].ext
                         /\ ~req[x].aio /\ req[x].held = <<>> /\ req[x].postponed = <<>> /\ req[x].doc = <<>>
  <2>1. NewRequest \in Request
    <3>1. <<>> \in Seq(Reqs \cup Pieces)
      OBVIOUS
    <3> QED
      BY <3>1 DEF NewRequest, Request, Handlers
  <2>2. [NewRequest EXCEPT !.write = "handler"] \in Request
    BY <2>1 DEF Request, Handlers
  <2>3. req = [r \in Reqs |-> IF r = Main THEN [NewRequest EXCEPT !.write = "handler"] ELSE NewRequest]
    BY DEF Init, Start
  <2>4. req \in [Reqs -> Request]
    BY <2>1, <2>2, <2>3
  <2>5. req[Main] = [NewRequest EXCEPT !.write = "handler"] /\ \A x \in Reqs \ {Main} : req[x] = NewRequest
    BY <1>1, <2>3
  <2> QED
    BY <2>4, <2>5 DEF NewRequest
<1>3. ToSet(posted) = {} /\ IsInjective(posted) /\ ~LastIsSub(<<>>) /\ ~HasSub(<<>>)
  BY <1>1 DEF ToSet, IsInjective, LastIsSub, HasSub
<1>4. Types /\ Existing
  <2>1. StepTyped
    BY <1>1 DEF StepTyped, OfRequest
  <2>2. posted \in Seq(Reqs) /\ sent \in Seq(Pieces) /\ count \in Nat /\ data \in Reqs
    BY <1>1
  <2>3. {buffered, error, terminated, freed, alert} \subseteq BOOLEAN
    BY <1>1
  <2> QED
    BY <1>1, <1>2, <1>3, <2>1, <2>2, <2>3 DEF Types, Existing
<1>5. Turns /\ Handled /\ Quiet
  BY <1>1, <1>2, <1>3 DEF Turns, Handled, Quiet, Returning, Doing, Ending, OfRequest
<1>6. Created = {Main} /\ Held = {Main} /\ Pending = 0
  BY <1>1, <1>2 DEF Created, Held, Pending, Returning
<1>7. Cardinality(Created) = 1 /\ Cardinality(Held) = 1
  BY <1>6, FS_Singleton
<1>8. Tree
  <2>1. PICK P \in SUBSET Reqs : P = {Main}
    BY <1>1
  <2>2. OnPath(P)
    BY <1>1, <1>2, <2>1 DEF OnPath
  <2>3. Queued(P)
    BY <1>2 DEF Queued, Placed
  <2>4. Closed(P)
    BY <1>1, <1>2, <1>3, <2>1 DEF Closed
  <2> QED
    BY <2>2, <2>3, <2>4 DEF Tree
<1>9. Going
  BY <1>1, <1>2, <1>3, <1>6, <1>7, <1>8 DEF Going, Reading, MainDone, Ended
<1> QED
  BY <1>1, <1>4, <1>5, <1>6, <1>7, <1>9 DEF IInv

(* The steps in which ngx_handle_write_event does not fail.                *)
Usual == Worker \/ Event \/ Finished

LEMMA NextIInv ==
    ASSUME RequestsAssumption, IInv, [Usual]_vars
    PROVE  IInv'
<1>1. CASE ContentStep
  <2>1. PICK r \in Reqs :
          \/ Output(r) \/ OutputAio(r) \/ StartUpstream(r) \/ UpstreamAgain(r)
          \/ WaitSubrequest(r) \/ Complete(r) \/ ContentFails(r)
          \/ \E s \in Subs, background, waited \in BOOLEAN : Subrequest(r, s, background, waited)
    BY <1>1 DEF ContentStep
  <2> QED
    BY <2>1, OutputStep, OutputAioStep, StartUpstreamStep, UpstreamAgainStep, WaitStep,
       CompleteStep, SubrequestStep
<1>2. CASE FinalizeStep
  <2>1. \A s \in Subs : s \in Reqs /\ s # Main
    BY Constants
  <2> QED
    BY <1>2, <2>1, FinalizeDoneStep, FinalizeErrorStep, FinalizeLaterStep, FinalizeBackgroundStep,
       FinalizeActiveStep, FinalizeInactiveStep, FinalizeMainStep DEF FinalizeStep
<1>3. CASE LoopStep
  <2>1. CASE RunTerminate
    <3>1. step.op = "run" /\ req[Main].write = "terminate" /\ step.op # "loop" /\ step.op # "rest"
      BY <2>1 DEF RunTerminate, Running, Run
    <3>2. ~freed
      BY <3>1 DEF IInv, Freed, Loop, Rest
    <3> QED
      BY <2>1, <3>1, <3>2, DoomedSteps
  <2> QED
    BY <1>3, <2>1, LoopSteps, RunSteps, RunOutputSteps DEF LoopStep
<1>4. CASE Event
  BY <1>4, UpstreamEventStep, AioDoneStep, ClientWriteStep, ClientGoneStep, ConnectionCloseStep DEF Event
<1>5. CASE UNCHANGED vars
  <2>1. UNCHANGED <<req, count, posted, data, buffered, error, terminated, freed, step, sent, alert>>
    BY <1>5 DEF vars
  <2>2. Types' /\ Existing' /\ Turns' = Turns /\ Handled' = Handled /\ Quiet' = Quiet /\ Freed' = Freed
        /\ Doomed' = Doomed
    BY <2>1 DEF IInv, Types, StepTyped, Existing, Turns, Handled, Quiet, Freed, Doomed, About, Doing, Ending,
                Returning
  <2>3. Created' = Created /\ Held' = Held /\ Owners' = Owners /\ Pending' = Pending
    BY <2>1 DEF Created, Held, Owners, Pending, Returning, Doing
  <2>4. Going => Going'
    <3>1. SameTree
      BY <2>1 DEF SameTree
    <3>2. Reading' = Reading /\ MainDone' = MainDone /\ Ended' = Ended
      BY <2>1 DEF Reading, MainDone, Ended, Open, Doing, Ending
    <3> QED
      BY <2>1, <2>3, <3>1, <3>2, TreeSame DEF Going
  <2>5. Delayed => Delayed'
    <3>1. \A x \in Reqs : Stays(x) => Stays(x)'
      BY <2>1 DEF Stays, About, Ending
    <3> QED
      BY <2>1, <2>3, <3>1 DEF Delayed
  <2> QED
    BY <2>1, <2>2, <2>3, <2>4, <2>5 DEF IInv
<1> QED
  BY <1>1, <1>2, <1>3, <1>4, <1>5 DEF Usual, Worker, Finished

(* The invariant implies the property.                                     *)
LEMMA IInvKept ==
    ASSUME RequestsAssumption, IInv, unarmed \in 0 .. MaxUnarmed
    PROVE  ReferencesKept
<1>1. IsFiniteSet(Reqs) /\ IsFiniteSet(Created) /\ Created \subseteq Reqs
      /\ Cardinality(Created) \in Nat /\ Cardinality(Reqs) \in Nat /\ Cardinality(Created) <= Cardinality(Reqs)
      /\ Cardinality(Reqs) >= 1
  <2>1. IsFiniteSet(Reqs) /\ IsFiniteSet(Created) /\ Created \subseteq Reqs /\ Main \in Reqs
    BY Constants DEF Created
  <2>2. Cardinality(Created) <= Cardinality(Reqs) /\ Cardinality(Reqs) \in Nat /\ Cardinality(Created) \in Nat
    BY <2>1, FS_Subset, FS_CardinalityType
  <2>3. Cardinality(Reqs) # 0
    BY <2>1, FS_EmptySet
  <2> QED
    BY <2>1, <2>2, <2>3
<1>2. Types /\ Existing /\ ~alert
  BY DEF IInv
<1>3. TypeOK
  <2>1. ASSUME NEW r \in Reqs
        PROVE  /\ req[r].parent \in Reqs \cup {Nil}
               /\ req[r].write \in {"none", "handler", "upstream", "writer", "finalizer", "empty", "terminate"}
               /\ \A f \in {"background", "waited", "aio", "ext", "done", "logged"} : req[r][f] \in BOOLEAN
               /\ \A i \in DOMAIN req[r].postponed : req[r].postponed[i] \in Reqs \cup Pieces
               /\ \A i \in DOMAIN req[r].doc : req[r].doc[i] \in Reqs \cup Pieces
               /\ req[r].held \in {<<>>} \cup {<<p>> : p \in Pieces}
    <3>1. req[r] \in Request
      BY <1>2 DEF Types
    <3>2. /\ req[r].parent \in Reqs \cup {Nil} /\ req[r].write \in Handlers
          /\ req[r].held \in {<<>>} \cup {<<p>> : p \in Pieces}
          /\ req[r].postponed \in Seq(Reqs \cup Pieces) /\ req[r].doc \in Seq(Reqs \cup Pieces)
      BY <3>1 DEF Request
    <3>3. \A f \in {"background", "waited", "aio", "ext", "done", "logged"} : req[r][f] \in BOOLEAN
      BY <3>1 DEF Request
    <3>4. ASSUME NEW q \in Seq(Reqs \cup Pieces) PROVE \A i \in DOMAIN q : q[i] \in Reqs \cup Pieces
      OBVIOUS
    <3> QED
      BY <3>2, <3>3, <3>4 DEF Handlers
  <2>2. count \in 0 .. (2 * Cardinality(Reqs) + 1)
    <3>1. count \in Nat /\ Pending \in {0, 1}
      BY <1>2 DEF Types, Pending
    <3>2. count <= Cardinality(Created) + 1 + Pending
      <4>1. CASE freed
        BY <1>1, <3>1, <4>1 DEF IInv, Freed
      <4>2. CASE ~freed
        BY <4>2 DEF IInv
      <4> QED
        BY <4>1, <4>2
    <3> QED
      BY <1>1, <3>1, <3>2
  <2>3. ToSet(posted) \subseteq Created /\ data \in Created
    BY <1>2 DEF Types, Existing, Created, ToSet
  <2>4. ToSet(sent) \subseteq Pieces
    BY <1>2 DEF Types, ToSet
  <2> QED
    BY <1>2, <2>1, <2>2, <2>3, <2>4 DEF TypeOK, Types
<1>4. CountExact
  BY DEF IInv, Going, CountExact, Pending, Returning
<1>5. NothingAfterFree
  BY DEF IInv, Freed, NothingAfterFree
<1> QED
  BY <1>2, <1>3, <1>4, <1>5 DEF ReferencesKept, NoAlerts

(* With the exception that the property names.                            *)
Kept == twice \/ (unarmed \in 0 .. MaxUnarmed /\ IInv)

(* An exception is for good; a failure without one has freed the request.  *)
LEMMA NextUnarmed ==
    ASSUME RequestsAssumption, Kept, [Next]_vars
    PROVE  /\ twice => twice'
           /\ ~twice' => /\ ~twice /\ unarmed' \in 0 .. MaxUnarmed
                         /\ \/ [Usual]_vars /\ unarmed' = unarmed
                            \/ \E r \in Reqs : RunWriterUnarmed(r) /\ freed' /\ unarmed' > 0
<1>1. CASE Usual /\ UNCHANGED faults
  BY <1>1 DEF faults, Kept
<1>2. CASE UNCHANGED vars
  BY <1>2 DEF faults, vars, Kept
<1>3. ASSUME NEW r \in Reqs, FinalizeLaterUnarmed(r) PROVE twice'
  BY <1>3 DEF FinalizeLaterUnarmed
<1>4. ASSUME NEW r \in Reqs, RunWriterUnarmed(r)
      PROVE  twice' \/ (~twice /\ freed' /\ unarmed' \in 1 .. MaxUnarmed)
  <2>1. twice' <=> twice \/ ~freed'
    BY <1>4 DEF RunWriterUnarmed
  <2>2. unarmed < MaxUnarmed /\ unarmed' = unarmed + 1 /\ MaxUnarmed \in Nat
    BY <1>4 DEF RunWriterUnarmed, Unarmed, RequestsAssumption
  <2>3. ~twice => unarmed' \in 1 .. MaxUnarmed
    BY <2>2 DEF Kept
  <2> QED
    BY <2>1, <2>3
<1> QED
  BY <1>1, <1>2, <1>3, <1>4 DEF Next, Unarming, Usual, RunWriterUnarmed

(* Every step keeps the invariant, or begins the exception.                *)
LEMMA NextKept ==
    ASSUME RequestsAssumption, Kept, [Next]_vars
    PROVE  Kept'
<1>1. /\ twice => twice'
      /\ ~twice' => /\ ~twice /\ unarmed' \in 0 .. MaxUnarmed
                    /\ \/ [Usual]_vars /\ unarmed' = unarmed
                       \/ \E r \in Reqs : RunWriterUnarmed(r) /\ freed' /\ unarmed' > 0
  BY NextUnarmed
<1> QED
  BY <1>1, NextIInv, RunWriterUnarmedStep DEF Kept

(* The main request is freed exactly when the last of its references goes, *)
(* none of the alerts of ngx_http_finalize_request, of the close of the    *)
(* request and of its termination is logged, and no upstream, thread or    *)
(* posted request is left that would come back to it - as long as no call  *)
(* of ngx_handle_write_event has failed where ngx_http_set_write_handler   *)
(* or ngx_http_writer answers by giving back a reference that is given     *)
(* back again (GivenTwice).                                                *)
THEOREM ReferencesAreKept ==
    ASSUME RequestsAssumption
    PROVE  Spec => []ReferencesKept
<1>1. Init => Kept
  <2>1. Init => unarmed = 0
    BY DEF Init, Start
  <2>2. 0 \in 0 .. MaxUnarmed
    BY DEF RequestsAssumption
  <2> QED
    BY <2>1, <2>2, InitIInv DEF Kept
<1>2. Kept /\ [Next]_vars => Kept'
  BY NextKept
<1>3. Kept => ReferencesKept
  BY IInvKept DEF Kept, ReferencesKept, GivenTwice
<1> QED
  BY <1>1, <1>2, <1>3, PTL DEF Spec

-----------------------------------------------------------------------------
(* The document orders what is in it.                                      *)
Linear(d) ==
    /\ \A x, y : Before(d, x, y) => x \in ToSet(d) /\ y \in ToSet(d) /\ ~Before(d, y, x) /\ x # y
    /\ \A x, y, z : Before(d, x, y) /\ Before(d, y, z) => Before(d, x, z)
    /\ \A x, y \in ToSet(d) : x = y \/ Before(d, x, y) \/ Before(d, y, x)

(* A document in which nothing occurs twice orders what is in it.          *)
LEMMA DocumentIsLinear ==
    ASSUME NEW S, NEW d \in Seq(S), IsInjective(d)
    PROVE  Linear(d)
<1>1. DOMAIN d \subseteq Int /\ \A i, j \in DOMAIN d : d[i] = d[j] => i = j
  <2>1. DOMAIN d = 1 .. Len(d) /\ Len(d) \in Nat
    OBVIOUS
  <2> QED
    BY <2>1 DEF IsInjective
<1> DEFINE D == DOMAIN d
<1>2. \A i, j, k \in D : /\ i < j => ~(j < i) /\ i # j
                         /\ i < j /\ j < k => i < k
                         /\ i = j \/ i < j \/ j < i
  BY <1>1
<1>3. \A x : x \in ToSet(d) <=> \E i \in D : d[i] = x
  BY DEF ToSet
<1>4. \A x, y : Before(d, x, y) <=> \E i, j \in D : i < j /\ d[i] = x /\ d[j] = y
  BY DEF Before
<1>5. \A i, j \in D : d[i] = d[j] => i = j
  BY <1>1
<1> HIDE DEF D
<1>6. ASSUME NEW x, NEW y, Before(d, x, y)
      PROVE  x \in ToSet(d) /\ y \in ToSet(d) /\ ~Before(d, y, x) /\ x # y
  <2>1. PICK i, j \in D : i < j /\ d[i] = x /\ d[j] = y
    BY <1>4, <1>6
  <2>2. x # y
    BY <1>2, <1>5, <2>1
  <2>3. ASSUME Before(d, y, x) PROVE FALSE
    <3>1. PICK k, l \in D : k < l /\ d[k] = y /\ d[l] = x
      BY <1>4, <2>3
    <3>2. k = j /\ l = i
      BY <1>5, <2>1, <3>1
    <3> QED
      BY <1>2, <2>1, <3>1, <3>2
  <2> QED
    BY <1>3, <2>1, <2>2, <2>3
<1>7. ASSUME NEW x, NEW y, NEW z, Before(d, x, y), Before(d, y, z) PROVE Before(d, x, z)
  <2>1. PICK i, j \in D : i < j /\ d[i] = x /\ d[j] = y
    BY <1>4, <1>7
  <2>2. PICK k, l \in D : k < l /\ d[k] = y /\ d[l] = z
    BY <1>4, <1>7
  <2>3. j = k
    BY <1>5, <2>1, <2>2
  <2> QED
    BY <1>2, <1>4, <2>1, <2>2, <2>3
<1>8. ASSUME NEW x \in ToSet(d), NEW y \in ToSet(d), x # y
      PROVE  Before(d, x, y) \/ Before(d, y, x)
  <2>1. PICK i, j \in D : d[i] = x /\ d[j] = y
    BY <1>3
  <2> QED
    BY <1>2, <1>4, <1>8, <2>1
<1> QED
  BY <1>6, <1>7, <1>8 DEF Linear

(* What is written in front of r comes after what is before r.             *)
Inserted(d, r, n, w) ==
    /\ ToSet(w) = ToSet(d) \cup {n}
    /\ \A x, y \in ToSet(d) : Before(w, x, y) <=> Before(d, x, y)
    /\ \A x \in ToSet(d) : Before(w, x, n) <=> Before(d, x, r)
    /\ \A x \in ToSet(d) : Before(w, n, x) <=> (x = r \/ Before(d, r, x))

(* What is written in front of r is new, and the rest keeps its order.     *)
LEMMA WrittenIs ==
    ASSUME NEW S, NEW d \in Seq(S), IsInjective(d), NEW r \in ToSet(d),
           NEW n \in S, n \notin ToSet(d)
    PROVE  LET w == Written(d, r, n) IN
           w \in Seq(S) /\ IsInjective(w) /\ Linear(w) /\ Inserted(d, r, n, w)
<1> DEFINE w == Written(d, r, n)
           k == PlaceOf(d, r)
           l == Len(d)
           a == SubSeq(d, 1, k - 1)
           b == SubSeq(d, k, l)
           o == <<n>>
<1>1. k \in 1 .. l /\ d[k] = r /\ l \in Nat /\ DOMAIN d = 1 .. l
  BY DEF PlaceOf, ToSet
<1>2. w = a \o o \o b
  BY DEF Written, InsertAt
<1>3. /\ a \in Seq(S) /\ Len(a) = k - 1 /\ \A i \in 1 .. k - 1 : a[i] = d[i]
  <2> HIDE DEF k
  <2> QED
    BY <1>1
<1>4. /\ b \in Seq(S) /\ Len(b) = l - k + 1 /\ \A i \in 1 .. l - k + 1 : b[i] = d[k + i - 1]
  <2> HIDE DEF k, b, l
  <2>1. /\ SubSeq(d, k, l) \in Seq(S)
        /\ Len(SubSeq(d, k, l)) = IF k <= l THEN l - k + 1 ELSE 0
        /\ \A i \in 1 .. l - k + 1 : SubSeq(d, k, l)[i] = d[k + i - 1]
    <3>1. k \in Int /\ l \in Int /\ \A i \in k .. l : d[i] \in S
      BY <1>1 DEF l
    <3> QED
      BY <3>1, SubSeqProperties
  <2> QED
    BY <1>1, <2>1 DEF b
<1>5. o \in Seq(S) /\ Len(o) = 1 /\ o[1] = n
  OBVIOUS
<1> HIDE DEF w, k, l, a, b, o
<1>6. /\ a \o o \in Seq(S) /\ Len(a \o o) = k
      /\ \A i \in 1 .. k : (a \o o)[i] = IF i < k THEN d[i] ELSE n
  <2>1. /\ a \o o \in Seq(S) /\ Len(a \o o) = Len(a) + Len(o)
        /\ \A i \in 1 .. Len(a) + Len(o) : (a \o o)[i] = IF i <= Len(a) THEN a[i] ELSE o[i - Len(a)]
    BY <1>3, <1>5, ConcatProperties
  <2>2. Len(a) + Len(o) = k
    BY <1>1, <1>3, <1>5
  <2>3. ASSUME NEW i \in 1 .. k PROVE (a \o o)[i] = IF i < k THEN d[i] ELSE n
    <3>1. CASE i < k
      BY <1>1, <1>3, <2>1, <2>2, <3>1
    <3>2. CASE i = k
      <4>1. ~(i <= Len(a)) /\ i - Len(a) = 1
        BY <1>1, <1>3, <3>2
      <4>2. (a \o o)[i] = o[i - Len(a)] /\ ~(i < k)
        BY <1>1, <2>1, <2>2, <3>2, <4>1
      <4>3. (a \o o)[i] = n
        BY ONLY <1>5, <4>1, <4>2
      <4> QED
        BY <4>2, <4>3
    <3>3. i < k \/ i = k
      BY <1>1
    <3> QED
      BY ONLY <3>1, <3>2, <3>3
  <2> QED
    BY <2>1, <2>2, <2>3
<1>7. /\ w \in Seq(S) /\ Len(w) = l + 1
      /\ \A i \in 1 .. l + 1 : w[i] = IF i < k THEN d[i] ELSE IF i = k THEN n ELSE d[i - 1]
  <2> DEFINE c == a \o o
  <2>0. c \in Seq(S) /\ Len(c) = k /\ \A i \in 1 .. k : c[i] = IF i < k THEN d[i] ELSE n
    BY <1>6
  <2>a. w = c \o b
    BY <1>2
  <2> HIDE DEF c
  <2>1. /\ w \in Seq(S) /\ Len(w) = Len(c) + Len(b)
        /\ \A i \in 1 .. Len(c) + Len(b) : w[i] = IF i <= Len(c) THEN c[i] ELSE b[i - Len(c)]
    BY <1>4, <2>0, <2>a, ConcatProperties
  <2>2. Len(c) + Len(b) = l + 1
    BY <1>1, <1>4, <2>0
  <2>3. ASSUME NEW i \in 1 .. l + 1
        PROVE  w[i] = IF i < k THEN d[i] ELSE IF i = k THEN n ELSE d[i - 1]
    <3>1. CASE i <= k
      <4>1. i \in 1 .. k
        BY <1>1, <3>1
      <4> QED
        BY <1>1, <2>0, <2>1, <2>2, <3>1, <4>1
    <3>2. CASE i > k
      <4>1. i - k \in 1 .. l - k + 1 /\ k + (i - k) - 1 = i - 1 /\ ~(i <= k) /\ ~(i < k) /\ i # k
        BY <1>1, <3>2
      <4> QED
        BY <1>4, <2>0, <2>1, <2>2, <4>1
    <3> QED
      BY <1>1, <3>1, <3>2
  <2> QED
    BY <2>1, <2>2, <2>3
(* Where an element of the old queue is in the new one.                    *)
<1> DEFINE f(i) == IF i < k THEN i ELSE i + 1
           W == 1 .. l + 1
           D == 1 .. l
<1>8. DOMAIN w = W
  BY <1>1, <1>7
<1>9. /\ \A i \in D : f(i) \in W /\ f(i) # k /\ w[f(i)] = d[i]
      /\ k \in W /\ w[k] = n
      /\ \A j \in W : j = k \/ \E i \in D : j = f(i)
  <2>1. ASSUME NEW i \in D PROVE f(i) \in W /\ f(i) # k /\ w[f(i)] = d[i]
    <3>1. CASE i < k
      BY <1>1, <1>7, <3>1
    <3>2. CASE ~(i < k)
      <4>1. i + 1 \in W /\ ~(i + 1 < k) /\ i + 1 # k /\ (i + 1) - 1 = i
        BY <1>1, <3>2
      <4> QED
        BY <1>7, <3>2, <4>1
    <3> QED
      BY <3>1, <3>2
  <2>2. k \in W /\ w[k] = n
    BY <1>1, <1>7
  <2>3. ASSUME NEW j \in W, j # k PROVE \E i \in D : j = f(i)
    <3>1. CASE j < k
      <4>1. j \in D /\ f(j) = j
        BY <1>1, <3>1
      <4> QED
        BY <4>1
    <3>2. CASE j > k
      <4>1. j - 1 \in D /\ ~(j - 1 < k) /\ (j - 1) + 1 = j
        BY <1>1, <3>2
      <4> QED
        BY <4>1
    <3> QED
      BY <1>1, <2>3, <3>1, <3>2
  <2> QED
    BY <2>1, <2>2, <2>3
<1>10. /\ \A i, j \in D : f(i) < f(j) <=> i < j
       /\ \A i \in D : f(i) < k <=> i < k
       /\ \A i \in D : k < f(i) <=> (i = k \/ k < i)
  BY <1>1
<1>11. /\ \A i, j \in D : d[i] = d[j] => i = j
       /\ \A i \in D : d[i] # n /\ d[i] \in ToSet(d)
       /\ \A x \in ToSet(d) : \E i \in D : d[i] = x
       /\ k \in D
  BY <1>1 DEF IsInjective, ToSet
<1>d. /\ \A x, y : Before(d, x, y) <=> \E i, j \in D : i < j /\ d[i] = x /\ d[j] = y
      /\ \A x, y : Before(w, x, y) <=> \E i, j \in W : i < j /\ w[i] = x /\ w[j] = y
      /\ \A x : x \in ToSet(w) <=> \E i \in W : w[i] = x
  BY <1>1, <1>8 DEF Before, ToSet
<1>e. W \subseteq Int /\ D \subseteq Int /\ k \in Int
  BY <1>1
<1> HIDE DEF f, W, D
<1>12. \A i, j \in W : w[i] = w[j] => i = j
  BY <1>9, <1>11
<1>13. IsInjective(w)
  BY <1>8, <1>12 DEF IsInjective
<1>14. ToSet(w) = ToSet(d) \cup {n}
  BY <1>9, <1>11, <1>d
<1>15. ASSUME NEW x \in ToSet(d), NEW y \in ToSet(d) PROVE Before(w, x, y) <=> Before(d, x, y)
  <2>1. PICK i, j \in D : d[i] = x /\ d[j] = y
    BY <1>11
  <2>2. Before(d, x, y) <=> i < j
    BY <1>11, <1>d, <2>1
  <2>3. f(i) \in W /\ f(j) \in W /\ w[f(i)] = x /\ w[f(j)] = y
    BY <1>9, <2>1
  <2>4. Before(w, x, y) <=> f(i) < f(j)
    BY <1>12, <1>d, <2>3
  <2> QED
    BY <1>10, <2>2, <2>4
<1>16. ASSUME NEW x \in ToSet(d)
       PROVE  /\ Before(w, x, n) <=> Before(d, x, r)
              /\ Before(w, n, x) <=> (x = r \/ Before(d, r, x))
  <2>1. PICK i \in D : d[i] = x
    BY <1>11
  <2>2. /\ Before(d, x, r) <=> i < k
        /\ (x = r \/ Before(d, r, x)) <=> (i = k \/ k < i)
    BY <1>1, <1>11, <1>d, <2>1
  <2>3. f(i) \in W /\ k \in W /\ w[f(i)] = x /\ w[k] = n
    BY <1>9, <2>1
  <2>4. (Before(w, x, n) <=> f(i) < k) /\ (Before(w, n, x) <=> k < f(i))
    BY <1>12, <1>d, <2>3
  <2> QED
    BY <1>10, <2>2, <2>4
<1>17. Linear(w)
  BY <1>7, <1>13, DocumentIsLinear
<1> QED
  BY <1>7, <1>13, <1>14, <1>15, <1>16, <1>17 DEF Inserted, w

-----------------------------------------------------------------------------
(* y is written, with all it produces, inside what x produces.             *)
Within(d, x, y) == Before(d, Opening(x), Opening(y)) /\ Before(d, y, x)

(* The document of the requests A, where par gives the parents: each from  *)
(* its opening to its place, one inside another or apart from it.          *)
Bounded(d, A) ==
    /\ Linear(d)
    /\ A \subseteq Reqs /\ Main \in A
    /\ ToSet(d) \subseteq A \cup {Opening(x) : x \in A} \cup Pieces
    /\ \A x \in A : Before(d, Opening(x), x)
    /\ \A q \in ToSet(d) \cap Pieces :
          q[1] \in A /\ Before(d, Opening(q[1]), q) /\ Before(d, q, q[1])
    /\ \A x, y \in A :
          Before(d, Opening(x), Opening(y)) /\ Before(d, Opening(y), x) => Before(d, y, x)
    /\ \A x \in A, q \in ToSet(d) \cap Pieces :
          Before(d, Opening(x), q) /\ Before(d, q, x) => q[1] = x \/ Within(d, x, q[1])

(* The parents are the requests that one is written inside, from the next  *)
(* one out to the main request.                                            *)
Family(d, A, par) ==
    /\ \A x \in A \ {Main} : par[x] \in A /\ Within(d, par[x], x) /\ Within(d, Main, x)
    /\ \A x, y \in A :
          Within(d, x, y) => \E z \in A \ {Main} : par[z] = x /\ (z = y \/ Within(d, z, y))
    /\ \A x \in A, y \in A \ {Main} : Within(d, x, y) => par[y] = x \/ Within(d, x, par[y])

(* A request and its opening are in the document.                          *)
LEMMA InBounds ==
    ASSUME NEW d, NEW A, Bounded(d, A)
    PROVE  \A x \in A : x \in ToSet(d) /\ Opening(x) \in ToSet(d)
BY DEF Bounded, Linear

(* A request whose place is inside another is inside it as a whole.        *)
LEMMA Around ==
    ASSUME NEW d, NEW A, Bounded(d, A), NEW x \in A, NEW y \in A, x # y,
           Before(d, Opening(x), y), Before(d, y, x)
    PROVE  Within(d, x, y)
<1>1. x \in ToSet(d) /\ Opening(x) \in ToSet(d) /\ y \in ToSet(d) /\ Opening(y) \in ToSet(d)
  BY InBounds
<1>2. Before(d, Opening(x), Opening(y)) \/ Before(d, Opening(y), Opening(x))
  BY <1>1 DEF Bounded, Linear, Opening
<1>3. Before(d, Opening(y), Opening(x)) => Before(d, x, y)
  BY DEF Bounded
<1> QED
  BY <1>2, <1>3 DEF Within, Bounded, Linear

(* A buffer written in front of r is inside r, and moves no bounds.        *)
LEMMA BoundedPiece ==
    ASSUME NEW d, NEW w, NEW A, NEW r \in A, NEW n \in Pieces, n[1] = r, n \notin ToSet(d),
           Bounded(d, A), Linear(w), Inserted(d, r, n, w)
    PROVE  /\ Bounded(w, A)
           /\ \A x, y \in A : Within(w, x, y) <=> Within(d, x, y)
<1>1. \A x \in A : x \in ToSet(d) /\ Opening(x) \in ToSet(d)
  BY InBounds
<1>2. \A x, y \in ToSet(d) : Before(w, x, y) <=> Before(d, x, y)
  BY DEF Inserted
<1>3. \A x, y \in A : Within(w, x, y) <=> Within(d, x, y)
  BY <1>1, <1>2 DEF Within
<1>4. /\ \A x \in ToSet(d) : Before(w, x, n) <=> Before(d, x, r)
      /\ \A x \in ToSet(d) : Before(w, n, x) <=> (x = r \/ Before(d, r, x))
      /\ ToSet(w) = ToSet(d) \cup {n}
  BY DEF Inserted
<1>5. \A x \in A : Before(w, Opening(x), x)
  BY <1>1, <1>2 DEF Bounded
<1>6. \A x, y \in A :
          Before(w, Opening(x), Opening(y)) /\ Before(w, Opening(y), x) => Before(w, y, x)
  BY <1>1, <1>2 DEF Bounded
<1>7. ASSUME NEW q \in ToSet(w) \cap Pieces
      PROVE  q[1] \in A /\ Before(w, Opening(q[1]), q) /\ Before(w, q, q[1])
  <2>1. CASE q = n
    <3>1. Before(d, Opening(r), r)
      BY DEF Bounded
    <3> QED
      BY <1>1, <1>4, <2>1, <3>1
  <2>2. CASE q \in ToSet(d)
    <3>1. q[1] \in A /\ Before(d, Opening(q[1]), q) /\ Before(d, q, q[1])
      BY <1>7, <2>2 DEF Bounded
    <3> QED
      BY <1>1, <1>2, <2>2, <3>1
  <2> QED
    BY <1>4, <1>7, <2>1, <2>2
<1>8. ASSUME NEW x \in A, NEW q \in ToSet(w) \cap Pieces, Before(w, Opening(x), q), Before(w, q, x)
      PROVE  q[1] = x \/ Within(w, x, q[1])
  <2>1. CASE q = n /\ x # r
    <3>1. Before(d, Opening(x), r) /\ Before(d, r, x)
      BY <1>1, <1>4, <1>8, <2>1
    <3>2. Within(d, x, r)
      BY <2>1, <3>1, Around
    <3> QED
      BY <1>3, <2>1, <3>2
  <2>2. CASE q \in ToSet(d)
    <3>1. Before(d, Opening(x), q) /\ Before(d, q, x)
      BY <1>1, <1>2, <1>8, <2>2
    <3>2. q[1] \in A /\ (q[1] = x \/ Within(d, x, q[1]))
      BY <1>8, <2>2, <3>1 DEF Bounded
    <3> QED
      BY <1>3, <3>2
  <2> QED
    BY <1>4, <1>8, <2>1, <2>2
<1>9. ToSet(w) \subseteq A \cup {Opening(x) : x \in A} \cup Pieces
  BY <1>4 DEF Bounded
<1> QED
  BY <1>3, <1>5, <1>6, <1>7, <1>8, <1>9 DEF Bounded

(* The parents fit as long as who is inside whom stays.                    *)
LEMMA FamilySame ==
    ASSUME NEW d, NEW w, NEW A, NEW par, Main \in A, Family(d, A, par),
           \A x, y \in A : Within(w, x, y) <=> Within(d, x, y)
    PROVE  Family(w, A, par)
<1>1. \A x \in A \ {Main} : par[x] \in A /\ Within(w, par[x], x) /\ Within(w, Main, x)
  BY DEF Family
<1>2. ASSUME NEW x \in A, NEW y \in A, Within(w, x, y)
      PROVE  \E z \in A \ {Main} : par[z] = x /\ (z = y \/ Within(w, z, y))
  BY <1>2 DEF Family
<1>3. ASSUME NEW x \in A, NEW y \in A, Within(w, x, y), y # Main
      PROVE  par[y] = x \/ Within(w, x, par[y])
  BY <1>1, <1>3 DEF Family
<1> QED
  BY <1>1, <1>2, <1>3 DEF Family
(* A subrequest s is opened in front of r.                                 *)
Opened(d, r, s, w) ==
    /\ Linear(w)
    /\ ToSet(w) = ToSet(d) \cup {s, Opening(s)}
    /\ \A x, y \in ToSet(d) : Before(w, x, y) <=> Before(d, x, y)
    /\ \A x \in ToSet(d), n \in {s, Opening(s)} :
          /\ Before(w, x, n) <=> Before(d, x, r)
          /\ Before(w, n, x) <=> (x = r \/ Before(d, r, x))
    /\ Before(w, Opening(s), s)

(* A subrequest written in front of r, and then its opening.               *)
LEMMA OpenedIs ==
    ASSUME NEW d, NEW v, NEW w, NEW r \in ToSet(d), NEW s, s \notin ToSet(d), s # Opening(s),
           Opening(s) \notin ToSet(d), Linear(w), Inserted(d, r, s, v),
           Inserted(v, s, Opening(s), w)
    PROVE  Opened(d, r, s, w)
<1> DEFINE o == Opening(s)
<1>1. /\ ToSet(v) = ToSet(d) \cup {s}
      /\ \A x, y \in ToSet(d) : Before(v, x, y) <=> Before(d, x, y)
      /\ \A x \in ToSet(d) : /\ Before(v, x, s) <=> Before(d, x, r)
                             /\ Before(v, s, x) <=> (x = r \/ Before(d, r, x))
  BY DEF Inserted
<1>2. /\ ToSet(w) = ToSet(v) \cup {o}
      /\ \A x, y \in ToSet(v) : Before(w, x, y) <=> Before(v, x, y)
      /\ \A x \in ToSet(v) : /\ Before(w, x, o) <=> Before(v, x, s)
                             /\ Before(w, o, x) <=> (x = s \/ Before(v, s, x))
  BY DEF Inserted
<1> HIDE DEF o
<1>3. ToSet(w) = ToSet(d) \cup {s, o}
  BY <1>1, <1>2
<1>4. \A x, y \in ToSet(d) : Before(w, x, y) <=> Before(d, x, y)
  BY <1>1, <1>2
<1>5. ASSUME NEW x \in ToSet(d)
      PROVE  /\ Before(w, x, s) <=> Before(d, x, r)
             /\ Before(w, s, x) <=> (x = r \/ Before(d, r, x))
             /\ Before(w, x, o) <=> Before(d, x, r)
             /\ Before(w, o, x) <=> (x = r \/ Before(d, r, x))
  BY <1>1, <1>2
<1>6. Before(w, o, s)
  BY <1>1, <1>2
<1> QED
  BY <1>3, <1>4, <1>5, <1>6 DEF Opened, o

(* A new subrequest is inside r and what r is in, with nothing in it.      *)
LEMMA SubWithin ==
    ASSUME NEW d, NEW w, NEW A, NEW r \in A, NEW s, s \notin A, s \in Reqs,
           \A x \in A : Opening(x) # r, Bounded(d, A), Opened(d, r, s, w)
    PROVE  /\ \A x, y \in A : Within(w, x, y) <=> Within(d, x, y)
           /\ \A x \in A : Within(w, x, s) <=> (x = r \/ Within(d, x, r))
           /\ \A y \in A \cup {s} : ~Within(w, s, y)
<1>1. \A x \in A : x \in ToSet(d) /\ Opening(x) \in ToSet(d)
  BY InBounds
<1>2. \A x, y \in A : Within(w, x, y) <=> Within(d, x, y)
  BY <1>1 DEF Within, Opened
<1>3. ASSUME NEW x \in A PROVE Within(w, x, s) <=> (x = r \/ Within(d, x, r))
  <2>1. Within(w, x, s) <=> (Before(d, Opening(x), r) /\ (x = r \/ Before(d, r, x)))
    BY <1>1 DEF Within, Opened
  <2>2. Before(d, Opening(r), r)
    BY DEF Bounded
  <2>3. x # r /\ Before(d, Opening(x), r) /\ Before(d, r, x) => Within(d, x, r)
    BY Around
  <2>4. Within(d, x, r) => Before(d, Opening(x), r) /\ Before(d, r, x)
    BY <2>2 DEF Within, Bounded, Linear
  <2> QED
    BY <2>1, <2>2, <2>3, <2>4
<1>4. ASSUME NEW y \in A PROVE ~Within(w, s, y)
  <2>1. SUFFICES ASSUME Within(w, s, y) PROVE FALSE
    OBVIOUS
  <2>2. Before(d, r, Opening(y)) /\ Before(d, y, r)
    BY <1>1, <2>1 DEF Within, Opened
  <2>3. Before(d, Opening(y), y)
    BY DEF Bounded
  <2> QED
    BY <2>2, <2>3 DEF Bounded, Linear
<1>5. ~Within(w, s, s)
  BY DEF Within, Opened, Linear
<1> QED
  BY <1>2, <1>3, <1>4, <1>5

(* The requests keep their bounds when a subrequest is opened.             *)
LEMMA BoundedSub ==
    ASSUME NEW d, NEW w, NEW A, NEW r \in A, NEW s \in Reqs, s \notin A,
           \A x, y \in Reqs : Opening(x) # y,
           \A x \in Reqs, q \in Pieces : q # x /\ q # Opening(x),
           Bounded(d, A), Opened(d, r, s, w)
    PROVE  Bounded(w, A \cup {s})
<1> DEFINE B == A \cup {s}
<1>0. \A x \in A : x \in Reqs
  BY DEF Bounded
<1>1. \A x \in A : x \in ToSet(d) /\ Opening(x) \in ToSet(d)
  BY InBounds
<1>2. /\ \A x, y \in A : Within(w, x, y) <=> Within(d, x, y)
      /\ \A x \in A : Within(w, x, s) <=> (x = r \/ Within(d, x, r))
      /\ \A y \in A \cup {s} : ~Within(w, s, y)
  <2>1. \A x \in A : Opening(x) # r
    BY <1>0
  <2> QED
    BY <2>1, SubWithin
<1>3. /\ ToSet(w) = ToSet(d) \cup {s, Opening(s)}
      /\ \A x, y \in ToSet(d) : Before(w, x, y) <=> Before(d, x, y)
      /\ Before(w, Opening(s), s) /\ Linear(w)
      /\ \A x \in ToSet(d) :
          /\ Before(w, x, s) <=> Before(d, x, r)
          /\ Before(w, s, x) <=> (x = r \/ Before(d, r, x))
          /\ Before(w, x, Opening(s)) <=> Before(d, x, r)
          /\ Before(w, Opening(s), x) <=> (x = r \/ Before(d, r, x))
  BY DEF Opened
<1>4. /\ B \subseteq Reqs /\ Main \in B
      /\ ToSet(w) \subseteq B \cup {Opening(x) : x \in B} \cup Pieces
  BY <1>3 DEF Bounded
<1>5. \A x \in B : Before(w, Opening(x), x)
  BY <1>1, <1>3 DEF Bounded
<1>6. \A q \in ToSet(w) \cap Pieces : q \in ToSet(d)
  BY <1>3
<1>7. \A q \in ToSet(w) \cap Pieces :
          q[1] \in B /\ Before(w, Opening(q[1]), q) /\ Before(w, q, q[1])
  BY <1>1, <1>3, <1>6 DEF Bounded
<1>8. ASSUME NEW x \in B, NEW y \in B, Before(w, Opening(x), Opening(y)), Before(w, Opening(y), x)
      PROVE  Before(w, y, x)
  <2>1. CASE x \in A /\ y \in A
    BY <1>1, <1>3, <1>8, <2>1 DEF Bounded
  <2>2. CASE x \in A /\ y = s
    BY <1>0, <1>1, <1>3, <1>8, <2>2
  <2>3. CASE x = s /\ y \in A
    <3>1. Before(d, r, Opening(y)) /\ Before(d, Opening(y), r)
      BY <1>0, <1>1, <1>3, <1>8, <2>3
    <3> QED
      BY <3>1 DEF Bounded, Linear
  <2>4. CASE x = s /\ y = s
    BY <1>3, <1>8, <2>4 DEF Linear
  <2> QED
    BY <2>1, <2>2, <2>3, <2>4
<1>9. ASSUME NEW x \in B, NEW q \in ToSet(w) \cap Pieces, Before(w, Opening(x), q), Before(w, q, x)
      PROVE  q[1] = x \/ Within(w, x, q[1])
  <2>0. q \in ToSet(d) \cap Pieces /\ q[1] \in A
    BY <1>6 DEF Bounded
  <2>1. CASE x \in A
    <3>1. Before(d, Opening(x), q) /\ Before(d, q, x)
      BY <1>1, <1>3, <1>9, <2>0, <2>1
    <3>2. q[1] = x \/ Within(d, x, q[1])
      BY <2>0, <2>1, <3>1 DEF Bounded
    <3> QED
      BY <1>2, <2>0, <2>1, <3>2
  <2>2. CASE x = s
    <3>1. (q = r \/ Before(d, r, q)) /\ Before(d, q, r)
      BY <1>3, <1>9, <2>0, <2>2
    <3> QED
      BY <1>0, <2>0, <3>1 DEF Bounded, Linear
  <2> QED
    BY <2>1, <2>2
<1> QED
  BY <1>3, <1>4, <1>5, <1>7, <1>8, <1>9 DEF Bounded

(* The parents fit when a subrequest is opened inside its parent.          *)
LEMMA FamilySub ==
    ASSUME NEW d, NEW w, NEW A, NEW r \in A, NEW s \in Reqs, s \notin A,
           \A x, y \in Reqs : Opening(x) # y, NEW par, NEW new,
           \A x \in A : new[x] = par[x], new[s] = r,
           Bounded(d, A), Family(d, A, par), Opened(d, r, s, w)
    PROVE  Family(w, A \cup {s}, new)
<1> DEFINE B == A \cup {s}
<1>0. /\ \A x \in A : x \in Reqs
      /\ Main \in A
  BY DEF Bounded
<1>2. /\ \A x, y \in A : Within(w, x, y) <=> Within(d, x, y)
      /\ \A x \in A : Within(w, x, s) <=> (x = r \/ Within(d, x, r))
      /\ \A y \in B : ~Within(w, s, y)
  BY <1>0, SubWithin
<1>3. /\ \A x \in A \ {Main} : par[x] \in A /\ Within(d, par[x], x) /\ Within(d, Main, x)
      /\ \A x, y \in A :
          Within(d, x, y) => \E z \in A \ {Main} : par[z] = x /\ (z = y \/ Within(d, z, y))
      /\ \A x \in A, y \in A \ {Main} : Within(d, x, y) => par[y] = x \/ Within(d, x, par[y])
  BY DEF Family
<1>4. \A x \in B \ {Main} : new[x] \in B /\ Within(w, new[x], x) /\ Within(w, Main, x)
  BY <1>0, <1>2, <1>3
<1>5. ASSUME NEW x \in B, NEW y \in B, Within(w, x, y)
      PROVE  \E z \in B \ {Main} : new[z] = x /\ (z = y \/ Within(w, z, y))
  <2>1. CASE y \in A
    BY <1>2, <1>3, <1>5, <2>1
  <2>2. CASE y = s /\ x = r
    BY <1>0, <2>2
  <2>3. CASE y = s /\ x # r
    <3>1. x \in A /\ Within(d, x, r)
      BY <1>2, <1>5, <2>3
    <3>2. PICK z \in A \ {Main} : par[z] = x /\ (z = r \/ Within(d, z, r))
      BY <1>3, <3>1
    <3> QED
      BY <1>2, <2>3, <3>2
  <2> QED
    BY <2>1, <2>2, <2>3
<1>6. ASSUME NEW x \in B, NEW y \in B \ {Main}, Within(w, x, y)
      PROVE  new[y] = x \/ Within(w, x, new[y])
  <2>1. CASE y \in A
    BY <1>2, <1>3, <1>6, <2>1
  <2>2. CASE y = s
    BY <1>2, <1>6, <2>2
  <2> QED
    BY <2>1, <2>2
<1> QED
  BY <1>4, <1>5, <1>6 DEF Family

-----------------------------------------------------------------------------
(* How far the document was sent: S was, c is active, O holds what is yet  *)
(* to be sent or to get its turn, E the requests that have ended.          *)
Sending(d, A, S, c, E) ==
    /\ c \in A /\ c \notin E /\ Main \notin E
    /\ S \subseteq ToSet(d) \cap Pieces
    /\ \A x, y \in ToSet(d) \cap Pieces : y \in S /\ Before(d, x, y) => x \in S
    /\ \A x \in A \ E, y \in S : Before(d, y, x)
    /\ \A x \in A \ E : Before(d, x, c) => Within(d, c, x)
    /\ \A x \in E \cap A, q \in ToSet(d) \cap Pieces :
          Before(d, Opening(x), q) /\ Before(d, q, x) => q \in S
    /\ \A x \in E \cap A, y \in A : Within(d, x, y) => y \in E

(* What was not sent waits in the list of who produced it; a list holds    *)
(* only that and the subrequests; the active request is the first in the   *)
(* lists around it; who is not in its parent's list has had its turn.      *)
Waits(d, A, par, O, S, c, E) ==
    /\ \A q \in (ToSet(d) \cap Pieces) \ S : q \in O[q[1]]
    /\ \A x \in A : \A e \in O[x] :
          \/ e \in (ToSet(d) \cap Pieces) \ S /\ e[1] = x
          \/ e \in A \ (E \cup {Main}) /\ par[e] = x
    /\ \A x \in A : \A e \in O[x] : Within(d, x, c) => e = c \/ Before(d, c, e)
    /\ \A x \in A \ (E \cup {Main}) : x \in O[par[x]] \/ x = c \/ Within(d, x, c)

(* The course of the document.                                             *)
Course(d, A, par, O, S, c, E) ==
    Bounded(d, A) /\ Family(d, A, par) /\ Sending(d, A, S, c, E) /\ Waits(d, A, par, O, S, c, E)

(* Requests, buffers and openings are different things.                    *)
Apart == \A x \in Reqs : x \notin Pieces /\ \A y \in Reqs : Opening(x) # y

(* Being inside another is an order, one with the document's.              *)
LEMMA WithinOrder ==
    ASSUME NEW d, NEW A, Bounded(d, A)
    PROVE  /\ \A x, y : Within(d, x, y) => ~Within(d, y, x) /\ x # y
           /\ \A x, y, z : Within(d, x, y) /\ Within(d, y, z) => Within(d, x, z)
           /\ \A x, y : Within(d, x, y) => Before(d, y, x) /\ Before(d, Opening(x), Opening(y))
BY DEF Bounded, Linear, Within

(* Who is written inside the active request and has not ended is in its    *)
(* list, or inside one that is.                                            *)
LEMMA InTheList ==
    ASSUME NEW d, NEW A, NEW par, NEW O, NEW S, NEW c, NEW E, Course(d, A, par, O, S, c, E),
           NEW y \in A, y \notin E, Within(d, c, y)
    PROVE  \E z \in O[c] : z \in A /\ (z = y \/ Within(d, z, y)) /\ par[z] = c /\ z # Main
<1>1. c \in A
  BY DEF Course, Sending
<1>2. PICK z \in A \ {Main} : par[z] = c /\ (z = y \/ Within(d, z, y))
  BY <1>1 DEF Course, Family
<1>3. z \notin E
  BY <1>2 DEF Course, Sending
<1>4. z \in O[c] \/ z = c \/ Within(d, z, c)
  BY <1>2, <1>3 DEF Course, Waits
<1>5. Within(d, c, z)
  BY <1>2 DEF Course, Family
<1>6. z # c /\ ~Within(d, z, c)
  BY <1>5, WithinOrder DEF Course
<1> QED
  BY <1>2, <1>4, <1>6

(* A child of x stands apart from what else is in the list of x.           *)
LEMMA Siblings ==
    ASSUME NEW d, NEW A, NEW par, Bounded(d, A), Family(d, A, par), Apart,
           NEW x \in A, NEW z \in A \ {Main}, par[z] = x, NEW e, e # z,
           (e \in ToSet(d) \cap Pieces /\ e[1] = x) \/ (e \in A \ {Main} /\ par[e] = x),
           Before(d, e, z)
    PROVE  Before(d, e, Opening(z))
<1>1. Within(d, x, z)
  BY DEF Family
<1>2. ~Within(d, z, x) /\ x # z
  BY <1>1, WithinOrder
<1>3. Opening(z) \in ToSet(d) /\ z \in ToSet(d) /\ e \in ToSet(d)
  BY InBounds
<1>4. e # Opening(z)
  <2>1. CASE e \in Pieces /\ e[1] = x
    BY <1>2, <2>1 DEF Opening
  <2>2. CASE e \in A
    BY <2>2 DEF Apart, Bounded
  <2> QED
    BY <2>1, <2>2
<1>5. SUFFICES ASSUME Before(d, Opening(z), e) PROVE FALSE
  BY <1>3, <1>4 DEF Bounded, Linear
<1>6. CASE e \in ToSet(d) \cap Pieces /\ e[1] = x
  BY <1>2, <1>5, <1>6 DEF Bounded
<1>7. CASE e \in A \ {Main} /\ par[e] = x
  <2>1. Within(d, z, e)
    BY <1>5, <1>7, Around
  <2> QED
    BY <1>2, <1>7, <2>1 DEF Family
<1> QED
  BY <1>6, <1>7

(* Buffers of the active request that nothing else in its list precedes.   *)
LEMMA CourseSend ==
    ASSUME Apart, NEW d, NEW A, NEW par, NEW O, NEW S, NEW c, NEW E, Course(d, A, par, O, S, c, E),
           NEW G \in SUBSET (O[c] \cap Pieces), \A g \in G, e \in O[c] \ G : Before(d, g, e),
           NEW new, new[c] = O[c] \ G, \A x \in A \ {c} : new[x] = O[x]
    PROVE  Course(d, A, par, new, S \cup G, c, E)
<1> DEFINE P == ToSet(d) \cap Pieces
<1>1. /\ Bounded(d, A) /\ Family(d, A, par) /\ Linear(d)
      /\ \A x \in A : x \notin Pieces /\ x \in ToSet(d) /\ Opening(x) \in ToSet(d)
      /\ c \in A
  BY InBounds DEF Course, Bounded, Apart, Sending
<1>2. \A g \in G : g \in P \ S /\ g[1] = c /\ Before(d, g, c)
  <2>1. \A g \in G : g \in P \ S /\ g[1] = c
    BY <1>1 DEF Course, Waits
  <2> QED
    BY <1>1, <2>1 DEF Bounded
<1>3. ASSUME NEW g \in G, NEW y \in A \ E, Within(d, c, y)
      PROVE  Before(d, g, Opening(y)) /\ Before(d, g, y)
  <2>1. PICK z \in O[c] : z \in A /\ (z = y \/ Within(d, z, y)) /\ par[z] = c /\ z # Main
    BY <1>3, InTheList
  <2>2. Before(d, g, z)
    BY <1>1, <2>1
  <2>3. Before(d, g, Opening(z))
    BY <1>1, <1>2, <2>1, <2>2, Siblings
  <2>4. z = y \/ Before(d, Opening(z), Opening(y))
    BY <2>1 DEF Within
  <2>5. Before(d, Opening(y), y)
    BY <1>1 DEF Bounded
  <2> QED
    BY <1>1, <2>3, <2>4, <2>5 DEF Linear
<1>4. ASSUME NEW x \in A \ E, NEW y \in G PROVE Before(d, y, x)
  <2>1. CASE x = c
    BY <1>2, <2>1
  <2>2. CASE Before(d, c, x)
    BY <1>1, <1>2, <2>2 DEF Linear
  <2>3. CASE Before(d, x, c)
    <3>1. Within(d, c, x)
      BY <1>4, <2>3 DEF Course, Sending
    <3> QED
      BY <1>3, <1>4, <3>1
  <2> QED
    BY <1>1, <2>1, <2>2, <2>3 DEF Linear
<1>5. ASSUME NEW x \in P, NEW y \in G, Before(d, x, y), x \notin S \cup G PROVE FALSE
  <2>1. x \in O[x[1]] /\ x[1] \in A /\ Before(d, Opening(x[1]), x) /\ Before(d, x, x[1])
    BY <1>1, <1>5 DEF Course, Waits, Bounded
  <2>2. x[1] # c
    <3>1. SUFFICES ASSUME x[1] = c PROVE FALSE
      OBVIOUS
    <3>2. Before(d, y, x)
      BY <1>5, <2>1, <3>1
    <3> QED
      BY <1>1, <1>5, <3>2 DEF Linear
  <2>3. x[1] \notin E
    BY <1>5, <2>1 DEF Course, Sending
  <2>4. CASE Before(d, x[1], c)
    <3>1. Within(d, c, x[1])
      BY <2>1, <2>3, <2>4 DEF Course, Sending
    <3>2. Before(d, y, Opening(x[1]))
      BY <1>3, <2>1, <2>3, <3>1
    <3> QED
      BY <1>1, <1>5, <2>1, <3>2 DEF Linear
  <2>5. CASE Before(d, c, x[1])
    <3>1. Before(d, x, c)
      BY <1>1, <1>2, <1>5 DEF Linear
    <3>2. Before(d, Opening(x[1]), c)
      BY <1>1, <2>1, <3>1 DEF Linear
    <3>3. Within(d, x[1], c)
      BY <1>1, <2>1, <2>2, <2>5, <3>2, Around
    <3>4. x = c \/ Before(d, c, x)
      BY <2>1, <3>3 DEF Course, Waits
    <3> QED
      BY <1>1, <3>1, <3>4 DEF Linear
  <2> QED
    BY <1>1, <2>1, <2>2, <2>4, <2>5 DEF Linear
<1>6. Sending(d, A, S \cup G, c, E)
  <2>1. \A x, y \in P : y \in S \cup G /\ Before(d, x, y) => x \in S \cup G
    BY <1>5 DEF Course, Sending
  <2>2. S \cup G \subseteq P
    BY <1>2 DEF Course, Sending
  <2>3. \A x \in A \ E, y \in S \cup G : Before(d, y, x)
    BY <1>4 DEF Course, Sending
  <2> QED
    BY <2>1, <2>2, <2>3 DEF Course, Sending
<1>7. Waits(d, A, par, new, S \cup G, c, E)
  <2>1. ASSUME NEW q \in P \ (S \cup G) PROVE q \in new[q[1]]
    <3>1. q \in O[q[1]] /\ q[1] \in A
      BY <1>1, <2>1 DEF Course, Waits, Bounded
    <3> QED
      BY <2>1, <3>1
  <2>2. \A x \in A : new[x] \subseteq O[x]
    OBVIOUS
  <2>3. ASSUME NEW x \in A, NEW e \in new[x]
        PROVE  \/ e \in P \ (S \cup G) /\ e[1] = x
               \/ e \in A \ (E \cup {Main}) /\ par[e] = x
    <3>1. e \in O[x]
      BY <2>2, <2>3
    <3>2. \/ e \in P \ S /\ e[1] = x
          \/ e \in A \ (E \cup {Main}) /\ par[e] = x
      BY <3>1 DEF Course, Waits
    <3>3. ASSUME e \in G, e[1] = x PROVE FALSE
      BY <1>2, <2>3, <3>3
    <3> QED
      BY <3>2, <3>3
  <2>4. \A x \in A : \A e \in new[x] : Within(d, x, c) => e = c \/ Before(d, c, e)
    BY <2>2 DEF Course, Waits
  <2>5. ASSUME NEW x \in A \ (E \cup {Main}) PROVE x \in new[par[x]] \/ x = c \/ Within(d, x, c)
    <3>1. par[x] \in A /\ x \notin G
      BY <1>1 DEF Family
    <3>2. x \in O[par[x]] \/ x = c \/ Within(d, x, c)
      BY DEF Course, Waits
    <3> QED
      BY <3>1, <3>2
  <2> QED
    BY <2>1, <2>3, <2>4, <2>5 DEF Waits
<1> QED
  BY <1>6, <1>7 DEF Course

-----------------------------------------------------------------------------
(* The first in the list of the active request becomes the active one.     *)
LEMMA CourseTurn ==
    ASSUME Apart, NEW d, NEW A, NEW par, NEW O, NEW S, NEW c, NEW E, Course(d, A, par, O, S, c, E),
           NEW k \in O[c], k \in A, \A e \in O[c] : e = k \/ Before(d, k, e),
           NEW new, new[c] \subseteq O[c], O[c] \ {k} \subseteq new[c],
           \A x \in A \ {c} : new[x] = O[x]
    PROVE  Course(d, A, par, new, S, k, E)
<1> DEFINE P == ToSet(d) \cap Pieces
<1>1. /\ Bounded(d, A) /\ Family(d, A, par) /\ Linear(d)
      /\ \A x \in A : x \notin Pieces /\ x \in ToSet(d) /\ Opening(x) \in ToSet(d)
      /\ c \in A
  BY InBounds DEF Course, Bounded, Apart, Sending
<1>2. k \in A \ (E \cup {Main}) /\ par[k] = c /\ Within(d, c, k) /\ Before(d, k, c) /\ k # c
  <2>1. k \in A \ (E \cup {Main}) /\ par[k] = c
    BY <1>1 DEF Course, Waits
  <2>2. Within(d, c, k)
    BY <1>1, <2>1 DEF Family
  <2> QED
    BY <1>1, <2>1, <2>2, WithinOrder
<1>3. ASSUME NEW x \in A \ E, Before(d, x, k) PROVE Within(d, k, x)
  <2>1. Before(d, x, c)
    BY <1>1, <1>2, <1>3 DEF Linear
  <2>2. Within(d, c, x)
    BY <2>1, <1>3 DEF Course, Sending
  <2>3. PICK z \in O[c] : z \in A /\ (z = x \/ Within(d, z, x)) /\ par[z] = c /\ z # Main
    BY <1>3, <2>2, InTheList
  <2>4. CASE z = k
    BY <1>1, <1>3, <2>3, <2>4 DEF Linear
  <2>5. CASE z # k
    <3>1. Before(d, k, z)
      BY <2>3, <2>5
    <3>2. Before(d, k, Opening(z))
      BY <1>1, <1>2, <2>3, <2>5, <3>1, Siblings
    <3>3. z = x \/ Before(d, Opening(z), Opening(x))
      BY <2>3 DEF Within
    <3>4. Before(d, Opening(x), x)
      BY <1>1 DEF Bounded
    <3> QED
      BY <1>1, <1>3, <3>2, <3>3, <3>4 DEF Linear
  <2> QED
    BY <2>4, <2>5
<1>4. Sending(d, A, S, k, E)
  BY <1>2, <1>3 DEF Course, Sending
<1>5. Waits(d, A, par, new, S, k, E)
  <2>1. ASSUME NEW q \in P \ S PROVE q \in new[q[1]]
    <3>1. q \in O[q[1]] /\ q[1] \in A /\ q # k
      BY <1>1, <1>2, <2>1 DEF Course, Waits, Bounded
    <3> QED
      BY <2>1, <3>1
  <2>2. \A x \in A : new[x] \subseteq O[x]
    OBVIOUS
  <2>3. \A x \in A : \A e \in new[x] :
               \/ e \in P \ S /\ e[1] = x
               \/ e \in A \ (E \cup {Main}) /\ par[e] = x
    BY <2>2 DEF Course, Waits
  <2>4. ASSUME NEW x \in A, NEW e \in new[x], Within(d, x, k) PROVE e = k \/ Before(d, k, e)
    <3>1. e \in O[x]
      BY <2>2, <2>4
    <3>2. CASE x = c
      BY <3>1, <3>2
    <3>3. CASE x # c
      <4>1. Within(d, x, c)
        BY <1>1, <1>2, <2>4, <3>3 DEF Family
      <4>2. e = c \/ Before(d, c, e)
        BY <3>1, <4>1 DEF Course, Waits
      <4> QED
        BY <1>1, <1>2, <4>2 DEF Linear
    <3> QED
      BY <3>2, <3>3
  <2>5. ASSUME NEW x \in A \ (E \cup {Main}) PROVE x \in new[par[x]] \/ x = k \/ Within(d, x, k)
    <3>1. par[x] \in A
      BY <1>1 DEF Family
    <3>2. x \in O[par[x]] \/ x = c \/ Within(d, x, c)
      BY DEF Course, Waits
    <3>3. Within(d, x, c) => Within(d, x, k)
      BY <1>1, <1>2, WithinOrder
    <3> QED
      BY <1>2, <3>1, <3>2, <3>3
  <2> QED
    BY <2>1, <2>3, <2>4, <2>5 DEF Waits
<1> QED
  BY <1>4, <1>5 DEF Course

(* The active request ends, with nothing in its list, and its parent goes  *)
(* on.                                                                     *)
LEMMA CourseBack ==
    ASSUME Apart, NEW d, NEW A, NEW par, NEW O, NEW S, NEW c, NEW E, Course(d, A, par, O, S, c, E),
           c # Main, O[c] = {}, NEW p, p = par[c],
           NEW new, new[p] = O[p] \ {c}, \A x \in A \ {p} : new[x] = O[x]
    PROVE  Course(d, A, par, new, S, p, E \cup {c})
<1> DEFINE P == ToSet(d) \cap Pieces
           F == E \cup {c}
<1>1. /\ Bounded(d, A) /\ Family(d, A, par) /\ Linear(d)
      /\ \A x \in A : x \notin Pieces /\ x \in ToSet(d) /\ Opening(x) \in ToSet(d)
      /\ c \in A /\ c \notin E
  BY InBounds DEF Course, Bounded, Apart, Sending
<1>2. p \in A /\ p \notin E /\ p # c /\ Within(d, p, c) /\ Before(d, c, p)
  <2>1. p \in A /\ Within(d, p, c)
    BY <1>1 DEF Family
  <2>2. p \notin E
    BY <1>1, <2>1 DEF Course, Sending
  <2> QED
    BY <1>1, <2>1, <2>2, WithinOrder
<1>3. ASSUME NEW y \in A, Within(d, c, y) PROVE y \in E
  BY <1>3, InTheList
<1>4. ASSUME NEW q \in P, Before(d, Opening(c), q), Before(d, q, c) PROVE q \in S
  <2>1. SUFFICES ASSUME q \notin S PROVE FALSE
    OBVIOUS
  <2>2. q \in O[q[1]] /\ q[1] \in A /\ Before(d, Opening(q[1]), q) /\ Before(d, q, q[1])
    BY <1>1, <2>1 DEF Course, Waits, Bounded
  <2>3. Within(d, c, q[1])
    BY <1>1, <1>4, <2>2 DEF Bounded
  <2>4. q[1] \in E
    BY <1>3, <2>2, <2>3
  <2> QED
    BY <2>1, <2>2, <2>4 DEF Course, Sending
<1>5. ASSUME NEW x \in A \ F, Before(d, x, p) PROVE Within(d, p, x)
  <2>1. ~Before(d, x, c)
    BY <1>3, <1>5 DEF Course, Sending
  <2>2. Before(d, c, x)
    BY <1>1, <1>5, <2>1 DEF Linear
  <2>3. Before(d, Opening(p), x)
    <3>1. Before(d, Opening(c), c) /\ Before(d, Opening(p), Opening(c))
      BY <1>1, <1>2, WithinOrder DEF Bounded
    <3> QED
      BY <1>1, <2>2, <3>1 DEF Linear
  <2> QED
    BY <1>1, <1>2, <1>5, <2>3, Around DEF Linear
<1>6. Sending(d, A, S, p, F)
  <2>1. p \in A /\ p \notin F /\ Main \notin F
    BY <1>2 DEF Course, Sending
  <2>2. \A x \in F \cap A, q \in P : Before(d, Opening(x), q) /\ Before(d, q, x) => q \in S
    BY <1>4 DEF Course, Sending
  <2>3. \A x \in F \cap A, y \in A : Within(d, x, y) => y \in F
    BY <1>3 DEF Course, Sending
  <2>4. S \subseteq P /\ \A x, y \in P : y \in S /\ Before(d, x, y) => x \in S
    BY DEF Course, Sending
  <2>5. \A x \in A \ F, y \in S : Before(d, y, x)
    BY DEF Course, Sending
  <2> QED
    BY <1>5, <2>1, <2>2, <2>3, <2>4, <2>5 DEF Sending
<1>7. Waits(d, A, par, new, S, p, F)
  <2>1. ASSUME NEW q \in P \ S PROVE q \in new[q[1]]
    <3>1. q \in O[q[1]] /\ q[1] \in A /\ q # c
      BY <1>1, <2>1 DEF Course, Waits, Bounded
    <3> QED
      BY <2>1, <3>1
  <2>2. \A x \in A : new[x] \subseteq O[x] /\ (x = p => c \notin new[x])
    OBVIOUS
  <2>3. ASSUME NEW x \in A, NEW e \in new[x]
        PROVE  \/ e \in P \ S /\ e[1] = x
               \/ e \in A \ (F \cup {Main}) /\ par[e] = x
    <3>1. \/ e \in P \ S /\ e[1] = x
          \/ e \in A \ (E \cup {Main}) /\ par[e] = x
      BY <2>2, <2>3 DEF Course, Waits
    <3>2. e = c => x # p
      BY <2>2, <2>3
    <3>3. e = c => e \notin P
      BY <1>1
    <3> QED
      BY <3>1, <3>2, <3>3
  <2>4. ASSUME NEW x \in A, NEW e \in new[x], Within(d, x, p) PROVE e = p \/ Before(d, p, e)
    <3>1. x # p /\ ~Within(d, p, x) /\ Within(d, x, c)
      BY <1>1, <1>2, <2>4, WithinOrder
    <3>2. e \in O[x] /\ ((e \in P /\ e[1] = x) \/ (e \in A \ {Main} /\ par[e] = x))
      BY <2>2, <2>3, <2>4
    <3>3. e # c
      BY <1>1, <3>1, <3>2
    <3>4. Before(d, c, e)
      BY <3>1, <3>2, <3>3 DEF Course, Waits
    <3>5. SUFFICES ASSUME Before(d, e, p) PROVE FALSE
      BY <1>1, <1>2, <3>4 DEF Linear
    <3>6. Before(d, Opening(p), e)
      <4>1. Before(d, Opening(c), c) /\ Before(d, Opening(p), Opening(c))
        BY <1>1, <1>2, WithinOrder DEF Bounded
      <4> QED
        BY <1>1, <3>4, <4>1 DEF Linear
    <3>7. CASE e \in P /\ e[1] = x
      BY <1>1, <1>2, <3>1, <3>5, <3>6, <3>7 DEF Bounded
    <3>8. CASE e \in A \ {Main} /\ par[e] = x
      <4>1. e # p
        BY <1>1, <3>5 DEF Linear
      <4>2. Within(d, p, e)
        BY <1>1, <1>2, <3>5, <3>6, <3>8, <4>1, Around
      <4> QED
        BY <1>1, <1>2, <3>1, <3>8, <4>2 DEF Family
    <3> QED
      BY <3>2, <3>7, <3>8
  <2>5. ASSUME NEW x \in A \ (F \cup {Main}) PROVE x \in new[par[x]] \/ x = p \/ Within(d, x, p)
    <3>1. par[x] \in A /\ x # c
      BY <1>1 DEF Family
    <3>2. x \in O[par[x]] \/ Within(d, x, c)
      BY <3>1 DEF Course, Waits
    <3>3. Within(d, x, c) => x = p \/ Within(d, x, p)
      BY <1>1 DEF Family
    <3> QED
      BY <3>1, <3>2, <3>3
  <2> QED
    BY <2>1, <2>3, <2>4, <2>5 DEF Waits
<1> QED
  BY <1>1, <1>6, <1>7 DEF Course

-----------------------------------------------------------------------------
(* A request that has not ended produces a buffer.                         *)
LEMMA CoursePiece ==
    ASSUME Apart, NEW d, NEW A, NEW par, NEW O, NEW S, NEW c, NEW E, Course(d, A, par, O, S, c, E),
           NEW r \in A, r \notin E, NEW n \in Pieces, n[1] = r, n \notin ToSet(d),
           NEW w, Linear(w), Inserted(d, r, n, w),
           NEW new, new[r] = O[r] \cup {n}, \A x \in A \ {r} : new[x] = O[x]
    PROVE  Course(w, A, par, new, S, c, E)
<1> DEFINE P == ToSet(d) \cap Pieces
           Q == ToSet(w) \cap Pieces
<1>1. /\ Bounded(d, A) /\ Family(d, A, par) /\ Linear(d)
      /\ \A x \in A : x \notin Pieces /\ x \in ToSet(d) /\ Opening(x) \in ToSet(d)
      /\ c \in A /\ c \notin E
  BY InBounds DEF Course, Bounded, Apart, Sending
<1>2. /\ Bounded(w, A)
      /\ \A x, y \in A : Within(w, x, y) <=> Within(d, x, y)
  BY <1>1, BoundedPiece
<1>3. Family(w, A, par)
  BY <1>1, <1>2, FamilySame DEF Bounded
<1>4. /\ Q = P \cup {n} /\ n \notin P
      /\ \A x, y \in ToSet(d) : Before(w, x, y) <=> Before(d, x, y)
      /\ \A x \in ToSet(d) : Before(w, x, n) <=> Before(d, x, r)
      /\ \A x \in ToSet(d) : Before(w, n, x) <=> (x = r \/ Before(d, r, x))
  BY DEF Inserted
<1>5. S \subseteq P /\ n \notin S /\ \A y \in S : y \in ToSet(d)
  BY DEF Course, Sending
<1>6. ASSUME NEW x \in E \cap A, Before(w, Opening(x), n), Before(w, n, x) PROVE FALSE
  <2>1. x # r /\ Before(d, Opening(x), r) /\ Before(d, r, x)
    BY <1>1, <1>4, <1>6
  <2>2. Within(d, x, r)
    BY <1>1, <2>1, Around
  <2> QED
    BY <2>2 DEF Course, Sending
<1>7. Sending(w, A, S, c, E)
  <2>1. ASSUME NEW x \in Q, NEW y \in S, Before(w, x, y) PROVE x \in S
    <3>1. CASE x = n
      <4>1. y # r /\ Before(d, r, y)
        BY <1>1, <1>4, <1>5, <2>1, <3>1
      <4>2. Before(d, y, r)
        BY DEF Course, Sending
      <4> QED
        BY <1>1, <4>1, <4>2 DEF Linear
    <3>2. CASE x \in P
      BY <1>4, <1>5, <2>1, <3>2 DEF Course, Sending
    <3> QED
      BY <1>4, <3>1, <3>2
  <2>2. \A x \in A \ E, y \in S : Before(w, y, x)
    BY <1>1, <1>4, <1>5 DEF Course, Sending
  <2>3. \A x \in A \ E : Before(w, x, c) => Within(w, c, x)
    BY <1>1, <1>2, <1>4 DEF Course, Sending
  <2>4. ASSUME NEW x \in E \cap A, NEW q \in Q, Before(w, Opening(x), q), Before(w, q, x)
        PROVE  q \in S
    <3>1. q \in P
      BY <1>4, <1>6, <2>4
    <3> QED
      BY <1>1, <1>4, <2>4, <3>1 DEF Course, Sending
  <2>5. \A x \in E \cap A, y \in A : Within(w, x, y) => y \in E
    BY <1>2 DEF Course, Sending
  <2>6. c \in A /\ c \notin E /\ Main \notin E /\ S \subseteq Q
    BY <1>4, <1>5 DEF Course, Sending
  <2> QED
    BY <2>1, <2>2, <2>3, <2>4, <2>5, <2>6 DEF Sending
<1>8. Waits(w, A, par, new, S, c, E)
  <2>1. ASSUME NEW q \in Q \ S PROVE q \in new[q[1]]
    <3>1. CASE q = n
      BY <3>1
    <3>2. CASE q \in P
      <4>1. q \in O[q[1]] /\ q[1] \in A
        BY <1>1, <2>1, <3>2 DEF Course, Waits, Bounded
      <4> QED
        BY <4>1
    <3> QED
      BY <1>4, <3>1, <3>2
  <2>2. \A x \in A : \A e \in new[x] : e \in O[x] \/ (e = n /\ x = r)
    OBVIOUS
  <2>3. ASSUME NEW x \in A, NEW e \in new[x]
        PROVE  \/ e \in Q \ S /\ e[1] = x
               \/ e \in A \ (E \cup {Main}) /\ par[e] = x
    <3>1. CASE e \in O[x]
      BY <1>4, <3>1 DEF Course, Waits
    <3>2. CASE e = n /\ x = r
      BY <1>4, <1>5, <3>2
    <3> QED
      BY <2>2, <3>1, <3>2
  <2>4. ASSUME NEW x \in A, NEW e \in new[x], Within(w, x, c) PROVE e = c \/ Before(w, c, e)
    <3>0. Within(d, x, c)
      BY <1>1, <1>2, <2>4
    <3>1. CASE e \in O[x]
      <4>1. e = c \/ Before(d, c, e)
        BY <3>0, <3>1 DEF Course, Waits
      <4>2. e \in ToSet(d)
        BY <1>1, <3>1 DEF Course, Waits
      <4> QED
        BY <1>1, <1>4, <4>1, <4>2
    <3>2. CASE e = n /\ x = r
      <4>1. Before(d, c, r)
        BY <3>0, <3>2, <1>1, WithinOrder
      <4> QED
        BY <1>1, <1>4, <3>2, <4>1
    <3> QED
      BY <2>2, <3>1, <3>2
  <2>5. ASSUME NEW x \in A \ (E \cup {Main}) PROVE x \in new[par[x]] \/ x = c \/ Within(w, x, c)
    <3>1. par[x] \in A
      BY <1>1 DEF Family
    <3>2. x \in O[par[x]] \/ x = c \/ Within(d, x, c)
      BY DEF Course, Waits
    <3> QED
      BY <1>1, <1>2, <3>1, <3>2
  <2> QED
    BY <2>1, <2>3, <2>4, <2>5 DEF Waits
<1> QED
  BY <1>2, <1>3, <1>7, <1>8 DEF Course

(* A request that has not ended asks for a subrequest.                     *)
LEMMA CourseSub ==
    ASSUME Apart, \A x, y \in Reqs : Opening(x) # y,
           \A x \in Reqs, q \in Pieces : q # x /\ q # Opening(x),
           NEW d, NEW A, NEW par, NEW O, NEW S, NEW c, NEW E, Course(d, A, par, O, S, c, E),
           NEW r \in A, r \notin E, NEW s \in Reqs, s \notin A, s \notin E, s # Main,
           NEW w, Opened(d, r, s, w),
           NEW next, next[s] = r, \A x \in A : next[x] = par[x],
           NEW new, new[r] = O[r] \cup {s}, new[s] = {}, \A x \in A \ {r} : new[x] = O[x]
    PROVE  Course(w, A \cup {s}, next, new, S, c, E)
<1> DEFINE P == ToSet(d) \cap Pieces
           B == A \cup {s}
<1>1. /\ Bounded(d, A) /\ Family(d, A, par) /\ Linear(d)
      /\ \A x \in A : x \notin Pieces /\ x \in ToSet(d) /\ Opening(x) \in ToSet(d) /\ x \in Reqs
      /\ c \in A /\ c \notin E
  BY InBounds DEF Course, Bounded, Apart, Sending
<1>2. Bounded(w, B) /\ Family(w, B, next)
  BY <1>1, BoundedSub, FamilySub
<1>3. /\ \A x, y \in A : Within(w, x, y) <=> Within(d, x, y)
      /\ \A x \in A : Within(w, x, s) <=> (x = r \/ Within(d, x, r))
      /\ \A y \in B : ~Within(w, s, y)
  <2>1. \A x \in A : Opening(x) # r
    BY <1>1
  <2> QED
    BY <1>1, <2>1, SubWithin
<1>4. /\ ToSet(w) \cap Pieces = P
      /\ \A x, y \in ToSet(d) : Before(w, x, y) <=> Before(d, x, y)
      /\ \A x \in ToSet(d) : /\ Before(w, x, s) <=> Before(d, x, r)
                             /\ Before(w, s, x) <=> (x = r \/ Before(d, r, x))
      /\ Linear(w)
  BY DEF Opened
<1>5. S \subseteq P /\ \A y \in S : y \in ToSet(d)
  BY DEF Course, Sending
<1>6. Sending(w, B, S, c, E)
  <2>1. \A x, y \in P : y \in S /\ Before(w, x, y) => x \in S
    BY <1>4 DEF Course, Sending
  <2>2. ASSUME NEW x \in B \ E, NEW y \in S PROVE Before(w, y, x)
    <3>1. CASE x \in A
      BY <1>1, <1>4, <1>5, <2>2, <3>1 DEF Course, Sending
    <3>2. CASE x = s
      BY <1>4, <1>5, <3>2 DEF Course, Sending
    <3> QED
      BY <3>1, <3>2
  <2>3. ASSUME NEW x \in B \ E, Before(w, x, c) PROVE Within(w, c, x)
    <3>1. CASE x \in A
      BY <1>1, <1>3, <1>4, <2>3, <3>1 DEF Course, Sending
    <3>2. CASE x = s
      <4>1. c = r \/ Before(d, r, c)
        BY <1>1, <1>4, <2>3, <3>2
      <4>2. c = r \/ Within(d, c, r)
        BY <4>1 DEF Course, Sending
      <4> QED
        BY <1>1, <1>3, <3>2, <4>2
    <3> QED
      BY <3>1, <3>2
  <2>4. ASSUME NEW x \in E \cap B, NEW q \in P, Before(w, Opening(x), q), Before(w, q, x)
        PROVE  q \in S
    <3>1. x \in A
      OBVIOUS
    <3> QED
      BY <1>1, <1>4, <2>4, <3>1 DEF Course, Sending
  <2>5. ASSUME NEW x \in E \cap B, NEW y \in B, Within(w, x, y) PROVE y \in E
    <3>1. x \in A
      OBVIOUS
    <3>2. CASE y \in A
      BY <1>3, <2>5, <3>1, <3>2 DEF Course, Sending
    <3>3. CASE y = s
      BY <1>3, <2>5, <3>1, <3>3 DEF Course, Sending
    <3> QED
      BY <3>2, <3>3
  <2>6. c \in B /\ c \notin E /\ Main \notin E /\ S \subseteq P
    BY <1>1, <1>5 DEF Course, Sending
  <2> QED
    BY <1>4, <2>1, <2>2, <2>3, <2>4, <2>5, <2>6 DEF Sending
<1>7. Waits(w, B, next, new, S, c, E)
  <2>1. ASSUME NEW q \in P \ S PROVE q \in new[q[1]]
    <3>1. q \in O[q[1]] /\ q[1] \in A
      BY <1>1, <2>1 DEF Course, Waits, Bounded
    <3> QED
      BY <3>1
  <2>2. \A x \in B : \A e \in new[x] : x \in A /\ (e \in O[x] \/ (e = s /\ x = r))
    OBVIOUS
  <2>3. ASSUME NEW x \in B, NEW e \in new[x]
        PROVE  \/ e \in P \ S /\ e[1] = x
               \/ e \in B \ (E \cup {Main}) /\ next[e] = x
    <3>1. CASE x \in A /\ e \in O[x]
      BY <3>1 DEF Course, Waits
    <3>2. CASE e = s /\ x = r
      BY <3>2
    <3> QED
      BY <2>2, <2>3, <3>1, <3>2
  <2>4. ASSUME NEW x \in B, NEW e \in new[x], Within(w, x, c) PROVE e = c \/ Before(w, c, e)
    <3>0. x \in A /\ Within(d, x, c)
      BY <1>1, <1>3, <2>2, <2>4
    <3>1. CASE e \in O[x]
      <4>1. e = c \/ Before(d, c, e)
        BY <3>0, <3>1 DEF Course, Waits
      <4>2. e \in ToSet(d)
        BY <1>1, <3>0, <3>1 DEF Course, Waits
      <4> QED
        BY <1>1, <1>4, <4>1, <4>2
    <3>2. CASE e = s /\ x = r
      <4>1. Before(d, c, r)
        BY <3>0, <3>2, <1>1, WithinOrder
      <4> QED
        BY <1>1, <1>4, <3>2, <4>1
    <3> QED
      BY <2>2, <2>4, <3>1, <3>2
  <2>5. ASSUME NEW x \in B \ (E \cup {Main}) PROVE x \in new[next[x]] \/ x = c \/ Within(w, x, c)
    <3>1. CASE x = s
      BY <3>1
    <3>2. CASE x \in A
      <4>1. par[x] \in A /\ next[x] = par[x]
        BY <1>1, <2>5, <3>2 DEF Family
      <4>2. x \in O[par[x]] \/ x = c \/ Within(d, x, c)
        BY <2>5, <3>2 DEF Course, Waits
      <4> QED
        BY <1>1, <1>3, <3>2, <4>1, <4>2
    <3> QED
      BY <3>1, <3>2
  <2> QED
    BY <1>4, <2>1, <2>3, <2>4, <2>5 DEF Waits
<1> QED
  BY <1>2, <1>6, <1>7 DEF Course

-----------------------------------------------------------------------------
(* The list q is in the order of the document d.                           *)
Sorted(d, q) == \A i, j \in DOMAIN q : i < j => Before(d, q[i], q[j])

(* Two lists in order, the one before the other, are one list in order.    *)
LEMMA SortedJoin ==
    ASSUME NEW d, NEW S, NEW a \in Seq(S), NEW b \in Seq(S), Sorted(d, a), Sorted(d, b),
           \A x \in ToSet(a), y \in ToSet(b) : Before(d, x, y)
    PROVE  Sorted(d, a \o b) /\ ToSet(a \o b) = ToSet(a) \cup ToSet(b)
<1> DEFINE w == a \o b
           l == Len(a)
           m == Len(b)
<1>1. /\ l \in Nat /\ m \in Nat /\ w \in Seq(S) /\ Len(w) = l + m
      /\ \A i \in 1 .. l + m : w[i] = IF i <= l THEN a[i] ELSE b[i - l]
  BY ConcatProperties
<1>2. DOMAIN a = 1 .. l /\ DOMAIN b = 1 .. m /\ DOMAIN w = 1 .. l + m
  BY <1>1
<1> HIDE DEF w, l, m
<1>3. ASSUME NEW i \in 1 .. l + m
      PROVE  \/ i <= l /\ i \in DOMAIN a /\ w[i] = a[i] /\ w[i] \in ToSet(a)
             \/ i > l /\ i - l \in DOMAIN b /\ w[i] = b[i - l] /\ w[i] \in ToSet(b)
  <2>1. CASE i <= l
    BY <1>1, <1>2, <2>1 DEF ToSet
  <2>2. CASE i > l
    <3>1. i - l \in 1 .. m /\ ~(i <= l)
      BY <1>1, <2>2
    <3> QED
      BY <1>1, <1>2, <2>2, <3>1 DEF ToSet
  <2> QED
    BY <1>1, <2>1, <2>2
<1>4. ASSUME NEW i \in 1 .. l + m, NEW j \in 1 .. l + m, i < j PROVE Before(d, w[i], w[j])
  <2>1. CASE i > l
    <3>1. j > l /\ i - l < j - l
      BY <1>1, <1>4, <2>1
    <3> QED
      BY <1>1, <1>3, <2>1, <3>1 DEF Sorted
  <2>2. CASE j <= l
    <3>1. i <= l
      BY <1>1, <1>4, <2>2
    <3> QED
      BY <1>1, <1>3, <1>4, <2>2, <3>1 DEF Sorted
  <2>3. CASE i <= l /\ j > l
    BY SMTT(30), <1>1, <1>3, <2>3
  <2> QED
    BY <1>1, <2>1, <2>2, <2>3
<1>5. ASSUME NEW x \in ToSet(a) \cup ToSet(b) PROVE x \in ToSet(w)
  <2>1. CASE x \in ToSet(a)
    <3>1. PICK i \in 1 .. l : x = a[i]
      BY <1>2, <2>1 DEF ToSet
    <3> QED
      BY SMTT(30), <1>1, <1>2, <3>1 DEF ToSet
  <2>2. CASE x \in ToSet(b)
    <3>1. PICK i \in 1 .. m : x = b[i]
      BY <1>2, <2>2 DEF ToSet
    <3>2. i + l \in 1 .. l + m /\ ~(i + l <= l) /\ (i + l) - l = i
      BY <1>1
    <3> QED
      BY <1>1, <1>2, <3>1, <3>2 DEF ToSet
  <2> QED
    BY <1>5, <2>1, <2>2
<1>6. ASSUME NEW x \in ToSet(w) PROVE x \in ToSet(a) \cup ToSet(b)
  BY <1>2, <1>3, <1>6 DEF ToSet
<1> QED
  BY <1>2, <1>4, <1>5, <1>6 DEF Sorted, w

(* A sequence is of any set that holds its elements.                       *)
LEMMA SeqWithin ==
    ASSUME NEW S, NEW T, NEW q \in Seq(S), \A x \in ToSet(q) : x \in T
    PROVE  q \in Seq(T)
<1>1. /\ Len(q) \in Nat /\ q \in [1 .. Len(q) -> S] /\ DOMAIN q = 1 .. Len(q)
  BY LenProperties
<1>2. \A i \in 1 .. Len(q) : q[i] \in T
  BY <1>1 DEF ToSet
<1>3. q \in [1 .. Len(q) -> T]
  BY <1>1, <1>2
<1> QED
  BY <1>1, <1>3, SeqDef

(* The elements of a sequence.                                             *)
LEMMA SeqElements ==
    ASSUME NEW S, NEW q \in Seq(S)
    PROVE  /\ \A x \in ToSet(q) : x \in S /\ \E i \in 1 .. Len(q) : x = q[i]
           /\ \A i \in 1 .. Len(q) : q[i] \in ToSet(q)
<1>1. /\ Len(q) \in Nat /\ q \in [1 .. Len(q) -> S] /\ DOMAIN q = 1 .. Len(q)
  BY LenProperties
<1> QED
  BY <1>1 DEF ToSet

(* A list is cut at one of its places.                                     *)
LEMMA SortedCut ==
    ASSUME NEW d, Linear(d), NEW S, NEW q \in Seq(S), Sorted(d, q), NEW i \in 1 .. Len(q),
           NEW rest \in Seq(S), Len(rest) = Len(q) - i,
           \A j \in 1 .. Len(q) - i : rest[j] = q[j + i]
    PROVE  LET a == SubSeq(q, 1, i - 1) IN
           /\ a \in Seq(S) /\ Sorted(d, a) /\ Sorted(d, rest)
           /\ ToSet(q) = ToSet(a) \cup {q[i]} \cup ToSet(rest)
           /\ \A x \in ToSet(a) : \E j \in 1 .. i - 1 : x = q[j]
           /\ \A x \in ToSet(a), y \in {q[i]} \cup ToSet(rest) : Before(d, x, y)
           /\ \A y \in ToSet(rest) : Before(d, q[i], y)
<1> DEFINE a == SubSeq(q, 1, i - 1)
           l == Len(q)
<1>1. /\ l \in Nat /\ DOMAIN q = 1 .. l /\ a \in Seq(S) /\ DOMAIN a = 1 .. i - 1
      /\ \A j \in 1 .. i - 1 : a[j] = q[j]
      /\ DOMAIN rest = 1 .. l - i /\ \A j \in 1 .. l - i : rest[j] = q[j + i]
  OBVIOUS
<1>2. /\ \A j \in 1 .. i - 1 : j \in 1 .. l /\ j < i
      /\ \A j \in 1 .. l - i : j + i \in 1 .. l /\ i < j + i
      /\ \A j \in 1 .. l : j \in 1 .. i - 1 \/ j = i \/ (j - i \in 1 .. l - i /\ (j - i) + i = j)
      /\ \A j \in 1 .. i - 1, k \in 1 .. l - i : j < k + i
      /\ \A j, k \in 1 .. l - i : j < k => j + i < k + i
  BY <1>1
<1>3. \A j, k \in 1 .. l : j < k => Before(d, q[j], q[k])
  BY <1>1 DEF Sorted
<1>4. /\ \A x : x \in ToSet(a) <=> \E j \in 1 .. i - 1 : x = q[j]
      /\ \A x : x \in ToSet(rest) <=> \E j \in 1 .. l - i : x = q[j + i]
      /\ \A x : x \in ToSet(q) <=> \E j \in 1 .. l : x = q[j]
  BY <1>1 DEF ToSet
<1> HIDE DEF a, l
<1>5. ToSet(q) = ToSet(a) \cup {q[i]} \cup ToSet(rest)
  <2>1. i \in 1 .. l
    BY DEF l
  <2>2. ASSUME NEW x \in ToSet(q) PROVE x \in ToSet(a) \cup {q[i]} \cup ToSet(rest)
    <3>1. PICK j \in 1 .. l : x = q[j]
      BY <1>4
    <3>2. CASE j \in 1 .. i - 1
      BY <1>4, <3>1, <3>2
    <3>3. CASE j = i
      BY <3>1, <3>3
    <3>4. CASE j - i \in 1 .. l - i /\ (j - i) + i = j
      BY <1>4, <3>1, <3>4
    <3> QED
      BY <1>2, <3>2, <3>3, <3>4
  <2> QED
    BY <1>2, <1>4, <2>1, <2>2
<1>6. Sorted(d, a)
  BY <1>1, <1>2, <1>3 DEF Sorted
<1>7. Sorted(d, rest)
  BY <1>1, <1>2, <1>3 DEF Sorted
<1>8. \A x \in ToSet(a), y \in {q[i]} \cup ToSet(rest) : Before(d, x, y)
  <2>1. i \in 1 .. l
    BY DEF l
  <2> QED
    BY SMTT(30), <1>2, <1>3, <1>4, <2>1
<1>9. \A y \in ToSet(rest) : Before(d, q[i], y)
  <2>1. i \in 1 .. l
    BY DEF l
  <2> QED
    BY <1>2, <1>3, <1>4, <2>1
<1> QED
  BY <1>1, <1>4, <1>5, <1>6, <1>7, <1>8, <1>9 DEF a

(* The rest of a list in order comes after its first.                      *)
LEMMA SortedTail ==
    ASSUME NEW d, Linear(d), NEW S, NEW q \in Seq(S), Sorted(d, q), 1 \in 1 .. Len(q),
           NEW rest \in Seq(S), Len(rest) = Len(q) - 1,
           \A j \in 1 .. Len(q) - 1 : rest[j] = q[j + 1]
    PROVE  Sorted(d, rest) /\ ToSet(rest) = ToSet(q) \ {q[1]}
<1> DEFINE a == SubSeq(q, 1, 1 - 1)
<1>1. /\ Sorted(d, rest) /\ ToSet(q) = ToSet(a) \cup {q[1]} \cup ToSet(rest)
      /\ \A x \in ToSet(a) : \E j \in 1 .. 1 - 1 : x = q[j]
      /\ \A y \in ToSet(rest) : Before(d, q[1], y)
  BY SortedCut
<1> HIDE DEF a
<1>2. ToSet(a) = {}
  BY <1>1
<1>3. q[1] \notin ToSet(rest)
  BY <1>1 DEF Linear
<1> QED
  BY <1>1, <1>2, <1>3

-----------------------------------------------------------------------------
(* The requests with a place in the document, and what waits in them.      *)
Documented == {x \in Reqs : req[x].write # "none" /\ ~req[x].background}
Gone == {x \in Documented : req[x].logged}
Parents == [x \in Reqs |-> req[x].parent]
(* What waits in a request: its list, then what it holds for a thread.     *)
Line(rq, x) == rq[x].postponed \o rq[x].held
Lines(rq) == [x \in Reqs |-> ToSet(Line(rq, x))]

(* What the client was sent is in the order of the document.               *)
SentSorted(d, q) == Sorted(d, q) /\ ToSet(q) \subseteq ToSet(d)

(* The same while out is put at the end of the list of r.                  *)
Listed(rq, r, out) ==
    [x \in Reqs |-> IF x = r THEN ToSet(rq[r].postponed \o out) ELSE ToSet(Line(rq, x))]

(* The postpone filter sends what has its turn: if a request's list and    *)
(* what it passes are in order, so is all that is sent, and the course     *)
(* goes on.                                                                *)
LEMMA FilterOrder ==
    ASSUME RequestsAssumption, Apart, NEW rq \in [Reqs -> Request], NEW r \in Reqs,
           NEW out \in {<<>>} \cup {<<p>> : p \in Pieces}, data \in Reqs, posted \in Seq(Reqs),
           sent \in Seq(Pieces), buffered \in BOOLEAN,
           PostponeFilter(rq, r, out),
           NEW d, NEW A, r \in A, NEW par, NEW E,
           Course(d, A, par, Listed(rq, r, out), ToSet(sent), data, E), SentSorted(d, sent),
           \A x \in A \ {r} : Sorted(d, Line(rq, x)), Sorted(d, rq[r].postponed \o out)
    PROVE  /\ Course(d, A, par, Lines(req'), ToSet(sent'), data', E) /\ SentSorted(d, sent')
           /\ \A x \in A : Sorted(d, Line(req', x))
           /\ Unfiltered(rq, r)
<1> DEFINE p == rq[r].postponed \o out
           S == Reqs \cup Pieces
           O == Listed(rq, r, out)
<1>1. /\ Unfiltered(rq, r) /\ sent' \in Seq(Pieces) /\ p \in Seq(S)
      /\ Unsent(r, p) \/ Passed(r, p) \/ \E i \in 1 .. Len(p) : Woken(r, p, i)
  BY Filter
<1>2. /\ Bounded(d, A) /\ Linear(d) /\ data \in A /\ A \subseteq Reqs
  BY DEF Course, Bounded, Sending
<1> HIDE DEF p
<1>3. O[r] = ToSet(p) /\ \A x \in A \ {r} : O[x] = ToSet(Line(rq, x))
  BY <1>2 DEF p, Listed
<1>0. Course(d, A, par, O, ToSet(sent), data, E)
  OBVIOUS
<1> HIDE DEF O
<1>4. \A x \in A \ {r} : Line(req', x) = Line(rq, x)
  BY <1>1, <1>2 DEF Unfiltered, Line
<1>5. /\ \A x \in A : Lines(req')[x] = ToSet(Line(req', x))
      /\ req'[r].postponed \in Seq(S) /\ Line(req', r) = req'[r].postponed
  <2>1. req'[r].held = <<>> /\ req'[r] \in Request
    BY <1>1 DEF Unfiltered
  <2>2. req'[r].postponed \in Seq(S)
    BY <2>1 DEF Request
  <2>3. req'[r].postponed \o <<>> = req'[r].postponed
    BY <2>2, ConcatEmptySeq
  <2> QED
    BY <1>2, <2>1, <2>2, <2>3 DEF Lines, Line
<1>6. \A x \in A \ {r} : Lines(req')[x] = O[x]
  BY <1>2, <1>3, <1>4, <1>5
<1>7. Sorted(d, p) /\ \A x \in A \ {r} : Sorted(d, Line(req', x))
  BY <1>4 DEF p
<1>8. ASSUME NEW x \in ToSet(sent), NEW g \in O[data] \cap Pieces PROVE Before(d, x, g)
  <2>1. g \in (ToSet(d) \cap Pieces) \ ToSet(sent)
    BY <1>0, <1>2 DEF Course, Waits, Apart
  <2>2. x \in ToSet(d) \cap Pieces
    BY <1>0 DEF Course, Sending
  <2>3. ~Before(d, g, x)
    BY <1>0, <2>1, <2>2 DEF Course, Sending
  <2> QED
    BY <1>2, <2>1, <2>2, <2>3 DEF Linear
<1>9. ASSUME NEW a \in Seq(Pieces), Sorted(d, a), ToSet(a) \subseteq O[data]
      PROVE  /\ SentSorted(d, sent \o a) /\ ToSet(sent \o a) = ToSet(sent) \cup ToSet(a)
  <2>1. ToSet(a) \subseteq O[data] \cap Pieces
    BY <1>9, SeqElements
  <2>2. Sorted(d, sent \o a) /\ ToSet(sent \o a) = ToSet(sent) \cup ToSet(a)
    BY <1>8, <1>9, <2>1, SortedJoin DEF SentSorted
  <2>3. ToSet(a) \subseteq ToSet(d)
    BY <1>0, <1>2, <2>1 DEF Course, Waits, Apart
  <2> QED
    BY <2>2, <2>3 DEF SentSorted
<1>10. CASE Unsent(r, p)
  <2>1. data' = data /\ sent' = sent /\ req'[r].postponed = p
    BY <1>10 DEF Unsent
  <2>2. Lines(req')[r] = O[r] /\ Sorted(d, Line(req', r))
    BY <1>3, <1>5, <1>7, <2>1
  <2>3. \A x \in A : Lines(req')[x] = O[x]
    BY <1>6, <2>2
  <2>4. Waits(d, A, par, Lines(req'), ToSet(sent), data, E)
    <3>1. \A q \in ToSet(d) \cap Pieces : q[1] \in A
      BY <1>2 DEF Bounded
    <3>2. \A x \in A \ {Main} : par[x] \in A
      BY <1>0 DEF Course, Family
    <3> QED
      BY <1>0, <2>3, <3>1, <3>2 DEF Course, Waits
  <2> QED
    BY <1>0, <1>1, <1>7, <2>1, <2>2, <2>4 DEF Course
<1>11. CASE Passed(r, p)
  <2>1. /\ r = data /\ data' = data /\ req'[r].postponed = <<>> /\ ~HasSub(p) /\ sent' = sent \o p
    BY <1>11 DEF Passed
  <2>2. p \in Seq(Pieces) /\ ToSet(p) \subseteq O[data] \cap Pieces
    <3>1. \A x \in ToSet(p) : x \in Pieces
      BY <1>1, <2>1, SeqElements DEF HasSub
    <3>2. p \in Seq(Pieces)
      BY <1>1, <3>1, SeqWithin
    <3> QED
      BY <1>3, <2>1, <3>1, <3>2
  <2>3. SentSorted(d, sent') /\ ToSet(sent') = ToSet(sent) \cup ToSet(p)
    BY <1>7, <1>9, <2>1, <2>2
  <2>4. Lines(req')[r] = {} /\ Sorted(d, Line(req', r))
    BY <1>5, <2>1 DEF ToSet, Sorted
  <2>5. Course(d, A, par, Lines(req'), ToSet(sent) \cup ToSet(p), data, E)
    <3>1. ToSet(p) \in SUBSET (O[data] \cap Pieces) /\ O[data] = ToSet(p)
      BY <1>3, <2>1, <2>2
    <3>2. Lines(req')[data] = O[data] \ ToSet(p) /\ \A x \in A \ {data} : Lines(req')[x] = O[x]
      BY <1>6, <2>1, <2>4, <3>1
    <3> QED
      BY <1>0, <3>1, <3>2, CourseSend
  <2> QED
    BY <1>1, <1>7, <2>1, <2>3, <2>4, <2>5
<1>12. ASSUME NEW i \in 1 .. Len(p), Woken(r, p, i)
       PROVE  /\ Course(d, A, par, Lines(req'), ToSet(sent'), data', E) /\ SentSorted(d, sent')
              /\ \A x \in A : Sorted(d, Line(req', x))
  <2> DEFINE a == SubSeq(p, 1, i - 1)
             k == p[i]
             rest == req'[r].postponed
  <2>1. /\ r = data /\ data' = k /\ k \in Reqs /\ sent' = sent \o a
        /\ \A j \in 1 .. i - 1 : p[j] \notin Reqs
        /\ Len(rest) = Len(p) - i /\ \A j \in 1 .. Len(p) - i : rest[j] = p[j + i]
    BY <1>12 DEF Woken
  <2>2. /\ a \in Seq(S) /\ Sorted(d, a) /\ Sorted(d, rest)
        /\ ToSet(p) = ToSet(a) \cup {k} \cup ToSet(rest)
        /\ \A x \in ToSet(a) : \E j \in 1 .. i - 1 : x = p[j]
        /\ \A x \in ToSet(a), y \in {k} \cup ToSet(rest) : Before(d, x, y)
        /\ \A y \in ToSet(rest) : Before(d, k, y)
    BY <1>1, <1>2, <1>5, <1>7, <2>1, SortedCut
  <2>3. a \in Seq(Pieces) /\ ToSet(a) \subseteq O[data] \cap Pieces
    <3> HIDE DEF a
    <3>3. ASSUME NEW x \in ToSet(a) PROVE x \notin Reqs
      <4>1. PICK j \in 1 .. i - 1 : x = p[j]
        BY <2>2
      <4> QED
        BY <2>1, <4>1
    <3>4. \A x \in ToSet(a) : x \in S
      BY <2>2, SeqElements
    <3>1. \A x \in ToSet(a) : x \notin Reqs /\ x \in S
      BY <3>3, <3>4
    <3>2. a \in Seq(Pieces)
      BY <2>2, <3>1, SeqWithin
    <3> QED
      BY <1>3, <2>1, <2>2, <3>1, <3>2
  <2> HIDE DEF a, k, rest
  <2>4. SentSorted(d, sent') /\ ToSet(sent') = ToSet(sent) \cup ToSet(a)
    BY <1>9, <2>1, <2>2, <2>3
  <2>5. PICK mid : mid = [x \in Reqs |-> IF x = r THEN O[r] \ ToSet(a) ELSE O[x]]
    OBVIOUS
  <2>6. Course(d, A, par, mid, ToSet(sent'), data, E)
    <3>1. ToSet(a) \in SUBSET (O[data] \cap Pieces)
      BY <2>3
    <3>2. \A g \in ToSet(a), e \in O[data] \ ToSet(a) : Before(d, g, e)
      BY <1>3, <2>1, <2>2
    <3>3. mid[data] = O[data] \ ToSet(a) /\ \A x \in A \ {data} : mid[x] = O[x]
      BY <1>2, <2>1, <2>5
    <3>4. Course(d, A, par, mid, ToSet(sent) \cup ToSet(a), data, E)
      BY <1>0, <3>1, <3>2, <3>3, CourseSend
    <3> QED
      BY <2>4, <3>4
  <2>7. k \notin ToSet(a) /\ \A y \in ToSet(rest) : y \notin ToSet(a) /\ y # k
    BY <1>2, <2>2 DEF Linear
  <2>8. mid[data] = {k} \cup ToSet(rest)
    BY <1>2, <1>3, <2>1, <2>2, <2>5, <2>7
  <2>9. Lines(req')[data] = ToSet(rest) /\ Sorted(d, Line(req', r))
    BY <1>2, <1>5, <2>1, <2>2 DEF rest
  <2>10. \A x \in A \ {data} : Lines(req')[x] = mid[x]
    BY <1>2, <1>6, <2>1, <2>5
  <2>11. k \in A
    <3>1. k \in mid[data]
      BY <2>8
    <3>2. k \notin Pieces
      BY <2>1 DEF Apart
    <3> QED
      BY <1>2, <2>6, <3>1, <3>2 DEF Course, Waits
  <2>12. Course(d, A, par, Lines(req'), ToSet(sent'), k, E)
    <3>1. \A e \in mid[data] : e = k \/ Before(d, k, e)
      BY <2>2, <2>8
    <3>2. /\ Lines(req')[data] \subseteq mid[data] /\ mid[data] \ {k} \subseteq Lines(req')[data]
          /\ k \in mid[data]
      BY <2>8, <2>9
    <3> QED
      BY <2>6, <2>10, <2>11, <3>1, <3>2, CourseTurn
  <2> QED
    BY <1>7, <2>1, <2>4, <2>9, <2>12
<1> QED
  BY <1>1, <1>10, <1>11, <1>12

-----------------------------------------------------------------------------
(* What is waiting and who is whose parent matters for documented requests.*)
LEMMA CourseSame ==
    ASSUME NEW d, NEW A, NEW par, NEW O, NEW S, NEW c, NEW E, Course(d, A, par, O, S, c, E),
           NEW new, NEW next, \A x \in A : new[x] = O[x] /\ next[x] = par[x]
    PROVE  Course(d, A, next, new, S, c, E)
<1>1. /\ Bounded(d, A) /\ Main \in A /\ \A q \in ToSet(d) \cap Pieces : q[1] \in A
      /\ \A x \in A \ {Main} : par[x] \in A
  BY DEF Course, Bounded, Family
<1>2. Family(d, A, next)
  BY <1>1 DEF Course, Family
<1>3. Waits(d, A, next, new, S, c, E)
  <2>1. Waits(d, A, par, O, S, c, E)
    BY DEF Course
  <2>2. \A q \in (ToSet(d) \cap Pieces) \ S : q \in new[q[1]]
    BY <1>1, <2>1 DEF Waits
  <2>3. \A x \in A : \A e \in new[x] :
          \/ e \in (ToSet(d) \cap Pieces) \ S /\ e[1] = x
          \/ e \in A \ (E \cup {Main}) /\ next[e] = x
    BY <2>1 DEF Waits
  <2>4. \A x \in A : \A e \in new[x] : Within(d, x, c) => e = c \/ Before(d, c, e)
    BY <2>1 DEF Waits
  <2>5. \A x \in A \ (E \cup {Main}) : x \in new[next[x]] \/ x = c \/ Within(d, x, c)
    BY <1>1, <2>1 DEF Waits
  <2> QED
    BY <2>2, <2>3, <2>4, <2>5 DEF Waits
<1> QED
  BY <1>1, <1>2, <1>3 DEF Course

(* What waits in the list of r comes before r.                             *)
LEMMA CourseBefore ==
    ASSUME NEW d, NEW A, NEW par, NEW O, NEW S, NEW c, NEW E, Course(d, A, par, O, S, c, E),
           NEW r \in A, NEW e \in O[r]
    PROVE  e \in ToSet(d) /\ Before(d, e, r)
<1>1. Bounded(d, A) /\ Family(d, A, par) /\ Waits(d, A, par, O, S, c, E)
  BY DEF Course
<1>2. CASE e \in (ToSet(d) \cap Pieces) \ S /\ e[1] = r
  BY <1>1, <1>2 DEF Bounded
<1>3. CASE e \in A \ (E \cup {Main}) /\ par[e] = r
  <2>1. Within(d, r, e) /\ e \in ToSet(d)
    BY <1>1, <1>3, InBounds DEF Family
  <2> QED
    BY <2>1 DEF Within
<1> QED
  BY <1>1, <1>2, <1>3 DEF Waits

(* A list keeps its order while the document grows.                        *)
LEMMA SortedMore ==
    ASSUME NEW d, NEW w, NEW q, Sorted(d, q), ToSet(q) \subseteq ToSet(d),
           \A x, y \in ToSet(d) : Before(w, x, y) <=> Before(d, x, y)
    PROVE  Sorted(w, q)
<1>1. \A i \in DOMAIN q : q[i] \in ToSet(d)
  BY DEF ToSet
<1> QED
  BY <1>1 DEF Sorted

(* What r produces, put at the end of its list.                            *)
Precedes(d, q, r) == \A e \in ToSet(q) : e \in ToSet(d) /\ Before(d, e, r)
(* Something new is written in front of r.                                 *)
Adds(d, w, r, n) ==
    /\ \A x, y \in ToSet(d) : Before(w, x, y) <=> Before(d, x, y)
    /\ \A x \in ToSet(d) : Before(w, x, n) <=> Before(d, x, r)

(* A list of one.                                                          *)
Only(b, n) == Len(b) = 1 /\ b[1] = n

(* What is new in front of r goes to the end of the list of r.             *)
LEMMA SortedAppend ==
    ASSUME NEW U, NEW q \in Seq(U), NEW b \in Seq(U), NEW n, Only(b, n),
           NEW d, Sorted(d, q), NEW r, Precedes(d, q, r), NEW w, Adds(d, w, r, n)
    PROVE  Sorted(w, q \o b) /\ ToSet(q \o b) = ToSet(q) \cup {n}
<1>1. \A e \in ToSet(q) : e \in ToSet(d) /\ Before(d, e, r)
  BY DEF Precedes
<1>2. Sorted(w, q)
  BY <1>1, SortedMore DEF Adds
<1>3. b \in Seq(U) /\ ToSet(b) = {n} /\ Sorted(w, b)
  BY DEF ToSet, Sorted, Only
<1>4. \A x \in ToSet(q), y \in ToSet(b) : Before(w, x, y)
  BY <1>1, <1>3 DEF Adds
<1>5. Sorted(w, q \o b) /\ ToSet(q \o b) = ToSet(q) \cup ToSet(b)
  BY <1>2, <1>3, <1>4, SortedJoin
<1> QED
  BY <1>3, <1>5

-----------------------------------------------------------------------------
(* What a document is made of.                                             *)
Places == Reqs \cup {Opening(x) : x \in Reqs} \cup Pieces

(* What was sent is what d begins with, and the requests L come after it.  *)
Ahead(d, q, L) ==
    /\ SentSorted(d, q)
    /\ \A x, y \in ToSet(d) \cap Pieces : y \in ToSet(q) /\ Before(d, x, y) => x \in ToSet(q)
    /\ \A x \in L, y \in ToSet(q) : Before(d, y, x)

(* The document is of the requests with a place in it and of the buffers   *)
(* they have produced.                                                     *)
Produced ==
    /\ document \in Seq(Places) /\ IsInjective(document)
    /\ Documented \subseteq ToSet(document)
    /\ ToSet(document) \subseteq Documented \cup {Opening(x) : x \in Documented} \cup Pieces
    /\ \A q \in ToSet(document) \cap Pieces : q[1] \in Documented /\ q[2] <= Buffers(q[1])

(* While nothing has been terminated, the course is kept, the lists are in *)
(* order and the main request ends with an empty list.                     *)
Ordered ==
    /\ Course(document, Documented, Parents, Lines(req), ToSet(sent), data, Gone)
    /\ \A x \in Documented : Sorted(document, Line(req, x))
    /\ req[Main].done => req[Main].postponed = <<>>

(* The invariant of the output.                                            *)
OInv ==
    /\ Produced /\ Ahead(document, sent, Documented \ Gone) /\ Whole
    /\ ~freed /\ ~terminated => Ordered

(* The course puts what was sent ahead of who has not ended.               *)
LEMMA CourseAhead ==
    ASSUME NEW d, NEW A, NEW par, NEW O, NEW q, NEW c, NEW E, Course(d, A, par, O, ToSet(q), c, E),
           SentSorted(d, q)
    PROVE  Ahead(d, q, A \ E)
BY DEF Course, Sending, Ahead

(* What was sent is in the order of the document, with nothing left out.   *)
LEMMA AheadInOrder ==
    ASSUME Ahead(document, sent, Documented \ Gone)
    PROVE  InOrder
BY DEF Ahead, InOrder, SentSorted, Sorted

(* A step that produces and sends nothing.                                 *)
Unread ==
    /\ document' = document /\ sent' = sent /\ Documented' = Documented
    /\ \A x \in Documented : /\ req'[x].parent = req[x].parent /\ req'[x].doc = req[x].doc
                            /\ req'[x].logged = req[x].logged

(* A step that changes neither who has a place nor what they produced.     *)
Unaltered ==
    /\ document' = document /\ sent' = sent
    /\ \A x \in Reqs :
          /\ req'[x].write = "none" <=> req[x].write = "none"
          /\ req'[x].background = req[x].background
          /\ req'[x].parent = req[x].parent /\ req'[x].doc = req[x].doc
          /\ req'[x].logged = req[x].logged \/ req[x].background

(* A step that leaves the lists and the active request as they were.       *)
Unmoved ==
    /\ data' = data
    /\ \A x \in Documented : req'[x].postponed = req[x].postponed /\ req'[x].held = req[x].held
    /\ req'[Main].done => req[Main].done \/ req[Main].postponed = <<>>

(* Who has a place depends on being created in the foreground.             *)
LEMMA UnalteredUnread ==
    ASSUME Unaltered
    PROVE  Unread
<1>1. Documented' = Documented
  BY DEF Documented, Unaltered
<1> QED
  BY <1>1 DEF Unaltered, Unread, Documented

(* What was produced, and sent, is then as it was.                         *)
LEMMA UnreadSame ==
    ASSUME RequestsAssumption, Unread
    PROVE  /\ Gone' = Gone /\ \A x \in Documented : Parents'[x] = Parents[x]
           /\ Produced => Produced'
           /\ \A L : Ahead(document, sent, L) => Ahead(document', sent', L)
<1>1. Documented \subseteq Reqs
  BY DEF Documented
<1>2. Gone' = Gone
  BY DEF Gone, Unread
<1>3. \A x \in Documented : Parents'[x] = Parents[x]
  BY <1>1 DEF Parents, Unread
<1>4. \A x \in Documented : Buffers(x)' = Buffers(x)
  BY DEF Buffers, Unread
<1>5. Produced => Produced'
  <2>1. document' = document /\ Documented' = Documented
    BY DEF Unread
  <2>2. ASSUME Produced
        PROVE  \A q \in ToSet(document) \cap Pieces : q[1] \in Documented /\ q[2] <= Buffers(q[1])'
    BY <1>4, <2>2 DEF Produced
  <2> QED
    BY <2>1, <2>2 DEF Produced
<1>6. document' = document /\ sent' = sent
  BY DEF Unread
<1> QED
  BY <1>2, <1>3, <1>5, <1>6

(* A step that produces, sends and moves nothing keeps the invariant.      *)
LEMMA QuietStep ==
    ASSUME RequestsAssumption, OInv, Unread,
           terminated => terminated', freed' => freed \/ terminated' \/ Whole',
           freed => freed', ~freed' /\ ~terminated' => Unmoved
    PROVE  OInv'
<1>1. /\ Documented' = Documented /\ Gone' = Gone /\ Produced'
      /\ \A x \in Documented : Parents'[x] = Parents[x]
      /\ Ahead(document', sent', Documented \ Gone)
  BY UnreadSame DEF OInv, Unread
<1>2. Whole'
  <2>1. document' = document /\ sent' = sent
    BY DEF Unread
  <2> QED
    BY <2>1 DEF OInv, Whole
<1>3. ASSUME ~freed', ~terminated' PROVE Ordered'
  <2>1. Ordered /\ Unmoved
    BY <1>3 DEF OInv
  <2>2. \A x \in Documented : Line(req', x) = Line(req, x)
    BY <2>1 DEF Unmoved, Line
  <2>3. \A x \in Documented : Lines(req')[x] = Lines(req)[x]
    BY <2>2 DEF Lines, Documented
  <2>4. document' = document /\ sent' = sent /\ data' = data
    BY <2>1 DEF Unread, Unmoved
  <2>5. Lines(req)' = Lines(req')
    BY DEF Lines, Line
  <2>6. req'[Main].done => req'[Main].postponed = <<>>
    <3>1. Main \in Documented
      BY <2>1 DEF Ordered, Course, Bounded
    <3> QED
      BY <2>1, <3>1 DEF Ordered, Unmoved
  <2>8. Course(document, Documented, Parents', Lines(req'), ToSet(sent), data, Gone)
    BY <1>1, <2>1, <2>3, CourseSame DEF Ordered
  <2>7. \A x \in Documented : Sorted(document', Line(req', x))
    <3>1. Documented \subseteq Reqs
      BY DEF Documented
    <3> QED
      BY <2>1, <2>2, <2>4, <3>1 DEF Ordered
  <2> QED
    BY <1>1, <2>4, <2>5, <2>6, <2>7, <2>8 DEF Ordered, Line
<1>4. Ahead(document, sent, Documented \ Gone)' 
  BY <1>1 DEF Ahead, SentSorted, Sorted, Before
<1> QED
  BY <1>1, <1>2, <1>3, <1>4 DEF OInv

-----------------------------------------------------------------------------
(* A step that changes no request keeps it.                                *)
LEMMA SameReq ==
    ASSUME RequestsAssumption, IInv, OInv, UNCHANGED <<req, data, document, sent>>,
           terminated => terminated', freed => freed', freed' => freed \/ terminated'
    PROVE  OInv'
<1>1. req' \in [Reqs -> Request] /\ Main \in Reqs
  BY Constants DEF IInv, Types
<1>2. Unread /\ Unmoved
  BY <1>1, UnalteredUnread DEF Unaltered, Unmoved
<1> QED
  BY <1>1, <1>2, QuietStep

(* One request changes.                                                    *)
Turned(r, v) ==
    /\ v \in Request /\ req' = [req EXCEPT ![r] = v]
    /\ v.write = "none" <=> req[r].write = "none"
    /\ v.background = req[r].background /\ v.parent = req[r].parent /\ v.doc = req[r].doc
    /\ v.logged = req[r].logged \/ req[r].background
    /\ v.postponed = req[r].postponed /\ v.held = req[r].held
    /\ r = Main /\ v.done => req[r].done \/ req[r].postponed = <<>>

(* A step that changes one request, and not its output, keeps it.          *)
LEMMA OneTurned ==
    ASSUME RequestsAssumption, IInv, OInv, NEW r \in Reqs, NEW v, Turned(r, v),
           UNCHANGED <<data, document, sent, terminated>>,
           freed => freed', freed' => freed \/ terminated \/ Whole'
    PROVE  OInv'
<1>1. req \in [Reqs -> Request] /\ Main \in Reqs
  BY Constants DEF IInv, Types
<1>2. req' \in [Reqs -> Request] /\ req'[r] = v /\ \A x \in Reqs \ {r} : req'[x] = req[x]
  BY <1>1 DEF Turned
<1>3. Unread /\ Unmoved
  <2>1. Unaltered
    BY <1>1, <1>2 DEF Unaltered, Turned
  <2>2. Unmoved
    BY <1>1, <1>2 DEF Unmoved, Turned, Documented
  <2> QED
    BY <2>1, <2>2, UnalteredUnread
<1> QED
  BY <1>2, <1>3, QuietStep

(* A worker that is busy with the request has not freed it.                *)
LEMMA NotFreed ==
    ASSUME IInv, step.op \notin {"loop", "rest"}
    PROVE  ~freed
BY DEF IInv, Freed, Loop, Rest

(* A content handler that waits, fails or goes to an upstream.             *)
LEMMA QuietContent ==
    ASSUME RequestsAssumption, IInv, OInv, NEW r \in Reqs,
           WaitSubrequest(r) \/ ContentFails(r) \/ StartUpstream(r) \/ UpstreamAgain(r)
    PROVE  OInv'
<1>1. req \in [Reqs -> Request] /\ req[r] \in Request
  BY DEF IInv, Types
<1>2. CASE WaitSubrequest(r) \/ ContentFails(r)
  BY <1>2, SameReq DEF WaitSubrequest, ContentFails
<1>3. CASE StartUpstream(r)
  <2> DEFINE v == [req[r] EXCEPT !.write = "upstream", !.ext = TRUE]
  <2>1. req' = [req EXCEPT ![r] = v] /\ req[r].write = "handler"
    BY <1>1, <1>3 DEF StartUpstream
  <2>2. v \in Request
    BY <1>1 DEF Request, Handlers
  <2>3. Turned(r, v)
    BY <1>1, <2>1, <2>2 DEF Turned, Request
  <2> HIDE DEF v
  <2> QED
    BY <1>3, <2>3, OneTurned DEF StartUpstream
<1>4. CASE UpstreamAgain(r)
  <2> DEFINE v == [req[r] EXCEPT !.ext = TRUE]
  <2>1. req' = [req EXCEPT ![r] = v]
    BY <1>1, <1>4 DEF UpstreamAgain
  <2>2. v \in Request
    BY <1>1 DEF Request, Handlers
  <2>3. Turned(r, v)
    BY <1>1, <2>1, <2>2 DEF Turned, Request
  <2> HIDE DEF v
  <2> QED
    BY <1>4, <2>3, OneTurned DEF UpstreamAgain
<1> QED
  BY <1>2, <1>3, <1>4

(* A finalization that leaves output behind, or out of turn.               *)
LEMMA QuietFinalize ==
    ASSUME RequestsAssumption, IInv, OInv, NEW r \in Reqs, FinalizeLater(r) \/ FinalizeInactive(r)
    PROVE  OInv'
<1>1. /\ req \in [Reqs -> Request] /\ req[r] \in Request
      /\ req[r].write \in {"handler", "upstream", "writer", "finalizer"}
  BY EndingFacts DEF IInv, Types, FinalizeLater, FinalizeInactive
<1>2. CASE FinalizeLater(r)
  <2> DEFINE v == [req[r] EXCEPT !.write = "writer"]
  <2>1. req' = [req EXCEPT ![r] = v]
    BY <1>1, <1>2 DEF FinalizeLater, WriterSet
  <2>2. v \in Request
    BY <1>1 DEF Request, Handlers
  <2>3. Turned(r, v)
    BY <1>1, <2>1, <2>2 DEF Turned, Request
  <2> HIDE DEF v
  <2> QED
    BY <1>2, <2>3, OneTurned DEF FinalizeLater
<1>3. CASE FinalizeInactive(r)
  <2> DEFINE v == [req[r] EXCEPT !.write = "finalizer", !.done = req[r].waited]
  <2>1. req' = [req EXCEPT ![r] = v] /\ req[r].postponed = <<>>
    BY <1>1, <1>3 DEF FinalizeInactive, Inactive, Drained
  <2>2. v \in Request
    BY <1>1 DEF Request, Handlers
  <2>3. Turned(r, v)
    BY <1>1, <2>1, <2>2 DEF Turned, Request
  <2> HIDE DEF v
  <2> QED
    BY <1>3, <2>3, OneTurned DEF FinalizeInactive
<1> QED
  BY <1>2, <1>3

(* The events of an upstream and of a thread.                              *)
LEMMA QuietEvents ==
    ASSUME RequestsAssumption, IInv, OInv, NEW r \in Reqs, UpstreamEvent(r) \/ AioDone(r)
    PROVE  OInv'
<1>1. req \in [Reqs -> Request] /\ req[r] \in Request
  BY DEF IInv, Types
<1>2. CASE UpstreamEvent(r)
  <2> DEFINE v == [req[r] EXCEPT !.ext = FALSE]
  <2>1. req' = [req EXCEPT ![r] = v]
    BY <1>1, <1>2 DEF UpstreamEvent
  <2>2. v \in Request
    BY <1>1 DEF Request, Handlers
  <2>3. Turned(r, v)
    BY <1>1, <2>1, <2>2 DEF Turned, Request
  <2> HIDE DEF v
  <2> QED
    BY <1>2, <2>3, OneTurned DEF UpstreamEvent
<1>3. CASE AioDone(r)
  <2> DEFINE v == [req[r] EXCEPT !.aio = FALSE]
  <2>1. req' = [req EXCEPT ![r] = v]
    BY <1>1, <1>3 DEF AioDone
  <2>2. v \in Request
    BY <1>1 DEF Request, Handlers
  <2>3. Turned(r, v)
    BY <1>1, <2>1, <2>2 DEF Turned, Request
  <2> HIDE DEF v
  <2> QED
    BY <1>3, <2>3, OneTurned DEF AioDone
<1> QED
  BY <1>2, <1>3

(* The events of the client's connection.                                  *)
LEMMA QuietClient ==
    ASSUME RequestsAssumption, IInv, OInv, ClientWrite \/ ClientGone
    PROVE  OInv'
<1>1. data \in Reqs /\ req \in [Reqs -> Request] /\ req[data] \in Request
  BY DEF IInv, Types
<1>2. CASE ClientWrite
  BY <1>2, SameReq DEF ClientWrite
<1>3. CASE ClientGone
  <2> DEFINE v == [req[data] EXCEPT !.ext = FALSE]
  <2>1. req' = [req EXCEPT ![data] = v]
    BY <1>1, <1>3 DEF ClientGone
  <2>2. v \in Request
    BY <1>1 DEF Request, Handlers
  <2>3. Turned(data, v)
    BY <1>1, <2>1, <2>2 DEF Turned, Request
  <2> HIDE DEF v
  <2> QED
    BY <1>1, <1>3, <2>3, OneTurned DEF ClientGone
<1> QED
  BY <1>2, <1>3

(* The worker's loop over the posted requests.                             *)
LEMMA QuietLoop ==
    ASSUME RequestsAssumption, IInv, OInv,
           \/ LoopEnds \/ RunPosted \/ RunTerminate \/ UNCHANGED vars
           \/ \E r \in Reqs : RunHandler(r) \/ RunIdle(r) \/ RunFinalizer(r) \/ RunWriterFails(r)
    PROVE  OInv'
<1>1. CASE LoopEnds \/ RunPosted \/ UNCHANGED vars
           \/ \E r \in Reqs : RunHandler(r) \/ RunIdle(r) \/ RunFinalizer(r)
  BY <1>1, SameReq DEF LoopEnds, RunPosted, RunHandler, RunIdle, RunFinalizer, vars
<1>3. CASE \E r \in Reqs : RunWriterFails(r)
  BY <1>3, SameReq DEF RunWriterFails
<1>2. CASE RunTerminate
  <2>1. Main \in Reqs /\ step.op = "run" /\ req[Main].write = "terminate"
    BY <1>2, Constants DEF RunTerminate, Running, Run
  <2>2. ~freed
    BY <2>1, NotFreed
  <2>3. terminated
    BY <2>1, <2>2 DEF IInv, Handled
  <2> QED
    BY <1>2, <2>2, <2>3, SameReq DEF RunTerminate
<1> QED
  BY <1>1, <1>2, <1>3

(* A termination: from here on nothing is promised but the order.          *)
LEMMA QuietTerminate ==
    ASSUME RequestsAssumption, IInv, OInv, IInv', ~freed, NEW refs, Terminate(refs)
    PROVE  OInv'
<1>1. req \in [Reqs -> Request] /\ data \in Reqs /\ Main \in Reqs /\ req' \in [Reqs -> Request]
  BY Constants DEF IInv, Types
<1>2. PICK w \in Reqs, h \in {"finalizer", "terminate"} :
          req' = [[r \in Reqs |-> [req[r] EXCEPT !.ext = FALSE]] EXCEPT ![w].write = h]
               /\ req[w].write # "none"
  BY <1>1 DEF Terminate, TerminateFrom, IInv, Existing
<1>3. Unread
  <2> DEFINE rq == [r \in Reqs |-> [req[r] EXCEPT !.ext = FALSE]]
  <2>1. \A x \in Reqs : /\ rq[x].write = req[x].write /\ rq[x].background = req[x].background
                        /\ rq[x].parent = req[x].parent /\ rq[x].doc = req[x].doc
                        /\ rq[x].logged = req[x].logged /\ rq[x] \in Request
    <3> SUFFICES ASSUME NEW x \in Reqs
                 PROVE  /\ rq[x].write = req[x].write /\ rq[x].background = req[x].background
                        /\ rq[x].parent = req[x].parent /\ rq[x].doc = req[x].doc
                        /\ rq[x].logged = req[x].logged /\ rq[x] \in Request
      OBVIOUS
    <3>1. req[x] \in Request /\ rq[x] = [req[x] EXCEPT !.ext = FALSE]
      BY <1>1
    <3> HIDE DEF rq
    <3> QED
      BY <3>1 DEF Request
  <2>2. rq \in [Reqs -> Request] /\ req' = [rq EXCEPT ![w].write = h]
    BY <1>2, <2>1
  <2> HIDE DEF rq
  <2>3. \A x \in Reqs : /\ req'[x].background = rq[x].background /\ req'[x].logged = rq[x].logged
                        /\ req'[x].parent = rq[x].parent /\ req'[x].doc = rq[x].doc
                        /\ x # w => req'[x].write = rq[x].write
    BY <2>1, <2>2 DEF Request
  <2>4. req'[w].write = h
    BY <2>1, <2>2 DEF Request
  <2>5. document' = document /\ sent' = sent
    BY DEF Terminate, TerminateFrom
  <2> QED
    BY <1>2, <2>1, <2>3, <2>4, <2>5, UnalteredUnread DEF Unaltered
<1> QED
  BY <1>1, <1>3, QuietStep DEF Terminate, TerminateFrom

-----------------------------------------------------------------------------
(* Nothing waits any more when the main request ends.                      *)
LEMMA AllSent ==
    ASSUME RequestsAssumption, IInv, OInv, ~freed, ~terminated, data = Main,
           req[Main].postponed = <<>>, req[Main].held = <<>>
    PROVE  ToSet(document) \cap Pieces \subseteq ToSet(sent)
<1> DEFINE O == Lines(req)
           d == document
           A == Documented
           S == ToSet(sent)
<1>1. Main \in Reqs /\ O[Main] = {}
  <2>1. Main \in Reqs /\ Line(req, Main) = <<>> \o <<>>
    BY Constants DEF Line
  <2>2. <<>> \in Seq(Reqs) /\ <<>> \o <<>> = <<>>
    BY ConcatEmptySeq
  <2>3. ToSet(<<>>) = {}
    BY DEF ToSet
  <2> QED
    BY <2>1, <2>2, <2>3 DEF Lines
<1>2. Course(d, A, Parents, O, S, Main, Gone)
  BY DEF OInv, Ordered
<1> HIDE DEF O, d, A, S
<1>3. \A y \in A \ {Main} : y \in Gone
  <2> SUFFICES ASSUME NEW y \in A \ {Main}, y \notin Gone PROVE FALSE
    OBVIOUS
  <2>1. Within(d, Main, y)
    BY <1>2 DEF Course, Family
  <2>2. \E z \in O[Main] : z \in A
    BY <1>2, <2>1, InTheList
  <2> QED
    BY <1>1, <2>2
<1>4. ASSUME NEW q \in ToSet(d) \cap Pieces, q \notin S PROVE FALSE
  <2>1. q \in O[q[1]] /\ q[1] \in A /\ Before(d, Opening(q[1]), q) /\ Before(d, q, q[1])
    BY <1>2, <1>4 DEF Course, Waits, Bounded
  <2>2. q[1] # Main
    BY <1>1, <2>1
  <2> QED
    BY <1>2, <1>3, <1>4, <2>1, <2>2 DEF Course, Sending
<1> QED
  BY <1>4 DEF d, S

(* A finalization that ends the main request or one that is not active: if *)
(* it frees the request, everything was sent.                              *)
LEMMA QuietEnds ==
    ASSUME RequestsAssumption, IInv, OInv,
           \/ FinalizeMain \/ \E r \in Reqs : FinalizeDone(r) \/ (r # Main /\ FinalizeBackground(r))
    PROVE  OInv'
<1>1. /\ Main \in Reqs /\ step.op = "finalize" /\ ~freed /\ Live
      /\ req \in [Reqs -> Request] /\ \A x \in Reqs : req[x] \in Request
  BY Constants, NotFreed, Acting
     DEF FinalizeMain, FinalizeDone, FinalizeBackground, Finalizing, FinalizingOk, IInv, Types
<1>2. CASE FinalizeMain
  <2>1. /\ ~terminated /\ req[Main].write # "none"
    BY <1>1, <1>2, EndingFacts DEF FinalizeMain
  <2>2. req[Main].postponed = <<>> /\ req[Main].held = <<>>
    BY <1>2 DEF FinalizeMain, Drained
  <2>3. CASE data # Main
    BY <1>2, <2>3, SameReq DEF FinalizeMain
  <2>4. CASE data = Main
    <3> DEFINE v == [req[Main] EXCEPT !.done = TRUE, !.write = "empty"]
    <3>1. req' = [req EXCEPT ![Main] = v]
      BY <1>1, <1>2, <2>4 DEF FinalizeMain
    <3>6. req[Main] \in Request
      BY <1>1
    <3>2. v \in Request
      BY <3>6 DEF Request, Handlers
    <3>3. Turned(Main, v)
      BY <1>1, <2>1, <2>2, <3>1, <3>2 DEF Turned, Request
    <3> HIDE DEF v
    <3>4. UNCHANGED <<data, document, sent, terminated>>
      BY <1>2 DEF FinalizeMain
    <3>5. Whole'
      BY <1>1, <2>1, <2>2, <2>4, <3>4, AllSent DEF Whole
    <3> QED
      BY <1>1, <3>3, <3>4, <3>5, OneTurned
  <2> QED
    BY <2>3, <2>4
<1>3. ASSUME NEW r \in Reqs, FinalizeDone(r) PROVE OInv'
  <2>1. Returning /\ step.r = r
    BY <1>3, <1>1 DEF FinalizeDone, Finalizing, Returning
  <2>2. UNCHANGED <<req, data, document, sent, terminated>> /\ freed' = (count = 1)
    BY <1>3 DEF FinalizeDone, FinalizeConnection
  <2>3. ASSUME ~terminated PROVE count # 1
    <3>1. Open(r) /\ req[r].write # "none"
      BY <1>1, <2>1, <2>3 DEF Live, Handled, Going, MainDone, Open, Existing
    <3>2. r \in Held /\ IsFiniteSet(Held)
      BY <3>1, Constants DEF Held, Open, Created
    <3>3. Cardinality(Held) \in Nat /\ Cardinality(Held) # 0
      BY <3>2, FS_CardinalityType, FS_EmptySet
    <3>4. Pending = 1 /\ count = Cardinality(Held) + Pending
      BY <1>1, <2>1, <2>3 DEF Pending, Live, Going
    <3> QED
      BY <3>3, <3>4
  <2> QED
    BY <1>1, <2>2, <2>3, SameReq
<1>4. ASSUME NEW r \in Reqs, r # Main, FinalizeBackground(r) PROVE OInv'
  <2>1. /\ ~terminated /\ Open(r) /\ Pending = 0
        /\ req[r].write \in {"handler", "upstream", "writer", "finalizer"}
    BY <1>1, <1>4, EndingFacts DEF FinalizeBackground
  <2> DEFINE v == [req[r] EXCEPT !.done = TRUE, !.logged = TRUE]
  <2>2. req' = [req EXCEPT ![r] = v] /\ req[r].background
    BY <1>1, <1>4 DEF FinalizeBackground
  <2>7. req[r] \in Request
    BY <1>1
  <2>3. v \in Request
    BY <2>7 DEF Request, Handlers
  <2>4. Turned(r, v)
    BY <1>1, <1>4, <2>1, <2>2, <2>3 DEF Turned, Request
  <2> HIDE DEF v
  <2>5. UNCHANGED <<data, document, sent, terminated>> /\ freed' = (count = 1)
    BY <1>4 DEF FinalizeBackground, FinalizeConnection
  <2>6. ASSUME count = 1 PROVE Whole'
    <3>1. r \in Held /\ Cardinality(Held \ {r}) = 0
      BY <1>1, <2>1, <2>6, LastReference
    <3>2. Held \ {r} = {}
      <4>1. IsFiniteSet(Held \ {r})
        BY Constants DEF Held, Created
      <4> QED
        BY <3>1, <4>1, FS_EmptySet
    <3>3. req[Main].done
      BY <1>1, <1>4, <3>2 DEF Held, Created, Live, Existing
    <3>4. data = Main /\ req[Main].postponed = <<>> /\ req[Main].held = <<>>
      <4>1. Going /\ Ordered
        BY <1>1, <2>1 DEF Live, OInv
      <4> QED
        BY <1>1, <3>3, <4>1 DEF Going, MainDone, Reading, Open, Ordered
    <3> QED
      BY <1>1, <2>1, <2>5, <3>4, AllSent DEF Whole
  <2> QED
    BY <1>1, <2>4, <2>5, <2>6, OneTurned
<1> QED
  BY <1>2, <1>3, <1>4

-----------------------------------------------------------------------------
(* By the assumption on the openings.                                      *)
LEMMA AreApart ==
    ASSUME RequestsAssumption
    PROVE  /\ Apart
           /\ \A x \in Reqs, q \in Pieces : q # x /\ q # Opening(x)
           /\ \A x, y \in Reqs : Opening(x) = Opening(y) => x = y
<1>1. \A x \in Reqs : x \notin Pieces
  BY Constants
<1>2. \A x, y \in Reqs : Opening(x) # y
  BY DEF RequestsAssumption
<1>3. \A x \in Reqs, q \in Pieces : q # x /\ q # Opening(x)
  <2>1. ASSUME NEW x \in Reqs, NEW q \in Pieces PROVE q # Opening(x)
    <3>1. PICK y \in Reqs : q \in {y} \X (1 .. MaxChunks[y])
      BY DEF Pieces
    <3>2. q[2] \in 1 .. MaxChunks[y] /\ MaxChunks[y] \in Nat
      BY <3>1 DEF RequestsAssumption
    <3>3. Opening(x)[2] = 0 /\ q[2] # 0
      BY <3>2 DEF Opening
    <3> QED
      BY <3>3
  <2> QED
    BY <1>1, <2>1
<1> QED
  BY <1>1, <1>2, <1>3 DEF Apart, Opening

(* How many buffers a request has produced.                                *)
Own(q) == {i \in DOMAIN q : ~IsSub(q[i])}

(* A request's buffers are counted by what it produced.                    *)
LEMMA OneMore ==
    ASSUME NEW S, NEW q \in Seq(S), NEW z \in S
    PROVE  /\ Cardinality(Own(q)) \in Nat
           /\ Cardinality(Own(Append(q, z))) = Cardinality(Own(q)) + (IF IsSub(z) THEN 0 ELSE 1)
<1> DEFINE w == Append(q, z)
           l == Len(q)
<1>1. /\ l \in Nat /\ DOMAIN q = 1 .. l /\ DOMAIN w = 1 .. l + 1
      /\ \A i \in 1 .. l : w[i] = q[i]
      /\ w[l + 1] = z
  OBVIOUS
<1> HIDE DEF w, l
<1>2. IsFiniteSet(Own(q)) /\ l + 1 \notin Own(q)
  <2>1. Own(q) \subseteq 1 .. l
    BY <1>1 DEF Own
  <2>2. IsFiniteSet(1 .. l) /\ l + 1 \notin 1 .. l
    BY <1>1, FS_Interval
  <2> QED
    BY <2>1, <2>2, FS_Subset
<1>3. Own(w) = IF IsSub(z) THEN Own(q) ELSE Own(q) \cup {l + 1}
  <2>1. \A i : i \in 1 .. l + 1 <=> i \in 1 .. l \/ i = l + 1
    BY <1>1
  <2> QED
    BY <1>1, <2>1 DEF Own
<1> QED
  BY <1>2, <1>3, FS_CardinalityType, FS_AddElement DEF w

(* A new buffer is not in the document.                                    *)
LEMMA NewBufferIs ==
    ASSUME RequestsAssumption, req \in [Reqs -> Request], Produced,
           NEW r \in Documented, MayOutput(r)
    PROVE  /\ NewBuffer(r) \in Pieces /\ NewBuffer(r)[1] = r /\ NewBuffer(r)[2] = Buffers(r) + 1
           /\ NewBuffer(r) \notin ToSet(document) /\ Buffers(r) \in Nat
<1>1. r \in Reqs /\ req[r].doc \in Seq(Reqs \cup Pieces)
  BY DEF Documented, Request
<1>2. NewBuffer(r) \in Pieces /\ NewBuffer(r)[1] = r /\ NewBuffer(r)[2] = Buffers(r) + 1
  BY <1>1, BufferIsPiece DEF MayOutput, NewBuffer
<1>3. Buffers(r) \in Nat
  <2>1. Cardinality(Own(req[r].doc)) \in Nat
    BY ZenonT(60), <1>1, OneMore
  <2> QED
    BY <2>1 DEF Own, Buffers
<1> QED
  BY <1>2, <1>3 DEF Produced

(* The document when a request produces a buffer.                          *)
LEMMA ProducedPiece ==
    ASSUME RequestsAssumption, req \in [Reqs -> Request], Produced,
           NEW r \in Documented, MayOutput(r),
           document' = Written(document, r, NewBuffer(r)), Documented' = Documented,
           req'[r].doc = Append(req[r].doc, NewBuffer(r)),
           \A x \in Reqs \ {r} : req'[x].doc = req[x].doc
    PROVE  Produced' /\ Linear(document') /\ Inserted(document, r, NewBuffer(r), document')
<1> DEFINE n == NewBuffer(r)
<1>1. /\ n \in Pieces /\ n[1] = r /\ n[2] = Buffers(r) + 1 /\ n \notin ToSet(document)
      /\ Buffers(r) \in Nat
  BY NewBufferIs
<1>2. r \in Reqs /\ req[r].doc \in Seq(Reqs \cup Pieces)
  BY DEF Documented, Request
<1>3. Buffers(r)' = Buffers(r) + 1
  <2>1. ~IsSub(n)
    BY <1>1, Constants DEF IsSub
  <2>2. Cardinality(Own(Append(req[r].doc, n))) = Cardinality(Own(req[r].doc)) + 1
    BY <1>1, <1>2, <2>1, OneMore
  <2> QED
    BY <2>2 DEF Own, Buffers
<1>4. \A x \in Reqs \ {r} : Buffers(x)' = Buffers(x)
  BY DEF Buffers
<1> HIDE DEF n
<1>5. /\ document' \in Seq(Places) /\ IsInjective(document') /\ Linear(document')
      /\ Inserted(document, r, n, document')
  <2>1. r \in ToSet(document) /\ n \in Places /\ document \in Seq(Places) /\ IsInjective(document)
    BY <1>1 DEF Produced, Places
  <2>2. document' = Written(document, r, n)
    BY DEF n
  <2> QED
    BY <1>1, <2>1, <2>2, WrittenIs
<1>6. ToSet(document') = ToSet(document) \cup {n}
  BY <1>5 DEF Inserted
<1>7. ASSUME NEW q \in ToSet(document') \cap Pieces
      PROVE  q[1] \in Documented /\ q[2] <= Buffers(q[1])'
  <2>1. CASE q = n
    BY <1>1, <1>3, <2>1
  <2>2. CASE q \in ToSet(document)
    <3>1. q[1] \in Documented /\ q[2] <= Buffers(q[1]) /\ q[1] \in Reqs
      BY <1>7, <2>2 DEF Produced, Documented
    <3>2. q[2] \in Int
      <4>1. PICK y \in Reqs : q \in {y} \X (1 .. MaxChunks[y])
        BY <1>7 DEF Pieces
      <4> QED
        BY <4>1
    <3>3. CASE q[1] = r
      BY <1>1, <1>3, <3>1, <3>2, <3>3
    <3>4. CASE q[1] # r
      BY <1>4, <3>1, <3>4
    <3> QED
      BY <3>3, <3>4
  <2> QED
    BY <1>6, <1>7, <2>1, <2>2
<1>8. /\ Documented' \subseteq ToSet(document')
      /\ ToSet(document') \subseteq Documented \cup {Opening(x) : x \in Documented} \cup Pieces
  BY <1>1, <1>6 DEF Produced
<1>9. Produced'
  BY <1>5, <1>7, <1>8 DEF Produced, Places, Opening, Pieces
<1> QED
  BY <1>5, <1>9 DEF n

(* The document when a request asks for a subrequest.                      *)
LEMMA ProducedSub ==
    ASSUME RequestsAssumption, req \in [Reqs -> Request], Produced, NEW r \in Documented,
           NEW s \in Reqs, s \notin Documented,
           document' = Written(Written(document, r, s), s, Opening(s)),
           Documented' = Documented \cup {s},
           req'[r].doc = Append(req[r].doc, s),
           \A x \in Reqs \ {r, s} : req'[x].doc = req[x].doc
    PROVE  Produced' /\ Linear(document') /\ Opened(document, r, s, document')
<1> DEFINE v == Written(document, r, s)
           n == Opening(s)
<1>1. /\ n \notin Reqs /\ n \notin Pieces /\ s \notin Pieces /\ s # n /\ s \in Places
      /\ n \in Places
      /\ \A x \in Reqs : n = Opening(x) => x = s
  BY AreApart DEF Apart, Places
<1>2. s \notin ToSet(document) /\ n \notin ToSet(document)
  <2>1. s \notin {Opening(x) : x \in Documented} /\ n \notin {Opening(x) : x \in Documented}
    BY <1>1, AreApart DEF Apart, Documented
  <2> QED
    BY <1>1, <2>1 DEF Produced, Documented
<1>3. r \in Reqs /\ r # s /\ req[r].doc \in Seq(Reqs \cup Pieces) /\ r \in ToSet(document)
  BY DEF Documented, Request, Produced
<1>4. /\ v \in Seq(Places) /\ IsInjective(v) /\ Inserted(document, r, s, v)
      /\ ToSet(v) = ToSet(document) \cup {s}
  <2>1. v \in Seq(Places) /\ IsInjective(v) /\ Inserted(document, r, s, v)
    BY <1>1, <1>2, <1>3, WrittenIs DEF Produced
  <2> QED
    BY <2>1 DEF Inserted
<1> HIDE DEF v, n
<1>5. /\ document' \in Seq(Places) /\ IsInjective(document') /\ Linear(document')
      /\ Inserted(v, s, n, document')
  <2>1. document' = Written(v, s, n)
    BY DEF v, n
  <2> QED
    BY <1>1, <1>2, <1>4, <2>1, WrittenIs
<1>6. Opened(document, r, s, document')
  BY <1>1, <1>2, <1>3, <1>4, <1>5, OpenedIs DEF n
<1>7. ToSet(document') = ToSet(document) \cup {s, n}
  BY <1>6 DEF Opened, n
<1>8. Buffers(r)' = Buffers(r)
  <2>1. Cardinality(Own(req[r].doc)) \in Nat
    BY ZenonT(60), <1>3, OneMore
  <2>2. IsSub(s) /\ s \in Reqs \cup Pieces
    BY DEF IsSub
  <2>3. Cardinality(Own(Append(req[r].doc, s))) = Cardinality(Own(req[r].doc))
    BY <1>3, <2>1, <2>2, OneMore
  <2> QED
    BY <2>3 DEF Own, Buffers
<1>9. \A x \in Reqs \ {r, s} : Buffers(x)' = Buffers(x)
  BY DEF Buffers
<1>10. ASSUME NEW q \in ToSet(document') \cap Pieces
       PROVE  q[1] \in Documented /\ q[2] <= Buffers(q[1])'
  <2>1. q \in ToSet(document)
    BY <1>1, <1>7, <1>10
  <2>2. q[1] \in Documented /\ q[2] <= Buffers(q[1]) /\ q[1] \in Reqs /\ q[1] # s
    BY <1>10, <2>1 DEF Produced, Documented
  <2> QED
    BY <1>8, <1>9, <2>2
<1>11. /\ Documented' \subseteq ToSet(document')
       /\ ToSet(document') \subseteq Documented' \cup {Opening(x) : x \in Documented'} \cup Pieces
  BY <1>7 DEF Produced, n
<1>12. Produced'
  <2>1. \A q \in ToSet(document') \cap Pieces : q[1] \in Documented' /\ q[2] <= Buffers(q[1])'
    BY <1>10
  <2> QED
    BY <1>5, <1>11, <2>1 DEF Produced, Places, Opening, Pieces
<1> QED
  BY <1>5, <1>6, <1>12

-----------------------------------------------------------------------------
(* What a request that has not ended produces comes after what was sent.   *)
Extended(d, w, r, N) ==
    /\ ToSet(w) = ToSet(d) \cup N
    /\ \A x, y \in ToSet(d) : Before(w, x, y) <=> Before(d, x, y)
    /\ \A x \in ToSet(d), n \in N :
          /\ Before(w, x, n) <=> Before(d, x, r)
          /\ Before(w, n, x) <=> (x = r \/ Before(d, r, x))

(* What is written in front of a request that has not ended comes after    *)
(* what was sent.                                                          *)
LEMMA AheadMore ==
    ASSUME NEW d, NEW w, Linear(d), Linear(w), NEW q, NEW L, L \subseteq ToSet(d), NEW r \in L,
           Ahead(d, q, L), NEW N, Extended(d, w, r, N), NEW M, M \subseteq L \cup N
    PROVE  Ahead(w, q, M)
<1>1. /\ Sorted(d, q) /\ ToSet(q) \subseteq ToSet(d)
      /\ \A y \in ToSet(q) : Before(d, y, r)
  BY DEF Ahead, SentSorted
<1>2. SentSorted(w, q)
  BY <1>1, SortedMore DEF SentSorted, Extended
<1>3. ASSUME NEW x \in ToSet(w) \cap Pieces, NEW y \in ToSet(q), Before(w, x, y), y \in Pieces
      PROVE  x \in ToSet(q)
  <2>1. y \in ToSet(d) /\ Before(d, y, r)
    BY <1>1
  <2>2. CASE x \in ToSet(d)
    BY <1>3, <2>1, <2>2 DEF Ahead, Extended
  <2>3. CASE x \in N
    <3>1. y = r \/ Before(d, r, y)
      BY <1>3, <2>1, <2>3 DEF Extended
    <3> QED
      BY <2>1, <3>1 DEF Linear
  <2> QED
    BY <2>2, <2>3 DEF Extended
<1>4. ASSUME NEW x \in M, NEW y \in ToSet(q) PROVE Before(w, y, x)
  <2>1. y \in ToSet(d) /\ Before(d, y, r)
    BY <1>1
  <2>2. CASE x \in L
    BY <2>1, <2>2 DEF Ahead, Extended
  <2>3. CASE x \in N
    BY <2>1, <2>3 DEF Extended
  <2> QED
    BY <2>2, <2>3
<1> QED
  BY <1>2, <1>3, <1>4 DEF Ahead

(* The document orders what is in it.                                      *)
LEMMA ProducedLinear ==
    ASSUME Produced
    PROVE  Linear(document) /\ Documented \subseteq ToSet(document)
BY DocumentIsLinear DEF Produced

(* The invariant after a step, from its parts.                             *)
LEMMA OInvNext ==
    ASSUME Produced', Ahead(document', sent', Documented' \ Gone'), ~freed',
           ~terminated' => Ordered'
    PROVE  OInv'
<1>1. Ahead(document, sent, Documented \ Gone)'
  BY DEF Ahead, SentSorted, Sorted, Before
<1>2. Whole'
  BY DEF Whole
<1> QED
  BY <1>1, <1>2 DEF OInv

(* The same for the course.                                                *)
LEMMA OrderedNext ==
    ASSUME Course(document', Documented', Parents', Lines(req'), ToSet(sent'), data', Gone'),
           \A x \in Documented' : Sorted(document', Line(req', x)),
           req'[Main].done => req'[Main].postponed = <<>>
    PROVE  Ordered'
<1>1. Lines(req)' = Lines(req') /\ \A x : Line(req, x)' = Line(req', x)
  BY DEF Lines, Line
<1>2. \A q : Sorted(document, q)' <=> Sorted(document', q)
  BY DEF Sorted, Before
<1> QED
  BY <1>1, <1>2 DEF Ordered, Line, Sorted, Before

(* A buffer at the end of the list of the request that has produced it.    *)
LEMMA PieceOrder ==
    ASSUME RequestsAssumption, IInv, OInv, Ordered,
           NEW r \in Documented, r \notin Gone, MayOutput(r),
           Linear(document'), Inserted(document, r, NewBuffer(r), document'),
           NEW rq \in [Reqs -> Request], Noting(rq, r),
           NEW out \in Seq(Reqs \cup Pieces), Only(out, NewBuffer(r))
    PROVE  /\ Course(document', Documented, Parents, Listed(rq, r, out), ToSet(sent), data, Gone)
           /\ SentSorted(document', sent)
           /\ \A x \in Documented \ {r} : Sorted(document', Line(rq, x))
           /\ Sorted(document', rq[r].postponed \o out)
<1> DEFINE d == document
           A == Documented
           q == req[r].postponed
           P == Lines(req)
           O == Listed(rq, r, out)
           w == document'
           n == NewBuffer(r)
<1>1. /\ req \in [Reqs -> Request] /\ r \in Reqs /\ A \subseteq Reqs
      /\ Course(d, A, Parents, P, ToSet(sent), data, Gone) /\ SentSorted(d, sent)
      /\ \A x \in A : Sorted(d, Line(req, x))
      /\ Produced /\ Apart
  BY AreApart DEF IInv, Types, OInv, Ordered, Documented, Ahead
<1>2. /\ \A x \in Reqs : Line(rq, x) = Line(req, x) /\ rq[x].postponed = req[x].postponed
      /\ \A x \in A : P[x] = ToSet(Line(req, x))
  BY <1>1 DEF Noting, Line, Lines
<1>3. q \in Seq(Reqs \cup Pieces) /\ Line(req, r) = q
  <2>1. q \in Seq(Reqs \cup Pieces) /\ req[r].held = <<>>
    BY <1>1 DEF Request, MayOutput
  <2> QED
    BY <2>1, ConcatEmptySeq DEF Line
<1>4. n \in Pieces /\ n[1] = r /\ n \notin ToSet(d)
  BY <1>1, NewBufferIs
<1>5. /\ \A x, y \in ToSet(d) : Before(w, x, y) <=> Before(d, x, y)
      /\ \A x \in ToSet(d) : Before(w, x, n) <=> Before(d, x, r)
      /\ ToSet(d) \subseteq ToSet(w)
  BY DEF Inserted
<1>a. /\ O[r] = ToSet(rq[r].postponed \o out) /\ \A x \in A \ {r} : O[x] = ToSet(Line(rq, x))
      /\ Linear(w) /\ Inserted(d, r, n, w) /\ Only(out, n)
  BY <1>1 DEF Listed
<1> HIDE DEF d, A, q, P, O, w, n
<1>6. Sorted(w, q \o out) /\ ToSet(q \o out) = P[r] \cup {n}
  <2>1. ToSet(q) = P[r] /\ Sorted(d, q)
    BY <1>1, <1>2, <1>3 DEF A
  <2>2. n \in Reqs \cup Pieces /\ r \in A /\ q \in Seq(Reqs \cup Pieces)
    BY <1>3, <1>4 DEF A
  <2>3. Precedes(d, q, r)
    BY <1>1, <2>1, <2>2, CourseBefore DEF Precedes
  <2>4. Sorted(w, q \o out) /\ ToSet(q \o out) = ToSet(q) \cup {n}
    <3>1. Adds(d, w, r, n)
      BY <1>5 DEF Adds
    <3> QED
      BY <1>a, <2>1, <2>2, <2>3, <3>1, SortedAppend
  <2> QED
    BY <2>1, <2>4
<1>7. rq[r].postponed = q
  BY <1>1, <1>2 DEF q
<1>8. O[r] = P[r] \cup {n} /\ \A x \in A \ {r} : O[x] = P[x]
  BY <1>1, <1>2, <1>6, <1>7, <1>a
<1>9. Course(w, A, Parents, O, ToSet(sent), data, Gone)
  BY <1>1, <1>4, <1>8, <1>a, CoursePiece DEF A, d
<1>10. \A x \in A \ {r} : Sorted(w, Line(rq, x))
  <2> SUFFICES ASSUME NEW x \in A \ {r} PROVE Sorted(w, Line(rq, x))
    OBVIOUS
  <2>1. ToSet(Line(req, x)) \subseteq ToSet(d)
    BY <1>1, <1>2, CourseBefore
  <2> QED
    BY <1>1, <1>2, <1>5, <2>1, SortedMore
<1>11. SentSorted(w, sent)
  BY <1>1, <1>5, SortedMore DEF SentSorted
<1> QED
  BY <1>6, <1>7, <1>9, <1>10, <1>11 DEF A, O, w

(* Output that has passed the filter.                                      *)
LEMMA FilteredOrder ==
    ASSUME RequestsAssumption, IInv, OInv, Ordered,
           NEW r \in Documented, r = Main => ~req[Main].done,
           NEW rq \in [Reqs -> Request], Noting(rq, r),
           NEW out \in {<<>>} \cup {<<p>> : p \in Pieces},
           PostponeFilter(rq, r, out), Produced',
           Course(document', Documented, Parents, Listed(rq, r, out), ToSet(sent), data, Gone),
           SentSorted(document', sent),
           \A x \in Documented \ {r} : Sorted(document', Line(rq, x)),
           Sorted(document', rq[r].postponed \o out)
    PROVE  Ahead(document', sent', Documented' \ Gone') /\ (~freed' => OInv')
<1>1. /\ r \in Reqs /\ Main \in Documented /\ data \in Reqs /\ posted \in Seq(Reqs)
      /\ sent \in Seq(Pieces)
      /\ buffered \in BOOLEAN /\ Apart /\ Documented \subseteq Reqs
  BY AreApart DEF IInv, Types, Ordered, Documented, Course, Bounded
<1>2. /\ Course(document', Documented, Parents, Lines(req'), ToSet(sent'), data', Gone)
      /\ SentSorted(document', sent')
      /\ \A x \in Documented : Sorted(document', Line(req', x))
      /\ Unfiltered(rq, r)
  BY <1>1, FilterOrder
<1>3. /\ Documented' = Documented /\ Gone' = Gone /\ Parents' = Parents
  <2>1. Documented' = Documented
    BY <1>2 DEF Unfiltered, Noting, Documented
  <2>2. Gone' = Gone
    BY <1>1, <1>2, <2>1 DEF Unfiltered, Noting, Gone
  <2>3. Parents' = Parents
    BY <1>2 DEF Unfiltered, Noting, Parents
  <2> QED
    BY <2>1, <2>2, <2>3
<1>4. req'[Main].done => req'[Main].postponed = <<>>
  <2>1. req'[Main].done = req[Main].done
    BY <1>1, <1>2 DEF Unfiltered, Noting
  <2>2. r # Main => req'[Main].postponed = req[Main].postponed
    BY <1>1, <1>2 DEF Unfiltered, Noting
  <2> QED
    BY <2>1, <2>2 DEF Ordered
<1>5. Ordered'
  BY <1>2, <1>3, <1>4, OrderedNext
<1>6. Ahead(document', sent', Documented' \ Gone')
  BY <1>2, <1>3, CourseAhead
<1> QED
  BY <1>5, <1>6, OInvNext

(* After a termination nothing is sent.                                    *)
LEMMA UnsentOrder ==
    ASSUME RequestsAssumption, IInv, OInv, NEW r \in Reqs, r # data, terminated', ~freed',
           NEW rq \in [Reqs -> Request], Noting(rq, r),
           NEW out \in {<<>>} \cup {<<p>> : p \in Pieces},
           PostponeFilter(rq, r, out), Produced', Ahead(document', sent, Documented \ Gone)
    PROVE  OInv'
<1>1. /\ data \in Reqs /\ posted \in Seq(Reqs) /\ sent \in Seq(Pieces) /\ buffered \in BOOLEAN
  BY DEF IInv, Types
<1>2. Unfiltered(rq, r) /\ sent' = sent
  <2> DEFINE p == rq[r].postponed \o out
  <2>1. /\ Unfiltered(rq, r)
        /\ Unsent(r, p) \/ Passed(r, p) \/ \E i \in 1 .. Len(p) : Woken(r, p, i)
    BY <1>1, Filter
  <2> HIDE DEF p
  <2> QED
    BY <2>1 DEF Unsent, Passed, Woken
<1>3. /\ Documented' = Documented /\ Gone' = Gone
  <2>1. Documented' = Documented
    BY <1>2 DEF Unfiltered, Noting, Documented
  <2>2. Gone' = Gone
    BY <1>2, <2>1 DEF Unfiltered, Noting, Gone, Documented
  <2> QED
    BY <2>1, <2>2
<1> QED
  BY <1>2, <1>3, OInvNext

-----------------------------------------------------------------------------
(* What the content handler finds: its request is in the document and has  *)
(* not ended; what it produces follows what was sent.                      *)
LEMMA Producing ==
    ASSUME RequestsAssumption, IInv, OInv, NEW r \in Reqs, Working(r), MayOutput(r)
    PROVE  /\ r \in Documented /\ r \notin Gone /\ ~freed /\ req[r].held = <<>>
           /\ req \in [Reqs -> Request] /\ Linear(document) /\ Documented \subseteq ToSet(document)
           /\ ~terminated => Ordered /\ (r = Main => ~req[Main].done)
           /\ terminated => error /\ r # data
<1>1. /\ step.op = "content" /\ req[r].write \in {"handler", "upstream"} /\ ~req[r].logged
      /\ ~terminated => Open(r)
      /\ terminated => error /\ r # data
  BY ContentFacts
<1>2. ~freed
  BY <1>1, NotFreed
<1> QED
  BY <1>1, <1>2, ProducedLinear DEF MayOutput, Documented, Gone, IInv, Types, OInv, Open

(* A new buffer comes after what was sent.                                 *)
LEMMA AheadPiece ==
    ASSUME OInv,
           NEW r \in Documented, r \notin Gone, Linear(document),
           Documented \subseteq ToSet(document),
           NEW n, NEW w, Linear(w), Inserted(document, r, n, w)
    PROVE  Ahead(w, sent, Documented \ Gone)
<1>1. Extended(document, w, r, {n})
  BY DEF Inserted, Extended
<1>2. PICK L : L = Documented \ Gone
  OBVIOUS
<1>3. Ahead(document, sent, L) /\ r \in L /\ L \subseteq ToSet(document) /\ L \subseteq L \cup {n}
  BY <1>2 DEF OInv
<1> QED
  BY <1>1, <1>2, <1>3, AheadMore

(* A content handler keeps a buffer for a thread.                          *)
LEMMA OrderOutputAio ==
    ASSUME RequestsAssumption, IInv, OInv, NEW r \in Reqs, OutputAio(r)
    PROVE  OInv'
<1>1. /\ Working(r) /\ MayOutput(r)
      /\ UNCHANGED <<count, posted, data, buffered, error, terminated, freed, step, sent, alert>>
      /\ document' = Written(document, r, NewBuffer(r))
  BY DEF OutputAio
<1>2. /\ r \in Documented /\ r \notin Gone /\ ~freed /\ req[r].held = <<>>
      /\ req \in [Reqs -> Request] /\ Linear(document) /\ Documented \subseteq ToSet(document)
      /\ ~terminated => Ordered /\ (r = Main => ~req[Main].done)
  BY <1>1, Producing
<1>3. PICK n : n = NewBuffer(r)
  OBVIOUS
<1>4. n \in Pieces /\ n[1] = r /\ n \notin ToSet(document)
  BY <1>1, <1>2, <1>3, NewBufferIs DEF OInv
<1>5. PICK out \in {<<p>> : p \in Pieces} : out = <<n>>
  BY <1>4
<1>6. PICK rq \in [Reqs -> Request] :
        /\ rq = [req EXCEPT ![r].held = out, ![r].aio = TRUE]
        /\ \A x \in Reqs \ {r} : rq[x] = req[x]
        /\ rq[r] = [req[r] EXCEPT !.held = out, !.aio = TRUE]
  <2> DEFINE v == [req[r] EXCEPT !.held = out, !.aio = TRUE]
  <2>1. req \in [Reqs -> Request] /\ req[r] \in Request
    BY <1>2
  <2>2. v \in Request
    BY <1>5, <2>1 DEF Request
  <2>3. [req EXCEPT ![r].held = out, ![r].aio = TRUE] = [req EXCEPT ![r] = v]
    BY <2>1
  <2>4. [req EXCEPT ![r] = v] \in [Reqs -> Request]
    BY <2>1, <2>2
  <2> QED
    BY <2>1, <2>3, <2>4
<1>7. req' = Noted(rq, r, n)
  BY <1>3, <1>5, <1>6 DEF OutputAio
<1>8. /\ req' \in [Reqs -> Request] /\ \A x \in Reqs \ {r} : req'[x] = req[x]
      /\ req'[r].parent = req[r].parent /\ req'[r].write = req[r].write
      /\ req'[r].background = req[r].background
      /\ req'[r].done = req[r].done /\ req'[r].logged = req[r].logged
      /\ req'[r].postponed = req[r].postponed /\ req'[r].held = out
      /\ req'[r].doc = Append(req[r].doc, n)
  <2>1. /\ rq[r].parent = req[r].parent /\ rq[r].write = req[r].write
        /\ rq[r].background = req[r].background
        /\ rq[r].done = req[r].done /\ rq[r].logged = req[r].logged
        /\ rq[r].postponed = req[r].postponed /\ rq[r].held = out /\ rq[r].doc = req[r].doc
    BY <1>2, <1>6 DEF Request
  <2>2. /\ req' \in [Reqs -> Request] /\ \A x \in Reqs \ {r} : req'[x] = rq[x]
        /\ Continues(req'[r], rq[r]) /\ req'[r].doc = Append(rq[r].doc, n)
    BY <1>4, <1>7, NotedIs
  <2> QED
    BY <1>6, <2>1, <2>2 DEF Continues
<1>9. Documented' = Documented /\ Gone' = Gone /\ Parents' = Parents
  <2>1. Documented' = Documented
    BY <1>8 DEF Documented
  <2>2. \A x \in Reqs : req'[x].logged = req[x].logged /\ req'[x].parent = req[x].parent
    BY <1>8
  <2>3. Gone' = Gone
    BY <2>1, <2>2 DEF Gone, Documented
  <2>4. Parents' = Parents
    BY <2>2 DEF Parents
  <2> QED
    BY <2>1, <2>3, <2>4
<1>10. Produced' /\ Linear(document') /\ Inserted(document, r, n, document')
  BY <1>1, <1>2, <1>3, <1>8, <1>9, ProducedPiece DEF OInv
<1>11. Ahead(document', sent', Documented' \ Gone')
  BY <1>1, <1>2, <1>9, <1>10, AheadPiece
<1>12. ASSUME ~terminated PROVE Ordered'
  <2>1. Ordered /\ Noting(req, r)
    BY <1>2, <1>12 DEF Noting
  <2>2. out \in Seq(Reqs \cup Pieces) /\ Only(out, NewBuffer(r))
    BY <1>3, <1>4, <1>5 DEF Only
  <2>9. Linear(document') /\ Inserted(document, r, NewBuffer(r), document')
    BY <1>3, <1>10
  <2> DEFINE O == Listed(req, r, out)
  <2>3. /\ Course(document', Documented, Parents, O, ToSet(sent), data, Gone)
        /\ \A x \in Documented \ {r} : Sorted(document', Line(req, x))
        /\ Sorted(document', req[r].postponed \o out)
    BY <1>1, <1>2, <2>1, <2>2, <2>9, PieceOrder
  <2>4. /\ Line(req', r) = req[r].postponed \o out
        /\ \A x \in Reqs \ {r} : Line(req', x) = Line(req, x)
    BY <1>8 DEF Line
  <2>5. \A x \in Documented : Lines(req')[x] = O[x] /\ Parents[x] = Parents[x]
    BY <2>4 DEF Lines, Documented, Listed
  <2>6. Course(document', Documented, Parents, Lines(req'), ToSet(sent), data, Gone)
    BY <2>3, <2>5, CourseSame
  <2>7. \A x \in Documented : Sorted(document', Line(req', x))
    BY <2>3, <2>4 DEF Documented
  <2>8. req'[Main].done => req'[Main].postponed = <<>>
    <3>1. Main \in Reqs
      BY Constants
    <3>2. req'[Main].done = req[Main].done /\ req'[Main].postponed = req[Main].postponed
      BY <1>8, <3>1
    <3> QED
      BY <2>1, <3>2 DEF Ordered
  <2> QED
    BY <1>1, <1>9, <2>6, <2>7, <2>8, OrderedNext
<1> QED
  BY <1>1, <1>2, <1>10, <1>11, <1>12, OInvNext

(* A buffer that the content handler passes to the filter.                 *)
LEMMA OrderNewOutput ==
    ASSUME RequestsAssumption, IInv, OInv,
           NEW r \in Reqs, Working(r), MayOutput(r), ~(error /\ r = data),
           PostponeFilter(Noted(req, r, NewBuffer(r)), r, <<NewBuffer(r)>>),
           document' = Written(document, r, NewBuffer(r)), UNCHANGED <<freed, terminated>>
    PROVE  OInv'
<1>1. /\ r \in Documented /\ r \notin Gone /\ ~freed /\ req[r].held = <<>>
      /\ req \in [Reqs -> Request] /\ Linear(document) /\ Documented \subseteq ToSet(document)
      /\ ~terminated => Ordered /\ (r = Main => ~req[Main].done)
      /\ terminated => error /\ r # data
  BY Producing
<1>2. PICK n : n = NewBuffer(r)
  OBVIOUS
<1>3. n \in Pieces /\ n[1] = r /\ n \notin ToSet(document)
  BY <1>1, <1>2, NewBufferIs DEF OInv
<1>4. PICK rq : rq = Noted(req, r, n)
  OBVIOUS
<1>5. /\ rq \in [Reqs -> Request] /\ \A x \in Reqs \ {r} : rq[x] = req[x]
      /\ Continues(rq[r], req[r]) /\ rq[r].doc = Append(req[r].doc, n)
  BY SMTT(30), <1>1, <1>3, <1>4, NotedIs
<1>6. Noting(rq, r)
  BY <1>5 DEF Noting, Continues
<1>7. PICK out \in {<<p>> : p \in Pieces} : out = <<n>>
  BY <1>3
<1>8. PostponeFilter(rq, r, out) /\ out \in {<<>>} \cup {<<p>> : p \in Pieces}
  BY <1>2, <1>4, <1>7
<1>9. Unfiltered(rq, r)
  <2>1. data \in Reqs /\ posted \in Seq(Reqs) /\ sent \in Seq(Pieces) /\ buffered \in BOOLEAN
    BY DEF IInv, Types
  <2> QED
    BY <1>5, <1>8, <2>1, Filter
<1>10. /\ Documented' = Documented /\ req'[r].doc = Append(req[r].doc, n)
       /\ \A x \in Reqs \ {r} : req'[x].doc = req[x].doc
  <2>1. Documented' = Documented
    BY <1>6, <1>9 DEF Documented, Unfiltered, Noting
  <2> QED
    BY <1>5, <1>9, <2>1 DEF Unfiltered
<1>11. Produced' /\ Linear(document') /\ Inserted(document, r, n, document')
  BY <1>1, <1>2, <1>10, ProducedPiece DEF OInv
<1>12. CASE terminated
  <2>1. Ahead(document', sent, Documented \ Gone)
    BY <1>1, <1>11, AheadPiece
  <2> QED
    BY <1>1, <1>5, <1>6, <1>8, <1>11, <1>12, <2>1, UnsentOrder
<1>13. CASE ~terminated
  <2>1. /\ out \in Seq(Reqs \cup Pieces) /\ Only(out, NewBuffer(r))
        /\ Linear(document') /\ Inserted(document, r, NewBuffer(r), document')
    BY <1>2, <1>3, <1>7, <1>11 DEF Only
  <2>2. /\ Course(document', Documented, Parents, Listed(rq, r, out), ToSet(sent), data, Gone)
        /\ SentSorted(document', sent)
        /\ \A x \in Documented \ {r} : Sorted(document', Line(rq, x))
        /\ Sorted(document', rq[r].postponed \o out)
    BY <1>1, <1>5, <1>6, <1>13, <2>1, PieceOrder
  <2>3. Ordered /\ ~freed'
    BY <1>1, <1>13
  <2> QED
    BY <1>1, <1>5, <1>6, <1>8, <1>11, <1>13, <2>1, <2>2, <2>3, FilteredOrder
<1> QED
  BY <1>12, <1>13

(* A content handler outputs a buffer, the last one among them.            *)
LEMMA OrderOutput ==
    ASSUME RequestsAssumption, IInv, OInv, NEW r \in Reqs, Output(r) \/ Complete(r)
    PROVE  OInv'
<1>1. CASE Output(r)
  BY <1>1, OrderNewOutput DEF Output
<1>2. CASE Complete(r)
  <2>1. UNCHANGED <<count, error, terminated, freed, alert>> /\ Working(r)
    BY <1>2 DEF Complete
  <2>2. CASE UNCHANGED <<req, posted, data, buffered, sent, document>>
    BY <2>1, <2>2, SameReq
  <2>3. CASE /\ MayOutput(r) /\ ~(error /\ r = data)
             /\ PostponeFilter(Noted(req, r, NewBuffer(r)), r, <<NewBuffer(r)>>)
             /\ document' = Written(document, r, NewBuffer(r))
    BY <2>1, <2>3, OrderNewOutput
  <2> QED
    BY <1>2, <2>2, <2>3 DEF Complete
<1> QED
  BY <1>1, <1>2

-----------------------------------------------------------------------------
(* A handler lets its output go on.                                        *)
LEMMA OrderRun ==
    ASSUME RequestsAssumption, IInv, OInv, NEW r \in Reqs,
           RunWaiting(r) \/ RunWriter(r) \/ (RunWriterUnarmed(r) /\ ~req[r].aio)
    PROVE  Ahead(document', sent', Documented' \ Gone') /\ (freed' = freed => OInv')
<1>1. /\ step.op = "run" /\ step.r = r /\ req[r].write \in {"handler", "writer"}
      /\ ~(error /\ r = data) /\ UNCHANGED <<error, terminated, document>>
  BY DEF RunWaiting, RunWriter, RunWriterUnarmed, Running, Run
<1>2. Live /\ ~Doing(r) /\ ~Ending(r) /\ ~freed
  BY <1>1, Acting, NotFreed DEF Doing, Ending
<1>3. /\ req \in [Reqs -> Request] /\ Noting(req, r)
      /\ data \in Reqs /\ posted \in Seq(Reqs) /\ sent \in Seq(Pieces) /\ buffered \in BOOLEAN
      /\ data \in Documented
  BY <1>2 DEF Live, Types, Noting, Existing, Documented
<1>4. PICK out \in {<<>>} \cup {<<p>> : p \in Pieces} :
          PostponeFilter(req, r, out) /\ (~terminated => out = req[r].held)
  <2>1. CASE RunWaiting(r)
    <3>1. PostponeFilter(req, r, <<>>) /\ req[r].write = "handler"
      BY <2>1 DEF RunWaiting, Running
    <3>2. ~terminated => req[r].held = <<>>
      BY <1>2, <3>1 DEF Live, Going, Reading
    <3> QED
      BY <3>1, <3>2
  <2>2. CASE RunWriter(r) \/ (RunWriterUnarmed(r) /\ ~req[r].aio)
    <3>1. PostponeFilter(req, r, req[r].held)
      BY <2>2 DEF RunWriter, RunWriterUnarmed
    <3>2. req[r].held \in {<<>>} \cup {<<p>> : p \in Pieces}
      BY <1>3 DEF Request
    <3> QED
      BY <3>1, <3>2
  <2> QED
    BY <2>1, <2>2
<1> DEFINE p == req[r].postponed \o out
<1>5. Unfiltered(req, r) /\ (r # data => data' = data /\ sent' = sent)
  <2>1. /\ Unfiltered(req, r)
        /\ Unsent(r, p) \/ Passed(r, p) \/ \E i \in 1 .. Len(p) : Woken(r, p, i)
    BY <1>3, <1>4, Filter
  <2> HIDE DEF p
  <2> QED
    BY <2>1 DEF Unsent, Passed, Woken
<1>6. Documented' = Documented
  BY <1>5 DEF Unfiltered, Documented
<1>7. r # data => Unread /\ Ahead(document', sent', Documented' \ Gone')
  <2>1. \A x \in Documented : /\ req'[x].parent = req[x].parent /\ req'[x].doc = req[x].doc
                              /\ req'[x].logged = req[x].logged
    BY <1>5 DEF Unfiltered, Documented
  <2>2. r # data => Unread
    BY <1>1, <1>5, <1>6, <2>1 DEF Unread
  <2> QED
    BY <1>6, <2>2, UnreadSame DEF OInv
<1>8. CASE terminated
  <2>1. r # data
    BY <1>1, <1>2, <1>8 DEF Live, Delayed
  <2> QED
    BY <1>1, <1>7, <1>8, <2>1, QuietStep
<1>9. CASE ~terminated /\ r \notin Documented
  <2>1. r # data
    BY <1>3, <1>9
  <2>2. Unmoved
    <3>1. \A x \in Documented : req'[x].postponed = req[x].postponed /\ req'[x].held = req[x].held
      BY <1>5, <1>9 DEF Unfiltered, Documented
    <3>2. req'[Main].done = req[Main].done
      BY <1>5, Constants DEF Unfiltered
    <3> QED
      BY <1>5, <2>1, <3>1, <3>2 DEF Unmoved
  <2> QED
    BY <1>1, <1>7, <2>1, <2>2, QuietStep
<1>10. CASE ~terminated /\ r \in Documented
  <2>1. Ordered /\ out = req[r].held
    BY <1>2, <1>4, <1>10 DEF OInv
  <2>2. \A x \in Documented : Listed(req, r, out)[x] = Lines(req)[x] /\ Parents[x] = Parents[x]
    BY <2>1 DEF Listed, Lines, Line, Documented
  <2>3. Course(document, Documented, Parents, Listed(req, r, out), ToSet(sent), data, Gone)
    BY <2>1, <2>2, CourseSame DEF Ordered
  <2>4. SentSorted(document, sent)
    BY DEF OInv, Ahead
  <2>5. /\ \A x \in Documented \ {r} : Sorted(document, Line(req, x))
        /\ Sorted(document, req[r].postponed \o out)
    BY <1>10, <2>1 DEF Ordered, Line
  <2>6. Produced'
    <3>1. document' = document
      BY <1>1
    <3>2. \A x \in Documented : Buffers(x)' = Buffers(x)
      BY <1>5 DEF Unfiltered, Buffers, Documented
    <3>3. \A q \in ToSet(document) \cap Pieces : q[1] \in Documented /\ q[2] <= Buffers(q[1])'
      BY <3>2 DEF OInv, Produced
    <3> QED
      BY <1>6, <3>1, <3>3 DEF OInv, Produced
  <2>7. r = Main => ~req[Main].done
    BY <1>1, <1>2, <1>10 DEF Live, Going, MainDone
  <2> QED
    BY <1>1, <1>2, <1>3, <1>4, <1>10, <2>1, <2>3, <2>4, <2>5, <2>6, <2>7, FilteredOrder
<1> QED
  BY <1>8, <1>9, <1>10

(* A subrequest whose turn it was ends.                                    *)
LEMMA OrderActive ==
    ASSUME RequestsAssumption, IInv, IInv', OInv, NEW r \in Reqs, r # Main, FinalizeActive(r)
    PROVE  OInv'
<1>1. /\ FinalizingOk(r) /\ UNCHANGED <<buffered, error, terminated, freed, sent, document>>
      /\ req[r].held = <<>> /\ req[r].postponed = <<>> /\ ~req[r].background /\ r = data
  BY DEF FinalizeActive, Drained
<1>2. /\ Live /\ ~terminated /\ ~req[r].logged /\ step.op = "finalize"
      /\ req[r].write \in {"handler", "upstream", "writer", "finalizer"}
  BY <1>1, EndingFacts
<1>3. ~freed /\ Ordered /\ Produced /\ r \in Documented /\ req \in [Reqs -> Request]
  BY <1>1, <1>2, NotFreed DEF OInv, Documented, Live, Types
<1>4. PICK p \in Reqs : p = req[r].parent
  BY <1>2, Constants DEF Live, Existing
<1>5. PICK T \in SUBSET Reqs : OnPath(T) /\ Queued(T)
  BY <1>2 DEF Live, Going, Tree
<1>6. p # r /\ data' = p
  BY <1>1, <1>4, <1>5 DEF OnPath, FinalizeActive
<1>7. HandsBack(r, p)
  <2>1. req' = [req EXCEPT ![r].done = TRUE, ![r].logged = TRUE, ![r].write = "empty",
                           ![p].postponed = Unlinked(@, r)]
    BY <1>4 DEF FinalizeActive
  <2> QED
    BY <1>3, <1>6, <2>1, HandsBackIs
<1>8. Documented' = Documented
  <2>1. \A x \in Reqs : req'[x].write = "none" <=> req[x].write = "none"
    BY <1>2, <1>7 DEF HandsBack
  <2> QED
    BY <1>7, <2>1 DEF HandsBack, Documented
<1>9. Gone' = Gone \cup {r} /\ Parents' = Parents
  <2>1. \A x \in Documented \ {r} : req'[x].logged = req[x].logged
    BY <1>7 DEF HandsBack, Documented
  <2>2. req'[r].logged
    BY <1>7 DEF HandsBack
  <2>3. \A x \in Reqs : req'[x].parent = req[x].parent
    BY <1>7 DEF HandsBack
  <2> QED
    BY <1>3, <1>8, <2>1, <2>2, <2>3 DEF Gone, Parents
<1>10. PICK q \in Seq(Reqs \cup Pieces) : q = req[p].postponed
  BY <1>3 DEF Request
<1>11. PICK u : u = Unlinked(q, r) /\ req'[p].postponed = u
  BY <1>7, <1>10 DEF HandsBack
<1>12. \/ Len(q) \in Nat \ {0} /\ q[1] = r /\ u \in Seq(Reqs \cup Pieces) /\ Len(u) = Len(q) - 1
          /\ \A i \in 1 .. Len(q) - 1 : u[i] = q[i + 1]
       \/ (q # <<>> => q[1] # r) /\ u = q
  BY <1>10, <1>11, UnlinkedIs
<1>13. Sorted(document, Line(req', p)) /\ Lines(req')[p] = Lines(req)[p] \ {r}
  <2> DEFINE d == document
             S == Reqs \cup Pieces
             h == req[p].held
             z == q \o h
             y == u \o h
  <2>1. /\ Line(req, p) = z /\ Line(req', p) = y /\ h \in Seq(S)
        /\ \A i \in 1 .. Len(h) : h[i] \in Pieces
        /\ Lines(req)[p] = ToSet(z) /\ Lines(req')[p] = ToSet(y)
    <3>1. req'[p].held = h /\ h \in {<<>>} \cup {<<e>> : e \in Pieces}
      BY <1>3, <1>7 DEF HandsBack, Request
    <3>2. Line(req, p) = z /\ Line(req', p) = y
      BY <1>10, <1>11, <3>1 DEF Line
    <3>3. h \in Seq(S) /\ \A i \in 1 .. Len(h) : h[i] \in Pieces
      <4>1. CASE h = <<>>
        BY <4>1
      <4>2. ASSUME NEW e \in Pieces, h = <<e>>
            PROVE  h \in Seq(S) /\ \A i \in 1 .. Len(h) : h[i] \in Pieces
        BY <4>2
      <4> QED
        BY <3>1, <4>1, <4>2
    <3> HIDE DEF z, y
    <3> QED
      BY <3>2, <3>3 DEF Lines
  <2>2. Linear(d) /\ Sorted(d, z)
    <3>1. p \in Documented
      BY <1>3, <1>4, <1>1 DEF Ordered, Course, Family, Parents
    <3> QED
      BY <1>3, <2>1, <3>1, ProducedLinear DEF Ordered
  <2>3. CASE Len(q) \in Nat \ {0} /\ q[1] = r /\ u \in Seq(S) /\ Len(u) = Len(q) - 1
             /\ \A i \in 1 .. Len(q) - 1 : u[i] = q[i + 1]
    <3>1. /\ z \in Seq(S) /\ Len(z) = Len(q) + Len(h)
          /\ \A i \in 1 .. Len(q) + Len(h) : z[i] = IF i <= Len(q) THEN q[i] ELSE h[i - Len(q)]
      BY <2>1, ConcatProperties
    <3>2. /\ y \in Seq(S) /\ Len(y) = Len(u) + Len(h)
          /\ \A i \in 1 .. Len(u) + Len(h) : y[i] = IF i <= Len(u) THEN u[i] ELSE h[i - Len(u)]
      <4>1. u \in Seq(S) /\ h \in Seq(S)
        BY <2>1, <2>3
      <4> QED
        BY ONLY <4>1, ConcatProperties
    <3>3. Len(h) \in Nat
      BY <2>1
    <3> HIDE DEF z, y, h
    <3>4. /\ 1 \in 1 .. Len(z) /\ z[1] = r /\ Len(y) = Len(z) - 1
          /\ \A i \in 1 .. Len(z) - 1 : y[i] = z[i + 1]
      <4>1. 1 \in 1 .. Len(z) /\ z[1] = r /\ Len(y) = Len(z) - 1
        BY <2>3, <3>1, <3>2, <3>3
      <4>2. ASSUME NEW i \in 1 .. Len(z) - 1 PROVE y[i] = z[i + 1]
        <5>1. i \in 1 .. Len(u) + Len(h) /\ i + 1 \in 1 .. Len(q) + Len(h)
          BY <2>3, <3>1, <3>3
        <5>2. CASE i <= Len(u)
          BY <2>3, <3>1, <3>2, <3>3, <5>1, <5>2
        <5>3. CASE i > Len(u)
          <6>1. ~(i <= Len(u)) /\ ~(i + 1 <= Len(q)) /\ (i + 1) - Len(q) = i - Len(u)
            BY <2>3, <5>3
          <6> QED
            BY <3>1, <3>2, <5>1, <6>1
        <5> QED
          BY <2>3, <5>2, <5>3
      <4> QED
        BY <4>1, <4>2
    <3>5. Sorted(d, y) /\ ToSet(y) = ToSet(z) \ {z[1]}
      BY <2>2, <3>1, <3>2, <3>4, SortedTail
    <3> QED
      BY <2>1, <3>4, <3>5 DEF d
  <2>4. CASE (q # <<>> => q[1] # r) /\ u = q
    <3>1. \A i \in 1 .. Len(q) : q[i] # r
      <4>1. Placed(q, Children(p), T) /\ r \in T
        BY <1>1, <1>5, <1>10 DEF Queued, OnPath
      <4>2. ASSUME NEW i \in 1 .. Len(q), q[i] = r PROVE FALSE
        <5>1. i = 1
          BY <4>1, <4>2 DEF Placed
        <5>2. q # <<>>
          BY <4>2
        <5> QED
          BY <2>4, <4>2, <5>1, <5>2
      <4> QED
        BY <4>2
    <3>2. \A i \in 1 .. Len(h) : h[i] # r
      BY <2>1, Constants
    <3>3. /\ z \in Seq(S) /\ Len(z) = Len(q) + Len(h) /\ Len(q) \in Nat /\ Len(h) \in Nat
          /\ \A i \in 1 .. Len(q) + Len(h) : z[i] = IF i <= Len(q) THEN q[i] ELSE h[i - Len(q)]
      BY <2>1, ConcatProperties
    <3>4. \A i \in 1 .. Len(z) : z[i] # r
      <4> SUFFICES ASSUME NEW i \in 1 .. Len(z) PROVE z[i] # r
        OBVIOUS
      <4> HIDE DEF z, h
      <4>1. CASE i <= Len(q)
        BY <3>1, <3>3, <4>1
      <4>2. CASE i > Len(q)
        <5>1. i - Len(q) \in 1 .. Len(h) /\ ~(i <= Len(q))
          BY <3>3, <4>2
        <5> QED
          BY <3>2, <3>3, <5>1
      <4> QED
        BY <3>3, <4>1, <4>2
    <3> HIDE DEF z, h
    <3>5. r \notin ToSet(z)
      BY <3>3, <3>4, SeqElements
    <3>6. y = z
      BY <2>4 DEF z
    <3> QED
      BY <2>1, <2>2, <3>5, <3>6 DEF d
  <2> QED
    BY <1>12, <2>3, <2>4
<1>14. \A x \in Reqs \ {p} : Line(req', x) = Line(req, x)
  BY <1>7 DEF HandsBack, Line
<1>15. Course(document, Documented, Parents, Lines(req'), ToSet(sent), p, Gone \cup {r})
  <2> DEFINE O == Lines(req)
             N == Lines(req')
  <2>1. Course(document, Documented, Parents, O, ToSet(sent), r, Gone)
    BY <1>1, <1>3 DEF Ordered
  <2>2. O[r] = {}
    <3>1. <<>> \in Seq(Reqs) /\ <<>> \o <<>> = <<>>
      BY ConcatEmptySeq
    <3>2. ToSet(<<>>) = {}
      BY DEF ToSet
    <3> QED
      BY <1>1, <3>1, <3>2 DEF Lines, Line
  <2>3. N[p] = O[p] \ {r} /\ \A x \in Documented \ {p} : N[x] = O[x]
    BY <1>13, <1>14 DEF Lines, Documented
  <2>4. p = Parents[r] /\ Apart
    BY <1>4, AreApart DEF Parents
  <2> HIDE DEF O, N
  <2>5. Course(document, Documented, Parents, N, ToSet(sent), p, Gone \cup {r})
    BY <2>1, <2>2, <2>3, <2>4, CourseBack
  <2> QED
    BY <2>5 DEF N
<1>16. req'[Main].done => req'[Main].postponed = <<>>
  <2>1. req[Main].done => data = Main
    BY <1>2 DEF Live, Going, MainDone
  <2>2. req'[Main].done = req[Main].done
    BY <1>7, Constants DEF HandsBack
  <2> QED
    BY <1>1, <2>1, <2>2
<1>17. Ordered'
  <2>1. \A x \in Documented : Sorted(document, Line(req', x))
    BY <1>3, <1>13, <1>14 DEF Ordered, Documented
  <2>2. document' = document /\ sent' = sent
    BY <1>1
  <2> QED
    BY <1>6, <1>8, <1>9, <1>15, <1>16, <2>1, <2>2, OrderedNext
<1>18. Ahead(document', sent', Documented' \ Gone')
  BY <1>1, <1>8, <1>9 DEF OInv, Ahead
<1>19. Produced'
  <2>1. \A x \in Documented : Buffers(x)' = Buffers(x)
    BY <1>7 DEF HandsBack, Buffers, Documented
  <2>2. \A e \in ToSet(document) \cap Pieces : e[1] \in Documented /\ e[2] <= Buffers(e[1])'
    BY <1>3, <2>1 DEF Produced
  <2> QED
    BY <1>1, <1>3, <1>8, <2>2 DEF Produced
<1> QED
  BY <1>1, <1>3, <1>17, <1>18, <1>19, OInvNext

-----------------------------------------------------------------------------
(* What a subrequest changes of the requests it joins: it is the last in   *)
(* its parent's list and has nothing of its own yet.                       *)
Separate ==
    /\ Apart
    /\ \A x, y \in Reqs : Opening(x) # y
    /\ \A x \in Reqs, q \in Pieces : q # x /\ q # Opening(x)

(* The subrequest s is the last in the list of r and has nothing of its    *)
(* own.                                                                    *)
Joins(A, par, O, r, s, next, new) ==
    /\ r \in A /\ s \in Reqs /\ s \notin A /\ s # Main
    /\ next[s] = r /\ \A x \in A : next[x] = par[x]
    /\ new[r] = O[r] \cup {s} /\ new[s] = {} /\ \A x \in A \ {r} : new[x] = O[x]

(* The course of the document holds when a request that has not ended asks *)
(* for a subrequest.                                                       *)
LEMMA CourseJoined ==
    ASSUME NEW d, NEW A, NEW par, NEW O, NEW S, NEW c, NEW E, Course(d, A, par, O, S, c, E),
           NEW r, NEW s, NEW w, NEW next, NEW new, Separate, Opened(d, r, s, w),
           r \notin E, s \notin E, Joins(A, par, O, r, s, next, new)
    PROVE  Course(w, A \cup {s}, next, new, S, c, E)
<1>1. r \in A /\ s \in Reqs /\ s \notin A /\ s # Main
  BY DEF Joins
<1>2. next[s] = r /\ \A x \in A : next[x] = par[x]
  BY DEF Joins
<1>3. new[r] = O[r] \cup {s} /\ new[s] = {} /\ \A x \in A \ {r} : new[x] = O[x]
  BY DEF Joins
<1>4. Apart /\ \A x, y \in Reqs : Opening(x) # y
  BY DEF Separate
<1>5. \A x \in Reqs, q \in Pieces : q # x /\ q # Opening(x)
  BY DEF Separate
<1> QED
  BY <1>1, <1>2, <1>3, <1>4, <1>5, CourseSub

(* A request asks for a subrequest.                                        *)
LEMMA OrderSubrequest ==
    ASSUME RequestsAssumption, IInv, OInv, NEW r \in Reqs, NEW s \in Subs,
           NEW background \in BOOLEAN, NEW waited \in BOOLEAN, Subrequest(r, s, background, waited)
    PROVE  OInv'
<1>1. /\ Working(r) /\ MayOutput(r) /\ s \in Reqs /\ s # Main /\ req[s].write = "none"
      /\ UNCHANGED <<buffered, error, terminated, freed, step, sent, alert>>
  BY Constants DEF Subrequest, Created
<1>2. /\ r \in Documented /\ r \notin Gone /\ ~freed /\ req[r].held = <<>>
      /\ req \in [Reqs -> Request] /\ Linear(document) /\ Documented \subseteq ToSet(document)
      /\ ~terminated => Ordered /\ (r = Main => ~req[Main].done)
      /\ terminated => error /\ r # data
  BY <1>1, Producing
<1>3. r # s /\ s \notin Documented /\ data \in Documented
  BY <1>1, <1>2 DEF Documented, IInv, Types, Existing
<1>4. Begins(r, s, background)
  BY <1>2, <1>3, BeginsIs
<1>5. CASE background
  <2>1. /\ \A x \in Reqs \ {s} : req'[x] = req[x]
        /\ req'[s].background /\ data' = data /\ document' = document
    <3>1. document' = document
      BY <1>5 DEF Subrequest
    <3> QED
      BY <1>4, <1>5, <3>1 DEF Begins
  <2>2. Documented' = Documented
    BY <1>3, <2>1 DEF Documented
  <2>3. \A x \in Documented : req'[x] = req[x]
    BY <1>3, <2>1 DEF Documented
  <2>4. Unread
    BY <1>1, <2>1, <2>2, <2>3 DEF Unread
  <2>5. Unmoved
    <3>1. Main \in Reqs
      BY Constants
    <3> QED
      BY <1>1, <2>1, <2>3, <3>1 DEF Unmoved
  <2> QED
    BY <1>1, <2>4, <2>5, QuietStep
<1>6. CASE ~background
  <2> DEFINE d == document
             w == document'
             A == Documented
             O == Lines(req)
             N == Lines(req')
             q == req[r].postponed
  <2>1. /\ req' \in [Reqs -> Request] /\ \A x \in Reqs \ {r, s} : req'[x] = req[x]
        /\ req'[r].parent = req[r].parent /\ req'[r].background = req[r].background
        /\ req'[r].held = <<>> /\ req'[r].done = req[r].done /\ req'[r].logged = req[r].logged
        /\ req'[r].write = req[r].write
        /\ req'[s].parent = r /\ req'[s].write = "handler" /\ ~req'[s].background
        /\ req'[s].postponed = <<>> /\ req'[s].held = <<>> /\ ~req'[s].logged
        /\ req'[r].postponed = Append(q, s) /\ req'[r].doc = Append(req[r].doc, s)
        /\ data' = IF data = r /\ q = <<>> THEN s ELSE data
    BY <1>2, <1>4, <1>6 DEF Begins
  <2>2. Documented' = A \cup {s}
    <3>1. \A x \in Reqs \ {s} : /\ req'[x].write = req[x].write
                               /\ req'[x].background = req[x].background
      BY <2>1
    <3>2. s \in Documented'
      BY <1>1, <2>1 DEF Documented
    <3> QED
      BY <3>1, <3>2 DEF Documented
  <2>3. Gone' = Gone
    <3>1. \A x \in Reqs \ {s} : req'[x].logged = req[x].logged
      BY <2>1
    <3>2. Gone \subseteq A /\ s \notin A /\ A \subseteq Reqs
      BY <1>3 DEF Gone, Documented
    <3> QED
      BY <2>1, <2>2, <3>1, <3>2 DEF Gone
  <2>4. Produced' /\ Linear(w) /\ Opened(d, r, s, w)
    <3>1. document' = Written(Written(document, r, s), s, Opening(s))
      BY <1>6 DEF Subrequest
    <3>2. \A x \in Reqs \ {r, s} : req'[x].doc = req[x].doc
      BY <2>1
    <3> QED
      BY <1>1, <1>2, <1>3, <2>1, <2>2, <3>1, <3>2, ProducedSub DEF OInv
  <2>5. Extended(d, w, r, {s, Opening(s)}) /\ Adds(d, w, r, s) /\ ToSet(d) \subseteq ToSet(w)
    BY <2>4 DEF Opened, Extended, Adds
  <2>6. Ahead(document', sent', Documented' \ Gone')
    <3>1. PICK L : L = A \ Gone
      OBVIOUS
    <3>2. PICK M : M = Documented' \ Gone'
      OBVIOUS
    <3>3. Ahead(d, sent, L) /\ r \in L /\ L \subseteq ToSet(d) /\ M \subseteq L \cup {s, Opening(s)}
      BY <1>2, <2>2, <2>3, <3>1, <3>2 DEF OInv
    <3>4. Ahead(w, sent, M)
      BY <1>2, <2>4, <2>5, <3>3, AheadMore
    <3> QED
      BY <1>1, <3>2, <3>4
  <2>7. ASSUME ~terminated PROVE Ordered'
    <3>1. Ordered /\ (r = Main => ~req[Main].done)
      BY <1>2, <2>7
    <3>2. q \in Seq(Reqs \cup Pieces) /\ Line(req, r) = q
      <4>1. q \in Seq(Reqs \cup Pieces)
        BY <1>2 DEF Request
      <4> QED
        BY <1>2, <4>1, ConcatEmptySeq DEF Line
    <3>3. PICK b : b = <<s>>
      OBVIOUS
    <3>14. b \in Seq(Reqs \cup Pieces) /\ Only(b, s) /\ Append(q, s) = q \o b
      <4>1. s \in Reqs \cup Pieces /\ q \in Seq(Reqs \cup Pieces)
        BY <1>1, <3>2
      <4> HIDE DEF q
      <4>2. Append(q, s) = q \o <<s>>
        BY ONLY <4>1, AppendIsConcat
      <4>3. b \in Seq(Reqs \cup Pieces) /\ Len(b) = 1 /\ b[1] = s
        BY ONLY <3>3, <4>1
      <4> QED
        BY <3>3, <4>2, <4>3 DEF Only
    <3>4. Line(req', r) = q \o b /\ Line(req', s) = <<>>
      <4>1. Append(q, s) = q \o b
        BY <3>14
      <4>2. q \o b \in Seq(Reqs \cup Pieces) /\ <<>> \in Seq(Reqs)
        BY <3>2, <3>14, ConcatProperties
      <4>3. (q \o b) \o <<>> = q \o b /\ <<>> \o <<>> = <<>>
        BY <4>2, ConcatEmptySeq
      <4> QED
        BY <2>1, <4>1, <4>3 DEF Line
    <3>5. \A x \in A \ {r} : Line(req', x) = Line(req, x)
      BY <1>3, <2>1 DEF Line, Documented
    <3>6. /\ Course(d, A, Parents, O, ToSet(sent), data, Gone) /\ Apart
          /\ \A x \in A : Sorted(d, Line(req, x)) /\ O[x] = ToSet(Line(req, x))
      BY <3>1, AreApart DEF Ordered, Lines, Documented
    <3>7. Sorted(w, q \o b) /\ ToSet(q \o b) = ToSet(q) \cup {s}
      <4>1. ToSet(q) = O[r] /\ Sorted(d, q)
        BY <1>2, <3>2, <3>6
      <4>2. Precedes(d, q, r)
        <5> HIDE DEF d, A, O, q
        <5> QED
          BY <1>2, <3>6, <4>1, CourseBefore DEF Precedes, A
      <4> HIDE DEF d, w, q
      <4> QED
        BY <2>5, <3>2, <3>14, <4>1, <4>2, SortedAppend
    <3>8. /\ N[r] = O[r] \cup {s} /\ N[s] = {} /\ \A x \in A \ {r} : N[x] = O[x]
      <4>1. ToSet(<<>>) = {}
        BY DEF ToSet
      <4>2. \A x \in Reqs : N[x] = ToSet(Line(req', x))
        BY DEF Lines
      <4>3. A \subseteq Reqs
        BY DEF Documented
      <4> HIDE DEF N, O, A
      <4> QED
        BY <1>1, <1>2, <3>2, <3>4, <3>5, <3>6, <3>7, <4>1, <4>2, <4>3 DEF A
    <3>9. Parents'[s] = r /\ \A x \in A : Parents'[x] = Parents[x]
      <4>1. \A x \in Reqs : Parents'[x] = req'[x].parent /\ Parents[x] = req[x].parent
        BY DEF Parents
      <4>2. \A x \in Reqs \ {s} : req'[x].parent = req[x].parent
        BY <2>1
      <4>3. \A x \in A : x \in Reqs \ {s}
        BY <1>3 DEF Documented
      <4> HIDE DEF A
      <4> QED
        BY <1>1, <2>1, <4>1, <4>2, <4>3
    <3>10. Course(w, A \cup {s}, Parents', N, ToSet(sent), data, Gone)
      <4>1. s \notin A /\ s \notin Gone /\ r \in A /\ r \notin Gone
        BY <1>2, <1>3 DEF Gone
      <4>2. PICK next : next = Parents'
        OBVIOUS
      <4>3. next[s] = r /\ \A x \in A : next[x] = Parents[x]
        BY <3>9, <4>2
      <4>4. Separate
        BY AreApart DEF Apart, Separate
      <4>5. s \in Reqs /\ s # Main
        BY <1>1
      <4>6. Course(d, A, Parents, O, ToSet(sent), data, Gone) /\ Opened(d, r, s, w) /\ Linear(w)
        BY <2>4, <3>6
      <4> HIDE DEF d, w, A, O, N
      <4>8. Joins(A, Parents, O, r, s, next, N)
        BY <3>8, <4>1, <4>3, <4>5 DEF Joins
      <4>7. Course(w, A \cup {s}, next, N, ToSet(sent), data, Gone)
        BY ONLY <4>1, <4>4, <4>6, <4>8, CourseJoined
      <4> QED
        BY <4>2, <4>7
    <3>11. Course(w, Documented', Parents', N, ToSet(sent), data', Gone')
      <4>1. CASE data = r /\ q = <<>>
        <5>1. ToSet(<<>>) = {}
          BY DEF ToSet
        <5>2. N[data] = {s}
          BY <1>2, <3>2, <3>6, <3>8, <4>1, <5>1
        <5>3. data' = s
          BY <2>1, <4>1
        <5>4. PICK next : next = Parents'
          OBVIOUS
        <5>5. PICK B : B = A \cup {s}
          OBVIOUS
        <5> HIDE DEF w, A, N
        <5>6. Course(w, B, next, N, ToSet(sent), s, Gone)
          BY <3>6, <3>10, <5>2, <5>4, <5>5, CourseTurn
        <5> QED
          BY <2>2, <2>3, <5>3, <5>4, <5>5, <5>6 DEF A
      <4>2. CASE ~(data = r /\ q = <<>>)
        BY <2>1, <2>2, <2>3, <3>10, <4>2
      <4> QED
        BY <4>1, <4>2
    <3>12. \A x \in Documented' : Sorted(w, Line(req', x))
      <4> SUFFICES ASSUME NEW x \in A \cup {s} PROVE Sorted(w, Line(req', x))
        BY <2>2
      <4>1. CASE x = r
        BY <3>4, <3>7, <4>1
      <4>2. CASE x = s
        BY <3>4, <4>2 DEF Sorted
      <4>3. CASE x \in A \ {r}
        <5>1. ToSet(Line(req, x)) \subseteq ToSet(d)
          <6> HIDE DEF d, A, O
          <6> QED
            BY <3>6, <4>3, CourseBefore
        <5>2. Sorted(w, Line(req, x))
          BY <2>5, <3>6, <4>3, <5>1, SortedMore DEF Adds
        <5> QED
          BY <3>5, <4>3, <5>2
      <4> QED
        BY <4>1, <4>2, <4>3
    <3>13. req'[Main].done => req'[Main].postponed = <<>>
      <4>1. Main \in Reqs
        BY Constants
      <4>2. CASE r = Main
        BY <2>1, <3>1, <4>2
      <4>3. CASE r # Main
        <5>1. req'[Main] = req[Main]
          BY <1>1, <2>1, <4>1, <4>3
        <5> QED
          BY <3>1, <5>1 DEF Ordered
      <4> QED
        BY <4>2, <4>3
    <3> QED
      BY <1>1, <3>11, <3>12, <3>13, OrderedNext
  <2> QED
    BY <1>1, <1>2, <2>4, <2>6, <2>7, OInvNext
<1> QED
  BY <1>5, <1>6

(* The document of a new request is its opening and itself.                *)
LEMMA InitOInv ==
    ASSUME RequestsAssumption, Init
    PROVE  OInv
<1> DEFINE o == Opening(Main)
<1>1. /\ Main \in Reqs /\ o \notin Reqs /\ o # Main /\ Main \notin Pieces /\ o \notin Pieces
      /\ document = <<o, Main>> /\ sent = <<>> /\ data = Main /\ ~freed
  BY Constants, AreApart DEF Apart, Init, Start
<1>2. /\ \A x \in Reqs : /\ req[x].write = "none" <=> x # Main
                         /\ ~req[x].background /\ ~req[x].logged /\ ~req[x].done
                         /\ req[x].postponed = <<>> /\ req[x].held = <<>>
  BY <1>1 DEF Init, Start, NewRequest
<1>3. Documented = {Main} /\ Gone = {}
  BY <1>1, <1>2 DEF Documented, Gone
<1> HIDE DEF o
<1>4. /\ document \in Seq(Places) /\ Len(document) = 2 /\ document[1] = o /\ document[2] = Main
      /\ DOMAIN document = 1 .. 2
  BY <1>1 DEF Places, o
<1>5. /\ IsInjective(document) /\ ToSet(document) = {o, Main} /\ Before(document, o, Main)
  BY <1>1, <1>4 DEF IsInjective, ToSet, Before
<1>6. ToSet(document) \cap Pieces = {} /\ ToSet(sent) = {}
  BY <1>1, <1>5 DEF ToSet
<1>7. Produced
  BY <1>3, <1>4, <1>5, <1>6 DEF Produced, o
<1>8. Linear(document)
  BY <1>7, ProducedLinear
<1>9. \A x : Line(req, Main) = <<>> /\ Lines(req)[Main] = {}
  <2>1. <<>> \in Seq(Reqs) /\ <<>> \o <<>> = <<>>
    BY ConcatEmptySeq
  <2>2. ToSet(<<>>) = {}
    BY DEF ToSet
  <2> QED
    BY <1>1, <1>2, <2>1, <2>2 DEF Lines, Line
<1>10. Course(document, Documented, Parents, Lines(req), ToSet(sent), data, Gone)
  <2>1. Bounded(document, {Main})
    BY <1>1, <1>5, <1>6, <1>8 DEF Bounded, o, Linear
  <2>2. \A x, y \in {Main} : ~Within(document, x, y)
    BY <1>8 DEF Within, Linear
  <2>3. Family(document, {Main}, Parents)
    BY <2>2 DEF Family
  <2>4. Sending(document, {Main}, {}, Main, {})
    BY <1>6, <1>8 DEF Sending, Linear
  <2>5. Waits(document, {Main}, Parents, Lines(req), {}, Main, {})
    BY <1>6, <1>9 DEF Waits
  <2> QED
    BY <1>1, <1>3, <1>6, <2>1, <2>3, <2>4, <2>5 DEF Course
<1>11. Ordered
  BY <1>1, <1>2, <1>3, <1>9, <1>10 DEF Ordered, Sorted
<1>12. SentSorted(document, sent)
  BY <1>1, <1>6 DEF SentSorted, Sorted
<1>13. Ahead(document, sent, Documented \ Gone) /\ Whole
  BY <1>1, <1>10, <1>12, CourseAhead DEF Whole
<1> QED
  BY <1>7, <1>11, <1>13 DEF OInv

(* Every step keeps the invariant of the output.                           *)
LEMMA NextOInv ==
    ASSUME RequestsAssumption, IInv, OInv, [Usual]_vars
    PROVE  OInv'
<1>0. IInv'
  BY NextIInv
<1>1. CASE ContentStep
  <2>1. PICK r \in Reqs :
          \/ Output(r) \/ OutputAio(r) \/ StartUpstream(r) \/ UpstreamAgain(r)
          \/ WaitSubrequest(r) \/ Complete(r) \/ ContentFails(r)
          \/ \E s \in Subs, background, waited \in BOOLEAN : Subrequest(r, s, background, waited)
    BY <1>1 DEF ContentStep
  <2> QED
    BY <2>1, OrderOutput, OrderOutputAio, QuietContent, OrderSubrequest
<1>2. CASE FinalizeStep
  <2>1. \A s \in Subs : s \in Reqs /\ s # Main
    BY Constants
  <2>2. ASSUME NEW r \in Reqs, FinalizeError(r) PROVE OInv'
    <3>1. Terminate(count) /\ ~freed
      BY <2>2, NotFreed DEF FinalizeError, Finalizing
    <3> QED
      BY <1>0, <3>1, QuietTerminate
  <2> QED
    BY <1>0, <1>2, <2>1, <2>2, QuietFinalize, QuietEnds, OrderActive DEF FinalizeStep
<1>3. CASE LoopStep
  <2>1. ASSUME NEW r \in Reqs, RunWaiting(r) \/ RunWriter(r) PROVE OInv'
    <3>1. freed' = freed
      BY <2>1 DEF RunWaiting, RunWriter
    <3> QED
      BY <2>1, <3>1, OrderRun
  <2> QED
    BY <1>3, <2>1, QuietLoop DEF LoopStep
<1>4. CASE Event
  <2>1. ASSUME ConnectionClose PROVE OInv'
    <3>1. Terminate(count + 1) /\ ~freed
      BY <2>1 DEF ConnectionClose, Ready
    <3> QED
      BY <1>0, <3>1, QuietTerminate
  <2> QED
    BY <1>4, <2>1, QuietEvents, QuietClient DEF Event
<1>5. CASE UNCHANGED vars
  BY <1>5, QuietLoop
<1> QED
  BY <1>1, <1>2, <1>3, <1>4, <1>5 DEF Usual, Worker, Finished

(* A request that is freed when its writer cannot wait for the client:     *)
(* what was sent is in order.                                              *)
Cut == freed /\ unarmed > 0 /\ InOrder

(* Nothing happens to a request that is freed.                             *)
LEMMA NextCut ==
    ASSUME IInv, Cut, [Usual]_vars, unarmed' = unarmed
    PROVE  Cut'
<1>1. step \in {Loop, Rest} /\ step.op \in {"loop", "rest"}
  BY DEF IInv, Cut, Freed, Loop, Rest
<1>2. UNCHANGED <<freed, document, sent>>
  <2>1. ~ContentStep
    <3>1. ASSUME NEW r \in Reqs PROVE ~Working(r)
      BY <1>1 DEF Working, Content
    <3>2. ASSUME NEW r \in Reqs
          PROVE  /\ ~Output(r) /\ ~OutputAio(r) /\ ~StartUpstream(r) /\ ~UpstreamAgain(r)
                 /\ ~WaitSubrequest(r) /\ ~ContentFails(r)
      BY <3>1 DEF Output, OutputAio, StartUpstream, UpstreamAgain, WaitSubrequest, ContentFails
    <3>3. ASSUME NEW r \in Reqs PROVE ~Complete(r)
      BY <3>1 DEF Complete
    <3>4. ASSUME NEW r \in Reqs, NEW s \in Subs, NEW background \in BOOLEAN, NEW waited \in BOOLEAN
          PROVE  ~Subrequest(r, s, background, waited)
      BY <3>1 DEF Subrequest
    <3> QED
      BY <3>2, <3>3, <3>4 DEF ContentStep
  <2>2. ~FinalizeStep
    BY <1>1 DEF FinalizeStep, FinalizeDone, FinalizeError, FinalizeLater, FinalizeBackground,
                FinalizeActive, FinalizeInactive, FinalizeMain, FinalizingOk, Finalizing
  <2>3. ~Event
    BY DEF Cut, Event, UpstreamEvent, AioDone, ClientWrite, ClientGone, ConnectionClose, Ready
  <2>4. CASE LoopStep
    <3>1. ASSUME NEW r \in Reqs, NEW h PROVE ~Running(r, h)
      BY <1>1 DEF Running, Run
    <3>2. ~RunTerminate
      BY <1>1 DEF RunTerminate, Running, Run
    <3>3. CASE LoopEnds \/ RunPosted
      BY <3>3 DEF LoopEnds, RunPosted
    <3> QED
      BY <2>4, <3>1, <3>2, <3>3 DEF LoopStep, RunHandler, RunWaiting, RunIdle, RunWriter,
                                    RunWriterFails, RunFinalizer
  <2>5. CASE UNCHANGED vars
    BY <2>5 DEF vars
  <2> QED
    BY <2>1, <2>2, <2>3, <2>4, <2>5 DEF Usual, Worker, Finished
<1> QED
  BY <1>2 DEF Cut, InOrder, Before

(* A request freed because its writer could not wait had sent what the     *)
(* document begins with.                                                   *)
LEMMA OrderUnarmed ==
    ASSUME RequestsAssumption, IInv, OInv, NEW r \in Reqs, RunWriterUnarmed(r), freed', unarmed' > 0
    PROVE  Cut'
<1>1. ~req[r].aio
  BY RunWriterUnarmedStep
<1>2. Ahead(document', sent', Documented' \ Gone')
  BY <1>1, OrderRun
<1>3. InOrder'
  BY <1>2 DEF Ahead, InOrder, SentSorted, Sorted, Before
<1> QED
  BY <1>3 DEF Cut

(* With the same exception.                                                *)
OKept == Kept /\ (twice \/ OInv \/ Cut)

(* Every step keeps the order of the output, but for the exception.        *)
LEMMA NextOKept ==
    ASSUME RequestsAssumption, OKept, [Next]_vars
    PROVE  OKept'
<1>1. Kept' /\ Kept
  BY NextKept DEF OKept
<1>2. CASE twice'
  BY <1>1, <1>2 DEF OKept
<1>3. CASE ~twice'
  <2>1. /\ ~twice
        /\ \/ [Usual]_vars /\ unarmed' = unarmed
           \/ \E r \in Reqs : RunWriterUnarmed(r) /\ freed' /\ unarmed' > 0
    BY <1>1, <1>3, NextUnarmed
  <2>2. IInv /\ (OInv \/ Cut)
    BY <1>1, <2>1 DEF OKept, Kept
  <2>3. CASE [Usual]_vars /\ unarmed' = unarmed
    BY <1>1, <2>2, <2>3, NextOInv, NextCut DEF OKept
  <2>4. CASE \E r \in Reqs : RunWriterUnarmed(r) /\ freed' /\ unarmed' > 0
    <3>1. PICK r \in Reqs : RunWriterUnarmed(r) /\ freed' /\ unarmed' > 0
      BY <2>4
    <3>2. ~freed
      BY <2>2, <3>1, RunWriterUnarmedStep
    <3>3. OInv
      BY <2>2, <3>2 DEF Cut
    <3> QED
      BY <1>1, <2>2, <3>1, <3>3, OrderUnarmed DEF OKept
  <2> QED
    BY <2>1, <2>3, <2>4
<1> QED
  BY <1>2, <1>3

(* The client is sent the main request's output and that of its            *)
(* subrequests in the order in which the document has them, each at the    *)
(* place where its parent asked for it, with no buffer twice and none left *)
(* out; and a request that is freed without having been terminated, and    *)
(* without a writer that could not wait for the client, was sent whole     *)
(* (the postpone filter and the turns that ngx_http_finalize_request       *)
(* gives).  This holds for any number of subrequests, nested in any way,   *)
(* run in any order, with asynchronous file reads and upstreams, and with  *)
(* failures of the content, the output filter and the client, as long as   *)
(* no reference is given back twice (GivenTwice).                          *)
THEOREM OutputIsExact ==
    ASSUME RequestsAssumption
    PROVE  Spec => []OutputExact
<1>1. Init => OKept
  <2>1. Init => unarmed = 0
    BY DEF Init, Start
  <2>2. 0 \in 0 .. MaxUnarmed
    BY DEF RequestsAssumption
  <2> QED
    BY <2>1, <2>2, InitIInv, InitOInv DEF OKept, Kept
<1>2. OKept /\ [Next]_vars => OKept'
  BY NextOKept
<1>3. OKept => OutputExact
  BY AheadInOrder DEF OKept, OInv, Cut, OutputExact, GivenTwice, Entire
<1> QED
  BY <1>1, <1>2, <1>3, PTL DEF Spec
=============================================================================
