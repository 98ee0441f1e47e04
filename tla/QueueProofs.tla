---------------------------- MODULE QueueProofs ----------------------------
(***************************************************************************)
(* What is done to the queues of the code keeps each element in them once, *)
(* and leaves the elements one expects.                                    *)
(***************************************************************************)
EXTENDS Queues, Integers, FiniteSetsExt, SequenceTheorems, WellFoundedInduction, TLAPS

(* ngx_queue_insert_head *)
LEMMA QueueInsert ==
    ASSUME NEW S, NEW q \in Seq(S), IsInjective(q), NEW n \in S, n \notin ToSet(q)
    PROVE  /\ <<n>> \o q \in Seq(S) /\ IsInjective(<<n>> \o q)
           /\ ToSet(<<n>> \o q) = ToSet(q) \cup {n}
<1> DEFINE w == <<n>> \o q
<1>1. /\ w \in Seq(S) /\ DOMAIN w = 1 .. Len(q) + 1 /\ DOMAIN q = 1 .. Len(q)
      /\ w[1] = n /\ \A i \in 1 .. Len(q) : w[i + 1] = q[i]
      /\ Len(q) \in Nat
  OBVIOUS
<1>2. \A j \in DOMAIN w : j = 1 \/ (j - 1 \in DOMAIN q /\ w[j] = q[j - 1])
  BY <1>1
<1> HIDE DEF w
<1>3. IsInjective(w)
  BY <1>1, <1>2 DEF IsInjective, ToSet
<1>4. ToSet(w) = ToSet(q) \cup {n}
  <2>1. ASSUME NEW x \in ToSet(w) PROVE x \in ToSet(q) \cup {n}
    BY <1>1, <1>2 DEF ToSet
  <2>2. ASSUME NEW x \in ToSet(q) PROVE x \in ToSet(w)
    <3>1. PICK i \in 1 .. Len(q) : x = q[i]
      BY <1>1 DEF ToSet
    <3>2. i + 1 \in DOMAIN w /\ w[i + 1] = x
      BY <1>1, <3>1
    <3> QED
      BY <3>2 DEF ToSet
  <2>3. n \in ToSet(w)
    BY <1>1 DEF ToSet
  <2> QED
    BY <2>1, <2>2, <2>3
<1> QED
  BY <1>1, <1>3, <1>4 DEF w

(* The elements behind a place. *)
LEMMA QueuePart ==
    ASSUME NEW S, NEW q \in Seq(S), NEW k \in 1 .. Len(q)
    PROVE  /\ SubSeq(q, k + 1, Len(q)) \in Seq(S)
           /\ Len(SubSeq(q, k + 1, Len(q))) = Len(q) - k
           /\ \A i \in 1 .. Len(q) - k : SubSeq(q, k + 1, Len(q))[i] = q[i + k]
<1> DEFINE b == SubSeq(q, k + 1, Len(q))
<1>1. Len(q) \in Nat /\ k + 1 \in Int /\ \A i \in k + 1 .. Len(q) : q[i] \in S
  OBVIOUS
<1>2. /\ b \in Seq(S)
      /\ Len(b) = IF k + 1 <= Len(q) THEN Len(q) - (k + 1) + 1 ELSE 0
      /\ \A i \in 1 .. Len(q) - (k + 1) + 1 : b[i] = q[(k + 1) + i - 1]
  BY <1>1, SubSeqProperties
<1> HIDE DEF b
<1> QED
  BY <1>1, <1>2 DEF b

(* ngx_queue_remove: what is behind the element moves up by one place. *)
LEMMA QueueCloses ==
    ASSUME NEW S, NEW q \in Seq(S), IsInjective(q), NEW n \in ToSet(q)
    PROVE  \E k \in 1 .. Len(q) :
              /\ q[k] = n
              /\ Without(q, n) \in Seq(S) /\ Len(Without(q, n)) = Len(q) - 1
              /\ \A i \in 1 .. Len(q) - 1 : Without(q, n)[i] = IF i < k THEN q[i] ELSE q[i + 1]
<1> DEFINE k == PlaceOf(q, n)
           w == Without(q, n)
<1>1. k \in 1 .. Len(q) /\ q[k] = n /\ Len(q) \in Nat /\ DOMAIN q = 1 .. Len(q)
  BY DEF PlaceOf, ToSet
<1>2. w = SubSeq(q, 1, k - 1) \o SubSeq(q, k + 1, Len(q))
  BY DEF Without, RemoveAt
<1> HIDE DEF k, w
<1> DEFINE a == SubSeq(q, 1, k - 1)
           b == SubSeq(q, k + 1, Len(q))
<1>3. /\ w \in Seq(S) /\ Len(w) = Len(q) - 1 /\ DOMAIN w = 1 .. Len(q) - 1
      /\ \A i \in 1 .. Len(q) - 1 : w[i] = IF i < k THEN q[i] ELSE q[i + 1]
  <2>1. /\ a \in Seq(S) /\ Len(a) = k - 1 /\ \A i \in 1 .. k - 1 : a[i] = q[i]
    BY <1>1
  <2>2. /\ b \in Seq(S) /\ Len(b) = Len(q) - k
        /\ \A i \in 1 .. Len(q) - k : b[i] = q[i + k]
    BY <1>1, QueuePart
  <2> HIDE DEF a, b
  <2>3. w = a \o b
    BY <1>2 DEF a, b
  <2>4. w \in Seq(S) /\ Len(w) = Len(q) - 1
    <3>1. a \o b \in Seq(S) /\ Len(a \o b) = Len(a) + Len(b)
      BY <2>1, <2>2, ConcatProperties
    <3> QED
      BY <1>1, <2>1, <2>2, <2>3, <3>1
  <2>5. ASSUME NEW i \in 1 .. Len(q) - 1 PROVE w[i] = IF i < k THEN q[i] ELSE q[i + 1]
    <3>1. w[i] = IF i <= k - 1 THEN a[i] ELSE b[i - (k - 1)]
      BY SMTT(30), <1>1, <2>1, <2>2, <2>3, <2>5, ConcatProperties
    <3>2. CASE i < k
      BY <1>1, <2>1, <3>1, <3>2
    <3>3. CASE i >= k
      <4>1. i - (k - 1) \in 1 .. Len(q) - k /\ (i - (k - 1)) + k = i + 1
        BY <1>1, <3>3
      <4> QED
        BY <1>1, <2>2, <3>1, <3>3, <4>1
    <3> QED
      BY <1>1, <3>2, <3>3
  <2> QED
    BY <1>1, <2>4, <2>5
<1> QED
  BY <1>1, <1>3 DEF w

(* ngx_queue_remove *)
LEMMA QueueRemove ==
    ASSUME NEW S, NEW q \in Seq(S), IsInjective(q), NEW n \in ToSet(q)
    PROVE  /\ Without(q, n) \in Seq(S) /\ IsInjective(Without(q, n))
           /\ ToSet(Without(q, n)) = ToSet(q) \ {n}
<1> DEFINE w == Without(q, n)
<1>1. PICK k \in 1 .. Len(q) :
        /\ q[k] = n /\ w \in Seq(S) /\ Len(w) = Len(q) - 1
        /\ \A i \in 1 .. Len(q) - 1 : w[i] = IF i < k THEN q[i] ELSE q[i + 1]
  BY QueueCloses
<1>2. Len(q) \in Nat /\ DOMAIN q = 1 .. Len(q)
  OBVIOUS
<1> HIDE DEF w
<1>3. /\ w \in Seq(S) /\ Len(w) = Len(q) - 1 /\ DOMAIN w = 1 .. Len(q) - 1
      /\ \A i \in 1 .. Len(q) - 1 : w[i] = IF i < k THEN q[i] ELSE q[i + 1]
  BY <1>1, <1>2
<1>4. IsInjective(w)
  BY SMTT(30), <1>1, <1>2, <1>3 DEF IsInjective
<1>5. ToSet(w) = ToSet(q) \ {n}
  <2>1. ASSUME NEW x \in ToSet(w) PROVE x \in ToSet(q) \ {n}
    <3>1. PICK i \in 1 .. Len(q) - 1 : x = w[i]
      BY <1>3 DEF ToSet
    <3>2. PICK j \in 1 .. Len(q) : j # k /\ x = q[j]
      BY <1>1, <1>2, <1>3, <3>1
    <3> QED
      BY <1>1, <1>2, <3>2 DEF IsInjective, ToSet
  <2>2. ASSUME NEW x \in ToSet(q) \ {n} PROVE x \in ToSet(w)
    <3>1. PICK j \in 1 .. Len(q) : j # k /\ x = q[j]
      BY <1>1, <1>2 DEF ToSet
    <3>2. PICK i \in 1 .. Len(q) - 1 : x = w[i]
      <4>1. CASE j < k
        BY <1>1, <1>2, <1>3, <3>1, <4>1
      <4>2. CASE j > k
        <5>1. j - 1 \in 1 .. Len(q) - 1 /\ ~(j - 1 < k) /\ (j - 1) + 1 = j
          BY <1>1, <1>2, <3>1, <4>2
        <5> QED
          BY <1>3, <3>1, <5>1
      <4> QED
        BY <1>1, <1>2, <3>1, <4>1, <4>2
    <3> QED
      BY <1>3, <3>2 DEF ToSet
  <2> QED
    BY <2>1, <2>2
<1> QED
  BY <1>3, <1>4, <1>5 DEF w

(* Whether or not it was there. *)
LEMMA QueueWithout ==
    ASSUME NEW S, NEW q \in Seq(S), IsInjective(q), NEW n
    PROVE  /\ Without(q, n) \in Seq(S) /\ IsInjective(Without(q, n))
           /\ ToSet(Without(q, n)) = ToSet(q) \ {n}
<1>1. CASE n \in ToSet(q)
  BY <1>1, QueueRemove
<1>2. CASE n \notin ToSet(q)
  BY <1>2 DEF Without
<1> QED
  BY <1>1, <1>2

(* Two queues one behind the other. *)
LEMMA QueueJoin ==
    ASSUME NEW S, NEW a \in Seq(S), NEW b \in Seq(S),
           IsInjective(a), IsInjective(b), ToSet(a) \cap ToSet(b) = {}
    PROVE  /\ a \o b \in Seq(S) /\ IsInjective(a \o b)
           /\ ToSet(a \o b) = ToSet(a) \cup ToSet(b)
<1> DEFINE w == a \o b
           l == Len(a)
           m == Len(b)
<1>1. /\ l \in Nat /\ m \in Nat /\ w \in Seq(S) /\ Len(w) = l + m
      /\ \A i \in 1 .. l + m : w[i] = IF i <= l THEN a[i] ELSE b[i - l]
  BY ConcatProperties
<1>2. DOMAIN a = 1 .. l /\ DOMAIN b = 1 .. m /\ DOMAIN w = 1 .. l + m
  BY <1>1
<1> HIDE DEF w, l, m
<1>3. ASSUME NEW i \in 1 .. l + m
      PROVE  \/ i \in 1 .. l /\ w[i] = a[i] /\ w[i] \in ToSet(a)
             \/ i - l \in 1 .. m /\ i > l /\ w[i] = b[i - l] /\ w[i] \in ToSet(b)
  <2>1. CASE i <= l
    BY <1>1, <1>2, <2>1 DEF ToSet
  <2>2. CASE i > l
    <3>1. i - l \in 1 .. m /\ ~(i <= l)
      BY <1>1, <2>2
    <3> QED
      BY <1>1, <1>2, <2>2, <3>1 DEF ToSet
  <2> QED
    BY <1>1, <2>1, <2>2
<1>4. ASSUME NEW i \in 1 .. l + m, NEW j \in 1 .. l + m, w[i] = w[j] PROVE i = j
  <2>1. CASE i \in 1 .. l /\ j \in 1 .. l
    BY <1>1, <1>2, <1>4, <2>1 DEF IsInjective
  <2>2. CASE i > l /\ j > l
    <3>1. i - l = j - l
      BY <1>1, <1>2, <1>3, <1>4, <2>2 DEF IsInjective
    <3> QED
      BY <1>1, <3>1
  <2> QED
    BY <1>1, <1>3, <1>4, <2>1, <2>2
<1>5. IsInjective(w)
  BY <1>2, <1>4 DEF IsInjective
<1>6. ASSUME NEW x \in ToSet(a) \cup ToSet(b) PROVE x \in ToSet(w)
  <2>1. CASE x \in ToSet(a)
    <3>1. PICK i \in 1 .. l : x = a[i]
      BY <1>2, <2>1 DEF ToSet
    <3> QED
      BY SMTT(30), <1>1, <1>2, <3>1 DEF ToSet
  <2>2. CASE x \in ToSet(b)
    <3>1. PICK i \in 1 .. m : x = b[i]
      BY <1>2, <2>2 DEF ToSet
    <3>2. i + l \in 1 .. l + m /\ ~(i + l <= l) /\ (i + l) - l = i
      BY <1>1
    <3> QED
      BY <1>1, <1>2, <3>1, <3>2 DEF ToSet
  <2> QED
    BY <1>6, <2>1, <2>2
<1>7. ASSUME NEW x \in ToSet(w) PROVE x \in ToSet(a) \cup ToSet(b)
  BY <1>2, <1>3, <1>7 DEF ToSet
<1> QED
  BY <1>1, <1>5, <1>6, <1>7 DEF w

(* ngx_queue_insert_tail *)
LEMMA QueueAppend ==
    ASSUME NEW S, NEW q \in Seq(S), IsInjective(q), NEW n \in S, n \notin ToSet(q)
    PROVE  /\ Append(q, n) \in Seq(S) /\ IsInjective(Append(q, n))
           /\ ToSet(Append(q, n)) = ToSet(q) \cup {n}
<1> DEFINE b == <<n>>
<1>1. b \in Seq(S) /\ IsInjective(b) /\ ToSet(b) = {n}
  BY DEF IsInjective, ToSet
<1>2. Append(q, n) = q \o b
  BY AppendIsConcat
<1> HIDE DEF b
<1>3. ToSet(q) \cap ToSet(b) = {}
  BY <1>1
<1>4. /\ q \o b \in Seq(S) /\ IsInjective(q \o b)
      /\ ToSet(q \o b) = ToSet(q) \cup ToSet(b)
  BY <1>1, <1>3, QueueJoin
<1> QED
  BY <1>1, <1>2, <1>4

(* The first element is taken from a queue. *)
LEMMA QueueHead ==
    ASSUME NEW S, NEW q \in Seq(S), IsInjective(q), q # <<>>
    PROVE  /\ Head(q) \in ToSet(q)
           /\ Tail(q) \in Seq(S) /\ IsInjective(Tail(q))
           /\ ToSet(Tail(q)) = ToSet(q) \ {Head(q)}
<1> DEFINE w == Tail(q)
           l == Len(q)
<1>1. /\ l \in Nat /\ l >= 1 /\ DOMAIN q = 1 .. l /\ Head(q) = q[1]
      /\ w \in Seq(S) /\ DOMAIN w = 1 .. l - 1
      /\ \A i \in 1 .. l - 1 : w[i] = q[i + 1]
  BY HeadTailProperties
<1> HIDE DEF w, l
<1>2. Head(q) \in ToSet(q)
  BY <1>1 DEF ToSet
<1>3. \A i \in 1 .. l - 1 : i + 1 \in 1 .. l /\ i + 1 # 1
  BY <1>1
<1>4. IsInjective(w)
  <2>1. ASSUME NEW i \in 1 .. l - 1, NEW j \in 1 .. l - 1, w[i] = w[j] PROVE i = j
    <3>1. /\ i + 1 \in DOMAIN q /\ j + 1 \in DOMAIN q
          /\ q[i + 1] = q[j + 1]
      BY <1>1, <1>3, <2>1
    <3>2. i + 1 = j + 1
      BY <3>1 DEF IsInjective
    <3> QED
      BY <1>1, <3>2
  <2> QED
    BY <1>1, <2>1 DEF IsInjective
<1>5. ASSUME NEW x \in ToSet(w) PROVE x \in ToSet(q) \ {Head(q)}
  <2>1. PICK i \in 1 .. l - 1 : x = q[i + 1]
    BY <1>1, <1>5 DEF ToSet
  <2> QED
    BY <1>1, <1>3, <2>1 DEF ToSet, IsInjective
<1>6. ASSUME NEW x \in ToSet(q) \ {Head(q)} PROVE x \in ToSet(w)
  <2>1. PICK i \in 1 .. l : x = q[i] /\ i # 1
    BY <1>1 DEF ToSet
  <2>2. i - 1 \in 1 .. l - 1 /\ (i - 1) + 1 = i
    BY <1>1, <2>1
  <2> QED
    BY <1>1, <2>1, <2>2 DEF ToSet
<1> QED
  BY <1>1, <1>2, <1>4, <1>5, <1>6 DEF w

(* The last element is taken from a queue. *)
LEMMA QueueFront ==
    ASSUME NEW S, NEW q \in Seq(S), IsInjective(q), q # <<>>
    PROVE  /\ Last(q) \in ToSet(q)
           /\ Front(q) \in Seq(S) /\ IsInjective(Front(q))
           /\ ToSet(Front(q)) = ToSet(q) \ {Last(q)}
<1> DEFINE w == Front(q)
<1>0. \A i : /\ i \in 1 .. Len(q) - 1 => i \in 1 .. Len(q) /\ i # Len(q)
             /\ i \in 1 .. Len(q) /\ i # Len(q) => i \in 1 .. Len(q) - 1
  <2>1. Len(q) \in Nat
    OBVIOUS
  <2> QED
    BY ONLY <2>1
<1>1. Len(q) \in 1 .. Len(q) /\ DOMAIN q = 1 .. Len(q) /\ Last(q) = q[Len(q)]
  BY DEF Last
<1>2. /\ w \in Seq(S) /\ DOMAIN w = 1 .. Len(q) - 1
      /\ \A i \in 1 .. Len(q) - 1 : w[i] = q[i]
  BY DEF Front
<1> HIDE DEF w
<1>3. IsInjective(w) /\ Last(q) \in ToSet(q)
  BY <1>0, <1>1, <1>2 DEF IsInjective, ToSet
<1>4. ToSet(w) = ToSet(q) \ {Last(q)}
  <2>1. ASSUME NEW x \in ToSet(w) PROVE x \in ToSet(q) \ {Last(q)}
    <3>1. PICK i \in 1 .. Len(q) - 1 : x = w[i]
      BY <1>2 DEF ToSet
    <3>2. i \in DOMAIN q /\ i # Len(q) /\ Len(q) \in DOMAIN q
      BY <1>0, <1>1
    <3>3. x = q[i]
      BY <1>2, <3>1
    <3> QED
      BY <1>1, <3>2, <3>3 DEF ToSet, IsInjective
  <2>2. ASSUME NEW x \in ToSet(q) \ {Last(q)} PROVE x \in ToSet(w)
    <3>1. PICK i \in 1 .. Len(q) : x = q[i] /\ i # Len(q)
      BY <1>1 DEF ToSet
    <3>2. i \in 1 .. Len(q) - 1
      BY <1>0, <3>1
    <3>3. i \in DOMAIN w /\ w[i] = x
      BY <1>2, <3>1, <3>2
    <3> QED
      BY <3>3 DEF ToSet
  <2> QED
    BY <2>1, <2>2
<1> QED
  BY <1>2, <1>3, <1>4 DEF w

(* The first elements go to the tail: the queue is turned, no more.        *)
LEMMA QueueTurned ==
    ASSUME NEW S, NEW q \in Seq(S), IsInjective(q), NEW m \in 1 .. Len(q)
    PROVE  LET w == SubSeq(q, m + 1, Len(q)) \o SubSeq(q, 1, m)
           IN  w \in Seq(S) /\ IsInjective(w) /\ ToSet(w) = ToSet(q)
<1> DEFINE w == SubSeq(q, m + 1, Len(q)) \o SubSeq(q, 1, m)
           l == Len(q) - m
<1>1. Len(q) \in Nat /\ DOMAIN q = 1 .. Len(q) /\ l \in Nat /\ m \in Nat
  OBVIOUS
<1>2. /\ w \in Seq(S) /\ DOMAIN w = 1 .. Len(q)
      /\ \A i \in 1 .. Len(q) : w[i] = IF i <= l THEN q[i + m] ELSE q[i - l]
  <2> DEFINE a == SubSeq(q, m + 1, Len(q))
             b == SubSeq(q, 1, m)
  <2>1. /\ a \in Seq(S) /\ Len(a) = l /\ \A i \in 1 .. l : a[i] = q[i + m]
    BY <1>1, QueuePart
  <2>2. /\ b \in Seq(S) /\ Len(b) = m /\ \A i \in 1 .. m : b[i] = q[i]
    BY <1>1
  <2>3. w = a \o b
    OBVIOUS
  <2> HIDE DEF a, b, w
  <2>4. w \in Seq(S) /\ Len(w) = Len(q)
    <3>1. a \o b \in Seq(S) /\ Len(a \o b) = Len(a) + Len(b)
      BY <2>1, <2>2, ConcatProperties
    <3> QED
      BY <1>1, <2>1, <2>2, <2>3, <3>1
  <2>5. ASSUME NEW i \in 1 .. Len(q) PROVE w[i] = IF i <= l THEN q[i + m] ELSE q[i - l]
    <3>1. w[i] = IF i <= l THEN a[i] ELSE b[i - l]
      BY <1>1, <2>1, <2>2, <2>3, <2>5, ConcatProperties
    <3>2. CASE i <= l
      BY <1>1, <2>1, <3>1, <3>2
    <3>3. CASE i > l
      <4>1. i - l \in 1 .. m
        BY <1>1, <3>3
      <4> QED
        BY <1>1, <2>2, <3>1, <3>3, <4>1
    <3> QED
      BY <1>1, <3>2, <3>3
  <2> QED
    BY <1>1, <2>4, <2>5
<1> HIDE DEF w
<1> DEFINE p(i) == IF i <= l THEN i + m ELSE i - l
<1>3. \A i \in 1 .. Len(q) : p(i) \in 1 .. Len(q) /\ w[i] = q[p(i)]
  BY <1>1, <1>2
<1>4. \A i, j \in 1 .. Len(q) : p(i) = p(j) => i = j
  BY <1>1
<1> HIDE DEF p, l
<1>5. IsInjective(w)
  BY <1>1, <1>2, <1>3, <1>4 DEF IsInjective
<1> USE DEF l
<1>6. ToSet(w) = ToSet(q)
  <2>1. ASSUME NEW x \in ToSet(w) PROVE x \in ToSet(q)
    <3>1. PICK i \in 1 .. Len(q) : x = w[i]
      BY <1>2 DEF ToSet
    <3> QED
      BY <1>1, <1>3, <3>1 DEF ToSet
  <2>2. ASSUME NEW x \in ToSet(q) PROVE x \in ToSet(w)
    <3>1. PICK j \in 1 .. Len(q) : x = q[j]
      BY <1>1 DEF ToSet
    <3>2. CASE j > m
      <4>1. j - m \in 1 .. Len(q) /\ j - m <= l /\ (j - m) + m = j
        BY <1>1, <3>2
      <4> QED
        BY <1>2, <3>1, <4>1 DEF ToSet
    <3>3. CASE j <= m
      <4>1. j + l \in 1 .. Len(q) /\ ~(j + l <= l) /\ (j + l) - l = j
        BY <1>1, <3>3
      <4> QED
        BY <1>2, <3>1, <4>1 DEF ToSet
    <3> QED
      BY <1>1, <3>2, <3>3
  <2> QED
    BY <2>1, <2>2
<1> QED
  BY <1>2, <1>5, <1>6 DEF w

(* A set of places in a queue has a last one.                              *)
LEMMA LastPlace ==
    ASSUME NEW k \in Nat, NEW T, T \subseteq 1 .. k, T # {}
    PROVE  Max(T) \in T /\ \A y \in T : Max(T) >= y
<1> DEFINE U == {k - i : i \in T}
<1>1. U \subseteq Nat /\ U # {}
  <2>1. \A i \in T : k - i \in Nat
    OBVIOUS
  <2> QED
    BY <2>1
<1> HIDE DEF U
<1>2. PICK u \in U : \A v \in U : ~(<<v, u>> \in OpToRel(<, Nat))
  BY <1>1, WFMin, NatLessThanWellFounded
<1>3. ASSUME NEW v \in U PROVE u <= v
  <2>1. u \in Nat /\ v \in Nat /\ ~(v < u)
    BY <1>1, <1>2, <1>3 DEF OpToRel
  <2> QED
    BY <2>1
<1>4. \E x \in T : \A y \in T : x >= y
  BY <1>3 DEF U
<1> QED
  BY <1>4 DEF Max
=============================================================================
