---------------------------- MODULE LimitsProofs ----------------------------
(***************************************************************************)
(* What workers share in zones for requests: the rates of limit_req, for   *)
(* every rate, burst, number of limits, workers, keys and nodes, then the  *)
(* limits of connections, for every number of requests, keys, zones and    *)
(* nodes, and then the servers of an upstream, for every configuration.    *)
(*                                                                         *)
(* Rates: the nodes are kept exactly, and no key is let pass more than its *)
(* burst and its rate allow.  The inductive invariant follows a node as a  *)
(* bucket: what was charged is what is in the bucket and what has drained  *)
(* from it; and what the requests that count on the node are still to      *)
(* charge was allowed when each of them looked.                            *)
(***************************************************************************)
EXTENDS MCLimits, QueueProofs, FiniteSetTheorems

\* The assumption on the constants, opened where a proof needs it.
RatesGiven == LimitReqAssumption

NodeRec == [key : Keys \cup {Nil}, excess : Nat, last : Nat, count : Nat, first : Nat, taken : Nat]
ZoneRec == [nodes : [Nodes -> NodeRec], queue : Seq(Nodes)]

\* The queue of a zone holds its nodes, a key has one, free memory is clean.
ZoneOK(q) ==
    /\ q \in ZoneRec
    /\ IsInjective(q.queue)
    /\ ToSet(q.queue) = {n \in Nodes : q.nodes[n].key # Nil}
    /\ \A n \in Nodes : q.nodes[n].key = Nil => q.nodes[n] = FreeNode
    /\ \A n, m \in Nodes : q.nodes[n].key # Nil /\ q.nodes[n].key = q.nodes[m].key => n = m

\* The workers that will come back to a node.
Pending(h, z, n) == {w \in Workers : h[w][z] = n}

Crowd == Cardinality(limits.workers)

\* A node as a bucket, with p requests that are still to be charged.
Bucket(z, lr, p) ==
    /\ lr.taken = 0 => lr.excess = 0 /\ lr.last = 0 /\ lr.first = 0
    /\ lr.taken > 0 =>
        /\ lr.first <= lr.last /\ lr.last <= now
        /\ lr.taken * Unit <= lr.excess + Unit + Drain(z, lr.last - lr.first)
        /\ z # Limits => (lr.taken + p) * Unit
                           <= Unit + limits.burst[z] + Drain(z, now - lr.first) + Unit * (Crowd - 1)
    /\ z = Limits => lr.excess <= limits.burst[z] /\ (lr.key # Nil => lr.taken > 0)

Clocks ==
    /\ now \in Nat /\ msec \in [Workers -> Nat]
    /\ \A w \in Workers : Boot <= msec[w] /\ msec[w] <= now
    /\ \A w \in limits.workers : now - msec[w] <= limits.lag

\* Where a worker is tells the nodes that it counts on.
Visits ==
    /\ phase \in [Workers -> {"idle", "lookup", "account", "unlock"}]
    /\ place \in [Workers -> Zones]
    /\ node \in [Workers -> [Zones -> Nodes \cup {Nil}]]
    /\ mine \in [Workers -> [Zones -> Keys \cup {Nil}]]
    /\ \A w \in Workers :
        /\ w \notin limits.workers => node[w] = Nothing
        /\ phase[w] = "idle" => node[w] = Nothing
        /\ \A z \in Zones : node[w][z] # Nil => z < Limits
        /\ phase[w] = "lookup" => \A z \in Zones : z >= place[w] => node[w][z] = Nil

ZonesOK ==
    /\ zone \in [Zones -> ZoneRec]
    /\ leaked \in [Zones -> [Nodes -> Nat]]
    /\ \A z \in Zones : ZoneOK(zone[z])

Buckets == \A z \in Zones, n \in Nodes : Bucket(z, zone[z].nodes[n], Cardinality(Pending(node, z, n)))

IInv == limits \in Rates /\ Clocks /\ Visits /\ ZonesOK /\ CountedNodesStay /\ Buckets

(***************************************************************************)
(* Numbers.                                                                *)
(***************************************************************************)
LEMMA OneMore ==
    ASSUME RatesGiven, NEW t \in Nat
    PROVE  t * Unit \in Nat /\ (t + 1) * Unit = t * Unit + Unit
BY DEF RatesGiven, LimitReqAssumption

LEMMA DivFacts ==
    ASSUME NEW s \in Nat \ {0}, NEW x \in Nat
    PROVE  /\ x \div s \in Nat
           /\ s * (x \div s) <= x
           /\ \A q \in Nat : s * q <= x => q <= x \div s
<1>1. x \div s \in Nat /\ s * (x \div s) <= x /\ x < s * ((x \div s) + 1)
  OBVIOUS
<1>2. ASSUME NEW q \in Nat, s * q <= x, ~(q <= x \div s) PROVE FALSE
  <2>1. \E d \in Nat : q = ((x \div s) + 1) + d
    <3> DEFINE y == (x \div s) + 1
    <3>1. y \in Nat /\ q - y \in Nat
      BY <1>1, <1>2
    <3> HIDE DEF y
    <3>2. q = y + (q - y)
      BY <3>1
    <3> QED
      BY <3>1, <3>2 DEF y
  <2>2. PICK d \in Nat : q = ((x \div s) + 1) + d
    BY <2>1
  <2>3. s * q = s * ((x \div s) + 1) + s * d
    BY <1>1, <2>2
  <2>4. s * d \in Nat /\ s * ((x \div s) + 1) \in Nat /\ s * q \in Nat
    BY <1>1
  <2> QED
    BY <1>1, <1>2, <2>3, <2>4
<1> QED
  BY <1>1, <1>2

LEMMA RatesFacts ==
    ASSUME RatesGiven, limits \in Rates, NEW z \in Zones
    PROVE  /\ Limits \in Nat \ {0} /\ z \in Nat \ {0} /\ z <= Limits /\ Limits \in Zones
           /\ limits.rate[z] \in Nat \ {0} /\ limits.burst[z] \in Nat
           /\ limits.second \in Nat \ {0} /\ limits.minute \in Nat \ {0}
           /\ limits.lag \in Nat /\ limits.lag <= limits.minute
           /\ limits.workers \subseteq Workers /\ limits.nodes \subseteq Nodes /\ limits.keys \subseteq Keys
<1> DEFINE a == limits.rate
           b == limits.burst
<1>1. /\ a \in Seq(Nat \ {0}) /\ b \in Seq(Nat) /\ Len(a) > 0 /\ Len(b) = Len(a)
      /\ limits.second \in Nat \ {0} /\ limits.minute \in Nat \ {0}
      /\ limits.lag \in Nat /\ limits.lag <= limits.minute
      /\ limits.workers \subseteq Workers /\ limits.nodes \subseteq Nodes /\ limits.keys \subseteq Keys
  BY DEF RatesGiven, LimitReqAssumption
<1>2. z \in 1 .. Len(a) /\ Limits = Len(a) /\ Zones = 1 .. Len(a)
  BY DEF Zones, Limits
<1> HIDE DEF a, b
<1>3. Len(a) \in Nat /\ a[z] \in Nat \ {0} /\ b[z] \in Nat
  BY <1>1, <1>2
<1>4. Limits \in Nat \ {0} /\ z \in Nat \ {0} /\ z <= Limits /\ Limits \in Zones
  BY <1>1, <1>2, <1>3
<1> QED
  BY <1>1, <1>3, <1>4 DEF a, b

\* Time drains a node: never less for more of it, never more in parts.
LEMMA Drains ==
    ASSUME RatesGiven, limits \in Rates, NEW z \in Zones, NEW a \in Nat, NEW b \in Nat
    PROVE  /\ Drain(z, a) \in Nat
           /\ Drain(z, a) + Drain(z, b) <= Drain(z, a + b)
           /\ a <= b => Drain(z, a) <= Drain(z, b)
<1> DEFINE r == limits.rate[z]
           s == limits.second
           x == r * a
           y == r * b
<1>1. r \in Nat /\ s \in Nat \ {0}
  BY RatesFacts
<1>2. r * (a + b) = x + y
  BY <1>1
<1>3. x \in Nat /\ y \in Nat
  BY <1>1
<1>4. a <= b => x <= y
  <2> SUFFICES ASSUME a <= b PROVE x <= y
    OBVIOUS
  <2> DEFINE d == b - a
  <2>1. d \in Nat /\ b = a + d
    OBVIOUS
  <2> HIDE DEF d
  <2>2. r * (a + d) = r * a + r * d /\ r * d \in Nat
    BY <1>1, <2>1
  <2> QED
    BY <1>3, <2>1, <2>2
<1>5. Drain(z, a) = x \div s /\ Drain(z, b) = y \div s /\ Drain(z, a + b) = (x + y) \div s
  BY <1>2 DEF Drain
<1> HIDE DEF r, s, x, y
<1> DEFINE p == x \div s
           q == y \div s
<1>6. p \in Nat /\ q \in Nat /\ s * p <= x /\ s * q <= y
  BY <1>1, <1>3, DivFacts
<1>7. p + q <= (x + y) \div s
  <2>1. s * (p + q) = s * p + s * q /\ s * p \in Nat /\ s * q \in Nat
    BY <1>1, <1>6
  <2>2. s * (p + q) <= x + y /\ p + q \in Nat /\ x + y \in Nat
    BY <1>3, <1>6, <2>1
  <2> HIDE DEF p, q
  <2> QED
    BY <1>1, <2>2, DivFacts
<1>8. x <= y => p <= q
  <2> SUFFICES ASSUME x <= y PROVE p <= q
    OBVIOUS
  <2>1. s * p <= y
    <3>1. s * p \in Nat
      BY <1>1, <1>6
    <3> QED
      BY <3>1, <1>3, <1>6
  <2> QED
    BY <1>1, <1>3, <1>6, <2>1, DivFacts
<1> QED
  BY <1>4, <1>5, <1>6, <1>7, <1>8

LEMMA MaxFacts ==
    ASSUME NEW x \in Int
    PROVE  /\ Max({0, x}) \in Nat /\ Max({0, x}) >= x
           /\ x >= 0 => Max({0, x}) = x
           /\ x <= 0 => Max({0, x}) = 0
<1>1. \E y \in {0, x} : \A v \in {0, x} : y >= v
  OBVIOUS
<1>2. Max({0, x}) \in {0, x} /\ \A v \in {0, x} : Max({0, x}) >= v
  BY <1>1 DEF Max
<1> QED
  BY <1>2

(***************************************************************************)
(* The bucket.                                                             *)
(***************************************************************************)
LEMMA ElapsedFacts ==
    ASSUME RatesGiven, limits \in Rates, NEW z \in Zones, NEW lr \in NodeRec, lr.last <= now,
           now \in Nat, NEW t \in Nat, t <= now, now - t <= limits.lag
    PROVE  /\ t < lr.last => Elapsed(lr, t) = 0
           /\ t >= lr.last => Elapsed(lr, t) = t - lr.last
           /\ Elapsed(lr, t) \in Nat
<1> DEFINE l == lr.last
           m == limits.minute
<1>1. l \in Nat /\ m \in Nat \ {0} /\ t - l >= -m
  <2>1. l \in Nat /\ m \in Nat \ {0} /\ limits.lag \in Nat /\ limits.lag <= m
    BY RatesFacts DEF NodeRec
  <2> HIDE DEF l, m
  <2> QED
    BY <2>1 DEF l
<1>2. Elapsed(lr, t) = IF t - l < 0 THEN 0 ELSE t - l
  <2>1. ~(t - l < -m) /\ (t - l < 0 => t - l >= -m)
    BY <1>1
  <2> QED
    BY <2>1 DEF Elapsed
<1> HIDE DEF l, m
<1>3. (t < l => Elapsed(lr, t) = 0) /\ (t >= l => Elapsed(lr, t) = t - l) /\ Elapsed(lr, t) \in Nat
  BY <1>1, <1>2
<1> QED
  BY <1>3 DEF l

LEMMA ExcessFacts ==
    ASSUME RatesGiven, limits \in Rates, NEW z \in Zones, NEW lr \in NodeRec, lr.last <= now,
           now \in Nat, NEW t \in Nat, t <= now, now - t <= limits.lag
    PROVE  /\ Excess(z, lr, t) \in Nat
           /\ Excess(z, lr, t) >= lr.excess - Drain(z, Elapsed(lr, t)) + Unit
<1> DEFINE d == Drain(z, Elapsed(lr, t))
<1>1. d \in Nat /\ lr.excess \in Nat /\ Unit \in Nat
  BY ElapsedFacts, Drains DEF RatesGiven, LimitReqAssumption, NodeRec
<1> HIDE DEF d
<1>2. Max({0, lr.excess - d + Unit}) \in Nat /\ Max({0, lr.excess - d + Unit}) >= lr.excess - d + Unit
  BY <1>1, MaxFacts
<1> QED
  BY <1>2 DEF Excess, d

\* What a request is charged is in the bucket, or has drained from it.
LEMMA Charged ==
    ASSUME RatesGiven, limits \in Rates, NEW z \in Zones, NEW lr \in NodeRec, NEW p,
           Bucket(z, lr, p), now \in Nat, NEW t \in Nat, Boot <= t, t <= now, now - t <= limits.lag
    PROVE  LET c == Charge(z, lr, t)
           IN  /\ c \in NodeRec /\ c.key = lr.key /\ c.count = lr.count
               /\ c.excess = Excess(z, lr, t) /\ c.taken = lr.taken + 1
               /\ c.first <= c.last /\ c.last <= now
               /\ c.first = IF lr.taken = 0 THEN t ELSE lr.first
               /\ c.taken * Unit <= c.excess + Unit + Drain(z, c.last - c.first)
<1> DEFINE c == Charge(z, lr, t)
           e == Elapsed(lr, t)
           x == Excess(z, lr, t)
           U == Unit
           k == lr.taken
           l == lr.last
           f == lr.first
           g == lr.excess
           d == Drain(z, e)
<1>1. /\ c.key = lr.key /\ c.count = lr.count /\ c.excess = x /\ c.taken = k + 1
      /\ c.last = IF e = 0 THEN l ELSE t
      /\ c.first = IF k = 0 THEN t ELSE f
  BY DEF Charge, NodeRec
<1>2. k \in Nat /\ l \in Nat /\ f \in Nat /\ g \in Nat /\ U \in Nat \ {0} /\ Boot \in Nat \ {0}
  BY DEF NodeRec, RatesGiven, LimitReqAssumption
<1>3. /\ k = 0 => g = 0 /\ l = 0 /\ f = 0
      /\ k > 0 => f <= l /\ l <= now /\ k * U <= g + U + Drain(z, l - f)
  BY DEF Bucket
<1>4. l <= now
  BY <1>2, <1>3
<1>5. x \in Nat /\ x >= g - d + U /\ d \in Nat /\ e \in Nat
  BY <1>4, ExcessFacts, ElapsedFacts, Drains
<1>6. e = IF t < l THEN 0 ELSE t - l
  BY <1>2, <1>4, ElapsedFacts
<1>7. k * U \in Nat /\ (k + 1) * U = k * U + U /\ (0 + 1) * U = U
  BY <1>2, OneMore
<1>8. c \in NodeRec
  <2> DEFINE v == IF e = 0 THEN l ELSE t
             u == IF k = 0 THEN t ELSE f
             y == k + 1
  <2>1. v \in Nat /\ u \in Nat /\ y \in Nat
    BY <1>2
  <2>2. c = [lr EXCEPT !.excess = x, !.last = v, !.first = u, !.taken = y]
    BY DEF Charge
  <2> HIDE DEF c, e, x, v, u, y
  <2> QED
    BY <1>5, <2>1, <2>2 DEF NodeRec
<1>9. Drain(z, 0) = 0
  <2>1. Drain(z, 0) \in Nat /\ Drain(z, 0) + Drain(z, 0) <= Drain(z, 0 + 0)
    BY Drains
  <2> QED
    BY <2>1
<1>10. c.first <= c.last /\ c.last <= now /\ c.taken * U <= c.excess + U + Drain(z, c.last - c.first)
  <2>1. CASE k = 0
    <3>1. c.last = t /\ c.first = t /\ c.taken = 0 + 1
      BY <2>1, <1>1, <1>2, <1>3, <1>6
    <3>2. Drain(z, c.last - c.first) = 0
      BY <3>1, <1>9
    <3>3. (0 + 1) * U <= x + U + 0
      BY <1>2, <1>5, <1>7
    <3> QED
      BY <1>1, <3>1, <3>2, <3>3
  <2>2. CASE k > 0 /\ e = 0
    <3>1. c.last = l /\ c.first = f
      BY <2>2, <1>1, <1>2
    <3>2. d = 0
      BY <2>2, <1>9
    <3>3. Drain(z, l - f) \in Nat /\ k * U <= g + U + Drain(z, l - f) /\ f <= l /\ l <= now
      <4>1. l - f \in Nat
        BY <2>2, <1>2, <1>3
      <4> QED
        BY <2>2, <1>3, <4>1, Drains
    <3> HIDE DEF c, e, x, d, U, k, l, f, g
    <3>4. k * U + U <= x + U + Drain(z, l - f)
      BY <1>2, <1>5, <1>7, <3>2, <3>3
    <3> QED
      BY <1>1, <1>7, <3>1, <3>3, <3>4
  <2>3. CASE k > 0 /\ e # 0
    <3>1. c.last = t /\ c.first = f /\ e = t - l /\ t >= l
      BY <2>3, <1>1, <1>2, <1>6
    <3>2. f <= l /\ k * U <= g + U + Drain(z, l - f)
      BY <2>3, <1>3
    <3>3. l - f \in Nat /\ t - l \in Nat /\ (l - f) + (t - l) = t - f
      BY <1>2, <3>1, <3>2
    <3>4. /\ Drain(z, l - f) \in Nat /\ Drain(z, t - f) \in Nat
          /\ Drain(z, l - f) + d <= Drain(z, t - f)
      <4>1. t - f \in Nat
        BY <1>2, <3>1, <3>2
      <4>2. Drain(z, l - f) + Drain(z, t - l) <= Drain(z, (l - f) + (t - l))
        BY <3>3, Drains
      <4> QED
        BY <3>1, <3>3, <4>1, <4>2, Drains
    <3> HIDE DEF c, e, x, d, U, k, l, f, g
    <3>5. k * U + U <= x + U + Drain(z, t - f)
      BY <1>2, <1>5, <1>7, <3>2, <3>4
    <3> QED
      BY <1>1, <1>2, <1>7, <3>1, <3>2, <3>5
  <2> QED
    BY <1>2, <2>1, <2>2, <2>3
<1> HIDE DEF c, e, x, d, U, k, l, f, g
<1>11. c.first = IF k = 0 THEN t ELSE f
  BY <1>1
<1> QED
  BY <1>1, <1>8, <1>10, <1>11 DEF c, x, U, k, f

\* The last limit charges at once.
LEMMA ChargedAtOnce ==
    ASSUME RatesGiven, limits \in Rates, NEW z \in Zones, z = Limits, NEW lr \in NodeRec, NEW p,
           Bucket(z, lr, p), now \in Nat, NEW t \in Nat, Boot <= t, t <= now, now - t <= limits.lag,
           Excess(z, lr, t) <= limits.burst[z]
    PROVE  Charge(z, lr, t) \in NodeRec /\ Bucket(z, Charge(z, lr, t), p)
<1> DEFINE c == Charge(z, lr, t)
<1>1. /\ c \in NodeRec /\ c.excess = Excess(z, lr, t) /\ c.taken = lr.taken + 1
      /\ c.first <= c.last /\ c.last <= now
      /\ c.taken * Unit <= c.excess + Unit + Drain(z, c.last - c.first)
  BY Charged
<1> HIDE DEF c
<1>2. c.taken # 0 /\ c.taken > 0
  BY <1>1 DEF NodeRec
<1>3. Bucket(z, c, p)
  BY <1>1, <1>2 DEF Bucket
<1> QED
  BY <1>1, <1>3 DEF c

\* The limits before it were allowed what is charged to them later.
LEMMA ChargedLater ==
    ASSUME RatesGiven, limits \in Rates, NEW z \in Zones, z # Limits, NEW lr \in NodeRec,
           NEW p \in Nat \ {0}, p <= Crowd, Crowd \in Nat,
           Bucket(z, lr, p), now \in Nat, NEW t \in Nat, Boot <= t, t <= now, now - t <= limits.lag
    PROVE  \A n \in Nat : LET c == [Charge(z, lr, t) EXCEPT !.count = n]
                          IN c \in NodeRec /\ c.key = lr.key /\ c.count = n /\ Bucket(z, c, p - 1)
<1> TAKE n \in Nat
<1> DEFINE c == Charge(z, lr, t)
           d == [c EXCEPT !.count = n]
           U == Unit
           k == lr.taken
           b == limits.burst[z]
           W == Crowd
<1>1. /\ c \in NodeRec /\ c.key = lr.key /\ c.taken = lr.taken + 1
      /\ c.first <= c.last /\ c.last <= now
      /\ c.first = IF lr.taken = 0 THEN t ELSE lr.first
      /\ c.taken * Unit <= c.excess + Unit + Drain(z, c.last - c.first)
  BY Charged
<1> HIDE DEF c
<1>2. /\ d \in NodeRec /\ d.key = c.key /\ d.count = n /\ d.taken = c.taken
      /\ d.first = c.first /\ d.last = c.last /\ d.excess = c.excess
  BY <1>1 DEF NodeRec
<1>3. k \in Nat /\ U \in Nat \ {0} /\ b \in Nat /\ W \in Nat /\ W >= 1
  BY SMTT(30), RatesFacts DEF RatesGiven, LimitReqAssumption, NodeRec
<1>4. now - c.first \in Nat /\ Drain(z, now - c.first) \in Nat
  <2>1. c.first \in Nat /\ c.last \in Nat
    BY <1>1 DEF NodeRec
  <2>2. now - c.first \in Nat
    BY <1>1, <2>1
  <2> QED
    BY <2>2, Drains
<1>5. (c.taken + (p - 1)) * U <= U + b + Drain(z, now - c.first) + U * (W - 1)
  <2>1. CASE k = 0
    <3>1. c.taken + (p - 1) = p
      BY <1>1, <2>1
    <3>2. p * U <= U + U * (W - 1)
      <4> DEFINE e == W - p
      <4>1. e \in Nat /\ W = p + e
        BY <1>3
      <4> HIDE DEF e
      <4>2. U * (p + e) = U * p + U * e /\ U * e \in Nat /\ U * p = p * U /\ p * U \in Nat
        BY <1>3, <4>1
      <4>3. U + U * (W - 1) = U * W
        BY <1>3
      <4> QED
        BY <4>1, <4>2, <4>3, <1>3
    <3>3. p * U \in Nat /\ U * (W - 1) \in Nat
      BY <1>3
    <3> QED
      BY <1>3, <1>4, <3>1, <3>2, <3>3
  <2>2. CASE k > 0
    <3>1. (k + p) * U <= U + b + Drain(z, now - lr.first) + U * (W - 1)
      BY <2>2 DEF Bucket
    <3>2. c.taken + (p - 1) = k + p /\ c.first = lr.first
      BY <1>1, <1>3, <2>2
    <3> QED
      BY <3>1, <3>2
  <2> QED
    BY <1>3, <2>1, <2>2
<1> HIDE DEF d, U, b, W
<1>6. d.taken # 0 /\ d.taken > 0
  BY <1>1, <1>2, <1>3
<1>7. (d.taken + (p - 1)) * Unit
        <= Unit + limits.burst[z] + Drain(z, now - d.first) + Unit * (Crowd - 1)
  BY <1>2, <1>5 DEF U, b, W
<1>8. Bucket(z, d, p - 1)
  BY <1>1, <1>2, <1>6, <1>7 DEF Bucket
<1> QED
  BY <1>1, <1>2, <1>8 DEF d, c

\* A request that is let pass by a limit before the last is counted there.
LEMMA CountedBucket ==
    ASSUME RatesGiven, limits \in Rates, NEW z \in Zones, z # Limits, NEW lr \in NodeRec,
           NEW p \in Nat, p + 1 <= Crowd, Crowd \in Nat,
           Bucket(z, lr, p), now \in Nat, NEW t \in Nat, Boot <= t, t <= now, now - t <= limits.lag,
           Excess(z, lr, t) <= limits.burst[z]
    PROVE  \A n \in Nat : LET c == [lr EXCEPT !.count = n]
                          IN c \in NodeRec /\ c.key = lr.key /\ c.count = n /\ Bucket(z, c, p + 1)
<1> TAKE n \in Nat
<1> DEFINE d == [lr EXCEPT !.count = n]
           U == Unit
           k == lr.taken
           b == limits.burst[z]
           W == Crowd
           f == lr.first
           l == lr.last
           g == lr.excess
           e == Elapsed(lr, t)
           x == Excess(z, lr, t)
<1>1. /\ d \in NodeRec /\ d.key = lr.key /\ d.count = n /\ d.taken = k
      /\ d.first = f /\ d.last = l /\ d.excess = g
  BY DEF NodeRec
<1>2. k \in Nat /\ U \in Nat \ {0} /\ b \in Nat /\ W \in Nat /\ f \in Nat /\ l \in Nat /\ g \in Nat
  BY RatesFacts DEF RatesGiven, LimitReqAssumption, NodeRec
<1>3. ASSUME k > 0
      PROVE  (k + (p + 1)) * U <= U + b + Drain(z, now - f) + U * (W - 1)
  <2>1. f <= l /\ l <= now /\ k * U <= g + U + Drain(z, l - f)
    BY <1>3 DEF Bucket
  <2>2. x \in Nat /\ x >= g - Drain(z, e) + U /\ x <= b
    BY <2>1, ExcessFacts
  <2>3. e \in Nat /\ l - f \in Nat /\ now - f \in Nat /\ (l - f) + e <= now - f /\ (l - f) + e \in Nat
    <3>1. e \in Nat /\ (t < l => e = 0) /\ (t >= l => e = t - l)
      BY <2>1, ElapsedFacts
    <3> HIDE DEF e, l, f
    <3> QED
      BY <1>2, <2>1, <3>1
  <2> HIDE DEF e, l, f, g, x, k, U, b, W
  <2>4. /\ Drain(z, e) \in Nat /\ Drain(z, l - f) \in Nat /\ Drain(z, now - f) \in Nat
        /\ Drain(z, l - f) + Drain(z, e) <= Drain(z, now - f)
    <3>1. Drain(z, l - f) + Drain(z, e) <= Drain(z, (l - f) + e)
      BY <2>3, Drains
    <3>2. Drain(z, (l - f) + e) <= Drain(z, now - f) /\ Drain(z, (l - f) + e) \in Nat
      BY <2>3, Drains
    <3>3. Drain(z, e) \in Nat /\ Drain(z, l - f) \in Nat /\ Drain(z, now - f) \in Nat
      BY <2>3, Drains
    <3> QED
      BY <3>1, <3>2, <3>3
  <2>5. k * U + U <= U + b + Drain(z, now - f) /\ k * U \in Nat
    <3>1. k * U \in Nat
      BY <1>2
    <3> QED
      BY <1>2, <2>1, <2>2, <2>4, <3>1
  <2>6. p * U <= U * (W - 1) /\ p * U \in Nat /\ U * (W - 1) \in Nat
    <3> DEFINE h == (W - 1) - p
    <3>1. h \in Nat /\ W - 1 = p + h
      BY <1>2 DEF W
    <3> HIDE DEF h
    <3>2. U * (p + h) = U * p + U * h /\ U * h \in Nat /\ U * p = p * U /\ p * U \in Nat
      BY <1>2, <3>1
    <3> QED
      BY <1>2, <3>1, <3>2
  <2>7. (k + (p + 1)) * U = k * U + p * U + U
    BY <1>2
  <2> QED
    BY <1>2, <2>4, <2>5, <2>6, <2>7
<1>4. k = 0 => g = 0 /\ l = 0 /\ f = 0
  BY DEF Bucket
<1>5. k > 0 => f <= l /\ l <= now /\ k * U <= g + U + Drain(z, l - f)
  BY DEF Bucket
<1> HIDE DEF d
<1>6. Bucket(z, d, p + 1)
  BY <1>1, <1>3, <1>4, <1>5 DEF Bucket
<1> QED
  BY <1>1, <1>6 DEF d

\* A request that is not charged after all.
LEMMA BucketLess ==
    ASSUME RatesGiven, limits \in Rates, NEW z \in Zones, NEW lr \in NodeRec,
           NEW p \in Nat, NEW q \in Nat, q <= p, Crowd \in Nat, now \in Nat, Bucket(z, lr, p)
    PROVE  \A n \in Nat : LET c == [lr EXCEPT !.count = n]
                          IN c \in NodeRec /\ c.key = lr.key /\ c.count = n /\ Bucket(z, c, q)
<1> TAKE n \in Nat
<1> DEFINE d == [lr EXCEPT !.count = n]
           k == lr.taken
           X == Unit + limits.burst[z] + Drain(z, now - lr.first) + Unit * (Crowd - 1)
<1>1. /\ d \in NodeRec /\ d.key = lr.key /\ d.count = n /\ d.taken = k
      /\ d.first = lr.first /\ d.last = lr.last /\ d.excess = lr.excess
  BY DEF NodeRec
<1>2. ASSUME k > 0, z # Limits PROVE (k + q) * Unit <= X
  <2>1. (k + p) * Unit <= X
    BY <1>2 DEF Bucket
  <2>2. X \in Int
    <3>1. now - lr.first \in Nat
      BY <1>2 DEF Bucket, NodeRec
    <3>2. Drain(z, now - lr.first) \in Nat /\ limits.burst[z] \in Nat /\ Unit \in Nat
      BY <3>1, Drains, RatesFacts DEF RatesGiven, LimitReqAssumption
    <3>3. Unit * (Crowd - 1) \in Int
      BY <3>2
    <3> QED
      BY <3>2, <3>3
  <2> DEFINE h == p - q
  <2>3. h \in Nat /\ p = q + h
    OBVIOUS
  <2> HIDE DEF X, h
  <2>4. (k + (q + h)) * Unit = (k + q) * Unit + h * Unit /\ h * Unit \in Nat /\ (k + q) * Unit \in Nat
    <3>1. k \in Nat /\ Unit \in Nat
      BY DEF RatesGiven, LimitReqAssumption, NodeRec
    <3> HIDE DEF k
    <3> QED
      BY <2>3, <3>1
  <2> QED
    BY <2>1, <2>2, <2>3, <2>4
<1> HIDE DEF d
<1>3. Bucket(z, d, q)
  BY <1>1, <1>2 DEF Bucket
<1> QED
  BY <1>1, <1>3 DEF d

\* The clock goes on.
LEMMA BucketLater ==
    ASSUME RatesGiven, limits \in Rates, limits' = limits, NEW z \in Zones, NEW lr \in NodeRec,
           NEW p \in Nat, Crowd \in Nat, now \in Nat, now' \in Nat, now <= now', Bucket(z, lr, p)
    PROVE  Bucket(z, lr, p)'
<1> DEFINE k == lr.taken
           f == lr.first
           A == Unit + limits.burst[z]
           B == Unit * (Crowd - 1)
           L == (k + p) * Unit
<1>1. /\ k = 0 => lr.excess = 0 /\ lr.last = 0 /\ lr.first = 0
      /\ k > 0 => /\ f <= lr.last /\ lr.last <= now
                  /\ k * Unit <= lr.excess + Unit + Drain(z, lr.last - f)
                  /\ z # Limits => L <= A + Drain(z, now - f) + B
      /\ z = Limits => lr.excess <= limits.burst[z] /\ (lr.key # Nil => k > 0)
  BY DEF Bucket
<1>2. Limits' = Limits /\ Crowd' = Crowd /\ \A ms : Drain(z, ms)' = Drain(z, ms)
  BY DEF Limits, Crowd, Drain
<1>3. lr.last \in Nat /\ f \in Nat /\ Unit \in Nat /\ k \in Nat /\ limits.burst[z] \in Nat
  BY RatesFacts DEF RatesGiven, LimitReqAssumption, NodeRec
<1>4. A \in Int /\ B \in Int /\ L \in Int
  BY <1>3
<1> HIDE DEF A, B, L
<1>5. k > 0 => lr.last <= now'
  BY <1>1, <1>3
<1>6. ASSUME k > 0, z # Limits PROVE L <= A + Drain(z, now' - f) + B
  <2>1. now - f \in Nat /\ now' - f \in Nat /\ now - f <= now' - f
    BY <1>1, <1>3, <1>6
  <2>2. /\ Drain(z, now - f) \in Nat /\ Drain(z, now' - f) \in Nat
        /\ Drain(z, now - f) <= Drain(z, now' - f)
    BY <2>1, Drains
  <2>3. L <= A + Drain(z, now - f) + B
    BY <1>1, <1>6
  <2> QED
    BY <1>4, <2>2, <2>3
<1>7. ASSUME k > 0, z # Limits
      PROVE  (k + p) * Unit <= Unit + limits.burst[z] + Drain(z, now' - f) + Unit * (Crowd - 1)
  BY <1>6, <1>7 DEF A, B, L
<1>8. Bucket(z, lr, p)' <=>
         /\ k = 0 => lr.excess = 0 /\ lr.last = 0 /\ lr.first = 0
         /\ k > 0 => /\ f <= lr.last /\ lr.last <= now'
                     /\ k * Unit <= lr.excess + Unit + Drain(z, lr.last - f)
                     /\ z # Limits =>
                          (k + p) * Unit <= Unit + limits.burst[z] + Drain(z, now' - f) + Unit * (Crowd - 1)
         /\ z = Limits => lr.excess <= limits.burst[z] /\ (lr.key # Nil => k > 0)
  BY <1>2 DEF Bucket
<1> HIDE DEF k, f
<1> QED
  BY <1>1, <1>5, <1>7, <1>8

(***************************************************************************)
(* The zone.                                                               *)
(***************************************************************************)
LEMMA ZoneToHead ==
    ASSUME NEW q, ZoneOK(q), NEW n \in Nodes, q.nodes[n].key # Nil
    PROVE  ZoneOK(ToHead(q, n)) /\ ToHead(q, n).nodes = q.nodes
<1> DEFINE s == Without(q.queue, n)
           y == <<n>> \o s
           e == ToHead(q, n)
<1>1. q.queue \in Seq(Nodes) /\ IsInjective(q.queue) /\ n \in ToSet(q.queue)
  BY DEF ZoneOK, ZoneRec
<1>2. s \in Seq(Nodes) /\ IsInjective(s) /\ ToSet(s) = ToSet(q.queue) \ {n}
  BY <1>1, QueueWithout
<1> HIDE DEF s
<1>3. y \in Seq(Nodes) /\ IsInjective(y) /\ ToSet(y) = ToSet(s) \cup {n}
  BY <1>2, QueueInsert
<1>4. e = [q EXCEPT !.queue = y]
  BY DEF ToHead, s
<1> HIDE DEF y, e
<1>5. e \in ZoneRec /\ e.nodes = q.nodes /\ e.queue = y
  BY <1>3, <1>4 DEF ZoneOK, ZoneRec
<1>6. ToSet(y) = ToSet(q.queue)
  BY <1>1, <1>2, <1>3
<1>7. ZoneOK(e)
  BY <1>3, <1>5, <1>6 DEF ZoneOK
<1> QED
  BY <1>5, <1>7 DEF e

\* A node of a zone is charged or counted.
LEMMA ZoneSet ==
    ASSUME NEW q, ZoneOK(q), NEW n \in Nodes, q.nodes[n].key # Nil,
           NEW lr \in NodeRec, lr.key = q.nodes[n].key
    PROVE  LET e == [q EXCEPT !.nodes[n] = lr]
           IN  /\ ZoneOK(e) /\ e.nodes[n] = lr
               /\ \A m \in Nodes : m # n => e.nodes[m] = q.nodes[m]
<1> DEFINE e == [q EXCEPT !.nodes[n] = lr]
<1>1. /\ e \in ZoneRec /\ e.queue = q.queue
      /\ e.nodes[n] = lr /\ \A m \in Nodes : m # n => e.nodes[m] = q.nodes[m]
  BY DEF ZoneOK, ZoneRec
<1> HIDE DEF e
<1>2. \A m \in Nodes : e.nodes[m].key = q.nodes[m].key
  BY <1>1
<1>3. ZoneOK(e)
  BY <1>1, <1>2 DEF ZoneOK
<1> QED
  BY <1>1, <1>3 DEF e

\* Nodes that nobody counts on may go.
Sheds(q, e) == \A n \in Nodes : e.nodes[n] = q.nodes[n] \/ (e.nodes[n] = FreeNode /\ q.nodes[n].count = 0)

LEMMA ZoneExpire ==
    ASSUME RatesGiven, NEW q, ZoneOK(q), NEW z, NEW t, NEW force
    PROVE  ZoneOK(ExpireOldest(z, q, t, force)) /\ Sheds(q, ExpireOldest(z, q, t, force))
<1> DEFINE e == ExpireOldest(z, q, t, force)
           n == Last(q.queue)
           new == [nodes |-> [q.nodes EXCEPT ![n] = FreeNode], queue |-> Front(q.queue)]
<1>1. e = q \/ (q.queue # <<>> /\ ~InUse(q.nodes[n]) /\ e = new)
  BY DEF ExpireOldest
<1>2. CASE e = q
  BY <1>2 DEF Sheds
<1>3. CASE q.queue # <<>> /\ ~InUse(q.nodes[n]) /\ e = new
  <2>1. /\ q.queue \in Seq(Nodes) /\ IsInjective(q.queue)
        /\ ToSet(q.queue) = {m \in Nodes : q.nodes[m].key # Nil} /\ q.nodes \in [Nodes -> NodeRec]
    BY DEF ZoneOK, ZoneRec
  <2>2. /\ n \in ToSet(q.queue) /\ Front(q.queue) \in Seq(Nodes) /\ IsInjective(Front(q.queue))
        /\ ToSet(Front(q.queue)) = ToSet(q.queue) \ {n}
    BY <2>1, <1>3, QueueFront
  <2> HIDE DEF n, e
  <2>3. n \in Nodes /\ q.nodes[n].count = 0
    <3>1. n \in Nodes
      BY <2>1, <2>2
    <3>2. q.nodes[n].count \in Nat /\ ~(q.nodes[n].count > 0)
      BY <1>3, <2>1, <3>1 DEF InUse, NodeRec
    <3> QED
      BY <3>1, <3>2
  <2>4. FreeNode \in NodeRec /\ FreeNode.key = Nil
    BY DEF FreeNode, NodeRec
  <2>5. /\ e.nodes \in [Nodes -> NodeRec] /\ e.nodes[n] = FreeNode /\ e.queue = Front(q.queue)
        /\ \A m \in Nodes : m # n => e.nodes[m] = q.nodes[m]
    BY <1>3, <2>1, <2>3, <2>4
  <2>6. e \in ZoneRec
    BY <1>3, <2>2, <2>5 DEF ZoneRec
  <2>7. ToSet(e.queue) = {m \in Nodes : e.nodes[m].key # Nil}
    BY <2>1, <2>2, <2>3, <2>4, <2>5
  <2>8. ZoneOK(e)
    BY <2>2, <2>4, <2>5, <2>6, <2>7 DEF ZoneOK
  <2>9. Sheds(q, e)
    BY <2>3, <2>5 DEF Sheds
  <2> QED
    BY <2>8, <2>9 DEF e
<1> QED
  BY <1>1, <1>2, <1>3

LEMMA ShedsOnce ==
    ASSUME NEW q, NEW e, NEW f, Sheds(q, e), Sheds(e, f) PROVE Sheds(q, f)
BY DEF Sheds, FreeNode

LEMMA ZoneMakeRoom ==
    ASSUME RatesGiven, NEW q, ZoneOK(q), NEW z, NEW t
    PROVE  ZoneOK(MakeRoom(z, q, t)) /\ Sheds(q, MakeRoom(z, q, t))
<1>1. ASSUME NEW y, ZoneOK(y) PROVE ZoneOK(ExpireEmpty(z, y, t)) /\ Sheds(y, ExpireEmpty(z, y, t))
  BY <1>1, ZoneExpire, ShedsOnce DEF ExpireEmpty
<1>2. ASSUME NEW y, ZoneOK(y) PROVE ZoneOK(ExpireForced(z, y, t)) /\ Sheds(y, ExpireForced(z, y, t))
  <2> DEFINE f == ExpireOldest(z, y, t, TRUE)
  <2>1. ZoneOK(f) /\ Sheds(y, f)
    BY <1>2, ZoneExpire
  <2>2. ZoneOK(ExpireEmpty(z, f, t)) /\ Sheds(f, ExpireEmpty(z, f, t))
    BY <2>1, <1>1
  <2> QED
    BY <2>1, <2>2, ShedsOnce DEF ExpireForced
<1> DEFINE e == ExpireEmpty(z, q, t)
<1>3. ZoneOK(e) /\ Sheds(q, e)
  BY <1>1
<1>4. ZoneOK(ExpireForced(z, e, t)) /\ Sheds(e, ExpireForced(z, e, t))
  BY <1>2, <1>3
<1>5. Sheds(q, ExpireForced(z, e, t))
  BY <1>3, <1>4, ShedsOnce
<1> QED
  BY <1>3, <1>4, <1>5 DEF MakeRoom

\* A node for a key that has none.
Added(q, n, new) == [nodes |-> [q.nodes EXCEPT ![n] = new], queue |-> <<n>> \o q.queue]

LEMMA ZoneAdd ==
    ASSUME RatesGiven, NEW q, ZoneOK(q), NEW n \in Nodes, q.nodes[n].key = Nil,
           NEW new \in NodeRec, new.key # Nil, \A m \in Nodes : q.nodes[m].key # new.key
    PROVE  /\ ZoneOK(Added(q, n, new)) /\ Added(q, n, new).nodes[n] = new
           /\ \A m \in Nodes : m # n => Added(q, n, new).nodes[m] = q.nodes[m]
<1> DEFINE e == [nodes |-> [q.nodes EXCEPT ![n] = new], queue |-> <<n>> \o q.queue]
<1>1. /\ q.queue \in Seq(Nodes) /\ IsInjective(q.queue) /\ n \notin ToSet(q.queue)
      /\ ToSet(q.queue) = {m \in Nodes : q.nodes[m].key # Nil} /\ q.nodes \in [Nodes -> NodeRec]
  BY DEF ZoneOK, ZoneRec
<1>2. /\ <<n>> \o q.queue \in Seq(Nodes) /\ IsInjective(<<n>> \o q.queue)
      /\ ToSet(<<n>> \o q.queue) = ToSet(q.queue) \cup {n}
  BY <1>1, QueueInsert
<1> DEFINE b == <<n>> \o q.queue
<1> HIDE DEF b
<1>3. /\ e.nodes \in [Nodes -> NodeRec] /\ e.nodes[n] = new /\ e.queue = <<n>> \o q.queue
      /\ \A m \in Nodes : m # n => e.nodes[m] = q.nodes[m]
  BY <1>1
<1>4. e \in ZoneRec
  BY <1>1, <1>2, <1>3 DEF ZoneRec
<1> HIDE DEF e
<1>5. ToSet(e.queue) = {m \in Nodes : e.nodes[m].key # Nil}
  BY <1>1, <1>2, <1>3
<1>6. ZoneOK(e)
  BY <1>2, <1>3, <1>4, <1>5 DEF ZoneOK
<1> QED
  BY <1>3, <1>6 DEF e, Added

(***************************************************************************)
(* The workers that count on a node.                                       *)
(***************************************************************************)
LEMMA PendingFinite ==
    ASSUME RatesGiven, NEW h, NEW z, NEW n
    PROVE  IsFiniteSet(Pending(h, z, n)) /\ Cardinality(Pending(h, z, n)) \in Nat
<1>1. Pending(h, z, n) \subseteq Workers /\ IsFiniteSet(Workers)
  BY DEF Pending, RatesGiven, LimitReqAssumption
<1>2. IsFiniteSet(Pending(h, z, n))
  BY <1>1, FS_Subset
<1> QED
  BY <1>2, FS_CardinalityType

LEMMA PendingBound ==
    ASSUME RatesGiven, limits \in Rates, Visits, NEW z \in Zones, NEW n \in Nodes
    PROVE  /\ Crowd \in Nat /\ Cardinality(Pending(node, z, n)) <= Crowd
           /\ \A w \in limits.workers : node[w][z] # n => Cardinality(Pending(node, z, n)) + 1 <= Crowd
<1>1. limits.workers \subseteq Workers /\ IsFiniteSet(limits.workers)
  <2>1. limits.workers \subseteq Workers /\ IsFiniteSet(Workers)
    BY RatesFacts DEF RatesGiven, LimitReqAssumption
  <2> QED
    BY <2>1, FS_Subset
<1>2. Pending(node, z, n) \subseteq limits.workers
  <2>1. ASSUME NEW w \in Workers, node[w][z] = n PROVE w \in limits.workers
    <3>1. n # Nil
      BY DEF RatesGiven, LimitReqAssumption
    <3>2. node[w] # Nothing
      BY <2>1, <3>1 DEF Nothing
    <3> QED
      BY <3>2 DEF Visits
  <2> QED
    BY <2>1 DEF Pending
<1>3. Crowd \in Nat
  BY <1>1, FS_CardinalityType DEF Crowd
<1>4. Cardinality(Pending(node, z, n)) <= Crowd
  BY <1>1, <1>2, FS_Subset DEF Crowd
<1>5. ASSUME NEW w \in limits.workers, node[w][z] # n PROVE Cardinality(Pending(node, z, n)) + 1 <= Crowd
  <2>1. Pending(node, z, n) \cup {w} \subseteq limits.workers /\ w \notin Pending(node, z, n)
    BY <1>2, <1>5 DEF Pending
  <2>2. Cardinality(Pending(node, z, n) \cup {w}) = Cardinality(Pending(node, z, n)) + 1
    BY <2>1, PendingFinite, FS_AddElement
  <2>3. Cardinality(Pending(node, z, n) \cup {w}) <= Crowd
    BY <1>1, <2>1, FS_Subset DEF Crowd
  <2> QED
    BY <2>2, <2>3
<1> QED
  BY <1>3, <1>4, <1>5

LEMMA PendingAdds ==
    ASSUME RatesGiven, Visits, NEW w \in Workers, NEW z \in Zones, NEW n \in Nodes,
           node[w][z] = Nil,
           \A v \in Workers, y \in Zones :
             node'[v][y] = IF v = w /\ y = z THEN n ELSE node[v][y]
    PROVE  \A y \in Zones, m \in Nodes :
             Cardinality(Pending(node', y, m)) = IF y = z /\ m = n
               THEN Cardinality(Pending(node, y, m)) + 1 ELSE Cardinality(Pending(node, y, m))
<1> TAKE y \in Zones, m \in Nodes
<1>1. CASE y = z /\ m = n
  <2>1. Pending(node', y, m) = Pending(node, y, m) \cup {w} /\ w \notin Pending(node, y, m)
    BY <1>1 DEF Pending, Visits, RatesGiven, LimitReqAssumption
  <2>2. Cardinality(Pending(node, y, m) \cup {w}) = Cardinality(Pending(node, y, m)) + 1
    BY <2>1, PendingFinite, FS_AddElement
  <2> QED
    BY <1>1, <2>1, <2>2
<1>2. CASE ~(y = z /\ m = n)
  <2>1. Pending(node', y, m) = Pending(node, y, m)
    BY <1>2 DEF Pending, Visits, RatesGiven, LimitReqAssumption
  <2> QED
    BY <1>2, <2>1
<1> QED
  BY <1>1, <1>2

LEMMA PendingDrops ==
    ASSUME RatesGiven, Visits, NEW w \in Workers, NEW z \in Zones,
           node[w][z] # Nil,
           \A v \in Workers, y \in Zones :
             node'[v][y] = IF v = w /\ y = z THEN Nil ELSE node[v][y]
    PROVE  \A y \in Zones, m \in Nodes :
             Cardinality(Pending(node', y, m)) = IF y = z /\ m = node[w][z]
               THEN Cardinality(Pending(node, y, m)) - 1 ELSE Cardinality(Pending(node, y, m))
<1> TAKE y \in Zones, m \in Nodes
<1>1. CASE y = z /\ m = node[w][z]
  <2>1. Pending(node', y, m) = Pending(node, y, m) \ {w} /\ w \in Pending(node, y, m)
    BY <1>1 DEF Pending, Visits, RatesGiven, LimitReqAssumption
  <2>2. Cardinality(Pending(node, y, m) \ {w}) = Cardinality(Pending(node, y, m)) - 1
    BY <2>1, PendingFinite, FS_RemoveElement
  <2> QED
    BY <1>1, <2>1, <2>2
<1>2. CASE ~(y = z /\ m = node[w][z])
  <2>1. Pending(node', y, m) = Pending(node, y, m)
    BY <1>2 DEF Pending, Visits, RatesGiven, LimitReqAssumption
  <2> QED
    BY <1>2, <2>1
<1> QED
  BY <1>1, <1>2

\* A node that a worker counts on has a count and a key.
LEMMA HeldIsKept ==
    ASSUME RatesGiven, IInv, NEW w \in Workers, NEW z \in Zones, node[w][z] # Nil
    PROVE  /\ node[w][z] \in Nodes
           /\ Cardinality(Pending(node, z, node[w][z])) \in Nat \ {0}
           /\ zone[z].nodes[node[w][z]].count \in Nat \ {0}
           /\ zone[z].nodes[node[w][z]].key # Nil
           /\ zone[z].nodes[node[w][z]].key = mine[w][z]
<1> DEFINE n == node[w][z]
<1>1. n \in Nodes /\ zone[z].nodes \in [Nodes -> NodeRec]
  BY DEF IInv, Visits, ZonesOK, ZoneRec
<1>2. w \in Pending(node, z, n)
  BY DEF Pending
<1>3. Cardinality(Pending(node, z, n)) \in Nat /\ Cardinality(Pending(node, z, n)) # 0
  BY <1>2, PendingFinite, FS_EmptySet
<1>4. /\ zone[z].nodes[n].count = leaked[z][n] + Cardinality(Pending(node, z, n))
      /\ leaked[z][n] \in Nat /\ zone[z].nodes[n].key = mine[w][z]
  BY <1>1 DEF IInv, CountedNodesStay, Pending, ZonesOK
<1> HIDE DEF n
<1>5. zone[z].nodes[n].count \in Nat \ {0}
  BY <1>3, <1>4
<1>6. zone[z].nodes[n].key # Nil
  BY <1>1, <1>5 DEF IInv, ZonesOK, ZoneOK, FreeNode
<1> QED
  BY <1>1, <1>3, <1>4, <1>5, <1>6 DEF n

\* What is left to be shown of a step that changes one zone.
LEMMA ZoneStep ==
    ASSUME RatesGiven, IInv, limits' = limits, now' = now, leaked' = leaked,
           NEW z \in Zones, NEW q, ZoneOK(q), zone' = [zone EXCEPT ![z] = q],
           \A m \in Nodes : /\ q.nodes[m].count = leaked[z][m] + Cardinality(Pending(node', z, m))
                            /\ Bucket(z, q.nodes[m], Cardinality(Pending(node', z, m))),
           \A w \in Workers : node'[w][z] # Nil => q.nodes[node'[w][z]].key = mine'[w][z],
           \A y \in Zones : y # z =>
             /\ \A m \in Nodes : Cardinality(Pending(node', y, m)) = Cardinality(Pending(node, y, m))
             /\ \A w \in Workers : node'[w][y] = node[w][y] /\ mine'[w][y] = mine[w][y]
    PROVE  ZonesOK' /\ CountedNodesStay' /\ Buckets'
<1>1. Zones' = Zones /\ Limits' = Limits
  BY DEF Zones, Limits
<1>2. zone'[z] = q /\ \A y \in Zones : y # z => zone'[y] = zone[y]
  BY DEF IInv, ZonesOK
<1>3. ZonesOK'
  <2>1. zone' \in [Zones -> ZoneRec]
    BY DEF IInv, ZonesOK, ZoneOK
  <2>2. leaked' \in [Zones -> [Nodes -> Nat]]
    BY DEF IInv, ZonesOK
  <2>3. \A y \in Zones : ZoneOK(zone'[y])
    BY <1>2 DEF IInv, ZonesOK
  <2> QED
    BY <1>1, <2>1, <2>2, <2>3 DEF ZonesOK
<1>4. CountedNodesStay'
  <2>1. \A w \in Workers, y \in Zones : node'[w][y] # Nil => zone'[y].nodes[node'[w][y]].key = mine'[w][y]
    BY <1>2 DEF IInv, CountedNodesStay
  <2>2. \A y \in Zones, m \in Nodes :
          zone'[y].nodes[m].count = leaked'[y][m] + Cardinality({w \in Workers : node'[w][y] = m})
    <3> SUFFICES ASSUME NEW y \in Zones, NEW m \in Nodes
                 PROVE  zone'[y].nodes[m].count = leaked[y][m] + Cardinality(Pending(node', y, m))
      BY DEF Pending
    <3>1. CASE y = z
      BY <3>1, <1>2
    <3>2. CASE y # z
      <4>1. zone[y].nodes[m].count = leaked[y][m] + Cardinality(Pending(node, y, m))
        BY DEF IInv, CountedNodesStay, Pending
      <4> QED
        BY <3>2, <4>1, <1>2
    <3> QED
      BY <3>1, <3>2
  <2> QED
    BY <1>1, <2>1, <2>2 DEF CountedNodesStay
<1>5. Buckets'
  <2>1. ASSUME NEW y \in Zones, NEW m \in Nodes
        PROVE  Bucket(y, zone'[y].nodes[m], Cardinality(Pending(node', y, m)))
    <3>1. CASE y = z
      BY <3>1, <1>2
    <3>2. CASE y # z
      <4>1. Bucket(y, zone[y].nodes[m], Cardinality(Pending(node, y, m)))
        BY DEF IInv, Buckets
      <4> QED
        BY <3>2, <4>1, <1>2
    <3> QED
      BY <3>1, <3>2
  <2>2. \A y \in Zones', m \in Nodes :
          Bucket(y, zone[y].nodes[m], Cardinality(Pending(node, y, m)))'
    <3> SUFFICES ASSUME NEW y \in Zones, NEW m \in Nodes
                 PROVE  Bucket(y, zone[y].nodes[m], Cardinality(Pending(node, y, m)))'
      BY <1>1
    <3> QED
      BY <2>1, <1>1 DEF Bucket, Drain, Crowd, Pending
  <2> QED
    BY <2>2 DEF Buckets
<1> QED
  BY <1>3, <1>4, <1>5

(***************************************************************************)
(* The steps.                                                              *)
(***************************************************************************)
LEMMA NextLimitVisits ==
    ASSUME RatesGiven, limits \in Rates, limits' = limits, Visits, NEW w \in limits.workers,
           phase[w] = "lookup", NextLimit(w),
           \/ node' = node /\ mine' = mine
           \/ /\ place[w] # Limits
              /\ \E n \in Nodes, k \in Keys : /\ node' = [node EXCEPT ![w][place[w]] = n]
                                              /\ mine' = [mine EXCEPT ![w][place[w]] = k]
    PROVE  Visits'
<1> DEFINE z == place[w]
<1>1. Zones' = Zones /\ Limits' = Limits /\ Nothing' = Nothing
  BY DEF Zones, Limits, Nothing
<1>2. w \in Workers /\ z \in Zones /\ z \in Nat /\ z <= Limits /\ Limits \in Nat
  <2>1. w \in Workers
    BY DEF RatesGiven, LimitReqAssumption
  <2>2. z \in Zones
    BY <2>1 DEF Visits
  <2> HIDE DEF z
  <2> QED
    BY <2>1, <2>2, RatesFacts
<1>3. \A y \in Zones : y \in Nat /\ y <= Limits
  BY RatesFacts
<1>4. /\ phase' \in [Workers -> {"idle", "lookup", "account", "unlock"}]
      /\ place' \in [Workers -> Zones]
      /\ \A v \in Workers : v # w => phase'[v] = phase[v] /\ place'[v] = place[v]
      /\ z = Limits => phase'[w] = "account"
      /\ z # Limits => phase'[w] = "lookup" /\ place'[w] = z + 1
  <2>1. z # Limits => z + 1 \in Zones
    BY <1>2 DEF Zones, Limits
  <2>2. CASE z = Limits
    <3>1. phase' = [phase EXCEPT ![w] = "account"] /\ place' = place
      BY <2>2 DEF NextLimit
    <3> QED
      BY <1>2, <2>2, <3>1 DEF Visits
  <2>3. CASE z # Limits
    <3>1. place' = [place EXCEPT ![w] = z + 1] /\ phase' = phase
      BY <2>3 DEF NextLimit
    <3> QED
      BY <1>2, <2>1, <2>3, <3>1 DEF Visits
  <2> QED
    BY <2>2, <2>3
<1>5. /\ node' \in [Workers -> [Zones -> Nodes \cup {Nil}]]
      /\ mine' \in [Workers -> [Zones -> Keys \cup {Nil}]]
      /\ \A v \in Workers, y \in Zones :
           node'[v][y] # Nil => node[v][y] # Nil \/ (v = w /\ y = z /\ z # Limits)
      /\ \A v \in Workers : v # w => node'[v] = node[v]
  <2>1. CASE node' = node /\ mine' = mine
    BY <2>1 DEF Visits
  <2>2. CASE ~(node' = node /\ mine' = mine)
    <3>1. PICK n \in Nodes, k \in Keys : /\ z # Limits
                                         /\ node' = [node EXCEPT ![w][z] = n]
                                         /\ mine' = [mine EXCEPT ![w][z] = k]
      BY <2>2
    <3> HIDE DEF z
    <3>2. node \in [Workers -> [Zones -> Nodes \cup {Nil}]] /\ mine \in [Workers -> [Zones -> Keys \cup {Nil}]]
      BY DEF Visits
    <3> QED
      BY <1>2, <3>1, <3>2
  <2> QED
    BY <2>1, <2>2
<1> HIDE DEF z
<1>6. ASSUME NEW v \in Workers
      PROVE  /\ v \notin limits.workers => node'[v] = Nothing
             /\ phase'[v] = "idle" => node'[v] = Nothing
             /\ \A y \in Zones : node'[v][y] # Nil => y < Limits
             /\ phase'[v] = "lookup" => \A y \in Zones : y >= place'[v] => node'[v][y] = Nil
  <2>1. CASE v # w
    BY <2>1, <1>4, <1>5 DEF Visits
  <2>2. CASE v = w
    <3>1. \A y \in Zones : node'[v][y] # Nil => y < Limits
      BY <1>2, <1>5 DEF Visits
    <3>2. ASSUME phase'[w] = "lookup", NEW y \in Zones, y >= place'[w] PROVE node'[w][y] = Nil
      <4>1. z # Limits /\ place'[w] = z + 1
        BY <3>2, <1>4
      <4>2. y # z /\ y >= z
        BY <3>2, <4>1, <1>2, <1>3
      <4>3. node[w][y] = Nil
        BY <4>2, <1>2 DEF Visits, z
      <4> QED
        BY <4>2, <4>3, <1>2, <1>5
    <3>3. phase'[w] # "idle"
      BY <1>4
    <3> QED
      BY <2>2, <3>1, <3>2, <3>3
  <2> QED
    BY <2>1, <2>2
<1> QED
  BY <1>1, <1>4, <1>5, <1>6 DEF Visits

LEMMA QuietZones ==
    ASSUME IInv, limits' = limits, now' = now, UNCHANGED <<zone, node, mine, leaked>>
    PROVE  ZonesOK' /\ CountedNodesStay' /\ Buckets'
<1>1. Zones' = Zones /\ Limits' = Limits
  BY DEF Zones, Limits
<1>2. ZonesOK' /\ CountedNodesStay'
  BY <1>1 DEF IInv, ZonesOK, CountedNodesStay, ZoneOK
<1>3. Buckets'
  <2> SUFFICES ASSUME NEW y \in Zones, NEW m \in Nodes
               PROVE  Bucket(y, zone[y].nodes[m], Cardinality(Pending(node, y, m)))'
    BY <1>1 DEF Buckets
  <2>1. Bucket(y, zone[y].nodes[m], Cardinality(Pending(node, y, m)))
    BY DEF IInv, Buckets
  <2> QED
    BY <2>1, <1>1 DEF Bucket, Drain, Crowd, Pending
<1> QED
  BY <1>2, <1>3

LEMMA QuietActions ==
    ASSUME RatesGiven, IInv, limits' = limits, NEW w \in limits.workers,
           Start(w) \/ Skip(w) \/ KeyFails(w) \/ Done(w) \/ TimeUpdate(w)
    PROVE  IInv'
<1>1. UNCHANGED <<zone, now, node, mine, leaked>>
  BY DEF Start, Skip, KeyFails, Done, TimeUpdate
<1>2. ZonesOK' /\ CountedNodesStay' /\ Buckets'
  BY <1>1, QuietZones
<1>3. Zones' = Zones /\ Limits' = Limits /\ Nothing' = Nothing
  BY DEF Zones, Limits, Nothing
<1>4. w \in Workers /\ limits \in Rates /\ Visits /\ Clocks /\ 1 \in Zones
  <2>1. limits \in Rates /\ Visits /\ Clocks
    BY DEF IInv
  <2>2. limits.workers \subseteq Workers
    BY <2>1 DEF RatesGiven, LimitReqAssumption
  <2>3. Len(limits.rate) \in Nat \ {0}
    BY <2>1 DEF RatesGiven, LimitReqAssumption
  <2>4. 1 \in Zones
    BY <2>3 DEF Zones, Limits
  <2> QED
    BY <2>1, <2>2, <2>4
<1>5. Visits'
  <2>1. CASE Start(w)
    <3>1. node[w] = Nothing /\ phase'[w] = "lookup" /\ place'[w] = 1
      BY <2>1, <1>4 DEF Start, Visits
    <3> QED
      BY <2>1, <3>1, <1>1, <1>3, <1>4 DEF Start, Visits, Nothing
  <2>2. CASE Skip(w)
    BY <2>2, <1>1, <1>4, NextLimitVisits DEF Skip
  <2>3. CASE KeyFails(w)
    BY <2>3, <1>1, <1>3, <1>4 DEF KeyFails, Visits
  <2>4. CASE Done(w)
    BY <2>4, <1>1, <1>3, <1>4 DEF Done, Visits
  <2>5. CASE TimeUpdate(w)
    BY <2>5, <1>1, <1>3, <1>4 DEF TimeUpdate, Visits
  <2> QED
    BY <2>1, <2>2, <2>3, <2>4, <2>5
<1>6. Clocks'
  <2>1. CASE TimeUpdate(w)
    <3>1. now \in Nat /\ limits.lag \in Nat /\ now - now <= limits.lag
      BY <1>4, RatesFacts DEF Clocks
    <3>2. Boot <= now
      BY <1>4 DEF Clocks, RatesGiven, LimitReqAssumption
    <3>3. msec' = [msec EXCEPT ![w] = now]
      BY <2>1 DEF TimeUpdate
    <3> QED
      BY <3>1, <3>2, <3>3, <1>1, <1>4 DEF Clocks
  <2>2. CASE ~TimeUpdate(w)
    <3>1. msec' = msec
      BY <2>2 DEF Start, Skip, KeyFails, Done
    <3> QED
      BY <3>1, <1>1, <1>4 DEF Clocks
  <2> QED
    BY <2>1, <2>2
<1> QED
  BY <1>2, <1>4, <1>5, <1>6 DEF IInv

\* What a worker that looks at a limit has before it.
LEMMA Looking ==
    ASSUME RatesGiven, IInv, NEW w \in limits.workers
    PROVE  /\ w \in Workers /\ place[w] \in Zones /\ msec[w] \in Nat /\ now \in Nat
           /\ Boot <= msec[w] /\ msec[w] <= now /\ now - msec[w] <= limits.lag
           /\ limits \in Rates /\ Visits /\ Crowd \in Nat
           /\ phase[w] = "lookup" => node[w][place[w]] = Nil
           /\ \A z \in Zones :
                /\ ZoneOK(zone[z]) /\ zone[z].nodes \in [Nodes -> NodeRec]
                /\ \A m \in Nodes :
                     /\ Bucket(z, zone[z].nodes[m], Cardinality(Pending(node, z, m)))
                     /\ zone[z].nodes[m].count = leaked[z][m] + Cardinality(Pending(node, z, m))
                     /\ leaked[z][m] \in Nat /\ Cardinality(Pending(node, z, m)) \in Nat
<1>1. limits \in Rates /\ Visits /\ Clocks /\ ZonesOK /\ Buckets /\ CountedNodesStay
  BY DEF IInv
<1>2. limits.workers \subseteq Workers /\ IsFiniteSet(Workers)
  BY <1>1 DEF RatesGiven, LimitReqAssumption
<1>3. w \in Workers
  BY <1>2
<1>4. /\ place[w] \in Zones /\ msec[w] \in Nat /\ now \in Nat
      /\ Boot <= msec[w] /\ msec[w] <= now /\ now - msec[w] <= limits.lag
  BY <1>1, <1>3 DEF Visits, Clocks
<1>5. phase[w] = "lookup" => node[w][place[w]] = Nil
  <2>1. place[w] >= place[w]
    BY <1>4 DEF Zones
  <2> QED
    BY <1>1, <1>3, <1>4, <2>1 DEF Visits
<1>6. Crowd \in Nat
  <2>1. IsFiniteSet(limits.workers)
    BY <1>2, FS_Subset
  <2> QED
    BY <2>1, FS_CardinalityType DEF Crowd
<1>7. ASSUME NEW z \in Zones, NEW m \in Nodes
      PROVE  /\ Bucket(z, zone[z].nodes[m], Cardinality(Pending(node, z, m)))
             /\ zone[z].nodes[m].count = leaked[z][m] + Cardinality(Pending(node, z, m))
             /\ leaked[z][m] \in Nat /\ Cardinality(Pending(node, z, m)) \in Nat
  <2>1. Bucket(z, zone[z].nodes[m], Cardinality(Pending(node, z, m)))
    BY <1>1 DEF Buckets
  <2>2. zone[z].nodes[m].count = leaked[z][m] + Cardinality(Pending(node, z, m))
    BY <1>1 DEF CountedNodesStay, Pending
  <2>3. leaked[z][m] \in Nat
    BY <1>1 DEF ZonesOK
  <2> QED
    BY <2>1, <2>2, <2>3, PendingFinite
<1>8. \A z \in Zones : ZoneOK(zone[z]) /\ zone[z].nodes \in [Nodes -> NodeRec]
  BY <1>1 DEF ZonesOK, ZoneOK, ZoneRec
<1> QED
  BY <1>1, <1>3, <1>4, <1>5, <1>6, <1>7, <1>8

LEMMA LookupFoundStep ==
    ASSUME RatesGiven, IInv, limits' = limits, NEW w \in limits.workers, NEW k \in Keys,
           NEW n \in Nodes, LookupFound(w, k, n)
    PROVE  IInv'
<1>0. PICK z, t : z = place[w] /\ t = msec[w]
  OBVIOUS
<1> DEFINE q == ToHead(zone[z], n)
           lr == q.nodes[n]
           p == Cardinality(Pending(node, z, n))
<1>1. /\ w \in Workers /\ z \in Zones /\ t \in Nat /\ now \in Nat
      /\ Boot <= t /\ t <= now /\ now - t <= limits.lag
      /\ limits \in Rates /\ Visits /\ Crowd \in Nat
      /\ phase[w] = "lookup" /\ node[w][z] = Nil
  BY <1>0, Looking DEF LookupFound
<1>2. /\ ZoneOK(zone[z]) /\ zone[z].nodes \in [Nodes -> NodeRec]
      /\ \A m \in Nodes :
           /\ Bucket(z, zone[z].nodes[m], Cardinality(Pending(node, z, m)))
           /\ zone[z].nodes[m].count = leaked[z][m] + Cardinality(Pending(node, z, m))
           /\ leaked[z][m] \in Nat /\ Cardinality(Pending(node, z, m)) \in Nat
  BY <1>1, Looking
<1>3. zone[z].nodes[n].key = k /\ k # Nil /\ Excess(z, lr, t) <= limits.burst[z] /\ n # Nil
  BY <1>0 DEF LookupFound, Find, RatesGiven, LimitReqAssumption
<1>4. UNCHANGED <<now, msec, leaked>> /\ NextLimit(w)
  BY DEF LookupFound
<1>5. /\ z = Limits => /\ zone' = [zone EXCEPT ![z] = [q EXCEPT !.nodes[n] = Charge(z, @, t)]]
                       /\ node' = node /\ mine' = mine
      /\ z # Limits => /\ zone' = [zone EXCEPT ![z] = [q EXCEPT !.nodes[n].count = @ + 1]]
                       /\ node' = [node EXCEPT ![w][z] = n] /\ mine' = [mine EXCEPT ![w][z] = k]
  BY <1>0 DEF LookupFound
<1> HIDE DEF q
<1>6. ZoneOK(q) /\ q.nodes = zone[z].nodes
  BY <1>2, <1>3, ZoneToHead DEF q
<1>7. /\ lr \in NodeRec /\ lr.key = k /\ Bucket(z, lr, p) /\ lr.count = leaked[z][n] + p
      /\ leaked[z][n] \in Nat /\ p \in Nat /\ lr.count \in Nat
  <2>1. lr = zone[z].nodes[n]
    BY <1>6
  <2>2. lr \in NodeRec /\ lr.count \in Nat
    BY <1>2, <2>1 DEF NodeRec
  <2> QED
    BY <1>2, <1>3, <2>1, <2>2
<1>8. Visits'
  BY <1>1, <1>4, <1>5, <1>0, NextLimitVisits
<1>9. Clocks'
  BY <1>4 DEF IInv, Clocks
<1>10. ZonesOK' /\ CountedNodesStay' /\ Buckets'
  <2>1. CASE z = Limits
    <3> DEFINE c == Charge(z, lr, t)
               e == [q EXCEPT !.nodes[n] = c]
    <3>1. c \in NodeRec /\ Bucket(z, c, p) /\ c.key = lr.key /\ c.count = lr.count
      <4>1. c \in NodeRec /\ Bucket(z, c, p)
        BY <2>1, <1>1, <1>3, <1>7, ChargedAtOnce
      <4>2. c.key = lr.key /\ c.count = lr.count
        BY <1>1, <1>7, Charged
      <4> QED
        BY <4>1, <4>2
    <3> HIDE DEF c, lr
    <3>2. ZoneOK(e) /\ e.nodes[n] = c /\ \A m \in Nodes : m # n => e.nodes[m] = q.nodes[m]
      <4>1. q.nodes[n].key # Nil /\ c.key = q.nodes[n].key
        BY <1>3, <1>6, <1>7, <3>1 DEF lr
      <4> QED
        BY <1>6, <3>1, <4>1, ZoneSet
    <3>3. zone' = [zone EXCEPT ![z] = e] /\ node' = node /\ mine' = mine
      BY <1>5, <2>1 DEF c, lr
    <3> HIDE DEF e
    <3>4. \A y \in Zones, m \in Nodes : Pending(node', y, m) = Pending(node, y, m)
      BY <3>3 DEF Pending
    <3>5. ASSUME NEW m \in Nodes
          PROVE  /\ e.nodes[m].count = leaked[z][m] + Cardinality(Pending(node', z, m))
                 /\ Bucket(z, e.nodes[m], Cardinality(Pending(node', z, m)))
      <4>1. CASE m = n
        BY <4>1, <1>1, <1>7, <3>1, <3>2, <3>4
      <4>2. CASE m # n
        BY <4>2, <1>1, <1>2, <1>6, <3>2, <3>4
      <4> QED
        BY <4>1, <4>2
    <3>6. ASSUME NEW v \in Workers, node'[v][z] # Nil PROVE e.nodes[node'[v][z]].key = mine'[v][z]
      <4>1. /\ node[v][z] \in Nodes /\ zone[z].nodes[node[v][z]].key = mine[v][z]
        BY <1>1, <3>3, <3>6, HeldIsKept
      <4> QED
        BY <4>1, <1>6, <1>7, <3>1, <3>2, <3>3 DEF lr
    <3> QED
      BY <1>1, <1>4, <3>2, <3>3, <3>4, <3>5, <3>6, ZoneStep
  <2>2. CASE z # Limits
    <3> DEFINE c == [lr EXCEPT !.count = lr.count + 1]
               e == [q EXCEPT !.nodes[n] = c]
    <3>1. c \in NodeRec /\ Bucket(z, c, p + 1) /\ c.key = lr.key /\ c.count = lr.count + 1
      <4>1. p + 1 <= Crowd
        <5>1. Cardinality(Pending(node, z, n)) + 1 <= Crowd
          BY <1>1, <1>3, PendingBound
        <5> QED
          BY <5>1
      <4>2. lr.count + 1 \in Nat
        BY <1>7
      <4> HIDE DEF p, lr
      <4> QED
        BY <2>2, <1>1, <1>3, <1>7, <4>1, <4>2, CountedBucket
    <3>2. e = [q EXCEPT !.nodes[n].count = @ + 1]
      OBVIOUS
    <3> HIDE DEF c, lr
    <3>3. ZoneOK(e) /\ e.nodes[n] = c /\ \A m \in Nodes : m # n => e.nodes[m] = q.nodes[m]
      <4>1. q.nodes[n].key # Nil /\ c.key = q.nodes[n].key
        BY <1>3, <1>6, <1>7, <3>1 DEF lr
      <4> QED
        BY <1>6, <3>1, <4>1, ZoneSet
    <3>4. /\ zone' = [zone EXCEPT ![z] = e]
          /\ node' = [node EXCEPT ![w][z] = n] /\ mine' = [mine EXCEPT ![w][z] = k]
      BY <1>5, <2>2, <3>2
    <3> HIDE DEF e
    <3>5. \A y \in Zones, m \in Nodes :
            Cardinality(Pending(node', y, m)) = IF y = z /\ m = n
              THEN Cardinality(Pending(node, y, m)) + 1 ELSE Cardinality(Pending(node, y, m))
      <4>1. \A v \in Workers, y \in Zones : node'[v][y] = IF v = w /\ y = z THEN n ELSE node[v][y]
        BY <1>1, <3>4 DEF Visits
      <4> QED
        BY <1>1, <4>1, PendingAdds
    <3>6. ASSUME NEW m \in Nodes
          PROVE  /\ e.nodes[m].count = leaked[z][m] + Cardinality(Pending(node', z, m))
                 /\ Bucket(z, e.nodes[m], Cardinality(Pending(node', z, m)))
      <4>1. CASE m = n
        <5>1. Cardinality(Pending(node', z, m)) = p + 1
          BY <4>1, <1>1, <3>5
        <5>2. lr.count + 1 = leaked[z][m] + (p + 1)
          BY <4>1, <1>7
        <5> QED
          BY <4>1, <3>1, <3>3, <5>1, <5>2
      <4>2. CASE m # n
        BY <4>2, <1>1, <1>2, <1>6, <3>3, <3>5
      <4> QED
        BY <4>1, <4>2
    <3>7. /\ node'[w][z] = n /\ mine'[w][z] = k
          /\ \A v \in Workers, y \in Zones :
               ~(v = w /\ y = z) => node'[v][y] = node[v][y] /\ mine'[v][y] = mine[v][y]
      BY <1>1, <3>4 DEF Visits
    <3>8. ASSUME NEW v \in Workers, node'[v][z] # Nil PROVE e.nodes[node'[v][z]].key = mine'[v][z]
      <4>1. CASE v = w
        BY <4>1, <1>7, <3>1, <3>3, <3>7
      <4>2. CASE v # w
        <5>1. node'[v][z] = node[v][z] /\ mine'[v][z] = mine[v][z]
          BY <4>2, <1>1, <3>7
        <5>2. /\ node[v][z] \in Nodes /\ zone[z].nodes[node[v][z]].key = mine[v][z]
          BY <1>1, <5>1, <3>8, HeldIsKept
        <5> QED
          BY <5>1, <5>2, <1>6, <1>7, <3>1, <3>3 DEF lr
      <4> QED
        BY <4>1, <4>2
    <3>9. \A y \in Zones : y # z =>
            /\ \A m \in Nodes : Cardinality(Pending(node', y, m)) = Cardinality(Pending(node, y, m))
            /\ \A v \in Workers : node'[v][y] = node[v][y] /\ mine'[v][y] = mine[v][y]
      BY <3>5, <3>7
    <3> QED
      BY <1>1, <1>4, <3>3, <3>4, <3>6, <3>8, <3>9, ZoneStep
  <2> QED
    BY <2>1, <2>2
<1> QED
  BY <1>1, <1>8, <1>9, <1>10 DEF IInv

\* A zone that lost nodes that nobody counts on is still right for the others.
LEMMA ShedZone ==
    ASSUME RatesGiven, IInv, limits \in Rates, NEW z \in Zones, NEW q, ZoneOK(q), Sheds(zone[z], q)
    PROVE  /\ \A m \in Nodes : /\ q.nodes[m].count = leaked[z][m] + Cardinality(Pending(node, z, m))
                               /\ Bucket(z, q.nodes[m], Cardinality(Pending(node, z, m)))
           /\ \A v \in Workers : node[v][z] # Nil => q.nodes[node[v][z]].key = mine[v][z]
<1>1. ASSUME NEW m \in Nodes
      PROVE  /\ q.nodes[m].count = leaked[z][m] + Cardinality(Pending(node, z, m))
             /\ Bucket(z, q.nodes[m], Cardinality(Pending(node, z, m)))
  <2>1. /\ zone[z].nodes[m].count = leaked[z][m] + Cardinality(Pending(node, z, m))
        /\ Bucket(z, zone[z].nodes[m], Cardinality(Pending(node, z, m)))
    BY DEF IInv, CountedNodesStay, Pending, Buckets
  <2>2. CASE q.nodes[m] = zone[z].nodes[m]
    BY <2>1, <2>2
  <2>3. CASE q.nodes[m] = FreeNode /\ zone[z].nodes[m].count = 0
    <3>1. FreeNode.count = 0
      BY DEF FreeNode
    <3>2. limits.burst[z] >= 0
      BY RatesFacts
    <3>3. Bucket(z, FreeNode, Cardinality(Pending(node, z, m)))
      BY <3>2 DEF Bucket, FreeNode
    <3> QED
      BY <2>1, <2>3, <3>1, <3>3
  <2> QED
    BY <2>2, <2>3 DEF Sheds
<1>2. ASSUME NEW v \in Workers, node[v][z] # Nil PROVE q.nodes[node[v][z]].key = mine[v][z]
  <2>1. /\ node[v][z] \in Nodes /\ zone[z].nodes[node[v][z]].count \in Nat \ {0}
        /\ zone[z].nodes[node[v][z]].key = mine[v][z]
    BY <1>2, HeldIsKept
  <2>2. q.nodes[node[v][z]] = zone[z].nodes[node[v][z]]
    BY <2>1 DEF Sheds
  <2> QED
    BY <2>1, <2>2
<1> QED
  BY <1>1, <1>2

LEMMA LookupBusyStep ==
    ASSUME RatesGiven, IInv, limits' = limits, NEW w \in limits.workers, NEW k \in Keys, LookupBusy(w, k)
    PROVE  IInv'
<1>0. PICK z, t : z = place[w] /\ t = msec[w]
  OBVIOUS
<1>1. w \in Workers /\ z \in Zones /\ limits \in Rates /\ Visits /\ ZoneOK(zone[z])
  BY <1>0, Looking
<1>2. PICK q : zone' = [zone EXCEPT ![z] = q] /\ ZoneOK(q) /\ Sheds(zone[z], q)
  <2>1. CASE \E n \in Find(zone[z], k) : zone' = [zone EXCEPT ![z] = ToHead(@, n)]
    <3>1. PICK n \in Find(zone[z], k) : zone' = [zone EXCEPT ![z] = ToHead(zone[z], n)]
      BY <2>1
    <3>2. n \in Nodes /\ zone[z].nodes[n].key # Nil
      BY DEF Find, RatesGiven, LimitReqAssumption
    <3>3. ZoneOK(ToHead(zone[z], n)) /\ ToHead(zone[z], n).nodes = zone[z].nodes
      BY <1>1, <3>2, ZoneToHead
    <3>4. Sheds(zone[z], ToHead(zone[z], n))
      BY <3>3 DEF Sheds
    <3> QED
      BY <3>1, <3>3, <3>4
  <2>2. CASE zone' = [zone EXCEPT ![z] = MakeRoom(z, zone[z], t)]
    BY <1>1, <2>2, ZoneMakeRoom
  <2> QED
    BY <1>0, <2>1, <2>2 DEF LookupBusy
<1>3. UNCHANGED <<now, msec, place, node, mine, leaked>> /\ phase' = [phase EXCEPT ![w] = "unlock"]
  BY DEF LookupBusy
<1>4. Visits'
  <2>1. Zones' = Zones /\ Limits' = Limits /\ Nothing' = Nothing
    BY DEF Zones, Limits, Nothing
  <2> QED
    BY <1>1, <1>3, <2>1 DEF Visits
<1>5. Clocks'
  BY <1>3 DEF IInv, Clocks
<1>6. \A y, m : Pending(node', y, m) = Pending(node, y, m)
  BY <1>3 DEF Pending
<1>7. \A m \in Nodes : /\ q.nodes[m].count = leaked[z][m] + Cardinality(Pending(node', z, m))
                       /\ Bucket(z, q.nodes[m], Cardinality(Pending(node', z, m)))
  BY <1>1, <1>2, <1>6, ShedZone
<1>8. \A v \in Workers : node'[v][z] # Nil => q.nodes[node'[v][z]].key = mine'[v][z]
  BY <1>1, <1>2, <1>3, ShedZone
<1>9. ZonesOK' /\ CountedNodesStay' /\ Buckets'
  BY <1>1, <1>2, <1>3, <1>6, <1>7, <1>8, ZoneStep
<1> QED
  BY <1>1, <1>4, <1>5, <1>9 DEF IInv

LEMMA LookupNewStep ==
    ASSUME RatesGiven, IInv, limits' = limits, NEW w \in limits.workers, NEW k \in Keys,
           NEW n \in Nodes, LookupNew(w, k, n)
    PROVE  IInv'
<1>0. PICK z, t : z = place[w] /\ t = msec[w]
  OBVIOUS
<1> DEFINE q == MakeRoom(z, zone[z], t)
           new == IF z = Limits
                  THEN [FreeNode EXCEPT !.key = k, !.last = t, !.first = t, !.taken = 1]
                  ELSE [FreeNode EXCEPT !.key = k, !.count = 1]
           e == Added(q, n, new)
<1>1. /\ w \in Workers /\ z \in Zones /\ t \in Nat /\ now \in Nat
      /\ Boot <= t /\ t <= now /\ limits \in Rates /\ Visits /\ Crowd \in Nat
      /\ phase[w] = "lookup" /\ node[w][z] = Nil
      /\ ZoneOK(zone[z]) /\ zone[z].nodes \in [Nodes -> NodeRec]
  BY <1>0, Looking DEF LookupNew
<1>2. /\ n \in Room(q) /\ zone' = [zone EXCEPT ![z] = e] /\ Find(zone[z], k) = {}
      /\ UNCHANGED <<now, msec, leaked>> /\ NextLimit(w)
      /\ z = Limits => node' = node /\ mine' = mine
      /\ z # Limits => /\ node' = [node EXCEPT ![w][z] = n] /\ mine' = [mine EXCEPT ![w][z] = k]
  BY <1>0 DEF LookupNew, Added
<1> HIDE DEF q
<1>3. ZoneOK(q) /\ Sheds(zone[z], q)
  BY <1>1, ZoneMakeRoom DEF q
<1>4. q.nodes[n].key = Nil /\ q.nodes[n] = FreeNode /\ k # Nil /\ n # Nil
  BY <1>2, <1>3 DEF Room, ZoneOK, RatesGiven, LimitReqAssumption
<1>5. /\ \A m \in Nodes : /\ q.nodes[m].count = leaked[z][m] + Cardinality(Pending(node, z, m))
                          /\ Bucket(z, q.nodes[m], Cardinality(Pending(node, z, m)))
      /\ \A v \in Workers : node[v][z] # Nil => q.nodes[node[v][z]].key = mine[v][z]
  BY <1>1, <1>3, ShedZone
<1>6. leaked[z][n] = 0 /\ Cardinality(Pending(node, z, n)) = 0
  <2>1. /\ FreeNode.count = leaked[z][n] + Cardinality(Pending(node, z, n)) /\ FreeNode.count = 0
        /\ leaked[z][n] \in Nat /\ Cardinality(Pending(node, z, n)) \in Nat
    <3>1. leaked[z][n] \in Nat
      BY <1>1 DEF IInv, ZonesOK
    <3> QED
      BY <1>4, <1>5, <3>1, PendingFinite DEF FreeNode
  <2> QED
    BY <2>1
<1>7. /\ new \in NodeRec /\ new.key = k /\ new.excess = 0
      /\ z = Limits => new.taken = 1 /\ new.last = t /\ new.first = t /\ new.count = 0
      /\ z # Limits => new.taken = 0 /\ new.last = 0 /\ new.first = 0 /\ new.count = 1
  BY <1>1 DEF FreeNode, NodeRec
<1> HIDE DEF new
<1>8. \A m \in Nodes : q.nodes[m].key # k
  <2>1. \A m \in Nodes : zone[z].nodes[m].key # k
    BY <1>2 DEF Find
  <2>2. FreeNode.key = Nil
    BY DEF FreeNode
  <2> QED
    BY <1>3, <1>4, <2>1, <2>2 DEF Sheds
<1>9. ZoneOK(e) /\ e.nodes[n] = new /\ \A m \in Nodes : m # n => e.nodes[m] = q.nodes[m]
  <2>1. new \in NodeRec /\ new.key # Nil /\ \A m \in Nodes : q.nodes[m].key # new.key
    BY <1>4, <1>7, <1>8
  <2> QED
    BY <1>3, <1>4, <2>1, ZoneAdd
<1> HIDE DEF e
<1>10. Visits'
  BY <1>0, <1>1, <1>2, NextLimitVisits
<1>11. Clocks'
  BY <1>2 DEF IInv, Clocks
<1>12. \A v \in Workers : node[v][z] # Nil => node[v][z] # n
  <2>1. ASSUME NEW v \in Workers, node[v][z] = n PROVE FALSE
    <3>1. v \in Pending(node, z, n)
      BY <2>1 DEF Pending
    <3> QED
      BY <1>6, <3>1, PendingFinite, FS_EmptySet
  <2> QED
    BY <2>1
<1>13. ZonesOK' /\ CountedNodesStay' /\ Buckets'
  <2>1. CASE z = Limits
    <3>1. \A y, m : Pending(node', y, m) = Pending(node, y, m)
      BY <2>1, <1>2 DEF Pending
    <3>2. Bucket(z, new, 0)
      <4>1. new.last - new.first = 0 /\ Drain(z, 0) \in Nat
        <5>1. Drain(z, 0) \in Nat
          BY <1>1, Drains
        <5> QED
          BY <2>1, <1>1, <1>7, <5>1
      <4>2. 1 * Unit <= 0 + Unit + Drain(z, 0) /\ 0 <= limits.burst[z]
        BY <1>1, <4>1, RatesFacts DEF RatesGiven, LimitReqAssumption
      <4> QED
        BY <2>1, <1>1, <1>7, <4>1, <4>2 DEF Bucket
    <3>3. ASSUME NEW m \in Nodes
          PROVE  /\ e.nodes[m].count = leaked[z][m] + Cardinality(Pending(node', z, m))
                 /\ Bucket(z, e.nodes[m], Cardinality(Pending(node', z, m)))
      <4>1. CASE m = n
        BY <2>1, <4>1, <1>6, <1>7, <1>9, <3>1, <3>2
      <4>2. CASE m # n
        BY <4>2, <1>5, <1>9, <3>1
      <4> QED
        BY <4>1, <4>2
    <3>4. ASSUME NEW v \in Workers, node'[v][z] # Nil PROVE e.nodes[node'[v][z]].key = mine'[v][z]
      <4>1. node[v][z] # n /\ node[v][z] \in Nodes /\ node'[v][z] = node[v][z] /\ mine'[v][z] = mine[v][z]
        BY <2>1, <3>4, <1>1, <1>2, <1>12 DEF Visits
      <4> QED
        BY <4>1, <3>4, <1>5, <1>9
    <3>5. node' = node /\ mine' = mine
      BY <2>1, <1>2
    <3> QED
      BY <1>1, <1>2, <1>9, <3>1, <3>3, <3>4, <3>5, ZoneStep
  <2>2. CASE z # Limits
    <3>1. /\ node'[w][z] = n /\ mine'[w][z] = k
          /\ \A v \in Workers, y \in Zones :
               ~(v = w /\ y = z) => node'[v][y] = node[v][y] /\ mine'[v][y] = mine[v][y]
      BY <2>2, <1>1, <1>2 DEF Visits
    <3>2. \A y \in Zones, m \in Nodes :
            Cardinality(Pending(node', y, m)) = IF y = z /\ m = n
              THEN Cardinality(Pending(node, y, m)) + 1 ELSE Cardinality(Pending(node, y, m))
      <4>1. \A v \in Workers, y \in Zones : node'[v][y] = IF v = w /\ y = z THEN n ELSE node[v][y]
        BY <3>1
      <4> QED
        BY <1>1, <4>1, PendingAdds
    <3>3. \A p : Bucket(z, new, p)
      <4>1. 0 <= limits.burst[z]
        BY <1>1, RatesFacts
      <4> QED
        BY <2>2, <1>7, <4>1 DEF Bucket
    <3>4. ASSUME NEW m \in Nodes
          PROVE  /\ e.nodes[m].count = leaked[z][m] + Cardinality(Pending(node', z, m))
                 /\ Bucket(z, e.nodes[m], Cardinality(Pending(node', z, m)))
      <4>1. CASE m = n
        <5>1. Cardinality(Pending(node', z, m)) = 0 + 1
          BY <4>1, <1>1, <1>6, <3>2
        <5> QED
          BY <2>2, <4>1, <5>1, <1>6, <1>7, <1>9, <3>3
      <4>2. CASE m # n
        BY <4>2, <1>1, <1>5, <1>9, <3>2
      <4> QED
        BY <4>1, <4>2
    <3>5. ASSUME NEW v \in Workers, node'[v][z] # Nil PROVE e.nodes[node'[v][z]].key = mine'[v][z]
      <4>1. CASE v = w
        BY <4>1, <1>7, <1>9, <3>1
      <4>2. CASE v # w
        <5>1. node'[v][z] = node[v][z] /\ mine'[v][z] = mine[v][z]
          BY <4>2, <1>1, <3>1
        <5>2. node[v][z] # n /\ node[v][z] \in Nodes
          BY <5>1, <3>5, <1>1, <1>12 DEF Visits
        <5> QED
          BY <5>1, <5>2, <3>5, <1>5, <1>9
      <4> QED
        BY <4>1, <4>2
    <3>6. \A y \in Zones : y # z =>
            /\ \A m \in Nodes : Cardinality(Pending(node', y, m)) = Cardinality(Pending(node, y, m))
            /\ \A v \in Workers : node'[v][y] = node[v][y] /\ mine'[v][y] = mine[v][y]
      BY <3>1, <3>2
    <3> QED
      BY <1>1, <1>2, <1>9, <3>4, <3>5, <3>6, ZoneStep
  <2> QED
    BY <2>1, <2>2
<1> QED
  BY <1>1, <1>10, <1>11, <1>13 DEF IInv

\* A worker comes back to a node, to charge it or not.
LEMMA LetGoStep ==
    ASSUME RatesGiven, IInv, limits' = limits, NEW w \in limits.workers, NEW z \in Zones,
           Account(w, z) \/ Unlock(w, z)
    PROVE  IInv'
<1>0. PICK n, t : n = node[w][z] /\ t = msec[w]
  OBVIOUS
<1>1. /\ w \in Workers /\ t \in Nat /\ now \in Nat
      /\ Boot <= t /\ t <= now /\ now - t <= limits.lag
      /\ limits \in Rates /\ Visits /\ Crowd \in Nat
      /\ ZoneOK(zone[z]) /\ zone[z].nodes \in [Nodes -> NodeRec]
  BY <1>0, Looking
<1>2. PICK p, lr : p = Cardinality(Pending(node, z, n)) /\ lr = zone[z].nodes[n]
  OBVIOUS
<1>3. /\ n # Nil /\ n \in Nodes /\ p \in Nat \ {0} /\ lr.count \in Nat \ {0}
      /\ lr.key # Nil /\ lr \in NodeRec /\ z # Limits
  <2>1. n # Nil /\ z < Limits
    BY <1>0, <1>1 DEF Account, Unlock, Newest, Visits
  <2>2. /\ n \in Nodes /\ p \in Nat \ {0} /\ lr.count \in Nat \ {0} /\ lr.key # Nil
    BY <1>0, <1>1, <1>2, <2>1, HeldIsKept
  <2>3. lr \in NodeRec
    BY <1>1, <1>2, <2>2
  <2>4. z # Limits
    BY <1>1, <2>1, RatesFacts
  <2> QED
    BY <2>1, <2>2, <2>3, <2>4
<1>4. Bucket(z, lr, p) /\ lr.count = leaked[z][n] + p /\ leaked[z][n] \in Nat /\ p <= Crowd
  <2>1. Bucket(z, lr, p) /\ lr.count = leaked[z][n] + p /\ leaked[z][n] \in Nat
    BY <1>2, <1>3, Looking
  <2>2. p <= Crowd
    BY <1>1, <1>2, <1>3, PendingBound
  <2> QED
    BY <2>1, <2>2
<1>5. LetGo(w, z) /\ UNCHANGED <<now, msec, phase, place, leaked>>
  BY DEF Account, Unlock, LetGo
<1>6. /\ \A v \in Workers, y \in Zones :
           /\ node'[v][y] = IF v = w /\ y = z THEN Nil ELSE node[v][y]
           /\ mine'[v][y] = IF v = w /\ y = z THEN Nil ELSE mine[v][y]
      /\ node' \in [Workers -> [Zones -> Nodes \cup {Nil}]]
      /\ mine' \in [Workers -> [Zones -> Keys \cup {Nil}]]
      /\ \A v \in Workers : v # w => node'[v] = node[v]
  BY <1>1, <1>5 DEF LetGo, Visits
<1>7. \E c \in NodeRec : /\ zone' = [zone EXCEPT ![z] = [@ EXCEPT !.nodes[n] = c]]
                         /\ c.key = lr.key /\ c.count = lr.count - 1 /\ Bucket(z, c, p - 1)
  <2>1. CASE Account(w, z)
    <3> DEFINE c == [Charge(z, lr, t) EXCEPT !.count = lr.count - 1]
    <3>1. c \in NodeRec /\ c.key = lr.key /\ c.count = lr.count - 1 /\ Bucket(z, c, p - 1)
      <4>1. lr.count - 1 \in Nat
        BY <1>3
      <4>2. \A i \in Nat : LET b == [Charge(z, lr, t) EXCEPT !.count = i]
                           IN b \in NodeRec /\ b.key = lr.key /\ b.count = i /\ Bucket(z, b, p - 1)
        BY <1>1, <1>3, <1>4, ChargedLater
      <4> QED
        BY <4>1, <4>2
    <3>2. zone' = [zone EXCEPT ![z].nodes[n] = ChargeCounted(z, @, t)]
      BY <2>1, <1>0 DEF Account
    <3>3. Charge(z, lr, t).count = lr.count
      BY <1>1, <1>3, <1>4, Charged
    <3>4. ChargeCounted(z, lr, t) = c
      BY <3>3 DEF ChargeCounted
    <3>5. zone' = [zone EXCEPT ![z] = [zone[z] EXCEPT !.nodes = [zone[z].nodes EXCEPT ![n] = c]]]
      BY <3>2, <3>4, <1>2
    <3> HIDE DEF c
    <3> QED
      BY <3>1, <3>5
  <2>2. CASE Unlock(w, z)
    <3> DEFINE c == [lr EXCEPT !.count = lr.count - 1]
    <3>1. c \in NodeRec /\ c.key = lr.key /\ c.count = lr.count - 1 /\ Bucket(z, c, p - 1)
      <4>1. lr.count - 1 \in Nat /\ p - 1 \in Nat /\ p - 1 <= p /\ p \in Nat
        BY <1>3
      <4> DEFINE q == p - 1
      <4> HIDE DEF q
      <4>2. \A i \in Nat : LET b == [lr EXCEPT !.count = i]
                           IN b \in NodeRec /\ b.key = lr.key /\ b.count = i /\ Bucket(z, b, q)
        BY <1>1, <1>3, <1>4, <4>1, BucketLess DEF q
      <4> QED
        BY <4>1, <4>2 DEF q
    <3>2. zone' = [zone EXCEPT ![z].nodes[n].count = @ - 1]
      BY <2>2, <1>0 DEF Unlock
    <3>3. zone' = [zone EXCEPT ![z] = [zone[z] EXCEPT !.nodes = [zone[z].nodes EXCEPT ![n] = c]]]
      BY <3>2, <1>2
    <3> HIDE DEF c
    <3> QED
      BY <3>1, <3>3
  <2> QED
    BY <2>1, <2>2
<1>8. PICK c \in NodeRec : /\ zone' = [zone EXCEPT ![z] = [zone[z] EXCEPT !.nodes[n] = c]]
                           /\ c.key = lr.key /\ c.count = lr.count - 1 /\ Bucket(z, c, p - 1)
  BY <1>7
<1> DEFINE e == [zone[z] EXCEPT !.nodes[n] = c]
<1>9. ZoneOK(e) /\ e.nodes[n] = c /\ \A m \in Nodes : m # n => e.nodes[m] = zone[z].nodes[m]
  <2>1. zone[z].nodes[n].key # Nil /\ c.key = zone[z].nodes[n].key
    BY <1>2, <1>3, <1>8
  <2> QED
    BY <1>1, <1>3, <1>8, <2>1, ZoneSet
<1>10. zone' = [zone EXCEPT ![z] = e]
  BY <1>8
<1> HIDE DEF e
<1>11. \A y \in Zones, m \in Nodes :
         Cardinality(Pending(node', y, m)) = IF y = z /\ m = node[w][z]
           THEN Cardinality(Pending(node, y, m)) - 1 ELSE Cardinality(Pending(node, y, m))
  <2>1. \A v \in Workers, y \in Zones : node'[v][y] = IF v = w /\ y = z THEN Nil ELSE node[v][y]
    BY <1>6
  <2>2. node[w][z] # Nil
    BY <1>0, <1>3
  <2> QED
    BY <1>1, <2>1, <2>2, PendingDrops
<1>12. ASSUME NEW m \in Nodes
       PROVE  /\ e.nodes[m].count = leaked[z][m] + Cardinality(Pending(node', z, m))
              /\ Bucket(z, e.nodes[m], Cardinality(Pending(node', z, m)))
  <2>1. CASE m = n
    <3>1. Cardinality(Pending(node', z, m)) = p - 1
      BY <2>1, <1>0, <1>2, <1>11
    <3>2. lr.count - 1 = leaked[z][m] + (p - 1)
      BY <2>1, <1>3, <1>4
    <3> QED
      BY <2>1, <1>8, <1>9, <3>1, <3>2
  <2>2. CASE m # n
    <3>1. Cardinality(Pending(node', z, m)) = Cardinality(Pending(node, z, m)) /\ e.nodes[m] = zone[z].nodes[m]
      BY <2>2, <1>0, <1>9, <1>11
    <3>2. /\ zone[z].nodes[m].count = leaked[z][m] + Cardinality(Pending(node, z, m))
          /\ Bucket(z, zone[z].nodes[m], Cardinality(Pending(node, z, m)))
      BY Looking
    <3> QED
      BY <3>1, <3>2
  <2> QED
    BY <2>1, <2>2
<1>13. ASSUME NEW v \in Workers, node'[v][z] # Nil PROVE e.nodes[node'[v][z]].key = mine'[v][z]
  <2>1. node'[v][z] = node[v][z] /\ mine'[v][z] = mine[v][z]
    BY <1>6, <1>13
  <2>2. node[v][z] \in Nodes /\ zone[z].nodes[node[v][z]].key = mine[v][z]
    BY <1>13, <2>1, HeldIsKept
  <2> QED
    BY <1>2, <1>8, <1>9, <2>1, <2>2
<1>14. \A y \in Zones : y # z =>
         /\ \A m \in Nodes : Cardinality(Pending(node', y, m)) = Cardinality(Pending(node, y, m))
         /\ \A v \in Workers : node'[v][y] = node[v][y] /\ mine'[v][y] = mine[v][y]
  BY <1>6, <1>11
<1>15. ZonesOK' /\ CountedNodesStay' /\ Buckets'
  BY <1>1, <1>5, <1>9, <1>10, <1>12, <1>13, <1>14, ZoneStep
<1>16. Visits'
  <2>1. Zones' = Zones /\ Limits' = Limits /\ Nothing' = Nothing
    BY DEF Zones, Limits, Nothing
  <2>2. phase[w] \notin {"idle", "lookup"}
    BY DEF Account, Unlock
  <2>3. w \in limits.workers
    OBVIOUS
  <2>4. \A v \in Workers : /\ v \notin limits.workers => node'[v] = Nothing
                           /\ phase[v] = "idle" => node'[v] = Nothing
                           /\ \A y \in Zones : node'[v][y] # Nil => y < Limits
                           /\ phase[v] = "lookup" => \A y \in Zones : y >= place[v] => node'[v][y] = Nil
    BY <1>1, <1>6, <2>2 DEF Visits
  <2> QED
    BY <1>1, <1>5, <1>6, <2>1, <2>4 DEF Visits
<1>17. Clocks'
  BY <1>5 DEF IInv, Clocks
<1> QED
  BY <1>1, <1>15, <1>16, <1>17 DEF IInv

LEMMA TickStep ==
    ASSUME RatesGiven, IInv, limits' = limits, Tick
    PROVE  IInv'
<1>1. limits \in Rates /\ Clocks /\ Visits /\ ZonesOK /\ Buckets
  BY DEF IInv
<1>2. now \in Nat /\ now' = now + 1 /\ UNCHANGED <<zone, msec, phase, place, node, mine, leaked>>
  BY <1>1 DEF Tick, Clocks
<1>3. Zones' = Zones /\ Limits' = Limits /\ Nothing' = Nothing
  BY DEF Zones, Limits, Nothing
<1>4. Clocks'
  <2>1. limits.workers \subseteq Workers /\ {limits.time, limits.lag, limits.crashes} \subseteq Nat
    BY <1>1 DEF RatesGiven, LimitReqAssumption
  <2>2. \A w \in limits.workers : now - msec[w] < limits.lag /\ msec[w] \in Nat
    BY <1>1, <2>1 DEF Tick, Clocks
  <2>3. \A w \in limits.workers : (now + 1) - msec[w] <= limits.lag
    BY <1>2, <2>1, <2>2
  <2>4. \A w \in Workers : Boot <= msec[w] /\ msec[w] <= now + 1
    BY <1>1, <1>2 DEF Clocks
  <2> QED
    BY <1>1, <1>2, <2>3, <2>4 DEF Clocks
<1>5. Visits'
  BY <1>1, <1>2, <1>3 DEF Visits
<1>6. ZonesOK' /\ CountedNodesStay'
  BY <1>2, <1>3 DEF IInv, ZonesOK, CountedNodesStay, ZoneOK
<1>7. Buckets'
  <2> SUFFICES ASSUME NEW z \in Zones, NEW n \in Nodes
               PROVE  Bucket(z, zone[z].nodes[n], Cardinality(Pending(node, z, n)))'
    BY <1>3 DEF Buckets
  <2>1. PICK lr, p : lr = zone[z].nodes[n] /\ p = Cardinality(Pending(node, z, n))
    OBVIOUS
  <2>2. Bucket(z, lr, p) /\ p \in Nat /\ lr \in NodeRec
    BY <1>1, <2>1, PendingFinite DEF Buckets, ZonesOK, ZoneRec
  <2>3. Crowd \in Nat
    BY <1>1, PendingBound
  <2>4. Bucket(z, lr, p)'
    BY <1>1, <1>2, <2>2, <2>3, BucketLater
  <2>5. lr = zone'[z].nodes[n] /\ p = Cardinality(Pending(node, z, n))'
    BY <1>2, <2>1 DEF Pending
  <2> QED
    BY <2>4, <2>5 DEF Bucket
<1> QED
  BY <1>1, <1>4, <1>5, <1>6, <1>7 DEF IInv

\* The counts of a worker that dies stay, and nobody comes back to them.
LEMMA CrashStep ==
    ASSUME RatesGiven, IInv, limits' = limits, NEW w \in limits.workers, Crash(w)
    PROVE  IInv'
<1>1. limits \in Rates /\ Clocks /\ Visits /\ ZonesOK /\ Buckets /\ CountedNodesStay /\ w \in Workers /\ Crowd \in Nat
  BY Looking DEF IInv
<1>2. UNCHANGED <<zone, now, msec>>
  BY DEF Crash
<1>3. Zones' = Zones /\ Limits' = Limits /\ Nothing' = Nothing
  BY DEF Zones, Limits, Nothing
<1>4. /\ \A v \in Workers, y \in Zones :
           /\ node'[v][y] = IF v = w THEN Nil ELSE node[v][y]
           /\ mine'[v][y] = IF v = w THEN Nil ELSE mine[v][y]
      /\ node' \in [Workers -> [Zones -> Nodes \cup {Nil}]]
      /\ mine' \in [Workers -> [Zones -> Keys \cup {Nil}]]
      /\ node'[w] = Nothing /\ \A v \in Workers : v # w => node'[v] = node[v]
      /\ \A y \in Zones : Nothing[y] = Nil
  BY <1>1 DEF Crash, Visits, Nothing
<1>5. /\ phase' = [phase EXCEPT ![w] = "idle"] /\ place' = [place EXCEPT ![w] = 1] /\ 1 \in Zones
  <2>1. Len(limits.rate) \in Nat \ {0}
    BY <1>1 DEF RatesGiven, LimitReqAssumption
  <2> QED
    BY <2>1 DEF Crash, Zones, Limits
<1>6. Visits'
  BY <1>1, <1>3, <1>4, <1>5 DEF Visits
<1>7. Clocks'
  BY <1>1, <1>2 DEF Clocks
<1>8. ASSUME NEW z \in Zones, NEW n \in Nodes
      PROVE  LET p == Cardinality(Pending(node, z, n))
                 r == Cardinality(Pending(node', z, n))
             IN  /\ leaked'[z][n] \in Nat /\ p \in Nat /\ r \in Nat /\ r <= p
                 /\ leaked'[z][n] + r = leaked[z][n] + p
  <2>1. leaked[z][n] \in Nat /\ n # Nil
    BY <1>1 DEF ZonesOK, RatesGiven, LimitReqAssumption
  <2>2. Cardinality(Pending(node, z, n)) \in Nat /\ Cardinality(Pending(node', z, n)) \in Nat
    BY PendingFinite
  <2>3. CASE node[w][z] = n
    <3>1. leaked'[z][n] = leaked[z][n] + 1
      BY <2>3 DEF Crash
    <3>2. Pending(node', z, n) = Pending(node, z, n) \ {w} /\ w \in Pending(node, z, n)
      BY <2>1, <2>3, <1>1, <1>4 DEF Pending
    <3>3. Cardinality(Pending(node, z, n) \ {w}) = Cardinality(Pending(node, z, n)) - 1
      BY <3>2, PendingFinite, FS_RemoveElement
    <3> QED
      BY <2>1, <2>2, <3>1, <3>2, <3>3
  <2>4. CASE node[w][z] # n
    <3>1. leaked'[z][n] = leaked[z][n] + 0
      BY <2>4 DEF Crash
    <3>2. Pending(node', z, n) = Pending(node, z, n)
      BY <2>1, <2>4, <1>4 DEF Pending
    <3> QED
      BY <2>1, <2>2, <3>1, <3>2
  <2> QED
    BY <2>3, <2>4
<1>9. ZonesOK'
  <2>1. leaked' = [z \in Zones |-> [n \in Nodes |-> leaked[z][n] + (IF node[w][z] = n THEN 1 ELSE 0)]]
    BY DEF Crash
  <2>2. leaked' \in [Zones -> [Nodes -> Nat]]
    BY <2>1, <1>1 DEF ZonesOK
  <2> QED
    BY <2>2, <1>1, <1>2, <1>3 DEF ZonesOK, ZoneOK
<1>10. CountedNodesStay'
  <2>1. \A v \in Workers, z \in Zones : node'[v][z] # Nil => zone'[z].nodes[node'[v][z]].key = mine'[v][z]
    BY <1>1, <1>2, <1>4 DEF CountedNodesStay
  <2>2. \A z \in Zones, n \in Nodes :
          zone'[z].nodes[n].count = leaked'[z][n] + Cardinality({v \in Workers : node'[v][z] = n})
    <3> SUFFICES ASSUME NEW z \in Zones, NEW n \in Nodes
                 PROVE  zone[z].nodes[n].count = leaked'[z][n] + Cardinality(Pending(node', z, n))
      BY <1>2 DEF Pending
    <3>1. zone[z].nodes[n].count = leaked[z][n] + Cardinality(Pending(node, z, n))
      BY <1>1 DEF CountedNodesStay, Pending
    <3> QED
      BY <3>1, <1>8
  <2> QED
    BY <2>1, <2>2, <1>3 DEF CountedNodesStay
<1>11. Buckets'
  <2> SUFFICES ASSUME NEW z \in Zones, NEW n \in Nodes
               PROVE  Bucket(z, zone[z].nodes[n], Cardinality(Pending(node, z, n)))'
    BY <1>3 DEF Buckets
  <2>1. PICK lr, p, r : /\ lr = zone[z].nodes[n] /\ p = Cardinality(Pending(node, z, n))
                        /\ r = Cardinality(Pending(node', z, n))
    OBVIOUS
  <2>2. Bucket(z, lr, p) /\ p \in Nat /\ r \in Nat /\ r <= p /\ lr \in NodeRec
    BY <1>1, <1>8, <2>1 DEF Buckets, ZonesOK, ZoneRec
  <2>3. Bucket(z, lr, r)
    <3>1. \A i \in Nat : LET b == [lr EXCEPT !.count = i]
                         IN b \in NodeRec /\ b.key = lr.key /\ b.count = i /\ Bucket(z, b, r)
      BY <1>1, <2>2, BucketLess DEF Clocks
    <3>2. lr.count \in Nat /\ [lr EXCEPT !.count = lr.count] = lr
      BY <2>2 DEF NodeRec
    <3>3. Bucket(z, [lr EXCEPT !.count = lr.count], r)
      BY <3>1, <3>2
    <3> QED
      BY <3>2, <3>3
  <2>4. lr = zone'[z].nodes[n] /\ r = Cardinality(Pending(node, z, n))'
    BY <1>2, <2>1 DEF Pending
  <2> QED
    BY <1>2, <1>3, <2>3, <2>4 DEF Bucket, Drain, Crowd
<1> QED
  BY <1>1, <1>6, <1>7, <1>9, <1>10, <1>11 DEF IInv

LEMMA InitIInv ==
    ASSUME RatesGiven, Init PROVE IInv
<1>1. limits \in Rates /\ Boot \in Nat \ {0} /\ Unit \in Nat \ {0}
  BY DEF Init, RatesGiven, LimitReqAssumption
<1>2. 1 \in Zones
  <2>1. Len(limits.rate) \in Nat \ {0}
    BY <1>1 DEF RatesGiven, LimitReqAssumption
  <2> QED
    BY <2>1 DEF Zones, Limits
<1>3. Clocks
  BY <1>1, RatesFacts, <1>2 DEF Init, Clocks
<1>4. \A z \in Zones : Nothing[z] = Nil
  BY DEF Nothing
<1>5. Visits
  BY <1>1, <1>2, <1>4 DEF Init, Visits, Nothing
<1>6. FreeNode \in NodeRec /\ FreeNode.key = Nil /\ FreeNode.count = 0
  BY DEF FreeNode, NodeRec
<1>7. \A z \in Zones : /\ zone[z].nodes = [n \in Nodes |-> FreeNode] /\ zone[z].queue = <<>>
                       /\ zone[z] \in ZoneRec
  BY <1>6 DEF Init, ZoneRec
<1>8. ZonesOK
  <2>1. ToSet(<<>>) = {} /\ IsInjective(<<>>)
    BY DEF ToSet, IsInjective
  <2>2. \A z \in Zones : ZoneOK(zone[z])
    BY <1>6, <1>7, <2>1 DEF ZoneOK
  <2>3. zone \in [Zones -> ZoneRec] /\ leaked \in [Zones -> [Nodes -> Nat]]
    BY <1>7 DEF Init
  <2> QED
    BY <2>2, <2>3 DEF ZonesOK
<1>9. \A z \in Zones, n \in Nodes : Pending(node, z, n) = {}
  BY <1>4 DEF Init, Pending, RatesGiven, LimitReqAssumption
<1>10. CountedNodesStay
  <2>1. \A z \in Zones, n \in Nodes :
          zone[z].nodes[n].count = leaked[z][n] + Cardinality({w \in Workers : node[w][z] = n})
    <3> SUFFICES ASSUME NEW z \in Zones, NEW n \in Nodes
                 PROVE  zone[z].nodes[n].count = leaked[z][n] + Cardinality(Pending(node, z, n))
      BY DEF Pending
    <3>1. zone[z].nodes[n].count = 0 /\ leaked[z][n] = 0
      BY <1>6, <1>7 DEF Init
    <3> QED
      BY <3>1, <1>9, FS_EmptySet
  <2> QED
    BY <2>1, <1>4 DEF CountedNodesStay, Init
<1>11. Buckets
  <2> SUFFICES ASSUME NEW z \in Zones, NEW n \in Nodes
               PROVE  Bucket(z, FreeNode, Cardinality(Pending(node, z, n)))
    BY <1>7 DEF Buckets
  <2>1. 0 <= limits.burst[z]
    BY <1>1, RatesFacts
  <2> QED
    BY <2>1 DEF Bucket, FreeNode
<1> QED
  BY <1>1, <1>3, <1>5, <1>8, <1>10, <1>11 DEF IInv

\* The invariant says what the run checks.
LEMMA InvImplies ==
    ASSUME RatesGiven, IInv PROVE RateLimitsExact
<1>1. limits \in Rates /\ Clocks /\ Visits /\ ZonesOK /\ Buckets
  BY DEF IInv
<1>2. TypeOK
  <2>1. ASSUME NEW z \in Zones
        PROVE  /\ IsInjective(zone[z].queue)
               /\ ToSet(zone[z].queue) = {n \in Nodes : zone[z].nodes[n].key # Nil}
               /\ \A n \in Nodes : {zone[z].nodes[n].excess, zone[z].nodes[n].count} \subseteq Nat
    BY <1>1 DEF ZonesOK, ZoneOK, ZoneRec, NodeRec
  <2>2. ASSUME NEW w \in Workers
        PROVE  /\ phase[w] \in {"idle", "lookup", "account", "unlock"}
               /\ place[w] \in Zones /\ msec[w] \in 0 .. now
    <3>1. Boot \in Nat
      BY DEF RatesGiven, LimitReqAssumption
    <3> QED
      BY <1>1, <3>1 DEF Visits, Clocks
  <2> QED
    BY <2>1, <2>2 DEF TypeOK
<1>3. LeakyBucket
  <2> SUFFICES ASSUME NEW z \in Zones, NEW n \in Nodes
               PROVE  LET lr == zone[z].nodes[n]
                          slack == IF z = Limits THEN 0 ELSE Unit * (Crowd - 1)
                      IN lr.taken * Unit <= Allowance(z, lr) + slack
    BY DEF LeakyBucket, Crowd
  <2>1. PICK lr, p : lr = zone[z].nodes[n] /\ p = Cardinality(Pending(node, z, n))
    OBVIOUS
  <2>2. Bucket(z, lr, p) /\ lr \in NodeRec /\ p \in Nat
    BY <1>1, <2>1, PendingFinite DEF Buckets, ZonesOK, ZoneRec
  <2> DEFINE k == lr.taken
             f == lr.first
             A == Unit + limits.burst[z] + Drain(z, now - f)
             B == Unit * (Crowd - 1)
  <2>3. k \in Nat /\ f \in Nat /\ Unit \in Nat /\ limits.burst[z] \in Nat /\ lr.last \in Nat /\ lr.excess \in Nat
    BY <1>1, <2>2, RatesFacts DEF NodeRec, RatesGiven, LimitReqAssumption
  <2>4. now \in Nat /\ f <= now /\ now - f \in Nat /\ Drain(z, now - f) \in Nat
    <3>1. now \in Nat
      BY <1>1 DEF Clocks
    <3>2. f <= now
      <4>1. k = 0 => f = 0
        BY <2>2 DEF Bucket
      <4>2. k > 0 => f <= lr.last /\ lr.last <= now
        BY <2>2 DEF Bucket
      <4> QED
        BY <4>1, <4>2, <3>1, <2>3
    <3>3. now - f \in Nat
      BY <3>1, <3>2, <2>3
    <3> QED
      BY <1>1, <3>1, <3>2, <3>3, Drains
  <2>5. A \in Nat /\ k * Unit \in Nat
    BY <2>3, <2>4
  <2>6. CASE z = Limits
    <3>1. k * Unit <= A
      <4>1. CASE k = 0
        BY <4>1, <2>3, <2>5
      <4>2. CASE k # 0
        <5>1. /\ f <= lr.last /\ lr.last <= now /\ k * Unit <= lr.excess + Unit + Drain(z, lr.last - f)
              /\ lr.excess <= limits.burst[z]
          BY <2>2, <2>3, <2>6, <4>2 DEF Bucket
        <5>2. lr.last - f \in Nat /\ lr.last - f <= now - f
          BY <5>1, <2>3, <2>4
        <5>3. Drain(z, lr.last - f) \in Nat /\ Drain(z, lr.last - f) <= Drain(z, now - f)
          BY <5>2, <1>1, <2>4, Drains
        <5> QED
          BY <5>1, <5>3, <2>3, <2>4, <2>5
      <4> QED
        BY <4>1, <4>2
    <3> QED
      BY <3>1, <2>1, <2>5, <2>6 DEF Allowance
  <2>7. CASE z # Limits
    <3>0. Crowd \in Nat /\ p <= Crowd
      BY <1>1, <2>1, PendingBound
    <3>1. k * Unit <= A + B
      <4>1. CASE k = 0
        <5>1. Unit + B = Unit * Crowd /\ Unit * Crowd \in Nat
          BY <3>0, <2>3
        <5>2. B \in Int
          BY <3>0, <2>3
        <5> HIDE DEF B
        <5> QED
          BY <5>1, <5>2, <4>1, <2>3, <2>4
      <4>2. CASE k # 0
        <5>1. (k + p) * Unit <= A + B
          BY <2>2, <2>3, <2>7, <4>2 DEF Bucket
        <5>2. (k + p) * Unit = k * Unit + p * Unit /\ p * Unit \in Nat /\ B \in Int
          BY <2>2, <2>3, <3>0
        <5> HIDE DEF A, B
        <5> QED
          BY <5>1, <5>2, <2>5
      <4> QED
        BY <4>1, <4>2
    <3> QED
      BY <3>1, <2>1, <2>7 DEF Allowance
  <2> QED
    BY <2>6, <2>7
<1> QED
  BY <1>2, <1>3 DEF IInv, RateLimitsExact, NodesKept

(* The nodes of the zones are kept exactly and no key is let pass more     *)
(* requests than its burst and its rate allow, whichever workers charge    *)
(* them (ngx_http_limit_req_lookup and ngx_http_limit_req_account).        *)
THEOREM RatesAreLimited == Spec => []RateLimitsExact
<1>0. RatesGiven
  BY LimitReqAssumption DEF RatesGiven
<1>1. Init => IInv
  BY <1>0, InitIInv
<1>2. IInv /\ [Next]_vars => IInv'
  <2> SUFFICES ASSUME IInv, [Next]_vars PROVE IInv'
    OBVIOUS
  <2> USE <1>0
  <2>1. ASSUME NEW w \in limits.workers, limits' = limits,
               Start(w) \/ Skip(w) \/ KeyFails(w) \/ Done(w) \/ TimeUpdate(w) PROVE IInv'
    BY <2>1, QuietActions
  <2>2. ASSUME NEW w \in limits.workers, limits' = limits, Crash(w) PROVE IInv'
    BY <2>2, CrashStep
  <2>3. ASSUME NEW w \in limits.workers, limits' = limits, NEW k \in limits.keys,
               LookupBusy(w, k) \/ \E n \in Nodes : LookupFound(w, k, n) \/ LookupNew(w, k, n)
        PROVE  IInv'
    <3>1. k \in Keys
      BY DEF IInv, RatesGiven, LimitReqAssumption
    <3> QED
      BY <3>1, <2>3, LookupBusyStep, LookupFoundStep, LookupNewStep
  <2>4. ASSUME NEW w \in limits.workers, limits' = limits, NEW z \in Zones, Account(w, z) \/ Unlock(w, z)
        PROVE  IInv'
    BY <2>4, LetGoStep
  <2>5. ASSUME limits' = limits, Tick PROVE IInv'
    BY <2>5, TickStep
  <2>6. CASE UNCHANGED vars
    <3>1. Zones' = Zones /\ Limits' = Limits /\ Nothing' = Nothing
      BY <2>6 DEF Zones, Limits, Nothing, vars
    <3>2. ZonesOK' /\ CountedNodesStay' /\ Buckets'
      BY <2>6, QuietZones DEF vars
    <3> QED
      BY <2>6, <3>1, <3>2 DEF vars, IInv, Clocks, Visits
  <2> QED
    BY <2>1, <2>2, <2>3, <2>4, <2>5, <2>6 DEF Next
<1>3. IInv => RateLimitsExact
  BY <1>0, InvImplies
<1> QED
  BY <1>1, <1>2, <1>3, PTL DEF Spec

(***************************************************************************)
(* What happens to the rates in a behaviour of the three parts is a        *)
(* behaviour of LimitReq.                                                  *)
(***************************************************************************)
LEMMA RatesPart == MCSpec => Spec
<1>1. MCInit => Init
  BY DEF MCInit
<1>2. [MCNext]_<<vars, connVars, peersVars, part>> => [Next]_vars
  BY DEF MCNext, vars
<1> QED
  BY <1>1, <1>2, PTL DEF MCSpec, Spec

(* The nodes of limit_req are kept exactly, and no key is let pass more    *)
(* than its burst and its rate allow, in every behaviour of the parts.     *)
THEOREM RatesStayLimited == MCSpec => []RateLimitsExact
<1>1. Spec => []RateLimitsExact
  BY RatesAreLimited
<1> QED
  BY <1>1, RatesPart, PTL

-----------------------------------------------------------------------------
(***************************************************************************)
(* The limits of connections: the counts are the requests that will give   *)
(* them back, every request gives its count back to its own key, and the   *)
(* limits are kept.  The inductive invariant adds that a key has one node, *)
(* that a count is never above its limit, and that the handler has no      *)
(* count yet in the zones that it has not visited.                         *)
(***************************************************************************)

\* FiniteSets as LimitConn has it is FiniteSets.
LEMMA SameSets ==
    \A S : /\ Conn!IsFiniteSet(S) <=> IsFiniteSet(S)
           /\ Conn!Cardinality(S) = Cardinality(S)
<1>1. \A S : Conn!IsFiniteSet(S) <=> IsFiniteSet(S)
  BY DEF Conn!IsFiniteSet, IsFiniteSet
<1>2. \A S : Conn!Cardinality(S) = Cardinality(S)
  BY DEF Conn!Cardinality, Cardinality
<1> QED
  BY <1>1, <1>2

LEMMA ConnAssumed ==
    /\ N \in Nat \ {0} /\ Limit \in [Conn!Zones -> Nat \ {0}] /\ MaxLost \in Nat
    /\ IsFiniteSet(Requests)
    /\ Nil \notin Keys /\ Nil \notin Nodes
BY PartsAssumption, SameSets DEF Conn!LimitConnAssumption

OneNodePerKey ==
    \A z \in Conn!Zones : \A n, m \in Nodes : key[z][n] # Nil /\ key[z][n] = key[z][m] => n = m

WithinLimit == \A z \in Conn!Zones, n \in Nodes : conn[z][n] <= Limit[z]

NotYetCounted ==
    \A r \in Requests : /\ pc[r] = "limits" => \A z \in Conn!Zones : z >= at[r] => held[r][z] = Nil
                        /\ pc[r] # "limits" => at[r] = 1

\* The ghost says whether a request has a cleanup in a zone.
Paired == \A r \in Requests, z \in Conn!Zones : held[r][z] = Nil <=> counted[r][z] = Nil

ConnInv ==
    /\ Conn!TypeOK /\ Conn!CountsHolders /\ Conn!CountsItsKey
    /\ OneNodePerKey /\ WithinLimit /\ NotYetCounted /\ Paired

\* The zones are an interval that starts at 1.
LEMMA ZonesFacts ==
    /\ 1 \in Conn!Zones
    /\ \A z \in Conn!Zones : z \in Nat /\ (z # N => z + 1 \in Conn!Zones)
BY ConnAssumed DEF Conn!Zones

\* The requests that hold a node can be counted.
LEMMA HoldersFinite ==
    ASSUME NEW h, NEW z, NEW n
    PROVE  IsFiniteSet(Conn!Holders(h, z, n)) /\ Cardinality(Conn!Holders(h, z, n)) \in Nat
<1>1. Conn!Holders(h, z, n) \subseteq Requests
  BY DEF Conn!Holders
<1>2. IsFiniteSet(Conn!Holders(h, z, n))
  BY <1>1, ConnAssumed, FS_Subset
<1> QED
  BY <1>2, FS_CardinalityType

Cleanups == [Requests -> [Conn!Zones -> Nodes \cup {Nil}]]

\* A request that is counted at a node adds one holder there, none elsewhere.
LEMMA Taken ==
    ASSUME held \in Cleanups, NEW r \in Requests, NEW z \in Conn!Zones, NEW n \in Nodes, held[r][z] = Nil,
           held' = [held EXCEPT ![r][z] = n]
    PROVE  \A y \in Conn!Zones, m \in Nodes :
             Cardinality(Conn!Holders(held', y, m)) = IF y = z /\ m = n
               THEN Cardinality(Conn!Holders(held, y, m)) + 1
               ELSE Cardinality(Conn!Holders(held, y, m))
<1> TAKE y \in Conn!Zones, m \in Nodes
<1>1. CASE y = z /\ m = n
  <2>1. Conn!Holders(held', y, m) = Conn!Holders(held, y, m) \cup {r} /\ r \notin Conn!Holders(held, y, m)
    BY <1>1, ConnAssumed DEF Conn!Holders, Cleanups
  <2>2. Cardinality(Conn!Holders(held, y, m) \cup {r}) = Cardinality(Conn!Holders(held, y, m)) + 1
    BY <2>1, HoldersFinite, FS_AddElement
  <2> QED
    BY <1>1, <2>1, <2>2
<1>2. CASE ~(y = z /\ m = n)
  <2>1. Conn!Holders(held', y, m) = Conn!Holders(held, y, m)
    BY <1>2, ConnAssumed DEF Conn!Holders, Cleanups
  <2> QED
    BY <1>2, <2>1
<1> QED
  BY <1>1, <1>2

\* A request that gives its count back takes one holder away.
LEMMA GivenBack ==
    ASSUME held \in Cleanups, NEW r \in Requests, NEW z \in Conn!Zones, held[r][z] # Nil,
           held' = [held EXCEPT ![r][z] = Nil]
    PROVE  \A y \in Conn!Zones, m \in Nodes :
             Cardinality(Conn!Holders(held', y, m)) = IF y = z /\ m = held[r][z]
               THEN Cardinality(Conn!Holders(held, y, m)) - 1
               ELSE Cardinality(Conn!Holders(held, y, m))
<1> TAKE y \in Conn!Zones, m \in Nodes
<1>1. CASE y = z /\ m = held[r][z]
  <2>1. Conn!Holders(held', y, m) = Conn!Holders(held, y, m) \ {r} /\ r \in Conn!Holders(held, y, m)
    BY <1>1, ConnAssumed DEF Conn!Holders, Cleanups
  <2>2. Cardinality(Conn!Holders(held, y, m) \ {r}) = Cardinality(Conn!Holders(held, y, m)) - 1
    BY <2>1, HoldersFinite, FS_RemoveElement
  <2> QED
    BY <1>1, <2>1, <2>2
<1>2. CASE ~(y = z /\ m = held[r][z])
  <2>1. Conn!Holders(held', y, m) = Conn!Holders(held, y, m)
    BY <1>2, ConnAssumed DEF Conn!Holders, Cleanups
  <2> QED
    BY <1>2, <2>1
<1> QED
  BY <1>1, <1>2

\* A node that a request holds has a count and a key.
LEMMA HeldIsAllocated ==
    ASSUME ConnInv, NEW r \in Requests, NEW z \in Conn!Zones, held[r][z] # Nil
    PROVE  /\ held[r][z] \in Nodes
           /\ conn[z][held[r][z]] \in Nat \ {0}
           /\ key[z][held[r][z]] # Nil
<1>1. held[r][z] \in Nodes
  BY DEF ConnInv, Conn!TypeOK
<1>2. r \in Conn!Holders(held, z, held[r][z])
  BY DEF Conn!Holders
<1>3. Cardinality(Conn!Holders(held, z, held[r][z])) # 0
  BY <1>2, HoldersFinite, FS_EmptySet
<1> QED
  BY <1>1, <1>3, HoldersFinite, SameSets DEF ConnInv, Conn!CountsHolders, Conn!TypeOK

LEMMA ConnInitially ==
    ASSUME Conn!Init PROVE ConnInv
<1>1. Conn!TypeOK
  BY ZonesFacts DEF Conn!Init, Conn!TypeOK, Conn!Nothing
<1>2. \A z \in Conn!Zones, n \in Nodes : Conn!Holders(held, z, n) = {}
  BY ConnAssumed DEF Conn!Init, Conn!Holders, Conn!Nothing
<1>3. Conn!CountsHolders
  <2>1. \A z \in Conn!Zones, n \in Nodes : Cardinality(Conn!Holders(held, z, n)) = 0
    BY <1>2, FS_EmptySet
  <2> QED
    BY <2>1, SameSets DEF Conn!Init, Conn!CountsHolders
<1>4. Conn!CountsItsKey /\ OneNodePerKey /\ WithinLimit /\ NotYetCounted /\ Paired
  BY ConnAssumed
     DEF Conn!Init, Conn!CountsItsKey, OneNodePerKey, WithinLimit, NotYetCounted, Paired, Conn!Nothing
<1> QED
  BY <1>1, <1>3, <1>4 DEF ConnInv

\* Steps that leave the nodes and the cleanups alone.
LEMMA QuietStep ==
    ASSUME ConnInv, UNCHANGED <<key, conn, held, counted, lost>>
    PROVE  Conn!CountsHolders' /\ Conn!CountsItsKey' /\ OneNodePerKey' /\ WithinLimit' /\ Paired'
<1>1. \A z \in Conn!Zones, n \in Nodes : Conn!Holders(held', z, n) = Conn!Holders(held, z, n)
  BY DEF Conn!Holders
<1>2. Conn!CountsHolders'
  BY <1>1, SameSets DEF ConnInv, Conn!CountsHolders
<1> QED
  BY <1>2 DEF ConnInv, Conn!CountsItsKey, OneNodePerKey, WithinLimit, Paired

\* The handler has not been counted where it has not been.
LEMMA AdvanceStep ==
    ASSUME Conn!TypeOK, NotYetCounted, NEW r \in Requests, pc[r] = "limits", Conn!Advance(r),
           \A s \in Requests : s # r => held'[s] = held[s],
           \A z \in Conn!Zones : z # at[r] => held'[r][z] = held[r][z]
    PROVE  NotYetCounted' /\ pc' \in [Requests -> {"limits", "passed", "cleanup", "rejected", "closing"}]
                          /\ at' \in [Requests -> Conn!Zones]
<1>1. at[r] \in Conn!Zones /\ at[r] \in Nat /\ (at[r] # N => at[r] + 1 \in Conn!Zones) /\ 1 \in Conn!Zones
  BY ZonesFacts DEF Conn!TypeOK
<1>2. /\ at' \in [Requests -> Conn!Zones]
      /\ pc' \in [Requests -> {"limits", "passed", "cleanup", "rejected", "closing"}]
  BY <1>1 DEF Conn!Advance, Conn!TypeOK
<1>3. ASSUME NEW s \in Requests
      PROVE  /\ pc'[s] = "limits" => \A z \in Conn!Zones : z >= at'[s] => held'[s][z] = Nil
             /\ pc'[s] # "limits" => at'[s] = 1
  <2>1. CASE s # r
    <3>1. pc'[s] = pc[s] /\ at'[s] = at[s] /\ held'[s] = held[s]
      BY <2>1 DEF Conn!Advance, Conn!TypeOK
    <3> QED
      BY <3>1 DEF NotYetCounted
  <2>2. CASE s = r /\ at[r] = N
    BY <2>2 DEF Conn!Advance, Conn!TypeOK
  <2>3. CASE s = r /\ at[r] # N
    <3>1. pc'[s] = "limits" /\ at'[s] = at[r] + 1
      BY <2>3 DEF Conn!Advance, Conn!TypeOK
    <3>2. ASSUME NEW z \in Conn!Zones, z >= at[r] + 1
          PROVE  held'[r][z] = Nil
      <4>1. z # at[r] /\ z >= at[r]
        BY <3>2, <1>1, ZonesFacts
      <4> QED
        BY <4>1 DEF NotYetCounted
    <3> QED
      BY <2>3, <3>1, <3>2
  <2> QED
    BY <2>1, <2>2, <2>3
<1> QED
  BY <1>2, <1>3 DEF NotYetCounted

LEMMA ConnQuietActions ==
    ASSUME ConnInv, NEW r \in Requests, NEW k, NEW after \in {"passed", "rejected"},
           Conn!Skip(r) \/ Conn!KeyFails(r) \/ Conn!Reject(r, k) \/ Conn!CleanupDone(r, after) \/ Conn!Close(r) \/ Conn!Closed(r)
    PROVE  ConnInv'
<1>1. UNCHANGED <<key, conn, held, counted, lost>>
  BY DEF Conn!Skip, Conn!KeyFails, Conn!Reject, Conn!CleanupDone, Conn!Close, Conn!Closed
<1>2. Conn!TypeOK'
  <2>1. CASE Conn!Skip(r)
    BY <1>1, <2>1, AdvanceStep DEF ConnInv, Conn!TypeOK, Conn!Skip
  <2>2. CASE Conn!KeyFails(r) \/ Conn!Reject(r, k)
    BY <1>1, <2>2, ZonesFacts DEF ConnInv, Conn!TypeOK, Conn!KeyFails, Conn!Reject
  <2>3. CASE Conn!CleanupDone(r, after) \/ Conn!Close(r) \/ Conn!Closed(r)
    BY <1>1, <2>3 DEF ConnInv, Conn!TypeOK, Conn!CleanupDone, Conn!Close, Conn!Closed
  <2> QED
    BY <2>1, <2>2, <2>3
<1>3. NotYetCounted'
  <2>1. CASE Conn!Skip(r)
    BY <1>1, <2>1, AdvanceStep DEF ConnInv, Conn!Skip
  <2>2. CASE Conn!KeyFails(r) \/ Conn!Reject(r, k) \/ Conn!CleanupDone(r, after) \/ Conn!Close(r)
    BY <1>1, <2>2 DEF ConnInv, Conn!TypeOK, NotYetCounted, Conn!KeyFails, Conn!Reject, Conn!CleanupDone, Conn!Close
  <2>3. CASE Conn!Closed(r)
    BY <1>1, <2>3 DEF ConnInv, Conn!TypeOK, NotYetCounted, Conn!Closed, Conn!Nothing
  <2> QED
    BY <2>1, <2>2, <2>3
<1> QED
  BY <1>1, <1>2, <1>3, QuietStep DEF ConnInv

\* What a newly counted request leaves to be shown of the nodes and the cleanups.
LEMMA CountedStep ==
    ASSUME ConnInv, NEW r \in Requests, NEW z \in Conn!Zones, NEW n \in Nodes, NEW k \in Keys,
           held[r][z] = Nil, Conn!AddCleanup(r, z, k, n),
           \A y \in Conn!Zones, m \in Nodes :
             conn'[y][m] = IF y = z /\ m = n THEN conn[y][m] + 1 ELSE conn[y][m],
           key' \in [Conn!Zones -> [Nodes -> Keys \cup {Nil}]],
           \A y \in Conn!Zones, m \in Nodes : ~(y = z /\ m = n) => key'[y][m] = key[y][m],
           key'[z][n] = k, key[z][n] \in {Nil, k}
    PROVE  Conn!CountsHolders' /\ Conn!CountsItsKey' /\ Paired'
<1>1. \A y \in Conn!Zones, m \in Nodes :
        Cardinality(Conn!Holders(held', y, m)) = IF y = z /\ m = n
                                            THEN Cardinality(Conn!Holders(held, y, m)) + 1
                                            ELSE Cardinality(Conn!Holders(held, y, m))
  <2>1. held \in Cleanups /\ held' = [held EXCEPT ![r][z] = n]
    BY DEF ConnInv, Conn!TypeOK, Conn!AddCleanup, Cleanups
  <2> QED
    BY ZenonT(60), <2>1, Taken
<1>2. Conn!CountsHolders'
  <2> SUFFICES ASSUME NEW y \in Conn!Zones, NEW m \in Nodes
               PROVE  /\ conn'[y][m] = Cardinality(Conn!Holders(held', y, m)) + lost'[y][m]
                      /\ conn'[y][m] = 0 <=> key'[y][m] = Nil
    BY SameSets DEF Conn!CountsHolders
  <2>1. /\ conn[y][m] = Cardinality(Conn!Holders(held, y, m)) + lost[y][m]
        /\ lost[y][m] \in Nat /\ conn[y][m] \in Nat /\ lost'[y][m] = lost[y][m]
    BY SameSets DEF ConnInv, Conn!CountsHolders, Conn!TypeOK, Conn!AddCleanup
  <2>2. Cardinality(Conn!Holders(held, y, m)) \in Nat
    BY HoldersFinite
  <2>5. (conn[y][m] = 0 <=> key[y][m] = Nil) /\ k # Nil
    BY ConnAssumed, SameSets DEF ConnInv, Conn!CountsHolders
  <2>3. CASE y = z /\ m = n
    <3>1. conn'[y][m] = conn[y][m] + 1 /\ key'[y][m] = k
      BY <2>3
    <3>2. Cardinality(Conn!Holders(held', y, m)) = Cardinality(Conn!Holders(held, y, m)) + 1
      BY <1>1, <2>3
    <3>3. conn'[y][m] # 0 /\ key'[y][m] # Nil
      BY <2>1, <2>5, <3>1
    <3>4. \A a, b \in Nat : (a + b) + 1 = (a + 1) + b
      OBVIOUS
    <3>5. conn'[y][m] = (Cardinality(Conn!Holders(held, y, m)) + 1) + lost[y][m]
      BY ZenonT(60), <2>1, <2>2, <3>1, <3>4
    <3> QED
      BY <2>1, <3>2, <3>3, <3>5
  <2>4. CASE ~(y = z /\ m = n)
    <3>1. conn'[y][m] = conn[y][m] /\ key'[y][m] = key[y][m]
      BY <2>4
    <3>2. Cardinality(Conn!Holders(held', y, m)) = Cardinality(Conn!Holders(held, y, m))
      BY <1>1, <2>4
    <3> QED
      BY <2>1, <2>5, <3>1, <3>2
  <2> QED
    BY <2>3, <2>4
<1>3. \A s \in Requests, y \in Conn!Zones :
        held'[s][y] # Nil => held'[s][y] \in Nodes /\ key'[y][held'[s][y]] = counted'[s][y]
  <2> SUFFICES ASSUME NEW s \in Requests, NEW y \in Conn!Zones, held'[s][y] # Nil
               PROVE  held'[s][y] \in Nodes /\ key'[y][held'[s][y]] = counted'[s][y]
    OBVIOUS
  <2>1. CASE s = r /\ y = z
    BY <2>1 DEF Conn!AddCleanup, ConnInv, Conn!TypeOK
  <2>2. CASE ~(s = r /\ y = z)
    <3>1. held'[s][y] = held[s][y] /\ counted'[s][y] = counted[s][y] /\ held[s][y] # Nil
      BY <2>2 DEF Conn!AddCleanup, ConnInv, Conn!TypeOK
    <3>2. /\ held[s][y] \in Nodes /\ key[y][held[s][y]] # Nil
          /\ key[y][held[s][y]] = counted[s][y]
      BY <3>1, HeldIsAllocated DEF ConnInv, Conn!CountsItsKey
    <3>3. key'[y][held[s][y]] = key[y][held[s][y]]
      BY <3>2
    <3> QED
      BY <3>1, <3>2, <3>3
  <2> QED
    BY <2>1, <2>2
<1>4. Paired'
  BY ConnAssumed DEF Paired, Conn!AddCleanup, ConnInv, Conn!TypeOK
<1> QED
  BY <1>2, <1>3, <1>4 DEF Conn!CountsItsKey

\* A count of which no cleanup could be made is lost.
LEMMA LostStep ==
    ASSUME ConnInv, NEW r \in Requests, NEW z \in Conn!Zones, NEW n \in Nodes, NEW k \in Keys,
           Conn!AddCleanupFails(r, z, n),
           \A y \in Conn!Zones, m \in Nodes :
             conn'[y][m] = IF y = z /\ m = n THEN conn[y][m] + 1 ELSE conn[y][m],
           \A y \in Conn!Zones, m \in Nodes : ~(y = z /\ m = n) => key'[y][m] = key[y][m],
           key'[z][n] = k, key[z][n] \in {Nil, k}
    PROVE  Conn!CountsHolders' /\ Conn!CountsItsKey' /\ Paired'
<1>1. held' = held /\ counted' = counted
  BY DEF Conn!AddCleanupFails
<1>2. Conn!CountsHolders'
  <2> SUFFICES ASSUME NEW y \in Conn!Zones, NEW m \in Nodes
               PROVE  /\ conn'[y][m] = Cardinality(Conn!Holders(held, y, m)) + lost'[y][m]
                      /\ conn'[y][m] = 0 <=> key'[y][m] = Nil
    BY <1>1, SameSets DEF Conn!CountsHolders
  <2>1. /\ conn[y][m] = Cardinality(Conn!Holders(held, y, m)) + lost[y][m] /\ lost[y][m] \in Nat
        /\ conn[y][m] = 0 <=> key[y][m] = Nil
        /\ conn[y][m] \in Nat
    BY SameSets DEF ConnInv, Conn!CountsHolders, Conn!TypeOK
  <2>2. /\ Cardinality(Conn!Holders(held, y, m)) \in Nat
        /\ k # Nil
    BY HoldersFinite, ConnAssumed
  <2>3. CASE y = z /\ m = n
    <3>1. conn'[y][m] = conn[y][m] + 1 /\ key'[y][m] = k /\ lost'[y][m] = lost[y][m] + 1
      BY <2>3 DEF Conn!AddCleanupFails, ConnInv, Conn!TypeOK
    <3> QED
      BY <2>1, <2>2, <3>1
  <2>4. CASE ~(y = z /\ m = n)
    <3>1. conn'[y][m] = conn[y][m] /\ key'[y][m] = key[y][m] /\ lost'[y][m] = lost[y][m]
      BY <2>4 DEF Conn!AddCleanupFails, ConnInv, Conn!TypeOK
    <3> QED
      BY <2>1, <2>2, <3>1
  <2> QED
    BY <2>3, <2>4
<1>3. ASSUME NEW s \in Requests, NEW y \in Conn!Zones, held[s][y] # Nil
      PROVE  key'[y][held[s][y]] = counted[s][y]
  <2>1. held[s][y] \in Nodes /\ key[y][held[s][y]] # Nil /\ key[y][held[s][y]] = counted[s][y]
    BY <1>3, HeldIsAllocated DEF ConnInv, Conn!CountsItsKey
  <2>2. key'[y][held[s][y]] = key[y][held[s][y]]
    BY <2>1
  <2> QED
    BY <2>1, <2>2
<1>4. Paired'
  BY <1>1 DEF ConnInv, Paired
<1> QED
  BY <1>1, <1>2, <1>3, <1>4 DEF Conn!CountsItsKey

\* A node with room is counted up, or a new node starts at one.
LEMMA HandlerStep ==
    ASSUME ConnInv, NEW r \in Requests, NEW k \in Keys, NEW n \in Nodes,
           Conn!Create(r, k, n) \/ Conn!Count(r, k, n)
    PROVE  ConnInv'
<1> DEFINE z == at[r]
<1>1. pc[r] = "limits" /\ z \in Conn!Zones /\ held[r][z] = Nil /\ k # Nil
  <2>1. pc[r] = "limits" /\ k # Nil
    BY ConnAssumed DEF Conn!Create, Conn!Count
  <2>2. z \in Conn!Zones /\ z \in Nat
    BY ZonesFacts DEF ConnInv, Conn!TypeOK
  <2> QED
    BY <2>1, <2>2 DEF ConnInv, NotYetCounted
<1>2. /\ key[z][n] \in {Nil, k}
      /\ \A m \in Nodes : m # n => key[z][m] # k
      /\ conn[z][n] + 1 <= Limit[z]
  <2>1. CASE Conn!Create(r, k, n)
    <3>1. key[z][n] = Nil /\ \A m \in Nodes : key[z][m] # k
      BY <2>1 DEF Conn!Create, Conn!Lookup, Conn!Free
    <3>2. conn[z][n] = 0
      BY <1>1, <3>1, SameSets DEF ConnInv, Conn!CountsHolders
    <3>3. Limit[z] \in Nat \ {0}
      BY <1>1, ConnAssumed
    <3> QED
      BY <3>1, <3>2, <3>3
  <2>2. CASE Conn!Count(r, k, n)
    <3>1. key[z][n] = k /\ ~Conn!AtLimit(z, n)
      BY <2>2 DEF Conn!Count, Conn!Lookup
    <3>2. conn[z][n] + 1 <= Limit[z]
      BY <1>1, <3>1, ConnAssumed DEF Conn!AtLimit, ConnInv, Conn!TypeOK
    <3> QED
      BY <1>1, <3>1, <3>2 DEF ConnInv, OneNodePerKey
  <2> QED
    BY <2>1, <2>2
<1>3. /\ conn' = [conn EXCEPT ![z][n] = conn[z][n] + 1]
      /\ key' = [key EXCEPT ![z][n] = k]
  <2>1. CASE Conn!Create(r, k, n)
    <3>1. conn[z][n] = 0
      BY <1>1, <2>1, SameSets DEF Conn!Create, Conn!Free, ConnInv, Conn!CountsHolders
    <3> QED
      BY <2>1, <3>1 DEF Conn!Create
  <2>2. CASE Conn!Count(r, k, n)
    <3>1. key[z][n] = k
      BY <2>2 DEF Conn!Count, Conn!Lookup
    <3>2. key = [key EXCEPT ![z][n] = k]
      BY <1>1, <3>1 DEF ConnInv, Conn!TypeOK
    <3> QED
      BY <2>2, <3>2 DEF Conn!Count
  <2> QED
    BY <2>1, <2>2
<1> HIDE DEF z
<1>4. \A y \in Conn!Zones, m \in Nodes :
        conn'[y][m] = IF y = z /\ m = n THEN conn[y][m] + 1 ELSE conn[y][m]
  BY <1>1, <1>3 DEF ConnInv, Conn!TypeOK
<1>5. /\ \A y \in Conn!Zones, m \in Nodes : ~(y = z /\ m = n) => key'[y][m] = key[y][m]
      /\ key'[z][n] = k
      /\ key' \in [Conn!Zones -> [Nodes -> Keys \cup {Nil}]]
      /\ conn' \in [Conn!Zones -> [Nodes -> Nat]]
  BY <1>1, <1>3 DEF ConnInv, Conn!TypeOK
<1>6. OneNodePerKey'
  BY SMTT(30), <1>1, <1>2, <1>5 DEF ConnInv, OneNodePerKey
<1>7. WithinLimit'
  BY <1>1, <1>2, <1>4 DEF ConnInv, WithinLimit
<1>8. Conn!AddCleanup(r, z, k, n) \/ Conn!AddCleanupFails(r, z, n)
  BY DEF Conn!Create, Conn!Count, z
<1>9. CASE Conn!AddCleanup(r, z, k, n)
  <2>1. Conn!CountsHolders' /\ Conn!CountsItsKey' /\ Paired'
    BY <1>1, <1>2, <1>4, <1>5, <1>9, CountedStep
  <2>2. /\ \A s \in Requests : s # r => held'[s] = held[s]
        /\ \A y \in Conn!Zones : y # at[r] => held'[r][y] = held[r][y]
        /\ held' \in [Requests -> [Conn!Zones -> Nodes \cup {Nil}]]
        /\ counted' \in [Requests -> [Conn!Zones -> Keys \cup {Nil}]]
        /\ lost' = lost
    BY <1>1, <1>9 DEF Conn!AddCleanup, ConnInv, Conn!TypeOK, z
  <2>3. Conn!Advance(r)
    BY <1>9 DEF Conn!AddCleanup
  <2>4. Conn!TypeOK' /\ NotYetCounted'
    <3>1. /\ NotYetCounted' /\ at' \in [Requests -> Conn!Zones]
          /\ pc' \in [Requests -> {"limits", "passed", "cleanup", "rejected", "closing"}]
      BY <1>1, <2>2, <2>3, AdvanceStep DEF ConnInv
    <3> QED
      BY <1>5, <2>2, <3>1 DEF ConnInv, Conn!TypeOK
  <2> QED
    BY <1>6, <1>7, <2>1, <2>4 DEF ConnInv
<1>10. CASE Conn!AddCleanupFails(r, z, n)
  <2>1. Conn!CountsHolders' /\ Conn!CountsItsKey' /\ Paired'
    BY <1>1, <1>2, <1>4, <1>5, <1>10, LostStep
  <2>2. Conn!TypeOK'
    BY <1>1, <1>5, <1>10, ZonesFacts DEF Conn!AddCleanupFails, ConnInv, Conn!TypeOK
  <2>3. NotYetCounted'
    BY <1>10 DEF Conn!AddCleanupFails, ConnInv, Conn!TypeOK, NotYetCounted
  <2> QED
    BY <1>6, <1>7, <2>1, <2>2, <2>3 DEF ConnInv
<1> QED
  BY <1>8, <1>9, <1>10

\* One cleanup gives one count back, and frees the node with the last.
LEMMA CleanupStep ==
    ASSUME ConnInv, NEW r \in Requests, NEW z \in Conn!Zones, Conn!Cleanup(r, z)
    PROVE  ConnInv'
<1>0. PICK n \in Nodes : held[r][z] = n
  BY HeldIsAllocated DEF Conn!Cleanup, Conn!Newest
<1>1. /\ n # Nil /\ conn[z][n] \in Nat \ {0} /\ key[z][n] # Nil
      /\ pc[r] # "limits"
  BY <1>0, HeldIsAllocated, ConnAssumed DEF Conn!Cleanup, Conn!Newest
<1>2. /\ conn' = [conn EXCEPT ![z][n] = conn[z][n] - 1]
      /\ key' = [key EXCEPT ![z][n] = IF conn[z][n] = 1 THEN Nil ELSE key[z][n]]
      /\ held' = [held EXCEPT ![r][z] = Nil] /\ counted' = [counted EXCEPT ![r][z] = Nil]
      /\ UNCHANGED <<pc, at, lost>>
  BY <1>0 DEF Conn!Cleanup, Conn!CleanupNode
<1>3. held \in Cleanups
  BY DEF ConnInv, Conn!TypeOK, Cleanups
<1>4. conn[z][n] - 1 \in Nat
  BY <1>1
<1>5. Conn!TypeOK'
  BY <1>1, <1>2, <1>4 DEF ConnInv, Conn!TypeOK
<1>6. \A y \in Conn!Zones, m \in Nodes :
        /\ conn'[y][m] = IF y = z /\ m = n THEN conn[y][m] - 1 ELSE conn[y][m]
        /\ key'[y][m] = IF y = z /\ m = n /\ conn[y][m] = 1 THEN Nil ELSE key[y][m]
  BY <1>1, <1>2 DEF ConnInv, Conn!TypeOK
<1>7. \A y \in Conn!Zones, m \in Nodes :
        Cardinality(Conn!Holders(held', y, m)) = IF y = z /\ m = n
          THEN Cardinality(Conn!Holders(held, y, m)) - 1
          ELSE Cardinality(Conn!Holders(held, y, m))
  <2>1. held' = [held EXCEPT ![r][z] = Nil] /\ held[r][z] # Nil
    BY <1>0, <1>1, <1>2
  <2>2. \A y \in Conn!Zones, m \in Nodes :
          Cardinality(Conn!Holders(held', y, m)) = IF y = z /\ m = held[r][z]
            THEN Cardinality(Conn!Holders(held, y, m)) - 1
            ELSE Cardinality(Conn!Holders(held, y, m))
    BY <1>3, <2>1, GivenBack
  <2> QED
    BY <1>0, <2>2
<1>8. Conn!CountsHolders'
  <2> SUFFICES ASSUME NEW y \in Conn!Zones, NEW m \in Nodes
               PROVE  /\ conn'[y][m] = Cardinality(Conn!Holders(held', y, m)) + lost'[y][m]
                      /\ conn'[y][m] = 0 <=> key'[y][m] = Nil
    BY SameSets DEF Conn!CountsHolders
  <2>1. /\ conn[y][m] = Cardinality(Conn!Holders(held, y, m)) + lost[y][m]
        /\ lost[y][m] \in Nat /\ conn[y][m] \in Nat /\ lost'[y][m] = lost[y][m]
    BY <1>2, SameSets DEF ConnInv, Conn!CountsHolders, Conn!TypeOK
  <2>2. Cardinality(Conn!Holders(held, y, m)) \in Nat
    BY HoldersFinite
  <2>3. conn[y][m] = 0 <=> key[y][m] = Nil
    BY SameSets DEF ConnInv, Conn!CountsHolders
  <2>4. CASE y = z /\ m = n
    <3>1. conn'[y][m] = conn[y][m] - 1
      BY <1>6, <2>4
    <3>2. Cardinality(Conn!Holders(held', y, m)) = Cardinality(Conn!Holders(held, y, m)) - 1
      BY <1>7, <2>4
    <3>3. \A a, b \in Nat : (a + b) - 1 = (a - 1) + b
      OBVIOUS
    <3>4. conn'[y][m] = (Cardinality(Conn!Holders(held, y, m)) - 1) + lost[y][m]
      BY <2>1, <2>2, <3>1, <3>3
    <3>5. conn'[y][m] = 0 <=> key'[y][m] = Nil
      <4>1. conn[y][m] # 0 /\ key[y][m] # Nil
        BY <1>1, <2>4
      <4>2. key'[y][m] = IF conn[y][m] = 1 THEN Nil ELSE key[y][m]
        BY <1>6, <2>4
      <4>3. conn'[y][m] = 0 <=> conn[y][m] = 1
        BY <2>1, <3>1
      <4> QED
        BY <4>1, <4>2, <4>3
    <3> QED
      BY <2>1, <3>2, <3>4, <3>5
  <2>5. CASE ~(y = z /\ m = n)
    <3>1. conn'[y][m] = conn[y][m] /\ key'[y][m] = key[y][m]
      BY <1>6, <2>5
    <3>2. Cardinality(Conn!Holders(held', y, m)) = Cardinality(Conn!Holders(held, y, m))
      BY <1>7, <2>5
    <3> QED
      BY <2>1, <2>3, <3>1, <3>2
  <2> QED
    BY <2>4, <2>5
<1>9. Conn!CountsItsKey'
  <2> SUFFICES ASSUME NEW s \in Requests, NEW y \in Conn!Zones, held'[s][y] # Nil
               PROVE  key'[y][held'[s][y]] = counted'[s][y]
    BY DEF Conn!CountsItsKey
  <2>1. ~(s = r /\ y = z)
    BY <1>2 DEF ConnInv, Conn!TypeOK
  <2>2. held'[s][y] = held[s][y] /\ counted'[s][y] = counted[s][y] /\ held[s][y] \in Nodes
    BY <1>2, <2>1, ConnAssumed DEF ConnInv, Conn!TypeOK
  <2>3. key[y][held[s][y]] = counted[s][y] /\ key[y][held[s][y]] # Nil
    BY <2>2, HeldIsAllocated DEF ConnInv, Conn!CountsItsKey
  <2>4. CASE y = z /\ held[s][y] = n
    \* the node is still held by s, so its count has not become zero
    <3>1. s \in Conn!Holders(held', y, n)
      BY <2>2, <2>4 DEF Conn!Holders
    <3>2. Cardinality(Conn!Holders(held', y, n)) # 0
      BY <3>1, HoldersFinite, FS_EmptySet
    <3>3. conn'[y][n] # 0
      <4>1. conn'[y][n] = Cardinality(Conn!Holders(held', y, n)) + lost'[y][n] /\ lost'[y][n] \in Nat
        BY <1>1, <1>5, <1>8, SameSets DEF Conn!CountsHolders, Conn!TypeOK
      <4>2. Cardinality(Conn!Holders(held', y, n)) \in Nat
        BY HoldersFinite
      <4> QED
        BY <3>2, <4>1, <4>2
    <3>4. conn[y][n] # 1
      BY <1>1, <1>6, <2>4, <3>3
    <3> QED
      BY <1>1, <1>6, <2>2, <2>3, <2>4, <3>4
  <2>5. CASE ~(y = z /\ held[s][y] = n)
    BY <1>6, <2>2, <2>3, <2>5
  <2> QED
    BY <2>4, <2>5
<1>10. OneNodePerKey'
  BY <1>6 DEF ConnInv, OneNodePerKey
<1>11. WithinLimit'
  <2>1. ASSUME NEW y \in Conn!Zones, NEW m \in Nodes PROVE conn'[y][m] <= Limit[y]
    <3>1. /\ conn[y][m] \in Nat /\ Limit[y] \in Nat /\ conn[y][m] <= Limit[y]
          /\ conn'[y][m] = conn[y][m] \/ conn'[y][m] = conn[y][m] - 1
      BY <1>6, ConnAssumed DEF ConnInv, Conn!TypeOK, WithinLimit
    <3> QED
      BY <3>1
  <2> QED
    BY <2>1 DEF WithinLimit
<1>12. NotYetCounted'
  <2>1. \A s \in Requests : s # r => held'[s] = held[s]
    BY <1>2 DEF ConnInv, Conn!TypeOK
  <2> QED
    BY <1>1, <1>2, <2>1 DEF ConnInv, NotYetCounted
<1>13. Paired'
  BY <1>2 DEF ConnInv, Conn!TypeOK, Paired
<1> QED
  BY <1>5, <1>8, <1>9, <1>10, <1>11, <1>12, <1>13 DEF ConnInv

\* What dies with a worker was held before, and is lost now.
LEMMA ConnCrashStep ==
    ASSUME ConnInv, NEW r \in Requests, Conn!Crash(r)
    PROVE  ConnInv'
<1>1. /\ held' = [held EXCEPT ![r] = Conn!Nothing] /\ counted' = [counted EXCEPT ![r] = Conn!Nothing]
      /\ pc' = [pc EXCEPT ![r] = "closing"] /\ at' = [at EXCEPT ![r] = 1]
      /\ key' = key /\ conn' = conn
      /\ \A z \in Conn!Zones, n \in Nodes :
           lost'[z][n] = IF held[r][z] = n THEN lost[z][n] + 1 ELSE lost[z][n]
  BY DEF Conn!Crash
<1>2. lost' \in [Conn!Zones -> [Nodes -> Nat]]
  BY DEF Conn!Crash, ConnInv, Conn!TypeOK
<1>3. Conn!TypeOK'
  BY <1>1, <1>2, ZonesFacts DEF ConnInv, Conn!TypeOK, Conn!Nothing
<1>4. Conn!CountsHolders'
  <2> SUFFICES ASSUME NEW z \in Conn!Zones, NEW n \in Nodes
               PROVE  conn[z][n] = Cardinality(Conn!Holders(held', z, n)) + lost'[z][n]
    BY <1>1, SameSets DEF ConnInv, Conn!CountsHolders
  <2>1. /\ conn[z][n] = Cardinality(Conn!Holders(held, z, n)) + lost[z][n] /\ lost[z][n] \in Nat
    BY SameSets DEF ConnInv, Conn!CountsHolders, Conn!TypeOK
  <2>2. Cardinality(Conn!Holders(held, z, n)) \in Nat
    BY HoldersFinite
  <2>3. CASE held[r][z] = n
    <3>1. Conn!Holders(held', z, n) = Conn!Holders(held, z, n) \ {r} /\ r \in Conn!Holders(held, z, n)
      BY <1>1, <2>3, ConnAssumed DEF Conn!Holders, Conn!Nothing, ConnInv, Conn!TypeOK
    <3>2. Cardinality(Conn!Holders(held', z, n)) = Cardinality(Conn!Holders(held, z, n)) - 1
      BY <3>1, HoldersFinite, FS_RemoveElement
    <3>3. lost'[z][n] = lost[z][n] + 1
      BY <1>1, <2>3
    <3>4. \A a, b \in Nat : a + b = (a - 1) + (b + 1)
      OBVIOUS
    <3> QED
      BY <2>1, <2>2, <3>2, <3>3, <3>4
  <2>4. CASE held[r][z] # n
    <3>1. Conn!Holders(held', z, n) = Conn!Holders(held, z, n)
      BY <1>1, <2>4, ConnAssumed DEF Conn!Holders, Conn!Nothing, ConnInv, Conn!TypeOK
    <3>2. lost'[z][n] = lost[z][n]
      BY <1>1, <2>4
    <3> QED
      BY <2>1, <3>1, <3>2
  <2> QED
    BY <2>3, <2>4
<1>5. Conn!CountsItsKey' /\ Paired'
  BY <1>1 DEF ConnInv, Conn!CountsItsKey, Paired, Conn!TypeOK, Conn!Nothing
<1>6. OneNodePerKey' /\ WithinLimit'
  BY <1>1 DEF ConnInv, OneNodePerKey, WithinLimit
<1>7. NotYetCounted'
  BY <1>1 DEF ConnInv, NotYetCounted, Conn!TypeOK
<1> QED
  BY <1>3, <1>4, <1>5, <1>6, <1>7 DEF ConnInv

LEMMA ConnNext ==
    ASSUME ConnInv, [Conn!Next]_Conn!vars PROVE ConnInv'
<1>1. CASE UNCHANGED Conn!vars
  <2>1. Conn!TypeOK' /\ NotYetCounted'
    BY <1>1 DEF Conn!vars, ConnInv, Conn!TypeOK, NotYetCounted
  <2> QED
    BY <1>1, <2>1, QuietStep DEF Conn!vars, ConnInv
<1>2. CASE Conn!Next
  <2>1. PICK r \in Requests : Conn!Handler(r) \/ Conn!Release(r) \/ Conn!Close(r) \/ Conn!Crash(r)
    BY <1>2 DEF Conn!Next
  <2>2. CASE Conn!Handler(r)
    BY <2>2, ConnQuietActions, HandlerStep DEF Conn!Handler
  <2>3. CASE Conn!Release(r)
    BY <2>3, ConnQuietActions, CleanupStep DEF Conn!Release
  <2>4. CASE Conn!Close(r)
    BY <2>4, ConnQuietActions
  <2>5. CASE Conn!Crash(r)
    BY <2>5, ConnCrashStep
  <2> QED
    BY <2>1, <2>2, <2>3, <2>4, <2>5
<1> QED
  BY <1>1, <1>2

\* The counts bound the requests that are counted under a key.
LEMMA LimitFollows ==
    ASSUME ConnInv PROVE Conn!LimitKept
<1> SUFFICES ASSUME NEW z \in Conn!Zones, NEW k \in Keys
             PROVE  Cardinality({r \in Requests : counted[r][z] = k}) <= Limit[z]
  BY SameSets DEF Conn!LimitKept
<1> DEFINE C == {r \in Requests : counted[r][z] = k}
<1>0. k # Nil /\ Limit[z] \in Nat
  BY ConnAssumed
<1>1. CASE C = {}
  BY <1>0, <1>1, FS_EmptySet
<1>2. CASE C # {}
  <2>1. PICK r \in C : TRUE
    BY <1>2
  <2>2. r \in Requests /\ counted[r][z] = k /\ held[r][z] # Nil
    BY <1>0, <2>1 DEF ConnInv, Paired
  <2>3. PICK n \in Nodes : held[r][z] = n
    BY <2>2, HeldIsAllocated
  <2>4. key[z][n] = k
    BY <2>2, <2>3 DEF ConnInv, Conn!CountsItsKey
  <2>5. C \subseteq Conn!Holders(held, z, n)
    <3>1. ASSUME NEW s \in C PROVE held[s][z] = n
      <4>1. s \in Requests /\ counted[s][z] = k /\ held[s][z] # Nil
        BY <1>0 DEF ConnInv, Paired
      <4>2. held[s][z] \in Nodes /\ key[z][held[s][z]] = k
        BY <4>1, HeldIsAllocated DEF ConnInv, Conn!CountsItsKey
      <4> QED
        BY <1>0, <2>4, <4>2 DEF ConnInv, OneNodePerKey
    <3> QED
      BY <3>1 DEF Conn!Holders
  <2>6. Cardinality(C) <= Cardinality(Conn!Holders(held, z, n)) /\ Cardinality(C) \in Nat
    <3>1. IsFiniteSet(Conn!Holders(held, z, n))
      BY HoldersFinite
    <3> QED
      BY <2>5, <3>1, FS_Subset, FS_CardinalityType
  <2>7. /\ conn[z][n] = Cardinality(Conn!Holders(held, z, n)) + lost[z][n]
        /\ lost[z][n] \in Nat /\ conn[z][n] <= Limit[z]
    BY SameSets DEF ConnInv, Conn!CountsHolders, Conn!TypeOK, WithinLimit
  <2>8. Cardinality(Conn!Holders(held, z, n)) \in Nat
    BY HoldersFinite
  <2> QED
    BY <1>0, <2>6, <2>7, <2>8
<1> QED
  BY <1>1, <1>2

LEMMA ConnInvariance == Conn!Spec => []ConnInv
<1>1. Conn!Init => ConnInv
  BY ConnInitially
<1>2. ConnInv /\ [Conn!Next]_Conn!vars => ConnInv'
  BY ConnNext
<1> QED
  BY <1>1, <1>2, PTL DEF Conn!Spec

(* What happens to the connections in a behaviour of the three parts is a   *)
(* behaviour of LimitConn.                                                  *)
LEMMA ConnPart == MCSpec => Conn!Spec
<1>1. MCInit => Conn!Init
  BY DEF MCInit
<1>2. [MCNext]_<<vars, connVars, peersVars, part>> => [Conn!Next]_Conn!vars
  BY DEF MCNext, connVars, Conn!vars
<1> QED
  BY <1>1, <1>2, PTL DEF MCSpec, Conn!Spec

(* Every variable has its type; no count is negative (the u_short of a node *)
(* does not wrap at zero).                                                  *)
THEOREM TypeCorrect == Conn!Spec => []Conn!TypeOK
<1>1. ConnInv => Conn!TypeOK
  BY DEF ConnInv
<1> QED
  BY <1>1, ConnInvariance, PTL

(* The count of a node is the requests that will give it back, and nodes    *)
(* are freed with the last one.                                             *)
THEOREM CountsExact == Conn!Spec => []Conn!CountsHolders
<1>1. ConnInv => Conn!CountsHolders
  BY DEF ConnInv
<1> QED
  BY <1>1, ConnInvariance, PTL

(* The pointer in a cleanup is a pointer to the node of the request's key.  *)
THEOREM CleanupsPointRight == Conn!Spec => []Conn!CountsItsKey
<1>1. ConnInv => Conn!CountsItsKey
  BY DEF ConnInv
<1> QED
  BY <1>1, ConnInvariance, PTL

(* No key has more requests than the limit, in any zone.                    *)
THEOREM LimitsKept == Conn!Spec => []Conn!LimitKept
<1>1. ConnInv => Conn!LimitKept
  BY LimitFollows
<1> QED
  BY <1>1, ConnInvariance, PTL

\* Counts are exact and limits kept, for any number of requests, keys, nodes and zones.
THEOREM ConnLimitsHold == MCSpec => []ConnLimitsExact
<1>1. ConnLimitsExact <=> Conn!CountsHolders /\ Conn!LimitKept
  BY DEF ConnLimitsExact, Conn!ConnLimitsExact
<1> QED
  BY <1>1, ConnPart, CountsExact, LimitsKept, PTL

-----------------------------------------------------------------------------
(***************************************************************************)
(* The servers of an upstream, for every configuration.  The sums of       *)
(* weights are folds over finite sets: what is shown of them is shown for  *)
(* the sets of subsets that have it, from the empty set up, since the      *)
(* theorems on induction do not apply.  The invariant follows a server     *)
(* from its list to its last reference, what a request remembers of the    *)
(* positions it tried as long as the lists stay as they are, and, where no *)
(* server ever fails, the current weight of a server as the distance of    *)
(* its choices from its share of them.                                     *)
(***************************************************************************)

(* What holds at 0 and goes on from each number to the next holds of all.  *)
LEMMA Rises ==
    ASSUME NEW K, 0 \in K, \A k \in Nat : k \in K => k + 1 \in K
    PROVE  \A k \in Nat : k \in K
<1> DEFINE U == {k \in Nat : k \notin K}
<1>1. SUFFICES ASSUME U # {} PROVE FALSE
  OBVIOUS
<1>2. PICK u \in U : \A v \in U : ~(<<v, u>> \in OpToRel(<, Nat))
  BY <1>1, WFMin, NatLessThanWellFounded
<1>3. u # 0 /\ u \in Nat /\ u \notin K
  OBVIOUS
<1>4. u - 1 \in Nat /\ u - 1 < u
  BY <1>3
<1>5. u - 1 \in K
  <2>1. SUFFICES ASSUME u - 1 \in U PROVE FALSE
    BY <1>4
  <2>2. <<u - 1, u>> \in OpToRel(<, Nat)
    BY <1>3, <1>4 DEF OpToRel
  <2> QED
    BY <1>2, <2>1, <2>2
<1>6. (u - 1) + 1 = u
  BY <1>3
<1> QED
  BY <1>3, <1>4, <1>5, <1>6

(* Sets of subsets that grow one element at a time hold the finite whole.  *)
LEMMA Grows ==
    ASSUME NEW S, IsFiniteSet(S), NEW G, {} \in G,
           \A T \in SUBSET S, x \in S : T \in G /\ x \notin T => T \cup {x} \in G
    PROVE  S \in G
<1> DEFINE K == {k \in Nat : \A T \in SUBSET S : Cardinality(T) = k => T \in G}
<1>1. 0 \in K
  <2>1. \A T \in SUBSET S : Cardinality(T) = 0 => T = {}
    BY FS_Subset, FS_EmptySet
  <2> QED
    BY <2>1
<1>2. ASSUME NEW k \in Nat, k \in K PROVE k + 1 \in K
  <2>1. SUFFICES ASSUME NEW T \in SUBSET S, Cardinality(T) = k + 1 PROVE T \in G
    BY <1>2
  <2>2. IsFiniteSet(T) /\ T # {}
    BY <2>1, FS_Subset, FS_EmptySet
  <2>3. PICK x \in T : TRUE
    BY <2>2
  <2>4. Cardinality(T \ {x}) = k
    <3>1. Cardinality(T \ {x}) = Cardinality(T) - 1
      BY <2>2, FS_RemoveElement
    <3> QED
      BY <2>1, <3>1
  <2>5. T \ {x} \in G
    BY <1>2, <2>4
  <2>6. (T \ {x}) \cup {x} = T /\ x \in S /\ x \notin T \ {x} /\ T \ {x} \in SUBSET S
    OBVIOUS
  <2> QED
    BY <2>5, <2>6
<1> HIDE DEF K
<1>3. \A k \in Nat : k \in K
  BY <1>1, <1>2, Rises
<1>4. Cardinality(S) \in K
  BY <1>3, FS_CardinalityType
<1> QED
  BY <1>4 DEF K

(* The sum that SumFunction defines by recursion over subsets.             *)
Pick(s) == CHOOSE x \in s : TRUE
\* One step of the sum: an element of s, and what is summed of the rest.
Plus(h, f, s) == IF s = {} THEN 0 ELSE f[Pick(s)] + h[s \ {Pick(s)}]
\* h sums f over every subset of S.
Tally(h, f, S) == h = [s \in SUBSET S |-> Plus(h, f, s)]
\* The sums of f over the subsets of S.
Tallied(f, S) == CHOOSE h : Tally(h, f, S)
\* The sum of f over S.
Sum(f, S) == Tallied(f, S)[S]

\* The sum the model takes of a function is the sum over its domain.
LEMMA SumIs ==
    ASSUME NEW f
    PROVE  Peers!SumFunction(f) = Sum(f, DOMAIN f)
BY DEF Peers!SumFunction, Peers!SumFunctionOnSet, Peers!FoldFunctionOnSet, Peers!MapThenFoldSet,
       Sum, Tallied, Tally, Plus, Pick

\* f is a number on all of S.
Summed(f, S) == \A x \in S : f[x] \in Int

(* There is such a sum.                                                    *)
LEMMA TallyExists ==
    ASSUME NEW S, IsFiniteSet(S), NEW f, Summed(f, S)
    PROVE  \E h \in [SUBSET S -> Int] : Tally(h, f, S)
<1> DEFINE L(n) == {s \in SUBSET S : Cardinality(s) <= n}
           P(n) == \E h \in [L(n) -> Int] : \A s \in L(n) : h[s] = Plus(h, f, s)
           K == {n \in Nat : P(n)}
<1>1. \A s \in SUBSET S : IsFiniteSet(s) /\ Cardinality(s) \in Nat /\ (s # {} => Pick(s) \in s)
  BY FS_Subset, FS_CardinalityType DEF Pick
<1>2. 0 \in K
  <2>1. \A s \in L(0) : s = {}
    BY <1>1, FS_EmptySet
  <2> DEFINE h == [s \in L(0) |-> 0]
  <2>2. h \in [L(0) -> Int] /\ \A s \in L(0) : h[s] = Plus(h, f, s)
    BY <2>1 DEF Plus
  <2> QED
    BY <2>2
<1>3. ASSUME NEW n \in Nat, n \in K PROVE n + 1 \in K
  <2>1. PICK h \in [L(n) -> Int] : \A s \in L(n) : h[s] = Plus(h, f, s)
    BY <1>3
  <2> DEFINE g == [s \in L(n + 1) |-> Plus(h, f, s)]
  <2>2. ASSUME NEW s \in L(n + 1), s # {} PROVE s \ {Pick(s)} \in L(n) /\ f[Pick(s)] \in Int
    <3>1. Cardinality(s \ {Pick(s)}) = Cardinality(s) - 1
      BY <1>1, <2>2, FS_RemoveElement
    <3>2. s \in SUBSET S /\ Cardinality(s) <= n + 1 /\ Cardinality(s) \in Nat
      BY <1>1
    <3> QED
      BY <1>1, <2>2, <3>1, <3>2 DEF Summed
  <2>3. \A s \in L(n) : s \in L(n + 1)
    BY <1>1
  <2>4. \A s \in L(n + 1) : Plus(h, f, s) \in Int
    BY <2>1, <2>2 DEF Plus
  <2>5. ASSUME NEW s \in L(n + 1) PROVE g[s] = Plus(g, f, s)
    <3>1. CASE s = {}
      BY <3>1 DEF Plus
    <3>2. CASE s # {}
      <4> DEFINE t == s \ {Pick(s)}
      <4>1. t \in L(n) /\ t \in L(n + 1)
        BY <2>2, <2>3, <3>2
      <4>2. g[t] = h[t]
        BY <2>1, <4>1
      <4>3. g[s] = f[Pick(s)] + h[t]
        BY <3>2 DEF Plus
      <4> QED
        BY <3>2, <4>2, <4>3 DEF Plus
    <3> QED
      BY <3>1, <3>2
  <2>6. g \in [L(n + 1) -> Int]
    BY <2>4
  <2> HIDE DEF g
  <2>7. P(n + 1)
    BY <2>5, <2>6
  <2> HIDE DEF P
  <2> QED
    BY <2>7
<1> HIDE DEF K
<1>4. Cardinality(S) \in K
  BY <1>2, <1>3, Rises, FS_CardinalityType
<1>5. L(Cardinality(S)) = SUBSET S
  BY FS_Subset
<1>6. PICK h \in [SUBSET S -> Int] : \A s \in SUBSET S : h[s] = Plus(h, f, s)
  BY <1>4, <1>5 DEF K
<1>7. h = [s \in SUBSET S |-> Plus(h, f, s)]
  BY <1>6
<1> QED
  BY <1>6, <1>7 DEF Tally

(* And one only: what is summed of a subset is what the whole sum has.     *)
LEMMA TallySame ==
    ASSUME NEW S, IsFiniteSet(S), NEW f, NEW g, NEW h, Tally(g, f, S), NEW T \in SUBSET S,
             Tally(h, f, T)
    PROVE  g[T] = h[T]
<1> DEFINE G == {s \in SUBSET T : g[s] = h[s]}
           K == {k \in Nat : \A s \in SUBSET T : Cardinality(s) = k => g[s] = h[s]}
<1>1. \A s \in SUBSET T : IsFiniteSet(s) /\ Cardinality(s) \in Nat /\ (s # {} => Pick(s) \in s)
  BY FS_Subset, FS_CardinalityType DEF Pick
<1>2. \A s \in SUBSET T : g[s] = Plus(g, f, s) /\ h[s] = Plus(h, f, s)
  BY DEF Tally
<1>3. 0 \in K
  <2>1. \A s \in SUBSET T : Cardinality(s) = 0 => s = {}
    BY <1>1, FS_EmptySet
  <2> QED
    BY <1>2, <2>1 DEF Plus
<1>4. ASSUME NEW k \in Nat, k \in K PROVE k + 1 \in K
  <2>1. SUFFICES ASSUME NEW s \in SUBSET T, Cardinality(s) = k + 1 PROVE g[s] = h[s]
    BY <1>4
  <2>2. s # {}
    BY <1>1, <2>1, FS_EmptySet
  <2>3. Cardinality(s \ {Pick(s)}) = k
    <3>1. Cardinality(s \ {Pick(s)}) = Cardinality(s) - 1
      BY <1>1, <2>2, FS_RemoveElement
    <3> QED
      BY <2>1, <3>1
  <2>4. g[s \ {Pick(s)}] = h[s \ {Pick(s)}]
    BY <1>4, <2>3
  <2> QED
    BY <1>2, <2>2, <2>4 DEF Plus
<1> HIDE DEF K
<1>5. \A k \in Nat : k \in K
  BY <1>3, <1>4, Rises
<1>6. Cardinality(T) \in K
  BY <1>1, <1>5
<1> QED
  BY <1>6 DEF K

(* A sum, taken apart at the element that the recursion picks first.       *)
LEMMA SumFirst ==
    ASSUME NEW S, IsFiniteSet(S), NEW f, Summed(f, S)
    PROVE  /\ Sum(f, S) \in Int
           /\ Sum(f, S) = IF S = {} THEN 0 ELSE f[Pick(S)] + Sum(f, S \ {Pick(S)})
<1> DEFINE h == Tallied(f, S)
           T == S \ {Pick(S)}
           g == Tallied(f, T)
<1>1. Tally(h, f, S)
  BY TallyExists DEF Tallied
<1>2. PICK e \in [SUBSET S -> Int] : Tally(e, f, S)
  BY TallyExists
<1>3. IsFiniteSet(T) /\ Summed(f, T) /\ T \in SUBSET S
  BY FS_Subset DEF Summed
<1>4. Tally(g, f, T)
  BY <1>3, TallyExists DEF Tallied
<1> HIDE DEF h, g, T
<1>5. h[S] = e[S]
  BY <1>1, <1>2, TallySame
<1>6. h[T] = g[T]
  BY <1>1, <1>3, <1>4, TallySame
<1>7. h[S] = IF S = {} THEN 0 ELSE f[Pick(S)] + h[T]
  BY <1>1 DEF Tally, Plus, T
<1> QED
  BY <1>2, <1>5, <1>6, <1>7 DEF Sum, h, g, T

\* The sum over nothing is 0.
LEMMA SumNone ==
    ASSUME NEW f
    PROVE  Sum(f, {}) = 0
BY SumFirst, FS_EmptySet DEF Summed

(* A sum, taken apart at any element.                                      *)
LEMMA SumTaken ==
    ASSUME NEW S, IsFiniteSet(S), NEW f, Summed(f, S), NEW x \in S
    PROVE  Sum(f, S) = f[x] + Sum(f, S \ {x})
<1> DEFINE P(n) == \A T \in SUBSET S : Cardinality(T) = n =>
                      \A y \in T : Sum(f, T) = f[y] + Sum(f, T \ {y})
           K == {n \in Nat : P(n)}
<1>1. \A T \in SUBSET S : /\ IsFiniteSet(T) /\ Cardinality(T) \in Nat /\ Summed(f, T)
                          /\ Sum(f, T) \in Int
                          /\ T # {} => Pick(T) \in T
                               /\ Sum(f, T) = f[Pick(T)] + Sum(f, T \ {Pick(T)})
  <2>1. ASSUME NEW T \in SUBSET S PROVE IsFiniteSet(T) /\ Cardinality(T) \in Nat /\ Summed(f, T)
    BY FS_Subset, FS_CardinalityType DEF Summed
  <2> QED
    BY <2>1, SumFirst DEF Pick
<1>2. 0 \in K
  <2>1. \A T \in SUBSET S : Cardinality(T) = 0 => T = {}
    BY <1>1, FS_EmptySet
  <2> QED
    BY <2>1
<1>3. ASSUME NEW n \in Nat, n \in K PROVE n + 1 \in K
  <2>1. ASSUME NEW T \in SUBSET S, Cardinality(T) = n + 1, NEW y \in T
        PROVE  Sum(f, T) = f[y] + Sum(f, T \ {y})
    <3>1. T # {} /\ Pick(T) \in T /\ Sum(f, T) = f[Pick(T)] + Sum(f, T \ {Pick(T)})
      BY <1>1
    <3>2. PICK c \in T : c = Pick(T)
      BY <3>1
    <3>3. CASE y = c
      BY <3>1, <3>2, <3>3
    <3>4. CASE y # c
      <4>1. Cardinality(T \ {c}) = n /\ Cardinality(T \ {y}) = n
        <5>1. Cardinality(T \ {c}) = Cardinality(T) - 1 /\ Cardinality(T \ {y}) = Cardinality(T) - 1
          BY <1>1, FS_RemoveElement
        <5> QED
          BY <2>1, <5>1
      <4>2. T \ {c} \in SUBSET S /\ T \ {y} \in SUBSET S /\ y \in T \ {c} /\ c \in T \ {y}
        BY <3>4
      <4>3. Sum(f, T \ {c}) = f[y] + Sum(f, (T \ {c}) \ {y})
        BY <1>3, <4>1, <4>2
      <4>4. Sum(f, T \ {y}) = f[c] + Sum(f, (T \ {y}) \ {c})
        BY <1>3, <4>1, <4>2
      <4>5. (T \ {c}) \ {y} = (T \ {y}) \ {c}
        OBVIOUS
      <4>6. PICK a \in Int, b \in Int, u \in Int :
               a = f[c] /\ b = f[y] /\ u = Sum(f, (T \ {c}) \ {y})
        <5>1. (T \ {c}) \ {y} \in SUBSET S /\ c \in S /\ y \in S
          OBVIOUS
        <5> QED
          BY <1>1, <5>1 DEF Summed
      <4>7. Sum(f, T) = a + (b + u) /\ Sum(f, T \ {y}) = a + u
        BY <3>1, <3>2, <4>3, <4>4, <4>5, <4>6
      <4> QED
        BY <4>6, <4>7
    <3> QED
      BY <3>3, <3>4
  <2>2. P(n + 1)
    BY <2>1
  <2> HIDE DEF P
  <2> QED
    BY <2>2
<1> HIDE DEF K
<1>4. Cardinality(S) \in K
  BY <1>2, <1>3, Rises, FS_CardinalityType
<1> QED
  BY <1>4 DEF K

(* Sums of functions that agree.                                           *)
LEMMA SumSame ==
    ASSUME NEW S, IsFiniteSet(S), NEW f, Summed(f, S), NEW g, \A x \in S : g[x] = f[x]
    PROVE  Sum(g, S) = Sum(f, S)
<1> DEFINE G == {T \in SUBSET S : Sum(g, T) = Sum(f, T)}
<1>1. {} \in G
  BY SumNone
<1>2. ASSUME NEW T \in SUBSET S, NEW x \in S, T \in G, x \notin T PROVE T \cup {x} \in G
  <2> DEFINE U == T \cup {x}
  <2>1. IsFiniteSet(U) /\ Summed(f, U) /\ Summed(g, U) /\ U \ {x} = T /\ x \in U /\ U \in SUBSET S
    BY <1>2, FS_Subset DEF Summed
  <2> HIDE DEF U
  <2>2. Sum(f, U) = f[x] + Sum(f, T) /\ Sum(g, U) = g[x] + Sum(g, T)
    BY <2>1, SumTaken
  <2>3. Sum(g, U) = Sum(f, U)
    BY <1>2, <2>2
  <2> QED
    BY <2>1, <2>3 DEF U
<1> HIDE DEF G
<1>3. S \in G
  BY <1>1, <1>2, Grows
<1> QED
  BY <1>3 DEF G

(* The sum of sums.                                                        *)
LEMMA SumAdds ==
    ASSUME NEW S, IsFiniteSet(S), NEW f, Summed(f, S), NEW g, Summed(g, S),
           NEW h, \A x \in S : h[x] = f[x] + g[x]
    PROVE  Sum(h, S) = Sum(f, S) + Sum(g, S)
<1> DEFINE G == {T \in SUBSET S : Sum(h, T) = Sum(f, T) + Sum(g, T)}
<1>1. {} \in G
  <2>1. Sum(h, {}) = 0 /\ Sum(f, {}) = 0 /\ Sum(g, {}) = 0
    BY SumNone
  <2> QED
    BY <2>1
<1>2. ASSUME NEW T \in SUBSET S, NEW x \in S, T \in G, x \notin T PROVE T \cup {x} \in G
  <2> DEFINE U == T \cup {x}
  <2>1. IsFiniteSet(U) /\ Summed(f, U) /\ Summed(g, U) /\ U \ {x} = T /\ x \in U /\ U \in SUBSET S
        /\ IsFiniteSet(T) /\ Summed(f, T) /\ Summed(g, T)
    BY <1>2, FS_Subset DEF Summed
  <2> HIDE DEF U
  <2>2. Summed(h, U)
    BY <2>1 DEF Summed
  <2>3. Sum(f, U) = f[x] + Sum(f, T) /\ Sum(g, U) = g[x] + Sum(g, T) /\ Sum(h, U) = h[x] + Sum(h, T)
    BY <2>1, <2>2, SumTaken
  <2>4. Sum(f, T) \in Int /\ Sum(g, T) \in Int
    BY <2>1, SumFirst
  <2>5. f[x] \in Int /\ g[x] \in Int /\ h[x] = f[x] + g[x] /\ Sum(h, T) = Sum(f, T) + Sum(g, T)
    BY <1>2 DEF Summed
  <2>6. Sum(h, U) = Sum(f, U) + Sum(g, U)
    BY <2>3, <2>4, <2>5
  <2> QED
    BY <2>1, <2>6 DEF U
<1> HIDE DEF G
<1>3. S \in G
  BY <1>1, <1>2, Grows
<1> QED
  BY <1>3 DEF G

(* What is zero need not be summed.                                        *)
LEMMA SumWithin ==
    ASSUME NEW S, IsFiniteSet(S), NEW f, Summed(f, S), NEW R \in SUBSET S, \A x \in S \ R : f[x] = 0
    PROVE  Sum(f, S) = Sum(f, R)
<1> DEFINE G == {T \in SUBSET S : Sum(f, T) = Sum(f, T \cap R)}
<1>1. {} \in G
  <2>1. {} \cap R = {}
    OBVIOUS
  <2> QED
    BY <2>1
<1>2. ASSUME NEW T \in SUBSET S, NEW x \in S, T \in G, x \notin T PROVE T \cup {x} \in G
  <2> DEFINE U == T \cup {x}
  <2>1. IsFiniteSet(U) /\ Summed(f, U) /\ U \ {x} = T /\ x \in U /\ U \in SUBSET S
        /\ IsFiniteSet(U \cap R) /\ Summed(f, U \cap R) /\ IsFiniteSet(T) /\ Summed(f, T)
    BY <1>2, FS_Subset DEF Summed
  <2>2. x \in R => x \in U \cap R /\ (U \cap R) \ {x} = T \cap R
    BY <1>2
  <2>3. x \notin R => U \cap R = T \cap R
    OBVIOUS
  <2> HIDE DEF U
  <2>4. Sum(f, U) = f[x] + Sum(f, T)
    BY <2>1, SumTaken
  <2>5. x \in R => Sum(f, U \cap R) = f[x] + Sum(f, T \cap R)
    BY <2>1, <2>2, SumTaken
  <2>6. x \notin R => f[x] = 0 /\ Sum(f, T) \in Int
    BY <2>1, SumFirst
  <2>7. Sum(f, T) = Sum(f, T \cap R)
    BY <1>2
  <2>8. CASE x \in R
    <3>1. Sum(f, U) = Sum(f, U \cap R)
      BY <2>4, <2>5, <2>7, <2>8
    <3> QED
      BY <2>1, <3>1 DEF U
  <2>9. CASE x \notin R
    <3>1. Sum(f, U) = 0 + Sum(f, T) /\ U \cap R = T \cap R /\ Sum(f, T) \in Int
      BY <2>3, <2>4, <2>6, <2>9 DEF U
    <3>2. Sum(f, U) = Sum(f, T)
      BY <3>1
    <3>3. Sum(f, U \cap R) = Sum(f, T \cap R)
      BY <3>1
    <3>4. Sum(f, U) = Sum(f, U \cap R)
      BY <2>7, <3>2, <3>3
    <3> QED
      BY <2>1, <3>4 DEF U
  <2> QED
    BY <2>8, <2>9
<1> HIDE DEF G
<1>3. S \in G
  BY <1>1, <1>2, Grows
<1>4. S \cap R = R
  OBVIOUS
<1> QED
  BY <1>3, <1>4 DEF G

(* A sum is positive only if something summed is.                          *)
LEMMA SumPositive ==
    ASSUME NEW S, IsFiniteSet(S), NEW f, Summed(f, S), Sum(f, S) > 0
    PROVE  \E x \in S : f[x] > 0
<1>0. Sum(f, S) \in Int /\ \A x \in S : f[x] \in Int
  BY SumFirst DEF Summed
<1> SUFFICES ASSUME \A x \in S : f[x] <= 0 PROVE Sum(f, S) <= 0
  BY <1>0
<1> DEFINE G == {T \in SUBSET S : Sum(f, T) <= 0}
<1>1. {} \in G
  BY SumNone
<1>2. ASSUME NEW T \in SUBSET S, NEW x \in S, T \in G, x \notin T PROVE T \cup {x} \in G
  <2> DEFINE U == T \cup {x}
  <2>1. IsFiniteSet(U) /\ Summed(f, U) /\ U \ {x} = T /\ x \in U /\ U \in SUBSET S
        /\ IsFiniteSet(T) /\ Summed(f, T)
    BY <1>2, FS_Subset DEF Summed
  <2> HIDE DEF U
  <2>2. Sum(f, U) = f[x] + Sum(f, T) /\ Sum(f, T) \in Int /\ f[x] \in Int
    BY ZenonT(40), <2>1, SumTaken, SumFirst DEF Summed
  <2>3. Sum(f, U) <= 0
    BY <1>2, <2>2
  <2> QED
    BY <2>1, <2>3 DEF U
<1> HIDE DEF G
<1>3. S \in G
  BY <1>1, <1>2, Grows
<1> QED
  BY <1>3 DEF G

(* Nothing summed is more than the sum, if nothing is negative.            *)
LEMMA SumCovers ==
    ASSUME NEW S, IsFiniteSet(S), NEW f, \A x \in S : f[x] \in Nat
    PROVE  Sum(f, S) \in Nat /\ \A x \in S : f[x] <= Sum(f, S)
<1> DEFINE G == {T \in SUBSET S : Sum(f, T) \in Nat}
<1>1. {} \in G
  BY SumNone
<1>2. ASSUME NEW T \in SUBSET S, NEW x \in S, T \in G, x \notin T PROVE T \cup {x} \in G
  <2> DEFINE U == T \cup {x}
  <2>1. IsFiniteSet(U) /\ Summed(f, U) /\ U \ {x} = T /\ x \in U /\ U \in SUBSET S
    BY <1>2, FS_Subset DEF Summed
  <2> HIDE DEF U
  <2>2. Sum(f, U) = f[x] + Sum(f, T) /\ f[x] \in Nat
    BY <2>1, SumTaken
  <2>3. Sum(f, U) \in Nat
    BY <1>2, <2>2
  <2> QED
    BY <2>1, <2>3 DEF U
<1>3. \A T \in SUBSET S : T \in G
  <2>1. SUFFICES ASSUME NEW T \in SUBSET S PROVE T \in G
    OBVIOUS
  <2>2. IsFiniteSet(T) /\ \A W \in SUBSET T, x \in T : W \in G /\ x \notin W => W \cup {x} \in G
    BY <1>2, FS_Subset
  <2> HIDE DEF G
  <2> QED
    BY <1>1, <2>2, Grows
<1>4. ASSUME NEW x \in S PROVE f[x] <= Sum(f, S)
  <2>1. Sum(f, S) = f[x] + Sum(f, S \ {x}) /\ S \ {x} \in SUBSET S
    BY SumTaken DEF Summed
  <2>2. Sum(f, S \ {x}) \in Nat
    BY <1>3, <2>1
  <2> QED
    BY <2>1, <2>2
<1> QED
  BY <1>3, <1>4

(* One element changes.                                                    *)
LEMMA SumChange ==
    ASSUME NEW S, IsFiniteSet(S), NEW f, Summed(f, S), NEW z \in S,
           NEW g, g[z] \in Int, \A x \in S \ {z} : g[x] = f[x]
    PROVE  Sum(g, S) = Sum(f, S) - f[z] + g[z]
<1> DEFINE T == S \ {z}
<1>1. IsFiniteSet(T) /\ Summed(f, T) /\ Summed(g, S)
  BY FS_Subset DEF Summed
<1> HIDE DEF T
<1>2. Sum(g, T) = Sum(f, T) /\ Sum(f, T) \in Int
  BY <1>1, SumSame, SumFirst DEF T
<1>3. Sum(g, S) = g[z] + Sum(g, T) /\ Sum(f, S) = f[z] + Sum(f, T) /\ f[z] \in Int
  BY <1>1, SumTaken DEF T, Summed
<1> QED
  BY <1>2, <1>3

(* Of finitely many numbers one is the greatest, or as great as any other. *)
LEMMA Greatest ==
    ASSUME NEW S, IsFiniteSet(S), S # {}, NEW f, Summed(f, S)
    PROVE  \E x \in S : \A y \in S : f[y] <= f[x]
<1> DEFINE G == {T \in SUBSET S : T = {} \/ \E x \in T : \A y \in T : f[y] <= f[x]}
<1>1. {} \in G
  OBVIOUS
<1>2. ASSUME NEW T \in SUBSET S, NEW z \in S, T \in G, z \notin T PROVE T \cup {z} \in G
  <2>1. CASE T = {}
    BY <2>1 DEF Summed
  <2>2. CASE T # {}
    <3>1. PICK x \in T : \A y \in T : f[y] <= f[x]
      BY <1>2, <2>2
    <3>2. \A y \in T \cup {z} : f[y] \in Int
      BY DEF Summed
    <3>3. CASE f[z] <= f[x]
      BY <3>1, <3>3
    <3>4. CASE f[x] <= f[z]
      <4>1. \A y \in T \cup {z} : f[y] <= f[z]
        BY <3>1, <3>2, <3>4
      <4> QED
        BY <4>1
    <3> QED
      BY <3>2, <3>3, <3>4
  <2> QED
    BY <2>1, <2>2
<1> HIDE DEF G
<1>3. S \in G
  BY <1>1, <1>2, Grows
<1> QED
  BY <1>3 DEF G

\* What the servers use of sets and sequences is what the proofs use of them.
LEMMA PeersSets ==
    \A S : /\ Peers!IsFiniteSet(S) <=> IsFiniteSet(S)
           /\ Peers!Cardinality(S) = Cardinality(S)
           /\ Peers!ToSet(S) = ToSet(S)
           /\ Peers!IsInjective(S) <=> IsInjective(S)
<1>1. \A S : Peers!IsFiniteSet(S) <=> IsFiniteSet(S)
  BY DEF Peers!IsFiniteSet, IsFiniteSet
<1>2. \A S : Peers!Cardinality(S) = Cardinality(S)
  BY DEF Peers!Cardinality, Cardinality
<1>3. \A S : Peers!ToSet(S) = ToSet(S)
  BY DEF Peers!ToSet, ToSet
<1>4. \A S : Peers!IsInjective(S) <=> IsInjective(S)
  BY DEF Peers!IsInjective, IsInjective
<1> QED
  BY <1>1, <1>2, <1>3, <1>4

(* The rank of a number in a set of numbers.                               *)
Rank(K, i) == Cardinality({j \in K : j <= i})

\* The ranks of numbers in a set of numbers are 1, 2, and so on, in their order.
LEMMA RankIs ==
    ASSUME NEW l \in Nat, NEW K \in SUBSET (1 .. l)
    PROVE  /\ Cardinality(K) \in Nat
           /\ \A i \in K : Rank(K, i) \in 1 .. Cardinality(K)
           /\ \A i, k \in K : i < k => Rank(K, i) < Rank(K, k)
           /\ \A n \in 1 .. Cardinality(K) : \E i \in K : Rank(K, i) = n
           /\ K = 1 .. l => \A i \in K : Rank(K, i) = i
<1> DEFINE B(i) == {j \in K : j <= i}
           f == [i \in K |-> Rank(K, i)]
           m == Cardinality(K)
<1>1. IsFiniteSet(K) /\ m \in Nat /\ \A i \in K : i \in Int
  <2>1. IsFiniteSet(1 .. l)
    BY FS_Interval
  <2>2. IsFiniteSet(K)
    BY <2>1, FS_Subset
  <2> QED
    BY <2>2, FS_CardinalityType
<1>2. ASSUME NEW i \in K PROVE IsFiniteSet(B(i)) /\ Rank(K, i) \in 1 .. m
  <2>1. B(i) \in SUBSET K /\ i \in B(i)
    BY <1>1
  <2>2. IsFiniteSet(B(i)) /\ Cardinality(B(i)) <= m /\ Cardinality(B(i)) \in Nat
          /\ Cardinality(B(i)) # 0
    BY <1>1, <2>1, FS_Subset, FS_CardinalityType, FS_EmptySet
  <2> QED
    BY <1>1, <2>2 DEF Rank
<1>3. ASSUME NEW i \in K, NEW k \in K, i < k PROVE Rank(K, i) < Rank(K, k)
  <2>1. B(i) \in SUBSET B(k) /\ k \in B(k) /\ k \notin B(i)
    <3>1. i \in Int /\ k \in Int /\ \A j \in K : j \in Int
      BY <1>1
    <3>2. \A j \in K : j <= i => j <= k
      BY <1>3, <3>1
    <3>3. k <= k /\ ~(k <= i)
      BY <1>3, <3>1
    <3> QED
      BY <3>2, <3>3
  <2>2. Cardinality(B(i)) <= Cardinality(B(k)) /\ Cardinality(B(k)) # Cardinality(B(i))
    BY <1>2, <2>1, FS_Subset
  <2>3. Cardinality(B(i)) \in Nat /\ Cardinality(B(k)) \in Nat
    BY <1>2, FS_CardinalityType
  <2> QED
    BY <2>2, <2>3 DEF Rank
<1>4. f \in Injection(K, 1 .. m)
  <2>1. f \in [K -> 1 .. m]
    BY <1>2
  <2>2. ASSUME NEW i \in K, NEW k \in K, f[i] = f[k] PROVE i = k
    <3>1. i \in Int /\ k \in Int /\ Rank(K, i) \in Int /\ Rank(K, k) \in Int
      <4>1. Rank(K, i) \in 1 .. m /\ Rank(K, k) \in 1 .. m
        BY <1>2
      <4> QED
        BY <1>1, <4>1
    <3>2. Rank(K, i) = Rank(K, k)
      BY <2>2
    <3>3. ~(i < k) /\ ~(k < i)
      BY <1>3, <3>1, <3>2
    <3> QED
      BY <3>1, <3>3
  <2> QED
    BY <2>1, <2>2 DEF Injection, IsInjective
<1>5. \A n \in 1 .. m : \E i \in K : f[i] = n
  <2>1. IsFiniteSet(1 .. m) /\ Cardinality(1 .. m) = m
    BY <1>1, FS_Interval
  <2> HIDE DEF f, m
  <2>2. f \in Surjection(K, 1 .. m)
    BY <1>4, <2>1, FS_Injection DEF m
  <2> QED
    BY <2>2 DEF Surjection
<1>6. ASSUME K = 1 .. l, NEW i \in K PROVE Rank(K, i) = i
  <2>1. B(i) = 1 .. i /\ i \in Int /\ 1 <= i
    BY <1>1, <1>6
  <2>2. Cardinality(1 .. i) = i
    BY <2>1, FS_Interval
  <2> QED
    BY <2>1, <2>2 DEF Rank
<1> QED
  BY <1>1, <1>2, <1>3, <1>5, <1>6

(* What Among keeps of a sequence.                                         *)
LEMMA AmongIs ==
    ASSUME NEW S, NEW q \in Seq(S), NEW T
    PROVE  LET a == Peers!Among(q, T) IN
           /\ a \in Seq(S)
           /\ \A n \in DOMAIN a : a[n] \in T /\ \E i \in DOMAIN q : q[i] = a[n]
           /\ \A i \in DOMAIN q : q[i] \in T => \E n \in DOMAIN a : a[n] = q[i]
           /\ IsInjective(q) => IsInjective(a)
           /\ (\A i \in DOMAIN q : q[i] \in T) => a = q
<1> DEFINE K == {i \in DOMAIN q : q[i] \in T}
           m == Cardinality(K)
           nth(n) == CHOOSE i \in K : Rank(K, i) = n
           a == Peers!Among(q, T)
<1>1. Len(q) \in Nat /\ DOMAIN q = 1 .. Len(q) /\ K \in SUBSET (1 .. Len(q))
  OBVIOUS
<1>2. a = [n \in 1 .. m |-> q[nth(n)]]
  BY DEF Peers!Among, Rank, Peers!Cardinality, Cardinality
<1>3. /\ m \in Nat
      /\ \A i \in K : Rank(K, i) \in 1 .. m
      /\ \A i, k \in K : i < k => Rank(K, i) < Rank(K, k)
      /\ \A n \in 1 .. m : \E i \in K : Rank(K, i) = n
      /\ K = 1 .. Len(q) => \A i \in K : Rank(K, i) = i
  BY <1>1, RankIs
<1>4. \A n \in 1 .. m : nth(n) \in K /\ Rank(K, nth(n)) = n
  BY <1>3
<1>5. \A i \in K : q[i] \in S /\ q[i] \in T /\ i \in DOMAIN q
  BY <1>1
<1>6. a \in Seq(S)
  <2>1. a \in [1 .. m -> S]
    BY <1>2, <1>4, <1>5
  <2> QED
    BY <1>3, <2>1
<1>7. DOMAIN a = 1 .. m /\ \A n \in 1 .. m : a[n] = q[nth(n)]
  BY <1>2
<1> HIDE DEF a, nth
<1>8. \A n \in DOMAIN a : a[n] \in T /\ \E i \in DOMAIN q : q[i] = a[n]
  BY <1>4, <1>5, <1>7
<1>9. ASSUME NEW i \in K PROVE nth(Rank(K, i)) = i
  <2>1. Rank(K, i) \in 1 .. m
    BY <1>3
  <2>2. nth(Rank(K, i)) \in K /\ Rank(K, nth(Rank(K, i))) = Rank(K, i)
    BY <1>4, <2>1
  <2>3. \A x, y \in K : x < y \/ y < x \/ x = y
    BY <1>1
  <2> QED
    BY <1>3, <2>1, <2>2, <2>3
<1>10. ASSUME NEW i \in DOMAIN q, q[i] \in T PROVE \E n \in DOMAIN a : a[n] = q[i]
  <2>1. i \in K /\ Rank(K, i) \in 1 .. m
    BY <1>3, <1>10
  <2> QED
    BY <1>7, <1>9, <2>1
<1>11. ASSUME IsInjective(q) PROVE IsInjective(a)
  <2>1. ASSUME NEW n \in 1 .. m, NEW k \in 1 .. m, q[nth(n)] = q[nth(k)] PROVE n = k
    <3>1. nth(n) = nth(k)
      BY <1>4, <1>5, <1>11, <2>1 DEF IsInjective
    <3> QED
      BY <1>4, <3>1
  <2> QED
    BY <1>7, <2>1 DEF IsInjective
<1>12. ASSUME \A i \in DOMAIN q : q[i] \in T PROVE a = q
  <2>1. K = 1 .. Len(q)
    BY <1>1, <1>12
  <2>2. m = Len(q)
    <3>1. \A l \in Nat : Cardinality(1 .. l) = l
      BY FS_Interval
    <3> QED
      BY <1>1, <2>1, <3>1
  <2>3. \A n \in 1 .. m : nth(n) = n
    BY <1>3, <1>9, <2>1
  <2> HIDE DEF K, m
  <2>4. \A n \in DOMAIN q : a[n] = q[n]
    BY <1>1, <1>7, <2>2, <2>3
  <2>5. DOMAIN a = DOMAIN q
    BY <1>1, <1>7, <2>2
  <2>6. Len(a) = Len(q) /\ q \in Seq(S)
    BY <1>6, <2>5
  <2> HIDE DEF a
  <2> QED
    BY <1>6, <2>4, <2>5
<1> QED
  BY <1>6, <1>8, <1>10, <1>11, <1>12 DEF a

\* A sum of zeros is 0.
LEMMA SumZero ==
    ASSUME NEW S, IsFiniteSet(S), NEW f, \A x \in S : f[x] = 0
    PROVE  Sum(f, S) = 0
<1>1. Summed(f, S) /\ {} \in SUBSET S /\ \A x \in S \ {} : f[x] = 0
  BY DEF Summed
<1>2. Sum(f, S) = Sum(f, {})
  BY <1>1, SumWithin
<1> QED
  BY <1>2, SumNone

(* A sum over other names for the same things.                             *)
LEMMA SumMoved ==
    ASSUME NEW S, IsFiniteSet(S), NEW R, IsFiniteSet(R), NEW f, Summed(f, R), NEW b \in [S -> R],
           \A x, y \in S : b[x] = b[y] => x = y, NEW g, \A x \in S : g[x] = f[b[x]]
    PROVE  Sum(g, S) = Sum(f, {b[x] : x \in S})
<1> DEFINE I(T) == {b[x] : x \in T}
           G == {T \in SUBSET S : Sum(g, T) = Sum(f, I(T))}
<1>1. {} \in G
  <2>1. I({}) = {}
    OBVIOUS
  <2> HIDE DEF I
  <2> QED
    BY <2>1, SumNone
<1>2. ASSUME NEW T \in SUBSET S, NEW x \in S, T \in G, x \notin T PROVE T \cup {x} \in G
  <2> DEFINE U == T \cup {x}
  <2>1. I(U) \in SUBSET R /\ I(T) \in SUBSET R /\ b[x] \in I(U) /\ I(U) \ {b[x]} = I(T)
    BY <1>2
  <2>2. IsFiniteSet(U) /\ Summed(g, U) /\ U \ {x} = T /\ x \in U /\ U \in SUBSET S
    BY <1>2, FS_Subset DEF Summed
  <2> HIDE DEF U, I
  <2>3. IsFiniteSet(I(U)) /\ Summed(f, I(U))
    BY <2>1, FS_Subset DEF Summed
  <2>4. Sum(g, U) = g[x] + Sum(g, T)
    BY <2>2, SumTaken
  <2>5. Sum(f, I(U)) = f[b[x]] + Sum(f, I(T))
    BY <2>1, <2>3, SumTaken
  <2>6. Sum(g, U) = Sum(f, I(U))
    BY <1>2, <2>4, <2>5
  <2> QED
    BY <2>2, <2>6 DEF U
<1> HIDE DEF G
<1>3. S \in G
  BY <1>1, <1>2, Grows
<1> QED
  BY <1>3 DEF G

\* A server in memory.
PeerRec ==
    [addr : Addrs, cw : Int, ew : Nat, conns : Nat, refs : Nat, fails : Nat, accessed : Nat,
     checked : Nat, zombie : BOOLEAN]
\* The peer data of a request.
SeekerRec ==
    [pc : {"init", "get", "connected", "done"}, config : Nat, group : {1, 2},
     current : Memory \cup {0}, addr : Addrs \cup {0}, tried : SUBSET Nat, tries : Nat,
     used : SUBSET Addrs]

\* The requests whose server is at p, the peer data of requests being q.
Holding(q, p) == {r \in Seekers : q[r].current = p}
\* The place p is in a list.
Listed(l, p) == \E g \in 1 .. 2 : \E i \in DOMAIN l[g] : l[g][i] = p
\* The current weights of a group, by position.
Credits(g) == [i \in DOMAIN list[g] |-> mem[list[g][i]].cw]
\* The configured weight of an address.
Weight(a) == upstream.weight[a]
\* What the weights add up to: the choices of a round.
AllWeights == Sum(upstream.weight, Addrs)
\* The choices made in this round.
AllPicked == Sum(picked, Addrs)

\* Every variable has its type.
PeersTyped ==
    /\ upstream \in Upstreams
    /\ mem \in [Memory -> PeerRec \cup {[addr |-> 0]}]
    /\ list \in [1 .. 2 -> Seq(Memory)]
    /\ config \in 0 .. upstream.changes /\ seconds \in 0 .. upstream.time
    /\ rrp \in [Seekers -> SeekerRec]
    /\ orphans \in [Memory -> Nat] /\ probed \in [Memory -> Int] /\ picked \in [Addrs -> Nat]

\* Weights, times and counts of servers stay within their bounds.
PeersBounded ==
    \A p \in Memory : mem[p].addr # 0 =>
        /\ mem[p].ew <= Weight(mem[p].addr)
        /\ mem[p].accessed <= seconds /\ mem[p].checked <= seconds
        /\ mem[p].conns = mem[p].refs
        /\ upstream.maxconns > 0 => mem[p].conns <= upstream.maxconns

\* Lists hold live servers of different addresses, and share no place.
ListsApart ==
    /\ \A g \in 1 .. 2 : \A i \in DOMAIN list[g] :
        mem[list[g][i]].addr # 0 /\ ~mem[list[g][i]].zombie
    /\ \A g \in 1 .. 2 : \A i, j \in DOMAIN list[g] :
        mem[list[g][i]].addr = mem[list[g][j]].addr => i = j
    /\ \A i \in DOMAIN list[1], j \in DOMAIN list[2] : list[1][i] # list[2][j]

\* References are the requests at a server; what is in no list lives by them.
RefsCounted ==
    \A p \in Memory :
        IF mem[p].addr = 0 THEN orphans[p] = 0
        ELSE /\ mem[p].refs = Cardinality(Holding(rrp, p)) + orphans[p]
             /\ ~Listed(list, p) => mem[p].zombie /\ mem[p].refs > 0

\* A connected request is at the server it remembers, and none has a later list.
RequestsPlaced ==
    \A r \in Seekers :
        /\ rrp[r].pc = "connected" <=> rrp[r].current # 0
        /\ rrp[r].current # 0 => rrp[r].addr # 0 /\ mem[rrp[r].current].addr = rrp[r].addr
        /\ rrp[r].config <= config

\* As long as the lists stay, what a request used is what it marked as tried.
TriedKnown ==
    \A r \in Seekers : rrp[r].config = config /\ rrp[r].pc \in {"get", "connected"} =>
        /\ ~Peers!Single(rrp[r].group) => \A a \in rrp[r].used :
              \E i \in rrp[r].tried : /\ i \in DOMAIN list[rrp[r].group]
                                      /\ mem[list[rrp[r].group][i]].addr = a
        /\ rrp[r].pc = "get" /\ Peers!Single(rrp[r].group) => rrp[r].used = {}

\* A listed server was checked when it was probed, or later.
ProbesPast ==
    \A g \in 1 .. 2 : \A i \in DOMAIN list[g] : probed[list[g][i]] <= mem[list[g][i]].checked

\* The current weights of a group that is never resolved add up to 0.
Balanced == \A g \in (1 .. 2) \ upstream.resolving : Sum(Credits(g), DOMAIN list[g]) = 0

\* Without failures the current weight of a server says how far its choices are ahead or behind.
Turns ==
    /\ ~Peers!Steady => \A a \in Addrs : picked[a] = 0
    /\ Peers!Steady =>
        /\ \A r \in Seekers : rrp[r].pc = "get" => rrp[r].tried = {}
             /\ (rrp[r].group = 1 \/ Addrs = {})
        /\ \A a \in Addrs : \E i \in DOMAIN list[1] : mem[list[1][i]].addr = a
        /\ \A a \in Addrs : picked[a] <= Weight(a)
        /\ Addrs # {} => AllPicked < AllWeights
        /\ \A i \in DOMAIN list[1] : LET m == mem[list[1][i]] IN
            /\ m.ew = Weight(m.addr) /\ m.fails = 0
            /\ m.cw = AllPicked * Weight(m.addr) - AllWeights * picked[m.addr]

\* The invariant of the servers.
PeersInv ==
    /\ PeersTyped /\ PeersBounded /\ ListsApart /\ RefsCounted
    /\ RequestsPlaced /\ TriedKnown /\ ProbesPast /\ Balanced /\ Turns

\* What is assumed of a scenario.
LEMMA ScenarioFacts ==
    ASSUME upstream \in Upstreams
    PROVE  /\ Memory \subseteq Nat \ {0} /\ 0 \notin Addrs
           /\ IsFiniteSet(Seekers) /\ IsFiniteSet(Addrs)
           /\ upstream.weight \in [Addrs -> Nat \ {0}]
           /\ upstream.primary \in Seq(Addrs) /\ upstream.backup \in Seq(Addrs)
           /\ IsInjective(upstream.primary) /\ IsInjective(upstream.backup)
           /\ \A q \in upstream.answers : q \in Seq(Addrs) /\ IsInjective(q)
           /\ upstream.maxconns \in Nat /\ upstream.maxfails \in Nat /\ upstream.timeout \in Nat
           /\ upstream.room \in Nat /\ upstream.changes \in Nat /\ upstream.time \in Nat
           /\ 1 .. upstream.room \subseteq Memory
           /\ upstream.room >= Len(upstream.primary) + Len(upstream.backup)
           /\ upstream.resolving \subseteq {1, 2} /\ upstream.fails \in BOOLEAN
<1>1. Peers!PeersAssumption
  BY PartsAssumption
<1> QED
  BY <1>1, PeersSets DEF Peers!PeersAssumption, Peers!Null

\* A function on 1 .. n is a sequence.
LEMMA IsASequence ==
    ASSUME NEW S, NEW n \in Nat, NEW s \in [1 .. n -> S]
    PROVE  s \in Seq(S)
OBVIOUS

\* Two sequences, one after the other.
LEMMA Joined ==
    ASSUME NEW S, NEW s \in Seq(S), NEW t \in Seq(S)
    PROVE  /\ Len(s) \in Nat /\ Len(t) \in Nat /\ DOMAIN s = 1 .. Len(s) /\ DOMAIN t = 1 .. Len(t)
           /\ s \o t \in Seq(S) /\ Len(s \o t) = Len(s) + Len(t)
           /\ DOMAIN (s \o t) = 1 .. Len(s \o t)
           /\ \A i \in DOMAIN s : (s \o t)[i] = s[i]
           /\ \A i \in DOMAIN t : (s \o t)[Len(s) + i] = t[i]
OBVIOUS

\* The invariant holds when the zone has been initialised.
LEMMA PeersInitially == Peers!Init => PeersInv
<1> SUFFICES ASSUME Peers!Init PROVE PeersInv
  OBVIOUS
<1> DEFINE P == upstream.primary
           B == upstream.backup
           Q == P \o B
<1>1. /\ upstream \in Upstreams
      /\ list = <<[i \in DOMAIN P |-> i], [i \in DOMAIN B |-> Len(P) + i]>>
      /\ mem = [p \in Memory |-> IF p <= Len(Q) THEN Peers!NewPeer(Q[p]) ELSE Peers!FreeMemory]
      /\ config = 0 /\ seconds = 0
      /\ rrp = [r \in Seekers |-> Peers!NewRequest]
      /\ orphans = [p \in Memory |-> 0] /\ probed = [p \in Memory |-> -1]
      /\ picked = [a \in Addrs |-> 0]
  BY DEF Peers!Init
<1>2. /\ Memory \subseteq Nat \ {0} /\ 0 \notin Addrs
      /\ IsFiniteSet(Seekers) /\ IsFiniteSet(Addrs)
      /\ upstream.weight \in [Addrs -> Nat \ {0}]
      /\ P \in Seq(Addrs) /\ B \in Seq(Addrs)
      /\ IsInjective(P) /\ IsInjective(B)
      /\ upstream.maxconns \in Nat /\ upstream.maxfails \in Nat
      /\ upstream.room \in Nat /\ upstream.changes \in Nat /\ upstream.time \in Nat
      /\ 1 .. upstream.room \subseteq Memory
      /\ upstream.room >= Len(P) + Len(B)
  BY <1>1, ScenarioFacts
<1> DEFINE U == upstream.weight
<1> HIDE DEF P, B, U
<1>3. /\ Len(P) \in Nat /\ Len(B) \in Nat /\ DOMAIN P = 1 .. Len(P) /\ DOMAIN B = 1 .. Len(B)
      /\ Q \in Seq(Addrs) /\ Len(Q) = Len(P) + Len(B) /\ DOMAIN Q = 1 .. Len(Q)
      /\ \A i \in DOMAIN P : Q[i] = P[i]
      /\ \A i \in DOMAIN B : Q[Len(P) + i] = B[i]
  <2>1. P \in Seq(Addrs) /\ B \in Seq(Addrs)
    BY <1>2
  <2> QED
    BY ONLY <2>1, Joined
<1> DEFINE l == Len(P)
           n == Len(Q)
<1>4. 1 .. n \subseteq Memory
  BY <1>2, <1>3
<1> HIDE DEF Q, l, n
<1>5. l \in Nat /\ n \in Nat /\ DOMAIN P = 1 .. l /\ DOMAIN B = 1 .. Len(B) /\ n = l + Len(B)
        /\ DOMAIN Q = 1 .. n
  BY <1>3 DEF l, n
<1>6. list[1] = [i \in DOMAIN P |-> i] /\ list[2] = [i \in DOMAIN B |-> l + i]
  BY <1>1 DEF l
<1>7. list[1] \in Seq(Memory) /\ list[2] \in Seq(Memory)
  <2>1. list[1] \in [1 .. l -> Memory]
    BY <1>4, <1>5, <1>6
  <2>2. list[2] \in [1 .. Len(B) -> Memory]
    BY <1>3, <1>4, <1>5, <1>6
  <2>3. Len(B) \in Nat
    BY <1>3
  <2> QED
    BY <1>5, <2>1, <2>2, <2>3, IsASequence
<1>8. list \in [1 .. 2 -> Seq(Memory)]
  <2>1. DOMAIN list = 1 .. 2 /\ list = [g \in 1 .. 2 |-> list[g]]
    BY <1>1
  <2>2. \A g \in 1 .. 2 : g = 1 \/ g = 2
    OBVIOUS
  <2> QED
    BY <1>7, <2>1, <2>2
<1>9. ASSUME NEW p \in Memory
      PROVE  /\ p <= n => /\ p \in DOMAIN Q /\ Q[p] \in Addrs /\ mem[p] \in PeerRec
                          /\ mem[p].addr = Q[p] /\ mem[p].cw = 0 /\ mem[p].ew = U[Q[p]]
                          /\ mem[p].conns = 0 /\ mem[p].refs = 0 /\ mem[p].fails = 0
                          /\ mem[p].accessed = 0 /\ mem[p].checked = 0 /\ ~mem[p].zombie
             /\ ~(p <= n) => mem[p] = [addr |-> 0] /\ mem[p].addr = 0
  <2>1. p \in Nat \ {0}
    BY <1>2
  <2>2. p <= n => p \in DOMAIN Q /\ Q[p] \in Addrs
    BY <1>3, <1>5, <2>1
  <2>3. mem[p] = IF p <= n THEN Peers!NewPeer(Q[p]) ELSE Peers!FreeMemory
    BY <1>1 DEF n
  <2>4. ASSUME p <= n
        PROVE  /\ mem[p] \in PeerRec
               /\ mem[p].addr = Q[p] /\ mem[p].cw = 0 /\ mem[p].ew = U[Q[p]]
               /\ mem[p].conns = 0 /\ mem[p].refs = 0 /\ mem[p].fails = 0
               /\ mem[p].accessed = 0 /\ mem[p].checked = 0 /\ ~mem[p].zombie
    <3>1. mem[p] = [addr |-> Q[p], cw |-> 0, ew |-> U[Q[p]], conns |-> 0, refs |-> 0,
                    fails |-> 0, accessed |-> 0, checked |-> 0, zombie |-> FALSE]
      BY <2>3, <2>4 DEF Peers!NewPeer, U
    <3>2. Q[p] \in Addrs /\ U[Q[p]] \in Nat
      BY <1>2, <2>2, <2>4 DEF U
    <3> QED
      BY <3>1, <3>2 DEF PeerRec
  <2>5. ~(p <= n) => mem[p] = [addr |-> 0] /\ mem[p].addr = 0
    BY <2>3 DEF Peers!FreeMemory, Peers!Null
  <2> QED
    BY <2>2, <2>4, <2>5
<1>10. ASSUME NEW i \in DOMAIN list[1]
       PROVE  i \in DOMAIN P /\ list[1][i] = i /\ i \in Memory /\ i <= n /\ mem[i].addr = P[i]
  <2>1. i \in DOMAIN P /\ list[1][i] = i
    BY <1>6
  <2>2. i \in Memory /\ i <= n
    BY <1>3, <1>4, <1>5, <2>1
  <2>3. Q[i] = P[i]
    BY <1>3, <2>1
  <2> QED
    BY <1>9, <2>1, <2>2, <2>3
<1>11. ASSUME NEW i \in DOMAIN list[2]
       PROVE  /\ i \in DOMAIN B /\ list[2][i] = l + i /\ l + i \in Memory /\ l + i <= n
              /\ mem[l + i].addr = B[i]
  <2>1. i \in DOMAIN B /\ list[2][i] = l + i
    BY <1>6
  <2>2. l + i \in Memory /\ l + i <= n
    BY <1>3, <1>4, <1>5, <2>1
  <2>3. Q[l + i] = B[i]
    BY <1>3, <2>1 DEF l
  <2> QED
    BY <1>9, <2>1, <2>2, <2>3
<1>12. \A r \in Seekers :
         rrp[r] = [pc |-> "init", config |-> 0, group |-> 1, current |-> 0, addr |-> 0,
                                    tried |-> {}, tries |-> 0, used |-> {}]
  BY <1>1 DEF Peers!NewRequest, Peers!Null
<1>13. PeersTyped
  <2>1. \A p \in Memory : mem[p] \in PeerRec \cup {[addr |-> 0]}
    BY <1>9
  <2>2. mem \in [Memory -> PeerRec \cup {[addr |-> 0]}]
    BY <1>1, <2>1
  <2>3. rrp \in [Seekers -> SeekerRec]
    <3>1. \A r \in Seekers : rrp[r] \in SeekerRec
      BY <1>12 DEF SeekerRec
    <3> QED
      BY <1>1, <3>1
  <2>4. config \in 0 .. upstream.changes /\ seconds \in 0 .. upstream.time
    BY <1>1, <1>2
  <2>5. orphans \in [Memory -> Nat] /\ probed \in [Memory -> Int] /\ picked \in [Addrs -> Nat]
    BY <1>1
  <2> QED
    BY <1>1, <1>8, <2>2, <2>3, <2>4, <2>5 DEF PeersTyped
<1>14. PeersBounded
  <2>1. SUFFICES ASSUME NEW p \in Memory, mem[p].addr # 0
        PROVE  /\ mem[p].ew <= Weight(mem[p].addr)
               /\ mem[p].accessed <= seconds /\ mem[p].checked <= seconds
               /\ mem[p].conns = mem[p].refs
               /\ upstream.maxconns > 0 => mem[p].conns <= upstream.maxconns
    BY DEF PeersBounded
  <2>2. p <= n
    BY <1>9, <2>1
  <2>3. Q[p] \in Addrs /\ U[Q[p]] \in Nat
    BY <1>2, <1>9, <2>2 DEF U
  <2>4. /\ mem[p].addr = Q[p] /\ mem[p].ew = U[Q[p]] /\ mem[p].accessed = 0 /\ mem[p].checked = 0
        /\ mem[p].conns = 0 /\ mem[p].refs = 0
    BY <1>9, <2>2
  <2> QED
    <3>1. Weight(mem[p].addr) = U[Q[p]]
      BY <2>4 DEF Weight, U
    <3>2. seconds = 0 /\ upstream.maxconns \in Nat
      BY <1>1, <1>2
    <3> QED
      BY <2>3, <2>4, <3>1, <3>2
<1>15. ListsApart
  <2>1. ASSUME NEW g \in 1 .. 2, NEW i \in DOMAIN list[g]
        PROVE  mem[list[g][i]].addr # 0 /\ ~mem[list[g][i]].zombie
    <3>1. list[g][i] \in Memory /\ list[g][i] <= n
      BY <1>10, <1>11
    <3>2. PICK p \in Memory : p = list[g][i] /\ p <= n
      BY <3>1
    <3>3. mem[p].addr \in Addrs /\ ~mem[p].zombie
      BY <1>9, <3>2
    <3> QED
      BY <1>2, <3>2, <3>3
  <2>2. ASSUME NEW g \in 1 .. 2, NEW i \in DOMAIN list[g], NEW j \in DOMAIN list[g],
               mem[list[g][i]].addr = mem[list[g][j]].addr
        PROVE  i = j
    <3>1. CASE g = 1
      BY <1>2, <1>10, <2>2, <3>1 DEF IsInjective
    <3>2. CASE g = 2
      BY SMTT(30), <1>2, <1>11, <2>2, <3>2 DEF IsInjective
    <3> QED
      BY <3>1, <3>2
  <2>3. ASSUME NEW i \in DOMAIN list[1], NEW j \in DOMAIN list[2] PROVE list[1][i] # list[2][j]
    BY <1>3, <1>5, <1>10, <1>11
  <2> QED
    BY <2>1, <2>2, <2>3 DEF ListsApart
<1>16. RefsCounted
  <2>1. SUFFICES ASSUME NEW p \in Memory
        PROVE  IF mem[p].addr = 0 THEN orphans[p] = 0
               ELSE /\ mem[p].refs = Cardinality(Holding(rrp, p)) + orphans[p]
                    /\ ~Listed(list, p) => mem[p].zombie /\ mem[p].refs > 0
    BY DEF RefsCounted
  <2>2. orphans[p] = 0
    BY <1>1
  <2>3. Holding(rrp, p) = {}
    BY <1>2, <1>12 DEF Holding
  <2>4. Cardinality({}) = 0
    BY FS_EmptySet
  <2>5. ASSUME p <= n PROVE Listed(list, p)
    <3>1. p \in Nat \ {0}
      BY <1>2
    <3>2. CASE p <= l
      <4>1. p \in DOMAIN list[1] /\ list[1][p] = p
        BY <1>5, <1>6, <3>1, <3>2
      <4> QED
        BY <4>1 DEF Listed
    <3>3. CASE ~(p <= l)
      <4>1. p - l \in DOMAIN list[2] /\ list[2][p - l] = p
        <5>1. Len(B) \in Nat
          BY <1>3
        <5>2. p - l \in 1 .. Len(B)
          BY <1>5, <2>5, <3>1, <3>3, <5>1
        <5>3. l + (p - l) = p
          BY <1>5, <3>1
        <5> QED
          BY <1>5, <1>6, <5>2, <5>3
      <4> QED
        BY <4>1 DEF Listed
    <3> QED
      BY <3>2, <3>3
  <2>6. mem[p].addr # 0 => p <= n /\ mem[p].refs = 0
    BY <1>9
  <2> QED
    BY <2>2, <2>3, <2>4, <2>5, <2>6
<1>17. RequestsPlaced /\ TriedKnown
  BY <1>1, <1>12 DEF RequestsPlaced, TriedKnown
<1>18. ProbesPast
  <2>1. SUFFICES ASSUME NEW g \in 1 .. 2, NEW i \in DOMAIN list[g]
        PROVE  probed[list[g][i]] <= mem[list[g][i]].checked
    BY DEF ProbesPast
  <2>2. list[g][i] \in Memory /\ list[g][i] <= n
    BY <1>10, <1>11
  <2>3. probed[list[g][i]] = -1 /\ mem[list[g][i]].checked = 0
    BY <1>1, <1>9, <2>2
  <2> QED
    BY <2>3
<1>19. Balanced
  <2>1. SUFFICES ASSUME NEW g \in 1 .. 2 PROVE Sum(Credits(g), DOMAIN list[g]) = 0
    BY DEF Balanced
  <2>2. IsFiniteSet(DOMAIN list[g])
    <3>1. DOMAIN list[g] = 1 .. Len(list[g]) /\ Len(list[g]) \in Nat
      BY <1>8
    <3> QED
      BY <3>1, FS_Interval
  <2>3. \A i \in DOMAIN list[g] : Credits(g)[i] = 0
    <3>1. SUFFICES ASSUME NEW i \in DOMAIN list[g] PROVE mem[list[g][i]].cw = 0
      BY DEF Credits
    <3>2. list[g][i] \in Memory /\ list[g][i] <= n
      BY <1>10, <1>11
    <3> QED
      BY <1>9, <3>2
  <2> QED
    BY <2>2, <2>3, SumZero
<1>20. Turns
  <2>1. \A a \in Addrs : picked[a] = 0 /\ U[a] \in Nat \ {0} /\ Weight(a) = U[a]
    BY <1>1, <1>2 DEF U, Weight
  <2>2. AllPicked = 0
    BY <1>2, <2>1, SumZero DEF AllPicked
  <2>3. AllWeights \in Nat /\ (Addrs # {} => AllWeights > 0)
    <3>1. Sum(U, Addrs) \in Nat /\ \A a \in Addrs : U[a] <= Sum(U, Addrs)
      BY <1>2, <2>1, SumCovers
    <3> QED
      BY <2>1, <3>1 DEF AllWeights, U
  <2>4. ASSUME NEW i \in DOMAIN list[1]
        PROVE  LET m == mem[list[1][i]] IN
               /\ m.ew = Weight(m.addr) /\ m.fails = 0
               /\ m.cw = AllPicked * Weight(m.addr) - AllWeights * picked[m.addr]
    <3>1. i \in Memory /\ i <= n /\ list[1][i] = i
      BY <1>10
    <3>2. mem[i].addr = Q[i] /\ mem[i].ew = U[Q[i]] /\ mem[i].fails = 0 /\ mem[i].cw = 0
            /\ Q[i] \in Addrs
      BY <1>9, <3>1
    <3>3. 0 = 0 * Weight(Q[i]) - AllWeights * 0
      BY <2>1, <2>3, <3>2
    <3> QED
      BY <2>1, <2>2, <3>1, <3>2, <3>3
  <2>5. ASSUME Peers!Steady, NEW a \in Addrs
        PROVE \E i \in DOMAIN list[1] : mem[list[1][i]].addr = a
    <3>1. PICK i \in DOMAIN P : P[i] = a
      BY <2>5, PeersSets DEF Peers!Steady, ToSet, P
    <3>2. i \in DOMAIN list[1]
      BY <1>6
    <3> QED
      BY <1>10, <3>1, <3>2
  <2>6. \A r \in Seekers : rrp[r].pc # "get"
    BY <1>12
  <2>7. \A a \in Addrs : picked[a] <= Weight(a)
    BY <2>1
  <2> QED
    BY <2>1, <2>2, <2>3, <2>4, <2>5, <2>6, <2>7 DEF Turns
<1> QED
  BY <1>13, <1>14, <1>15, <1>16, <1>17, <1>18, <1>19, <1>20 DEF PeersInv

\* All but the requests.
Peering == <<upstream, mem, list, config, seconds, orphans, probed, picked>>

\* A place holds a server, or is free.
LEMMA PeerIs ==
    ASSUME PeersTyped, NEW p \in Memory
    PROVE  /\ mem[p].addr # 0 => mem[p] \in PeerRec /\ mem[p].addr \in Addrs
           /\ mem[p].addr = 0 => mem[p] = [addr |-> 0]
<1>1. mem[p] \in PeerRec \/ mem[p] = [addr |-> 0]
  BY DEF PeersTyped
<1>2. 0 \notin Addrs
  BY ScenarioFacts DEF PeersTyped
<1> QED
  BY <1>1, <1>2 DEF PeerRec

\* Lists are sequences of places.
LEMMA ListedIs ==
    ASSUME PeersTyped, NEW g \in 1 .. 2
    PROVE  /\ list[g] \in Seq(Memory) /\ Len(list[g]) \in Nat /\ DOMAIN list[g] = 1 .. Len(list[g])
           /\ IsFiniteSet(DOMAIN list[g])
           /\ \A i \in DOMAIN list[g] : list[g][i] \in Memory /\ Listed(list, list[g][i])
<1>1. list[g] \in Seq(Memory) 
  BY DEF PeersTyped
<1>2. /\ Len(list[g]) \in Nat /\ DOMAIN list[g] = 1 .. Len(list[g])
      /\ \A i \in DOMAIN list[g] : list[g][i] \in Memory
  BY <1>1
<1>3. IsFiniteSet(DOMAIN list[g])
  BY <1>2, FS_Interval
<1> QED
  BY <1>1, <1>2, <1>3 DEF Listed

\* No request but r has another server in z.
OnlyMoves(z, r) == \A s \in Seekers \ {r} : z[s].current = rrp[s].current

(* The requests that hold a place when one of them takes or leaves one.    *)
LEMMA HoldingMoves ==
    ASSUME PeersTyped, NEW r \in Seekers, NEW z, OnlyMoves(z, r), NEW p
    PROVE  /\ Cardinality(Holding(rrp, p)) \in Nat
           /\ (z[r].current = p <=> rrp[r].current = p) => Holding(z, p) = Holding(rrp, p)
           /\ z[r].current = p /\ rrp[r].current # p =>
                 Cardinality(Holding(z, p)) = Cardinality(Holding(rrp, p)) + 1
           /\ z[r].current # p /\ rrp[r].current = p =>
                 Cardinality(Holding(z, p)) = Cardinality(Holding(rrp, p)) - 1
<1>1. IsFiniteSet(Seekers)
  BY ScenarioFacts DEF PeersTyped
<1>2. IsFiniteSet(Holding(rrp, p)) /\ Cardinality(Holding(rrp, p)) \in Nat
  <2>1. Holding(rrp, p) \in SUBSET Seekers
    BY DEF Holding
  <2> QED
    BY <1>1, <2>1, FS_Subset, FS_CardinalityType
<1>3. (z[r].current = p <=> rrp[r].current = p) => Holding(z, p) = Holding(rrp, p)
  BY DEF Holding, OnlyMoves
<1>4. ASSUME z[r].current = p, rrp[r].current # p
      PROVE  Cardinality(Holding(z, p)) = Cardinality(Holding(rrp, p)) + 1
  <2>1. Holding(z, p) = Holding(rrp, p) \cup {r} /\ r \notin Holding(rrp, p)
    BY <1>4 DEF Holding, OnlyMoves
  <2> QED
    BY <1>2, <2>1, FS_AddElement
<1>5. ASSUME z[r].current # p, rrp[r].current = p
      PROVE  Cardinality(Holding(z, p)) = Cardinality(Holding(rrp, p)) - 1
  <2>1. Holding(z, p) = Holding(rrp, p) \ {r} /\ r \in Holding(rrp, p)
    BY <1>5 DEF Holding, OnlyMoves
  <2> QED
    BY <1>2, <2>1, FS_RemoveElement
<1> QED
  BY <1>2, <1>3, <1>4, <1>5

(* A request that holds no server moves on, and nothing else changes.      *)
LEMMA QuietRequest ==
    ASSUME PeersInv, NEW r \in Seekers, NEW x \in SeekerRec, rrp' = [rrp EXCEPT ![r] = x],
           UNCHANGED Peering,
           rrp[r].current = 0, x.current = 0, x.pc # "connected", x.config <= config,
           x.pc = "get" => /\ x.used = {}
                           /\ Peers!Steady => x.tried = {} /\ (x.group = 1 \/ Addrs = {})
    PROVE  PeersInv'
<1>1. PeersTyped /\ PeersBounded /\ ListsApart /\ RefsCounted /\ RequestsPlaced /\ TriedKnown
      /\ ProbesPast /\ Balanced /\ Turns
  BY DEF PeersInv
<1>2. /\ upstream' = upstream /\ mem' = mem /\ list' = list /\ config' = config
           /\ seconds' = seconds
      /\ orphans' = orphans /\ probed' = probed /\ picked' = picked
  BY DEF Peering
<1>3. /\ rrp' \in [Seekers -> SeekerRec] /\ rrp'[r] = x
      /\ \A s \in Seekers \ {r} : rrp'[s] = rrp[s]
  BY <1>1 DEF PeersTyped
<1>4. PeersTyped'
  BY <1>1, <1>2, <1>3 DEF PeersTyped
<1>5. PeersBounded' /\ ListsApart' /\ ProbesPast'
  BY <1>1, <1>2 DEF PeersBounded, ListsApart, ProbesPast, Weight
<1>6. Balanced'
  BY <1>1, <1>2 DEF Balanced, Credits
<1>7. \A p \in Memory : Holding(rrp', p) = Holding(rrp, p)
  <2>1. \A s \in Seekers : rrp'[s].current = rrp[s].current
    BY <1>3
  <2> QED
    BY <2>1 DEF Holding
<1>8. RefsCounted'
  BY <1>1, <1>2, <1>7 DEF RefsCounted
<1>9. RequestsPlaced'
  <2>1. SUFFICES ASSUME NEW s \in Seekers
        PROVE  /\ rrp'[s].pc = "connected" <=> rrp'[s].current # 0
               /\ rrp'[s].current # 0 => rrp'[s].addr # 0
                    /\ mem'[rrp'[s].current].addr = rrp'[s].addr
               /\ rrp'[s].config <= config'
    BY DEF RequestsPlaced
  <2>2. CASE s = r
    BY <1>2, <1>3, <2>2
  <2>3. CASE s # r
    BY <1>1, <1>2, <1>3, <2>3 DEF RequestsPlaced
  <2> QED
    BY <2>2, <2>3
<1>10. \A g : Peers!Single(g)' <=> Peers!Single(g)
  BY <1>2 DEF Peers!Single
<1>11. TriedKnown'
  <2>1. SUFFICES ASSUME NEW s \in Seekers, rrp'[s].config = config',
                          rrp'[s].pc \in {"get", "connected"}
        PROVE  /\ ~Peers!Single(rrp'[s].group) => \A a \in rrp'[s].used :
                     \E i \in rrp'[s].tried : /\ i \in DOMAIN list[rrp'[s].group]
                                              /\ mem[list[rrp'[s].group][i]].addr = a
               /\ rrp'[s].pc = "get" /\ Peers!Single(rrp'[s].group) => rrp'[s].used = {}
    BY <1>2, <1>10 DEF TriedKnown
  <2>2. CASE s = r
    BY <1>3, <2>1, <2>2
  <2>3. CASE s # r
    <3>1. rrp'[s] = rrp[s]
      BY <1>3, <2>3
    <3> QED
      BY <1>1, <1>2, <2>1, <3>1 DEF TriedKnown
  <2> QED
    BY <2>2, <2>3
<1>12. Peers!Steady' <=> Peers!Steady
  BY <1>2 DEF Peers!Steady
<1>13. Turns'
  <2>1. ASSUME Peers!Steady, NEW s \in Seekers, rrp'[s].pc = "get"
        PROVE  rrp'[s].tried = {} /\ (rrp'[s].group = 1 \/ Addrs = {})
    <3>1. CASE s = r
      BY <1>3, <2>1, <3>1
    <3>2. CASE s # r
      <4>1. rrp'[s] = rrp[s]
        BY <1>3, <3>2
      <4> QED
        BY <1>1, <2>1, <4>1 DEF Turns
    <3> QED
      BY <3>1, <3>2
  <2>2. AllPicked' = AllPicked /\ AllWeights' = AllWeights /\ \A a : Weight(a)' = Weight(a)
    BY <1>2 DEF AllPicked, AllWeights, Weight
  <2> QED
    BY <1>1, <1>2, <1>12, <2>1, <2>2 DEF Turns
<1> QED
  BY <1>4, <1>5, <1>6, <1>8, <1>9, <1>11, <1>13 DEF PeersInv

\* A request has its type, and only a connected one has a server.
LEMMA SeekerIs ==
    ASSUME PeersInv, NEW r \in Seekers
    PROVE  /\ rrp[r] \in SeekerRec
           /\ rrp[r].pc # "connected" => rrp[r].current = 0
           /\ rrp[r].config <= config /\ config \in Nat
<1>1. rrp[r] \in SeekerRec
  BY DEF PeersInv, PeersTyped
<1>2. upstream.changes \in Nat
  BY ScenarioFacts DEF PeersInv, PeersTyped
<1> QED
  BY <1>1, <1>2 DEF PeersInv, PeersTyped, RequestsPlaced

\* The number of tries is a number.
LEMMA TriesCounted ==
    ASSUME PeersTyped, NEW g \in 1 .. 2
    PROVE  Peers!Tries(g) \in Nat
<1> DEFINE T == {i \in DOMAIN list[g] : ~Peers!Down(list[g][i])}
<1>1. T \in SUBSET (DOMAIN list[g]) /\ IsFiniteSet(DOMAIN list[g])
  BY ListedIs
<1>2. Cardinality(T) \in Nat
  BY <1>1, FS_Subset, FS_CardinalityType
<1> QED
  BY <1>2, PeersSets DEF Peers!Tries

\* A request starts to look for a server.
LEMMA InitPeerStep ==
    ASSUME PeersInv, UNCHANGED upstream, NEW r \in Seekers, Peers!InitPeer(r)
    PROVE  PeersInv'
<1> DEFINE t == Peers!Tries(1) + Peers!Tries(2)
           x == [pc |-> "get", config |-> config, group |-> 1, current |-> 0, addr |-> 0,
                 tried |-> {}, tries |-> t, used |-> {}]
<1>1. /\ rrp[r].pc = "init" /\ rrp' = [rrp EXCEPT ![r] = x] /\ UNCHANGED Peering
  <2>1. [Peers!NewRequest EXCEPT !.pc = "get", !.config = config, !.tries = t] = x
    <3> HIDE DEF t
    <3> DEFINE y == [pc |-> "init", config |-> 0, group |-> 1, current |-> 0, addr |-> 0,
                     tried |-> {}, tries |-> 0, used |-> {}]
    <3>1. Peers!NewRequest = y
      BY DEF Peers!NewRequest, Peers!Null
    <3> DEFINE y1 == [pc |-> "get", config |-> 0, group |-> 1, current |-> 0, addr |-> 0,
                      tried |-> {}, tries |-> 0, used |-> {}]
               y2 == [pc |-> "get", config |-> config, group |-> 1, current |-> 0, addr |-> 0,
                      tried |-> {}, tries |-> 0, used |-> {}]
    <3>2. [y EXCEPT !.pc = "get"] = y1
      OBVIOUS
    <3>3. [y1 EXCEPT !.config = config] = y2
      OBVIOUS
    <3>4. [y2 EXCEPT !.tries = t] = x
      OBVIOUS
    <3> HIDE DEF y, y1, y2, x
    <3> QED
      BY <3>1, <3>2, <3>3, <3>4
  <2> HIDE DEF x
  <2> QED
    BY <2>1 DEF Peers!InitPeer, Peers!ghosts, Peering
<1>2. t \in Nat
  BY TriesCounted DEF PeersInv
<1>3. rrp[r].current = 0 /\ config \in Nat
  BY <1>1, SeekerIs
<1> HIDE DEF t
<1>4. x \in SeekerRec
  BY <1>2, <1>3 DEF SeekerRec
<1>5. x.current = 0 /\ x.pc = "get" /\ x.config = config /\ x.used = {} /\ x.tried = {}
        /\ x.group = 1
  OBVIOUS
<1> HIDE DEF x
<1>6. x.config <= config /\ x.pc # "connected"
  BY <1>3, <1>5
<1> QED
  BY <1>1, <1>3, <1>4, <1>5, <1>6, QuietRequest

(* Without failures and limits a first choice always finds a server.       *)
LEMMA AllEligible ==
    ASSUME PeersInv, Peers!Steady, NEW r \in Seekers, rrp[r].pc = "get", rrp[r].group = 1
    PROVE  Peers!Eligible(r) = DOMAIN list[1]
<1>1. rrp[r].tried = {} /\ \A i \in DOMAIN list[1] : mem[list[1][i]].fails = 0
  BY DEF PeersInv, Turns
<1>2. upstream.maxconns = 0 /\ upstream.down = {}
  BY DEF Peers!Steady
<1>3. upstream.maxfails \in Nat
  BY ScenarioFacts DEF PeersInv, PeersTyped
<1> QED
  BY <1>1, <1>2, <1>3
  DEF Peers!Eligible, Peers!Down, Peers!Resting, Peers!Disabled, Peers!Full

\* A request turns to the backup servers.
LEMMA GetBackupStep ==
    ASSUME PeersInv, UNCHANGED upstream, NEW r \in Seekers, Peers!GetBackup(r)
    PROVE  PeersInv'
<1> DEFINE x == [rrp[r] EXCEPT !.group = 2, !.tried = {}, !.used = {}]
<1>1. /\ rrp[r].pc = "get" /\ rrp[r].group = 1 /\ Peers!NonePossible(r)
      /\ rrp' = [rrp EXCEPT ![r] = x] /\ UNCHANGED Peering
  BY DEF Peers!GetBackup, Peers!ghosts, Peering
<1>2. rrp[r] \in SeekerRec /\ rrp[r].current = 0 /\ rrp[r].config <= config
  BY <1>1, SeekerIs
<1>3. x \in SeekerRec
  BY <1>2 DEF SeekerRec
<1>4. x.current = 0 /\ x.pc = "get" /\ x.config <= config /\ x.used = {} /\ x.tried = {}
  BY <1>1, <1>2 DEF SeekerRec
<1>5. ASSUME Peers!Steady PROVE Addrs = {}
  <2>1. DOMAIN list[1] = {} \/ Addrs = {}
    <3>1. CASE Peers!Single(1)
      <4>1. Peers!Down(list[1][1]) \/ Peers!Full(list[1][1])
        BY <1>1, <3>1 DEF Peers!NonePossible
      <4> QED
        BY <1>5, <4>1 DEF Peers!Steady, Peers!Down, Peers!Full
    <3>2. CASE ~Peers!Single(1)
      <4>1. Peers!Eligible(r) = {}
        BY <1>1, <3>2 DEF Peers!NonePossible
      <4> QED
        BY <1>1, <1>5, <4>1, AllEligible
    <3> QED
      BY <3>1, <3>2
  <2> QED
    BY <1>5, <2>1 DEF PeersInv, Turns
<1> HIDE DEF x
<1>6. x.pc # "connected"
  BY <1>4
<1> QED
  BY <1>1, <1>2, <1>3, <1>4, <1>5, <1>6, QuietRequest

\* A request finds no server.
LEMMA GetBusyStep ==
    ASSUME PeersInv, UNCHANGED upstream, NEW r \in Seekers, Peers!GetBusy(r)
    PROVE  PeersInv'
<1> DEFINE x == [rrp[r] EXCEPT !.pc = "done"]
<1>1. rrp[r].pc = "get" /\ rrp' = [rrp EXCEPT ![r] = x] /\ UNCHANGED Peering
  BY DEF Peers!GetBusy, Peers!ghosts, Peering
<1>2. rrp[r] \in SeekerRec /\ rrp[r].current = 0 /\ rrp[r].config <= config
  BY <1>1, SeekerIs
<1>3. x \in SeekerRec
  BY <1>2 DEF SeekerRec
<1>4. x.current = 0 /\ x.pc = "done" /\ x.config <= config
  BY <1>1, <1>2 DEF SeekerRec
<1> HIDE DEF x
<1>5. x.pc # "connected" /\ x.pc # "get"
  BY <1>4
<1> QED
  BY <1>1, <1>2, <1>3, <1>4, <1>5, QuietRequest

\* Another request takes the place of one that ended.
LEMMA AgainStep ==
    ASSUME PeersInv, UNCHANGED upstream, NEW r \in Seekers, Peers!Again(r)
    PROVE  PeersInv'
<1> DEFINE x == [pc |-> "init", config |-> 0, group |-> 1, current |-> 0, addr |-> 0,
                 tried |-> {}, tries |-> 0, used |-> {}]
<1>1. rrp[r].pc = "done" /\ rrp' = [rrp EXCEPT ![r] = x] /\ UNCHANGED Peering
  BY DEF Peers!Again, Peers!NewRequest, Peers!Null, Peers!ghosts, Peering
<1>2. rrp[r].current = 0 /\ config \in Nat
  BY <1>1, SeekerIs
<1>3. x \in SeekerRec
  BY DEF SeekerRec
<1>4. x.current = 0 /\ x.pc = "init" /\ x.config = 0
  OBVIOUS
<1> HIDE DEF x
<1>5. x.pc # "connected" /\ x.pc # "get" /\ x.config <= config
  BY <1>2, <1>4
<1> QED
  BY <1>1, <1>2, <1>3, <1>4, <1>5, QuietRequest

\* A second passes.
LEMMA PeersTickStep ==
    ASSUME PeersInv, UNCHANGED upstream, Peers!Tick
    PROVE  PeersInv'
<1>1. PeersTyped /\ PeersBounded /\ ListsApart /\ RefsCounted /\ RequestsPlaced /\ TriedKnown
      /\ ProbesPast /\ Balanced /\ Turns
  BY DEF PeersInv
<1>2. /\ upstream' = upstream /\ mem' = mem /\ list' = list /\ config' = config /\ rrp' = rrp
      /\ orphans' = orphans /\ probed' = probed /\ picked' = picked
      /\ seconds < upstream.time /\ seconds' = seconds + 1
  BY DEF Peers!Tick, Peers!ghosts
<1>3. seconds \in Nat /\ seconds' \in 0 .. upstream.time
  BY <1>1, <1>2, ScenarioFacts DEF PeersTyped
<1>4. PeersTyped'
  BY <1>1, <1>2, <1>3 DEF PeersTyped
<1>5. PeersBounded'
  <2>1. SUFFICES ASSUME NEW p \in Memory, mem[p].addr # 0
        PROVE  mem[p].accessed <= seconds' /\ mem[p].checked <= seconds'
    BY <1>1, <1>2 DEF PeersBounded, Weight
  <2>2. mem[p].accessed <= seconds /\ mem[p].checked <= seconds
    BY <1>1, <2>1 DEF PeersBounded
  <2>3. mem[p].accessed \in Nat /\ mem[p].checked \in Nat
    BY <1>1, <2>1, PeerIs DEF PeerRec
  <2> QED
    BY <1>2, <1>3, <2>2, <2>3
<1>6. ListsApart' /\ ProbesPast' /\ RefsCounted' /\ RequestsPlaced'
  BY <1>1, <1>2 DEF ListsApart, ProbesPast, RefsCounted, RequestsPlaced
<1>7. Balanced'
  BY <1>1, <1>2 DEF Balanced, Credits
<1>8. TriedKnown'
  BY <1>1, <1>2 DEF TriedKnown, Peers!Single
<1>9. Turns'
  <2>1. AllPicked' = AllPicked /\ AllWeights' = AllWeights /\ \A a : Weight(a)' = Weight(a)
    BY <1>2 DEF AllPicked, AllWeights, Weight
  <2>2. Peers!Steady' <=> Peers!Steady
    BY <1>2 DEF Peers!Steady
  <2> QED
    BY <1>1, <1>2, <2>1, <2>2 DEF Turns
<1> QED
  BY <1>4, <1>5, <1>6, <1>7, <1>8, <1>9 DEF PeersInv

(* A request that is connected holds a server that is in memory.           *)
LEMMA ConnectedServer ==
    ASSUME PeersInv, NEW r \in Seekers, rrp[r].pc = "connected"
    PROVE  LET p == rrp[r].current IN
           /\ p \in Memory /\ p # 0 /\ mem[p] \in PeerRec /\ mem[p].addr # 0
                /\ mem[p].addr \in Addrs
           /\ mem[p].addr = rrp[r].addr
           /\ Cardinality(Holding(rrp, p)) \in Nat /\ Cardinality(Holding(rrp, p)) > 0
           /\ orphans[p] \in Nat
           /\ mem[p].refs = Cardinality(Holding(rrp, p)) + orphans[p] /\ mem[p].refs > 0
           /\ mem[p].conns = mem[p].refs
<1> DEFINE p == rrp[r].current
<1>1. PeersTyped /\ PeersBounded /\ RefsCounted /\ RequestsPlaced
  BY DEF PeersInv
<1>2. rrp[r] \in SeekerRec /\ p # 0 /\ mem[p].addr = rrp[r].addr /\ rrp[r].addr # 0
  BY <1>1, SeekerIs DEF RequestsPlaced
<1>3. p \in Memory /\ mem[p].addr # 0
  BY <1>2 DEF SeekerRec
<1>4. mem[p] \in PeerRec /\ mem[p].addr \in Addrs
  BY <1>1, <1>3, PeerIs
<1>5. r \in Holding(rrp, p) /\ IsFiniteSet(Holding(rrp, p))
  <2>1. Holding(rrp, p) \in SUBSET Seekers /\ r \in Holding(rrp, p)
    BY DEF Holding
  <2> QED
    BY <1>1, <2>1, ScenarioFacts, FS_Subset DEF PeersTyped
<1>6. Cardinality(Holding(rrp, p)) \in Nat /\ Cardinality(Holding(rrp, p)) # 0
  BY <1>5, FS_CardinalityType, FS_EmptySet
<1>7. orphans[p] \in Nat
  BY <1>1, <1>3 DEF PeersTyped
<1>8. mem[p].refs = Cardinality(Holding(rrp, p)) + orphans[p] /\ mem[p].conns = mem[p].refs
  BY <1>1, <1>3 DEF RefsCounted, PeersBounded
<1>9. mem[p].refs > 0 /\ Cardinality(Holding(rrp, p)) > 0
  BY <1>6, <1>7, <1>8
<1> QED
  BY <1>2, <1>3, <1>4, <1>6, <1>7, <1>8, <1>9

\* m is the server n with a reference less.
DropsRef(m, n) ==
    /\ m \in PeerRec /\ m.addr = n.addr /\ m.zombie = n.zombie /\ m.cw = n.cw
    /\ m.refs = n.refs - 1 /\ m.conns = n.conns - 1 /\ m.ew <= Weight(n.addr)
    /\ m.accessed <= seconds /\ n.checked <= m.checked /\ m.checked <= seconds
    /\ Peers!Steady => m.ew = n.ew /\ m.fails \in {0, n.fails}

(* A request leaves its server.                                            *)
LEMMA LeftServer ==
    ASSUME PeersInv, NEW r \in Seekers, rrp[r].pc = "connected",
           NEW p, p = rrp[r].current, NEW m, DropsRef(m, mem[p]),
             mem' = [mem EXCEPT ![p] = Peers!Unref(m)],
           NEW x \in SeekerRec, rrp' = [rrp EXCEPT ![r] = x],
           UNCHANGED <<upstream, list, config, seconds, orphans, probed, picked>>,
           x.current = 0, x.pc # "connected", x.config <= config,
           x.pc = "get" => /\ x.config = rrp[r].config /\ x.group = rrp[r].group
                           /\ x.tried = rrp[r].tried /\ x.used = rrp[r].used
                           /\ ~Peers!Single(x.group) /\ ~Peers!Steady
    PROVE  PeersInv'
<1>1. PeersTyped /\ PeersBounded /\ ListsApart /\ RefsCounted /\ RequestsPlaced /\ TriedKnown
      /\ ProbesPast /\ Balanced /\ Turns
  BY DEF PeersInv
<1>2. /\ upstream' = upstream /\ list' = list /\ config' = config /\ seconds' = seconds
      /\ orphans' = orphans /\ probed' = probed /\ picked' = picked
  OBVIOUS
<1>3. /\ rrp' \in [Seekers -> SeekerRec] /\ rrp'[r] = x
      /\ \A s \in Seekers \ {r} : rrp'[s] = rrp[s]
  BY <1>1 DEF PeersTyped
<1>4. /\ p \in Memory /\ p # 0 /\ mem[p] \in PeerRec /\ mem[p].addr # 0 /\ mem[p].addr \in Addrs
      /\ Cardinality(Holding(rrp, p)) \in Nat /\ Cardinality(Holding(rrp, p)) > 0
      /\ orphans[p] \in Nat
      /\ mem[p].refs = Cardinality(Holding(rrp, p)) + orphans[p] /\ mem[p].refs > 0
      /\ mem[p].conns = mem[p].refs
  BY ConnectedServer
<1>5. /\ m \in PeerRec /\ m.addr = mem[p].addr /\ m.zombie = mem[p].zombie /\ m.cw = mem[p].cw
      /\ m.refs = mem[p].refs - 1 /\ m.conns = mem[p].conns - 1 /\ m.ew <= Weight(mem[p].addr)
      /\ m.accessed <= seconds /\ mem[p].checked <= m.checked /\ m.checked <= seconds
      /\ Peers!Steady => m.ew = mem[p].ew /\ m.fails \in {0, mem[p].fails}
  BY DEF DropsRef
<1>6. /\ DOMAIN mem' = Memory
      /\ \A q \in Memory \ {p} : mem'[q] = mem[q]
      /\ m.refs = 0 /\ m.zombie => mem'[p] = [addr |-> 0] /\ mem'[p].addr = 0
      /\ ~(m.refs = 0 /\ m.zombie) => mem'[p] = m
  BY Zenon, <1>1, <1>4 DEF PeersTyped, Peers!Unref, Peers!FreeMemory, Peers!Null
<1>7. Listed(list, p) => mem'[p] = m
  BY <1>1, <1>5, <1>6 DEF Listed, ListsApart
<1>8. ASSUME NEW g \in 1 .. 2, NEW i \in DOMAIN list[g]
      PROVE  LET q == list[g][i] IN
             /\ q \in Memory /\ mem[q] \in PeerRec /\ mem'[q] \in PeerRec
             /\ mem'[q].addr = mem[q].addr /\ mem'[q].cw = mem[q].cw
                  /\ mem'[q].zombie = mem[q].zombie
             /\ mem[q].checked <= mem'[q].checked
             /\ Peers!Steady => mem'[q].ew = mem[q].ew /\ mem'[q].fails \in {0, mem[q].fails}
  <2>1. PICK q \in Memory : q = list[g][i] /\ Listed(list, q)
    BY <1>1, ListedIs
  <2>2. mem[q] \in PeerRec
    BY <1>1, <2>1, PeerIs DEF ListsApart
  <2>3. CASE q = p
    BY <1>5, <1>7, <2>1, <2>2, <2>3
  <2>4. CASE q # p
    <3>1. mem'[q] = mem[q] /\ mem[q].checked \in Nat
      BY <1>6, <2>2, <2>4 DEF PeerRec
    <3> QED
      BY <2>1, <2>2, <3>1
  <2> QED
    BY <2>3, <2>4
<1>9. PeersTyped'
  <2>1. \A q \in Memory : mem'[q] \in PeerRec \cup {[addr |-> 0]}
    BY <1>1, <1>5, <1>6 DEF PeersTyped
  <2> QED
    BY <1>1, <1>2, <1>3, <1>6, <2>1 DEF PeersTyped
<1>10. PeersBounded'
  <2>1. SUFFICES ASSUME NEW q \in Memory, mem'[q].addr # 0
        PROVE  /\ mem'[q].ew <= Weight(mem'[q].addr)
               /\ mem'[q].accessed <= seconds /\ mem'[q].checked <= seconds
               /\ mem'[q].conns = mem'[q].refs
               /\ upstream.maxconns > 0 => mem'[q].conns <= upstream.maxconns
    BY <1>2 DEF PeersBounded, Weight
  <2>2. CASE q = p
    <3>1. mem'[q] = m
      BY <1>6, <2>1, <2>2
    <3>2. upstream.maxconns > 0 => mem[p].conns <= upstream.maxconns
      BY <1>1, <1>4 DEF PeersBounded
    <3>3. upstream.maxconns \in Nat
      BY <1>1, ScenarioFacts DEF PeersTyped
    <3>4. mem[p].conns \in Nat
      BY <1>4 DEF PeerRec
    <3> QED
      BY <1>4, <1>5, <3>1, <3>2, <3>3, <3>4
  <2>3. CASE q # p
    BY Zenon, <1>1, <1>6, <2>1, <2>3 DEF PeersBounded
  <2> QED
    BY <2>2, <2>3
<1>11. ListsApart'
  <2>1. ASSUME NEW g \in 1 .. 2, NEW i \in DOMAIN list[g]
        PROVE  mem'[list[g][i]].addr # 0 /\ ~mem'[list[g][i]].zombie
    BY <1>1, <1>8 DEF ListsApart
  <2>2. ASSUME NEW g \in 1 .. 2, NEW i \in DOMAIN list[g], NEW j \in DOMAIN list[g],
               mem'[list[g][i]].addr = mem'[list[g][j]].addr
        PROVE  i = j
    <3>1. mem'[list[g][i]].addr = mem[list[g][i]].addr
            /\ mem'[list[g][j]].addr = mem[list[g][j]].addr
      BY <1>8
    <3> QED
      BY Zenon, <1>1, <2>2, <3>1 DEF ListsApart
  <2> QED
    BY <1>1, <1>2, <2>1, <2>2 DEF ListsApart
<1>12. \A s \in Seekers \ {r} : rrp'[s].current = rrp[s].current
  BY <1>3
<1>13. Cardinality(Holding(rrp', p)) = Cardinality(Holding(rrp, p)) - 1
  <2>1. rrp'[r].current # p /\ rrp[r].current = p
    BY <1>3, <1>4
  <2>2. OnlyMoves(rrp', r)
    BY <1>12 DEF OnlyMoves
  <2> QED
    BY ZenonT(40), <1>1, <2>1, <2>2, HoldingMoves
<1>14. \A q \in Memory : q # p => Holding(rrp', q) = Holding(rrp, q)
  <2>1. \A q \in Memory : q # 0
    BY <1>1, ScenarioFacts DEF PeersTyped
  <2> QED
    BY <1>3, <1>12, <2>1 DEF Holding
<1>15. mem'[p].addr = 0 => m.refs = 0 /\ orphans[p] = 0 /\ Cardinality(Holding(rrp', p)) = 0
  BY <1>4, <1>5, <1>6, <1>13
<1>16. RefsCounted'
  <2>1. SUFFICES ASSUME NEW q \in Memory
        PROVE  IF mem'[q].addr = 0 THEN orphans[q] = 0
               ELSE /\ mem'[q].refs = Cardinality(Holding(rrp', q)) + orphans[q]
                    /\ ~Listed(list, q) => mem'[q].zombie /\ mem'[q].refs > 0
    BY <1>2 DEF RefsCounted
  <2>2. CASE q # p
    <3>1. mem'[q] = mem[q] /\ Holding(rrp', q) = Holding(rrp, q)
      BY <1>6, <1>14, <2>2
    <3> QED
      BY <1>1, <3>1 DEF RefsCounted
  <2>3. CASE q = p /\ mem'[p].addr = 0
    BY <1>15, <2>3
  <2>4. CASE q = p /\ mem'[p].addr # 0
    <3>1. mem'[p] = m /\ ~(m.refs = 0 /\ m.zombie)
      BY <1>6, <2>4
    <3>2. m.refs = Cardinality(Holding(rrp', p)) + orphans[p] /\ m.refs \in Nat
      BY <1>4, <1>5, <1>13
    <3>3. ~Listed(list, p) => mem[p].zombie
      BY <1>1, <1>4 DEF RefsCounted
    <3>4. ~Listed(list, p) => m.zombie /\ m.refs > 0
      <4>1. m.zombie <=> mem[p].zombie
        BY <1>5
      <4>2. m.refs # 0 \/ ~m.zombie
        BY <3>1
      <4> QED
        BY <3>2, <3>3, <4>1, <4>2
    <3> QED
      BY <2>4, <3>1, <3>2, <3>4
  <2> QED
    BY <2>2, <2>3, <2>4
<1>17. RequestsPlaced'
  <2>1. SUFFICES ASSUME NEW s \in Seekers
        PROVE  /\ rrp'[s].pc = "connected" <=> rrp'[s].current # 0
               /\ rrp'[s].current # 0 => rrp'[s].addr # 0
                    /\ mem'[rrp'[s].current].addr = rrp'[s].addr
               /\ rrp'[s].config <= config
    BY <1>2 DEF RequestsPlaced
  <2>2. CASE s = r
    BY <1>3, <2>2
  <2>3. CASE s # r
    <3>1. /\ rrp'[s] = rrp[s]
          /\ rrp[s].pc = "connected" <=> rrp[s].current # 0
          /\ rrp[s].current # 0 => rrp[s].addr # 0 /\ mem[rrp[s].current].addr = rrp[s].addr
          /\ rrp[s].config <= config
      BY <1>1, <1>3, <2>3 DEF RequestsPlaced
    <3>2. ASSUME rrp[s].current # 0 PROVE mem'[rrp[s].current].addr = mem[rrp[s].current].addr
      <4>1. CASE rrp[s].current = p
        <5>1. s \in Holding(rrp', p) /\ IsFiniteSet(Holding(rrp', p))
          <6>1. Holding(rrp', p) \in SUBSET Seekers /\ s \in Holding(rrp', p)
            BY <3>1, <4>1 DEF Holding
          <6> QED
            BY <1>1, <6>1, ScenarioFacts, FS_Subset DEF PeersTyped
        <5>2. Cardinality(Holding(rrp', p)) # 0
          BY <5>1, FS_EmptySet
        <5> QED
          BY <1>5, <1>6, <1>15, <4>1, <5>2
      <4>2. CASE rrp[s].current # p
        <5>1. rrp[s] \in SeekerRec
          BY SeekerIs
        <5>2. rrp[s].current \in Memory \ {p}
          BY <3>2, <4>2, <5>1 DEF SeekerRec
        <5> QED
          BY <1>6, <5>2
      <4> QED
        BY <4>1, <4>2
    <3> QED
      BY <3>1, <3>2
  <2> QED
    BY <2>2, <2>3
<1>18. \A g : Peers!Single(g)' <=> Peers!Single(g)
  BY <1>2 DEF Peers!Single
<1>19. TriedKnown'
  <2>1. SUFFICES ASSUME NEW s \in Seekers, rrp'[s].config = config,
                          rrp'[s].pc \in {"get", "connected"}
        PROVE  /\ ~Peers!Single(rrp'[s].group) => \A a \in rrp'[s].used :
                     \E i \in rrp'[s].tried : /\ i \in DOMAIN list[rrp'[s].group]
                                              /\ mem'[list[rrp'[s].group][i]].addr = a
               /\ rrp'[s].pc = "get" /\ Peers!Single(rrp'[s].group) => rrp'[s].used = {}
    BY <1>2, <1>18 DEF TriedKnown
  <2>2. /\ rrp'[s].group = rrp[s].group /\ rrp'[s].used = rrp[s].used
             /\ rrp'[s].tried = rrp[s].tried
        /\ rrp[s].config = config /\ rrp[s].pc \in {"get", "connected"}
        /\ rrp'[s].pc = "get" => rrp[s].pc = "get" \/ ~Peers!Single(rrp[s].group)
    <3>1. CASE s = r
      BY <1>3, <2>1, <3>1
    <3>2. CASE s # r
      <4>1. rrp'[s] = rrp[s]
        BY <1>3, <3>2
      <4> QED
        BY <2>1, <4>1
    <3> QED
      BY <3>1, <3>2
  <2>3. rrp[s].group \in 1 .. 2
    <3>1. rrp[s] \in SeekerRec
      BY SeekerIs
    <3> QED
      BY <3>1 DEF SeekerRec
  <2>4. ASSUME ~Peers!Single(rrp[s].group), NEW a \in rrp[s].used
        PROVE  \E i \in rrp[s].tried : /\ i \in DOMAIN list[rrp[s].group]
                                       /\ mem'[list[rrp[s].group][i]].addr = a
    <3>1. PICK i \in rrp[s].tried : /\ i \in DOMAIN list[rrp[s].group]
                                    /\ mem[list[rrp[s].group][i]].addr = a
      BY <1>1, <2>2, <2>4 DEF TriedKnown
    <3> QED
      BY <1>8, <2>3, <3>1
  <2>5. rrp[s].pc = "get" /\ Peers!Single(rrp[s].group) => rrp[s].used = {}
    BY <1>1, <2>2 DEF TriedKnown
  <2> QED
    BY <2>2, <2>4, <2>5
<1>20. ProbesPast'
  <2>1. SUFFICES ASSUME NEW g \in 1 .. 2, NEW i \in DOMAIN list[g]
        PROVE  probed[list[g][i]] <= mem'[list[g][i]].checked
    BY <1>2 DEF ProbesPast
  <2>2. probed[list[g][i]] <= mem[list[g][i]].checked /\ probed[list[g][i]] \in Int
    BY Zenon, <1>1, <1>8 DEF ProbesPast, PeersTyped
  <2>3. PICK q \in Memory : /\ q = list[g][i] /\ mem[q] \in PeerRec /\ mem'[q] \in PeerRec
                            /\ mem[q].checked <= mem'[q].checked
    BY <1>8
  <2>4. mem[q].checked \in Nat /\ mem'[q].checked \in Nat
    BY <2>3 DEF PeerRec
  <2> QED
    BY <2>2, <2>3, <2>4
<1>21. Balanced'
  <2>1. SUFFICES ASSUME NEW g \in (1 .. 2) \ upstream.resolving
        PROVE  Sum(Credits(g)', DOMAIN list[g]) = 0
    BY <1>2 DEF Balanced
  <2>2. Credits(g)' = Credits(g)
    BY <1>2, <1>8 DEF Credits
  <2> QED
    BY <1>1, <2>2 DEF Balanced
<1>22. Peers!Steady' <=> Peers!Steady
  BY Zenon, <1>2 DEF Peers!Steady
<1>23. Turns'
  <2>1. AllPicked' = AllPicked /\ AllWeights' = AllWeights /\ \A a : Weight(a)' = Weight(a)
    BY <1>2 DEF AllPicked, AllWeights, Weight
  <2>2. ASSUME Peers!Steady, NEW s \in Seekers, rrp'[s].pc = "get"
        PROVE  rrp'[s].tried = {} /\ (rrp'[s].group = 1 \/ Addrs = {})
    <3>1. CASE s = r
      BY <1>3, <2>2, <3>1
    <3>2. CASE s # r
      <4>1. rrp'[s] = rrp[s]
        BY <1>3, <3>2
      <4> QED
        BY <1>1, <2>2, <4>1 DEF Turns
    <3> QED
      BY <3>1, <3>2
  <2>3. ASSUME Peers!Steady, NEW a \in Addrs
        PROVE \E i \in DOMAIN list[1] : mem'[list[1][i]].addr = a
    <3>1. PICK i \in DOMAIN list[1] : mem[list[1][i]].addr = a
      BY <1>1, <2>3 DEF Turns
    <3> QED
      BY <1>8, <3>1
  <2>4. ASSUME Peers!Steady, NEW i \in DOMAIN list[1]
        PROVE  LET n == mem'[list[1][i]] IN
               /\ n.ew = Weight(n.addr) /\ n.fails = 0
               /\ n.cw = AllPicked * Weight(n.addr) - AllWeights * picked[n.addr]
    <3>1. LET n == mem[list[1][i]] IN
               /\ n.ew = Weight(n.addr) /\ n.fails = 0
               /\ n.cw = AllPicked * Weight(n.addr) - AllWeights * picked[n.addr]
      BY <1>1, <2>4 DEF Turns
    <3>2. LET q == list[1][i] IN
             /\ mem'[q].addr = mem[q].addr /\ mem'[q].cw = mem[q].cw
             /\ mem'[q].ew = mem[q].ew /\ mem'[q].fails \in {0, mem[q].fails}
      BY <1>8, <2>4
    <3> QED
      BY <3>1, <3>2
  <2> QED
    BY <1>1, <1>2, <1>22, <2>1, <2>2, <2>3, <2>4 DEF Turns
<1> QED
  BY <1>9, <1>10, <1>11, <1>16, <1>17, <1>19, <1>20, <1>21, <1>23 DEF PeersInv

\* The greater of 0 and a number.
LEMMA PeersMax ==
    ASSUME NEW a \in Int
    PROVE  Peers!Max({0, a}) = IF a > 0 THEN a ELSE 0
<1> DEFINE P(x) == x \in {0, a} /\ \A y \in {0, a} : x >= y
           n == IF a > 0 THEN a ELSE 0
<1>1. P(n) /\ \A x : P(x) => x = n
  OBVIOUS
<1>2. Peers!Max({0, a}) = CHOOSE x : P(x)
  BY DEF Peers!Max
<1> HIDE DEF P, n
<1> QED
  BY <1>1, <1>2 DEF n

\* A share of a number is a number, and no more than it.
LEMMA Shares ==
    ASSUME NEW w \in Nat, NEW n \in Nat \ {0}
    PROVE  w \div n \in Nat
BY SMT

\* e is the server n as the outcome of a request leaves it, its references aside.
Blamed(e, n) ==
    /\ e \in PeerRec /\ e.addr = n.addr /\ (e.zombie <=> n.zombie) /\ e.cw = n.cw
    /\ e.refs = n.refs /\ e.conns = n.conns /\ e.ew <= Weight(n.addr)
    /\ e.accessed <= seconds /\ n.checked <= e.checked /\ e.checked <= seconds
    /\ Peers!Steady => e.ew = n.ew /\ e.fails \in {0, n.fails}

(* What a success, a failure or the end of a lone server's request does.   *)
LEMMA Verdicts ==
    ASSUME PeersInv, NEW n \in PeerRec, n.ew <= Weight(n.addr), n.accessed <= seconds,
             n.checked <= seconds
    PROVE  /\ Blamed([n EXCEPT !.fails = 0], n)
           /\ Blamed(Peers!Succeeded(n), n)
           /\ ~Peers!Steady => Blamed(Peers!Failed(n), n)
<1>1. PeersTyped /\ seconds \in Nat /\ upstream.maxfails \in Nat /\ Weight(n.addr) \in Nat
  <2>1. PeersTyped
    BY DEF PeersInv
  <2>2. upstream.time \in Nat /\ upstream.maxfails \in Nat
          /\ upstream.weight \in [Addrs -> Nat \ {0}]
    BY <2>1, ScenarioFacts DEF PeersTyped
  <2>3. n.addr \in Addrs
    BY DEF PeerRec
  <2> QED
    BY <2>1, <2>2, <2>3 DEF PeersTyped, Weight
<1>2. n.checked \in Nat /\ n.ew \in Nat /\ n.fails \in Nat
  BY DEF PeerRec
<1>3. ASSUME NEW k \in Nat, k \in {0, n.fails} PROVE Blamed([n EXCEPT !.fails = k], n)
  <2> DEFINE e == [n EXCEPT !.fails = k]
  <2>1. /\ e \in PeerRec /\ e.addr = n.addr /\ (e.zombie <=> n.zombie) /\ e.cw = n.cw
        /\ e.refs = n.refs /\ e.conns = n.conns /\ e.ew = n.ew
        /\ e.accessed = n.accessed /\ e.checked = n.checked /\ e.fails = k
    BY DEF PeerRec
  <2> HIDE DEF e
  <2>2. Blamed(e, n)
    BY <1>2, <1>3, <2>1 DEF Blamed
  <2> QED
    BY <2>2 DEF e
<1>4. Blamed([n EXCEPT !.fails = 0], n)
  BY <1>3
<1>5. Blamed(Peers!Succeeded(n), n)
  <2> DEFINE k == IF n.accessed < n.checked THEN 0 ELSE n.fails
  <2>1. Peers!Succeeded(n) = [n EXCEPT !.fails = k]
    BY DEF Peers!Succeeded
  <2>2. k \in Nat /\ k \in {0, n.fails}
    BY <1>2
  <2> HIDE DEF k
  <2> QED
    BY <1>3, <2>1, <2>2
<1>6. ASSUME ~Peers!Steady PROVE Blamed(Peers!Failed(n), n)
  <2> DEFINE w == IF upstream.maxfails > 0
                  THEN Peers!Max({0, n.ew - upstream.weight[n.addr] \div upstream.maxfails})
                    ELSE n.ew
             k == n.fails + 1
             e == [n EXCEPT !.fails = k, !.accessed = seconds, !.checked = seconds, !.ew = w]
  <2>1. w \in Nat /\ w <= n.ew
    <3>1. CASE upstream.maxfails > 0
      <4> DEFINE d == Weight(n.addr) \div upstream.maxfails
      <4>1. d \in Nat
        BY <1>1, <3>1, Shares
      <4>2. w = Peers!Max({0, n.ew - d})
        BY <3>1 DEF Weight
      <4> HIDE DEF d, w
      <4>3. n.ew - d \in Int
        BY <1>2, <4>1
      <4>4. w = IF n.ew - d > 0 THEN n.ew - d ELSE 0
        BY <4>2, <4>3, PeersMax
      <4> QED
        BY <1>2, <4>1, <4>4
    <3>2. CASE ~(upstream.maxfails > 0)
      BY <1>2, <3>2
    <3> QED
      BY <3>1, <3>2
  <2>2. k \in Nat
    BY <1>2
  <2>3. Peers!Failed(n) = e
    BY DEF Peers!Failed
  <2> HIDE DEF w, k
  <2>4. /\ e \in PeerRec /\ e.addr = n.addr /\ (e.zombie <=> n.zombie) /\ e.cw = n.cw
        /\ e.refs = n.refs /\ e.conns = n.conns /\ e.ew = w
        /\ e.accessed = seconds /\ e.checked = seconds
    BY <1>1, <2>1, <2>2 DEF PeerRec
  <2> HIDE DEF e
  <2>5. e.ew <= Weight(n.addr)
    BY <1>1, <1>2, <2>1, <2>4
  <2>6. Blamed(e, n)
    BY <1>1, <1>6, <2>4, <2>5 DEF Blamed
  <2> QED
    BY <2>3, <2>6
<1> QED
  BY <1>4, <1>5, <1>6

\* Freeing a peer drops a reference, whatever the outcome of the request.
LEMMA FreeIs ==
    ASSUME PeersInv, NEW r \in Seekers, rrp[r].pc = "connected", NEW failed, Peers!Free(r, failed),
           failed => ~Peers!Steady
    PROVE  \E m : /\ DropsRef(m, mem[rrp[r].current])
                  /\ mem' = [mem EXCEPT ![rrp[r].current] = Peers!Unref(m)]
<1> DEFINE p == rrp[r].current
           n == mem[p]
           e == IF Peers!Single(rrp[r].group) THEN [n EXCEPT !.fails = 0]
                ELSE IF failed THEN Peers!Failed(n) ELSE Peers!Succeeded(n)
           m == [e EXCEPT !.refs = @ - 1, !.conns = @ - 1]
<1>1. /\ p \in Memory /\ n \in PeerRec /\ n.addr # 0 /\ n.refs > 0 /\ n.conns = n.refs
  BY ConnectedServer
<1>2. n.ew <= Weight(n.addr) /\ n.accessed <= seconds /\ n.checked <= seconds
  BY <1>1 DEF PeersInv, PeersBounded
<1>3. Blamed(e, n)
  BY <1>1, <1>2, Verdicts
<1>4. mem' = [mem EXCEPT ![p] = Peers!Unref(m)]
  BY DEF Peers!Free
<1> HIDE DEF e, n, p
<1>5. e \in PeerRec /\ e.refs \in Nat /\ e.conns \in Nat /\ e.refs = n.refs /\ e.conns = n.conns
  BY <1>3 DEF Blamed, PeerRec
<1>6. e.refs - 1 \in Nat /\ e.conns - 1 \in Nat
  BY <1>1, <1>5
<1>7. /\ m \in PeerRec /\ m.addr = e.addr /\ (m.zombie <=> e.zombie) /\ m.zombie = e.zombie
           /\ m.cw = e.cw
      /\ m.refs = e.refs - 1 /\ m.conns = e.conns - 1 /\ m.ew = e.ew
      /\ m.accessed = e.accessed /\ m.checked = e.checked /\ m.fails = e.fails
  BY <1>5, <1>6 DEF PeerRec
<1> HIDE DEF m
<1>8. m.zombie = n.zombie
  <2>1. (m.zombie <=> n.zombie) /\ m.zombie \in BOOLEAN /\ n.zombie \in BOOLEAN
    BY <1>1, <1>3, <1>7 DEF Blamed, PeerRec
  <2> QED
    BY <2>1
<1>9. DropsRef(m, n)
  BY <1>3, <1>5, <1>7, <1>8 DEF DropsRef, Blamed
<1> QED
  BY <1>4, <1>9 DEF n, p

\* A request ends, well or given up.
LEMMA FinishStep ==
    ASSUME PeersInv, UNCHANGED upstream, NEW r \in Seekers, Peers!Finish(r)
    PROVE  PeersInv'
<1> DEFINE y == [pc |-> "init", config |-> 0, group |-> 1, current |-> 0, addr |-> 0,
                 tried |-> {}, tries |-> 0, used |-> {}]
           x == [pc |-> "done", config |-> 0, group |-> 1, current |-> 0, addr |-> 0,
                 tried |-> {}, tries |-> 0, used |-> {}]
<1>1. [y EXCEPT !.pc = "done"] = x
  OBVIOUS
<1>2. Peers!NewRequest = y
  BY DEF Peers!NewRequest, Peers!Null
<1> HIDE DEF x, y
<1>3. /\ rrp[r].pc = "connected" /\ Peers!Free(r, FALSE) /\ rrp' = [rrp EXCEPT ![r] = x]
      /\ UNCHANGED <<upstream, list, config, seconds, orphans, probed, picked>>
  BY <1>1, <1>2 DEF Peers!Finish, Peers!ghosts
<1>4. PICK m : /\ DropsRef(m, mem[rrp[r].current])
               /\ mem' = [mem EXCEPT ![rrp[r].current] = Peers!Unref(m)]
  BY <1>3, FreeIs
<1>5. config \in Nat
  BY SeekerIs
<1>6. x \in SeekerRec /\ x.current = 0 /\ x.pc = "done" /\ x.config <= config
  BY <1>5 DEF x, SeekerRec
<1>7. x.pc # "connected" /\ x.pc # "get"
  BY <1>6
<1> QED
  BY <1>3, <1>4, <1>6, <1>7, LeftServer

\* A request leaves a server for another one, or fails.
LEMMA NextUpstreamStep ==
    ASSUME PeersInv, UNCHANGED upstream, NEW r \in Seekers, NEW failed, NEW to \in {"get", "done"},
           Peers!NextUpstream(r, failed, to)
    PROVE  PeersInv'
<1> DEFINE t == Peers!TriesLeft(r)
           c == IF t = 0 THEN "done" ELSE to
           x == [rrp[r] EXCEPT !.current = 0, !.addr = 0, !.tries = t, !.pc = c]
<1>1. /\ rrp[r].pc = "connected" /\ Peers!Free(r, failed) /\ upstream.fails
      /\ rrp' = [rrp EXCEPT ![r].current = 0, ![r].addr = 0, ![r].tries = t, ![r].pc = c]
      /\ UNCHANGED <<upstream, list, config, seconds, orphans, probed, picked>>
  BY DEF Peers!NextUpstream, Peers!ghosts, Peers!Null
<1>2. ~Peers!Steady
  BY <1>1 DEF Peers!Steady
<1>3. PICK m : /\ DropsRef(m, mem[rrp[r].current])
               /\ mem' = [mem EXCEPT ![rrp[r].current] = Peers!Unref(m)]
  BY <1>1, <1>2, FreeIs
<1>4. rrp[r] \in SeekerRec /\ rrp[r].config <= config /\ config \in Nat
  BY SeekerIs
<1>5. t \in Nat /\ (Peers!Single(rrp[r].group) => t = 0)
  <2>1. rrp[r].tries \in Nat
    BY <1>4 DEF SeekerRec
  <2>2. Peers!Max({0, rrp[r].tries - 1}) \in Nat
    BY <2>1, PeersMax
  <2> QED
    BY <2>2 DEF Peers!TriesLeft
<1>6. c \in {"get", "done"} /\ (t = 0 => c = "done")
  OBVIOUS
<1> HIDE DEF t, c
<1>7. rrp' = [rrp EXCEPT ![r] = x]
  <2>1. DOMAIN rrp = Seekers /\ r \in Seekers
    BY DEF PeersInv, PeersTyped
  <2> QED
    BY <1>1, <2>1
<1>8. /\ x \in SeekerRec /\ x.current = 0 /\ x.pc = c /\ x.config = rrp[r].config
      /\ x.group = rrp[r].group /\ x.tried = rrp[r].tried /\ x.used = rrp[r].used
  BY <1>4, <1>5, <1>6 DEF SeekerRec
<1> HIDE DEF x
<1>9. x.pc # "connected" /\ x.config <= config /\ (x.pc = "get" => ~Peers!Single(x.group))
  BY <1>4, <1>5, <1>6, <1>8
<1> QED
  BY <1>1, <1>2, <1>3, <1>7, <1>8, <1>9, LeftServer

(* A worker dies: the reference stays.                                     *)
LEMMA PeersCrashStep ==
    ASSUME PeersInv, UNCHANGED upstream, NEW r \in Seekers, Peers!Crash(r)
    PROVE  PeersInv'
<1> DEFINE y == [pc |-> "init", config |-> 0, group |-> 1, current |-> 0, addr |-> 0,
                 tried |-> {}, tries |-> 0, used |-> {}]
           x == [pc |-> "done", config |-> 0, group |-> 1, current |-> 0, addr |-> 0,
                 tried |-> {}, tries |-> 0, used |-> {}]
           p == rrp[r].current
<1>1. PeersTyped /\ PeersBounded /\ ListsApart /\ RefsCounted /\ RequestsPlaced /\ TriedKnown
      /\ ProbesPast /\ Balanced /\ Turns
  BY DEF PeersInv
<1>2. [y EXCEPT !.pc = "done"] = x
  OBVIOUS
<1>3. Peers!NewRequest = y
  BY DEF Peers!NewRequest, Peers!Null
<1> HIDE DEF x, y
<1>4. /\ rrp[r].pc = "connected" /\ rrp' = [rrp EXCEPT ![r] = x]
      /\ orphans' = [orphans EXCEPT ![p] = @ + 1]
      /\ upstream' = upstream /\ mem' = mem /\ list' = list /\ config' = config
           /\ seconds' = seconds
      /\ probed' = probed /\ picked' = picked
  BY <1>2, <1>3 DEF Peers!Crash
<1>5. /\ p \in Memory /\ p # 0 /\ mem[p].addr # 0 /\ orphans[p] \in Nat
      /\ Cardinality(Holding(rrp, p)) \in Nat
  BY <1>4, ConnectedServer
<1> HIDE DEF p
<1>6. x \in SeekerRec /\ x.current = 0 /\ x.pc = "done" /\ x.config = 0
  BY DEF x, SeekerRec
<1>7. /\ rrp' \in [Seekers -> SeekerRec] /\ rrp'[r] = x
      /\ \A s \in Seekers \ {r} : rrp'[s] = rrp[s]
  BY <1>1, <1>4, <1>6 DEF PeersTyped
<1>8. orphans'[p] = orphans[p] + 1 /\ \A q \in Memory \ {p} : orphans'[q] = orphans[q]
  BY <1>1, <1>4, <1>5 DEF PeersTyped
<1>9. PeersTyped'
  <2>1. orphans' \in [Memory -> Nat]
    BY <1>1, <1>4, <1>5 DEF PeersTyped
  <2> QED
    BY <1>1, <1>4, <1>7, <2>1 DEF PeersTyped
<1>10. PeersBounded' /\ ListsApart' /\ ProbesPast'
  BY <1>1, <1>4 DEF PeersBounded, ListsApart, ProbesPast, Weight
<1>11. Balanced'
  BY <1>1, <1>4 DEF Balanced, Credits
<1>12. RefsCounted'
  <2>1. OnlyMoves(rrp', r)
    BY <1>7 DEF OnlyMoves
  <2>2. rrp'[r].current # p /\ rrp[r].current = p /\ rrp'[r].current = 0
    BY <1>5, <1>6, <1>7 DEF p
  <2>3. Cardinality(Holding(rrp', p)) = Cardinality(Holding(rrp, p)) - 1
    BY <1>1, <2>1, <2>2, HoldingMoves
  <2>4. \A q \in Memory \ {p} : Holding(rrp', q) = Holding(rrp, q)
    <3>1. \A q \in Memory : q # 0
      BY <1>1, ScenarioFacts DEF PeersTyped
    <3> QED
      BY <1>7, <2>2, <3>1 DEF Holding
  <2>5. SUFFICES ASSUME NEW q \in Memory
        PROVE  IF mem[q].addr = 0 THEN orphans'[q] = 0
               ELSE /\ mem[q].refs = Cardinality(Holding(rrp', q)) + orphans'[q]
                    /\ ~Listed(list, q) => mem[q].zombie /\ mem[q].refs > 0
    BY <1>4 DEF RefsCounted
  <2>6. CASE q = p
    <3>1. Cardinality(Holding(rrp', p)) + orphans'[p] = Cardinality(Holding(rrp, p)) + orphans[p]
      BY <1>5, <1>8, <2>3
    <3>2. /\ mem[p].refs = Cardinality(Holding(rrp, p)) + orphans[p]
          /\ ~Listed(list, p) => mem[p].zombie /\ mem[p].refs > 0
      BY <1>1, <1>5 DEF RefsCounted
    <3> QED
      BY <1>5, <2>6, <3>1, <3>2
  <2>7. CASE q # p
    BY <1>1, <1>8, <2>4, <2>7 DEF RefsCounted
  <2> QED
    BY <2>6, <2>7
<1>13. config \in Nat
  BY SeekerIs
<1>14. RequestsPlaced'
  <2>1. SUFFICES ASSUME NEW s \in Seekers
        PROVE  /\ rrp'[s].pc = "connected" <=> rrp'[s].current # 0
               /\ rrp'[s].current # 0 => rrp'[s].addr # 0
                    /\ mem[rrp'[s].current].addr = rrp'[s].addr
               /\ rrp'[s].config <= config
    BY <1>4 DEF RequestsPlaced
  <2>2. CASE s = r
    BY <1>6, <1>7, <1>13, <2>2
  <2>3. CASE s # r
    BY <1>1, <1>7, <2>3 DEF RequestsPlaced
  <2> QED
    BY <2>2, <2>3
<1>15. \A g : Peers!Single(g)' <=> Peers!Single(g)
  BY <1>4 DEF Peers!Single
<1>16. TriedKnown'
  <2>1. SUFFICES ASSUME NEW s \in Seekers, rrp'[s].config = config,
                          rrp'[s].pc \in {"get", "connected"}
        PROVE  /\ ~Peers!Single(rrp'[s].group) => \A a \in rrp'[s].used :
                     \E i \in rrp'[s].tried : /\ i \in DOMAIN list[rrp'[s].group]
                                              /\ mem[list[rrp'[s].group][i]].addr = a
               /\ rrp'[s].pc = "get" /\ Peers!Single(rrp'[s].group) => rrp'[s].used = {}
    BY <1>4, <1>15 DEF TriedKnown
  <2>2. s # r
    BY <1>6, <1>7, <2>1
  <2>3. rrp'[s] = rrp[s]
    BY <1>7, <2>2
  <2> QED
    BY <1>1, <2>1, <2>3 DEF TriedKnown
<1>17. Turns'
  <2>1. AllPicked' = AllPicked /\ AllWeights' = AllWeights /\ \A a : Weight(a)' = Weight(a)
    BY <1>4 DEF AllPicked, AllWeights, Weight
  <2>2. ASSUME Peers!Steady, NEW s \in Seekers, rrp'[s].pc = "get"
        PROVE  rrp'[s].tried = {} /\ (rrp'[s].group = 1 \/ Addrs = {})
    <3>1. s # r
      BY <1>6, <1>7, <2>2
    <3>2. rrp'[s] = rrp[s]
      BY <1>7, <3>1
    <3> QED
      BY <1>1, <2>2, <3>2 DEF Turns
  <2>3. Peers!Steady' <=> Peers!Steady
    BY <1>4 DEF Peers!Steady
  <2> QED
    BY <1>1, <1>4, <2>1, <2>2, <2>3 DEF Turns
<1> QED
  BY <1>9, <1>10, <1>11, <1>12, <1>14, <1>16, <1>17 DEF PeersInv

\* m is the server n after a turn of the weights, with k references more.
Turned(m, n, k) ==
    /\ m \in PeerRec /\ m.addr = n.addr /\ (m.zombie <=> n.zombie)
    /\ m.refs = n.refs + k /\ m.conns = n.conns + k /\ m.ew <= Weight(n.addr)
    /\ m.accessed = n.accessed /\ n.checked <= m.checked /\ m.checked <= seconds

(* z is the memory once the peer at p was taken.                           *)
TakenAt(z, p) ==
    /\ z \in [Memory -> PeerRec \cup {[addr |-> 0]}]
    /\ \A q \in Memory : mem[q].addr = 0 => z[q] = mem[q]
    /\ \A q \in Memory : mem[q].addr # 0 => Turned(z[q], mem[q], IF q = p THEN 1 ELSE 0)

\* x is the peer data of r once it has the server at p.
TakesServer(x, r, p) ==
    /\ x \in SeekerRec /\ x.pc = "connected" /\ x.current = p /\ x.addr = mem[p].addr
    /\ x.config = rrp[r].config /\ x.group = rrp[r].group
    /\ x.used = rrp[r].used \cup {mem[p].addr}

(* A probe is remembered no later than the server was checked.             *)
ProbesMove ==
    \A q \in Memory :
        probed'[q] = probed[q] \/ (mem[q].addr # 0 => probed'[q] <= mem'[q].checked)

(* A request takes a listed server: all but the weights.                   *)
LEMMA ChosenServer ==
    ASSUME PeersInv, NEW r \in Seekers, rrp[r].pc = "get", rrp[r].config = config,
           NEW i \in DOMAIN list[rrp[r].group], NEW p, p = list[rrp[r].group][i],
           TakenAt(mem', p), ~Peers!Full(p),
           NEW x, TakesServer(x, r, p), rrp' = [rrp EXCEPT ![r] = x],
           ~Peers!Single(rrp[r].group) => x.tried = rrp[r].tried \cup {i},
           UNCHANGED <<upstream, list, config, seconds, orphans>>,
           probed' \in [Memory -> Int],
           ProbesMove, picked' \in [Addrs -> Nat]
    PROVE  /\ PeersTyped' /\ PeersBounded' /\ ListsApart' /\ RefsCounted'
           /\ RequestsPlaced' /\ TriedKnown' /\ ProbesPast'
<1>1. PeersTyped /\ PeersBounded /\ ListsApart /\ RefsCounted /\ RequestsPlaced /\ TriedKnown
      /\ ProbesPast
  BY DEF PeersInv
<1>2. /\ upstream' = upstream /\ list' = list /\ config' = config /\ seconds' = seconds
      /\ orphans' = orphans
  OBVIOUS
<1>3. rrp[r] \in SeekerRec /\ rrp[r].current = 0 /\ rrp[r].group \in 1 .. 2
        /\ rrp[r].config <= config
  BY SeekerIs DEF SeekerRec
<1>4. /\ p \in Memory /\ p # 0 /\ Listed(list, p) /\ mem[p].addr # 0
      /\ mem[p] \in PeerRec /\ mem[p].addr \in Addrs
  <2>1. p \in Memory /\ Listed(list, p) /\ mem[p].addr # 0
    BY <1>1, <1>3, ListedIs DEF ListsApart
  <2>2. p # 0
    BY <1>1, <2>1, ScenarioFacts DEF PeersTyped
  <2> QED
    BY Zenon, <1>1, <2>1, <2>2, PeerIs
<1>5. /\ x \in SeekerRec /\ x.pc = "connected" /\ x.current = p /\ x.addr = mem[p].addr
      /\ x.config = rrp[r].config /\ x.group = rrp[r].group
      /\ x.used = rrp[r].used \cup {mem[p].addr}
  BY Zenon DEF TakesServer
<1>6. /\ rrp' \in [Seekers -> SeekerRec] /\ rrp'[r] = x
      /\ \A s \in Seekers \ {r} : rrp'[s] = rrp[s]
  BY <1>1, <1>5 DEF PeersTyped
<1>7. ASSUME NEW q \in Memory
      PROVE  /\ mem[q].addr = 0 => mem'[q] = mem[q]
             /\ mem[q].addr # 0 => /\ mem'[q] \in PeerRec /\ mem'[q].addr = mem[q].addr
                                   /\ mem'[q].zombie <=> mem[q].zombie
                                   /\ mem'[q].refs = mem[q].refs + (IF q = p THEN 1 ELSE 0)
                                   /\ mem'[q].conns = mem[q].conns + (IF q = p THEN 1 ELSE 0)
                                   /\ mem'[q].ew <= Weight(mem[q].addr)
                                   /\ mem'[q].accessed = mem[q].accessed
                                   /\ mem[q].checked <= mem'[q].checked
                                   /\ mem'[q].checked <= seconds
  BY DEF TakenAt, Turned
<1>8. mem' \in [Memory -> PeerRec \cup {[addr |-> 0]}]
  BY DEF TakenAt
<1>9. \A q \in Memory : mem'[q].addr = mem[q].addr
  BY <1>7
<1>10. PeersTyped'
  BY <1>1, <1>2, <1>6, <1>8 DEF PeersTyped
<1>11. PeersBounded'
  <2>1. SUFFICES ASSUME NEW q \in Memory, mem'[q].addr # 0
        PROVE  /\ mem'[q].ew <= Weight(mem'[q].addr)
               /\ mem'[q].accessed <= seconds /\ mem'[q].checked <= seconds
               /\ mem'[q].conns = mem'[q].refs
               /\ upstream.maxconns > 0 => mem'[q].conns <= upstream.maxconns
    BY <1>2 DEF PeersBounded, Weight
  <2>2. mem[q].addr # 0 /\ mem[q] \in PeerRec
    BY <1>1, <1>9, <2>1, PeerIs
  <2>3. /\ mem[q].accessed <= seconds /\ mem[q].conns = mem[q].refs
        /\ upstream.maxconns > 0 => mem[q].conns <= upstream.maxconns
    BY <1>1, <2>2 DEF PeersBounded
  <2>4. upstream.maxconns \in Nat /\ mem[q].conns \in Nat
    BY <1>1, <2>2, ScenarioFacts DEF PeersTyped, PeerRec
  <2>5. q = p /\ upstream.maxconns > 0 => mem[q].conns < upstream.maxconns
    <3>1. ASSUME q = p, upstream.maxconns > 0 PROVE ~(mem[q].conns >= upstream.maxconns)
      BY <3>1 DEF Peers!Full
    <3> QED
      BY <2>4, <3>1
  <2>6. mem'[q].conns = mem[q].conns + (IF q = p THEN 1 ELSE 0)
        /\ mem'[q].refs = mem[q].refs + (IF q = p THEN 1 ELSE 0)
    BY <1>7, <2>2
  <2>7. upstream.maxconns > 0 => mem'[q].conns <= upstream.maxconns
    BY <2>3, <2>4, <2>5, <2>6
  <2> QED
    BY <1>7, <2>2, <2>3, <2>6, <2>7
<1>12. ListsApart'
  <2>1. ASSUME NEW h \in 1 .. 2, NEW j \in DOMAIN list[h]
        PROVE  mem'[list[h][j]].addr # 0 /\ ~mem'[list[h][j]].zombie
    <3>1. PICK q \in Memory : q = list[h][j]
      BY <1>1, ListedIs
    <3>2. mem[q].addr # 0 /\ ~mem[q].zombie
      BY <1>1, <3>1 DEF ListsApart
    <3> QED
      BY <1>7, <3>1, <3>2
  <2>2. ASSUME NEW h \in 1 .. 2, NEW j \in DOMAIN list[h], NEW k \in DOMAIN list[h],
               mem'[list[h][j]].addr = mem'[list[h][k]].addr
        PROVE  j = k
    <3>1. list[h][j] \in Memory /\ list[h][k] \in Memory
      BY <1>1, ListedIs
    <3> QED
      BY <1>1, <1>9, <2>2, <3>1 DEF ListsApart
  <2> QED
    BY <1>1, <1>2, <2>1, <2>2 DEF ListsApart
<1>13. RefsCounted'
  <2>1. OnlyMoves(rrp', r)
    BY Zenon, <1>6 DEF OnlyMoves
  <2>2. rrp'[r].current = p /\ rrp[r].current # p
    BY <1>3, <1>4, <1>5, <1>6
  <2>3. Cardinality(Holding(rrp', p)) = Cardinality(Holding(rrp, p)) + 1
        /\ Cardinality(Holding(rrp, p)) \in Nat
    BY <1>1, <2>1, <2>2, HoldingMoves
  <2>4. \A q \in Memory \ {p} : Holding(rrp', q) = Holding(rrp, q)
    <3>1. \A q \in Memory : q # 0
      BY <1>1, ScenarioFacts DEF PeersTyped
    <3> QED
      BY <1>3, <1>6, <2>2, <3>1 DEF Holding
  <2>5. SUFFICES ASSUME NEW q \in Memory
        PROVE  IF mem'[q].addr = 0 THEN orphans[q] = 0
               ELSE /\ mem'[q].refs = Cardinality(Holding(rrp', q)) + orphans[q]
                    /\ ~Listed(list, q) => mem'[q].zombie /\ mem'[q].refs > 0
    BY <1>2 DEF RefsCounted
  <2>6. CASE q = p
    <3>1. mem[p].refs = Cardinality(Holding(rrp, p)) + orphans[p]
      BY Zenon, <1>1, <1>4 DEF RefsCounted
    <3>2. mem'[p].refs = mem[p].refs + 1
      BY Zenon, <1>4, <1>7
    <3>3. orphans[p] \in Nat
      BY Zenon, <1>1, <1>4 DEF PeersTyped
    <3>4. mem'[p].refs = Cardinality(Holding(rrp', p)) + orphans[p]
      BY <2>3, <3>1, <3>2, <3>3
    <3> QED
      BY <1>4, <1>9, <2>6, <3>4
  <2>7. CASE q # p /\ mem[q].addr = 0
    BY <1>1, <1>7, <2>7 DEF RefsCounted
  <2>8. CASE q # p /\ mem[q].addr # 0
    <3>1. mem[q].refs \in Nat
      BY <1>1, <2>8, PeerIs DEF PeerRec
    <3>2. mem'[q].refs = mem[q].refs /\ (mem'[q].zombie <=> mem[q].zombie)
            /\ mem'[q].addr = mem[q].addr
      BY <1>7, <2>8, <3>1
    <3> QED
      BY <1>1, <2>4, <2>8, <3>2 DEF RefsCounted
  <2> QED
    BY <2>6, <2>7, <2>8
<1>14. RequestsPlaced'
  <2>1. SUFFICES ASSUME NEW s \in Seekers
        PROVE  /\ rrp'[s].pc = "connected" <=> rrp'[s].current # 0
               /\ rrp'[s].current # 0 => rrp'[s].addr # 0
                    /\ mem'[rrp'[s].current].addr = rrp'[s].addr
               /\ rrp'[s].config <= config
    BY Zenon, <1>2 DEF RequestsPlaced
  <2>2. CASE s = r
    BY <1>3, <1>4, <1>5, <1>6, <1>9, <2>2
  <2>3. CASE s # r
    <3>1. /\ rrp'[s] = rrp[s]
          /\ rrp[s].pc = "connected" <=> rrp[s].current # 0
          /\ rrp[s].current # 0 => rrp[s].addr # 0 /\ mem[rrp[s].current].addr = rrp[s].addr
          /\ rrp[s].config <= config
      BY <1>1, <1>6, <2>3 DEF RequestsPlaced
    <3>2. rrp[s].current # 0 => rrp[s].current \in Memory
      <4>1. rrp[s] \in SeekerRec
        BY SeekerIs
      <4> QED
        BY <4>1 DEF SeekerRec
    <3> QED
      BY <1>9, <3>1, <3>2
  <2> QED
    BY <2>2, <2>3
<1>15. \A h : Peers!Single(h)' <=> Peers!Single(h)
  BY Zenon, <1>2 DEF Peers!Single
<1>16. TriedKnown'
  <2>1. SUFFICES ASSUME NEW s \in Seekers, rrp'[s].config = config,
                          rrp'[s].pc \in {"get", "connected"}
        PROVE  /\ ~Peers!Single(rrp'[s].group) => \A a \in rrp'[s].used :
                     \E j \in rrp'[s].tried : /\ j \in DOMAIN list[rrp'[s].group]
                                              /\ mem'[list[rrp'[s].group][j]].addr = a
               /\ rrp'[s].pc = "get" /\ Peers!Single(rrp'[s].group) => rrp'[s].used = {}
    BY <1>2, <1>15 DEF TriedKnown
  <2>2. \A h \in 1 .. 2 : \A j \in DOMAIN list[h] : mem'[list[h][j]].addr = mem[list[h][j]].addr
    BY Zenon, <1>1, <1>9, ListedIs
  <2>3. CASE s = r
    <3>1. rrp'[s] = x
      BY Zenon, <1>6, <2>3
    <3>2. ASSUME ~Peers!Single(x.group), NEW a \in x.used
          PROVE  \E j \in x.tried : j \in DOMAIN list[x.group] /\ mem'[list[x.group][j]].addr = a
      <4>1. CASE a = mem[p].addr
        <5>1. i \in x.tried /\ i \in DOMAIN list[x.group] /\ list[x.group][i] = p
          BY Zenon, <1>5, <3>2
        <5> QED
          BY Zenon, <1>4, <1>9, <4>1, <5>1
      <4>2. CASE a # mem[p].addr
        <5>1. a \in rrp[r].used
          BY Zenon, <1>5, <3>2, <4>2
        <5>2. PICK j \in rrp[r].tried : /\ j \in DOMAIN list[rrp[r].group]
                                        /\ mem[list[rrp[r].group][j]].addr = a
          BY Zenon, <1>1, <1>5, <3>2, <5>1 DEF TriedKnown
        <5>3. j \in x.tried
          BY Zenon, <1>5, <3>2, <5>2
        <5> QED
          BY Zenon, <1>3, <1>5, <2>2, <5>2, <5>3
      <4> QED
        BY Zenon, <4>1, <4>2
    <3>3. rrp'[s].pc # "get"
      BY Zenon, <1>5, <3>1
    <3> QED
      BY <3>1, <3>2, <3>3
  <2>4. CASE s # r
    <3>1. rrp'[s] = rrp[s]
      BY <1>6, <2>4
    <3>2. rrp[s].group \in 1 .. 2
      <4>1. rrp[s] \in SeekerRec
        BY SeekerIs
      <4> QED
        BY <4>1 DEF SeekerRec
    <3>3. ASSUME ~Peers!Single(rrp[s].group), NEW a \in rrp[s].used
          PROVE  \E j \in rrp[s].tried : /\ j \in DOMAIN list[rrp[s].group]
                                         /\ mem'[list[rrp[s].group][j]].addr = a
      <4>1. PICK j \in rrp[s].tried : /\ j \in DOMAIN list[rrp[s].group]
                                      /\ mem[list[rrp[s].group][j]].addr = a
        BY Zenon, <1>1, <2>1, <3>1, <3>3 DEF TriedKnown
      <4> QED
        BY Zenon, <2>2, <3>2, <4>1
    <3>4. rrp[s].pc = "get" /\ Peers!Single(rrp[s].group) => rrp[s].used = {}
      BY <1>1, <2>1, <3>1 DEF TriedKnown
    <3> QED
      BY <3>1, <3>3, <3>4
  <2> QED
    BY Zenon, <2>3, <2>4
<1>17. ProbesPast'
  <2>1. SUFFICES ASSUME NEW h \in 1 .. 2, NEW j \in DOMAIN list[h]
        PROVE  probed'[list[h][j]] <= mem'[list[h][j]].checked
    BY Zenon, <1>2 DEF ProbesPast
  <2>2. PICK q \in Memory : q = list[h][j]
    BY <1>1, ListedIs
  <2>3. mem[q].addr # 0 /\ probed[q] <= mem[q].checked
    BY Zenon, <1>1, <2>2 DEF ListsApart, ProbesPast
  <2>4. mem[q] \in PeerRec /\ mem'[q] \in PeerRec /\ mem[q].checked <= mem'[q].checked
    BY <1>1, <1>7, <2>3, PeerIs
  <2>5. mem[q].checked \in Nat /\ mem'[q].checked \in Nat /\ probed[q] \in Int /\ probed'[q] \in Int
    BY <1>1, <2>4 DEF PeerRec, PeersTyped
  <2>8. probed'[q] = probed[q] \/ probed'[q] <= mem'[q].checked
    BY <2>3 DEF ProbesMove
  <2>6. CASE probed'[q] = probed[q]
    BY <2>2, <2>3, <2>4, <2>5, <2>6
  <2>7. CASE probed'[q] <= mem'[q].checked
    BY <2>2, <2>7
  <2> QED
    BY <2>6, <2>7, <2>8
<1> QED
  BY <1>10, <1>11, <1>12, <1>13, <1>14, <1>16, <1>17

\* The weights of the listed peers stay as they are.
WeightsRest ==
    \A g \in 1 .. 2 : \A i \in DOMAIN list[g] : LET q == list[g][i] IN
        /\ mem'[q].addr = mem[q].addr /\ mem'[q].cw = mem[q].cw
        /\ mem'[q].ew = mem[q].ew /\ mem'[q].fails = mem[q].fails

\* The weights stay in balance when no weight of a listed server changes.
LEMMA WeightsKept ==
    ASSUME PeersInv, WeightsRest, UNCHANGED <<upstream, list, picked>>,
           \A s \in Seekers : rrp'[s].pc = "get" => rrp'[s] = rrp[s]
    PROVE  Balanced' /\ Turns'
<1>1. upstream' = upstream /\ list' = list /\ picked' = picked /\ Balanced /\ Turns
  BY DEF PeersInv
<1>2. ASSUME NEW g \in (1 .. 2) \ upstream.resolving PROVE Sum(Credits(g)', DOMAIN list[g]) = 0
  <2>1. Credits(g)' = Credits(g)
    BY <1>1 DEF Credits, WeightsRest
  <2> QED
    BY <1>1, <2>1 DEF Balanced
<1>3. Balanced'
  BY <1>1, <1>2 DEF Balanced
<1>4. Turns'
  <2>1. AllPicked' = AllPicked /\ AllWeights' = AllWeights /\ \A a : Weight(a)' = Weight(a)
    BY <1>1 DEF AllPicked, AllWeights, Weight
  <2>2. ASSUME Peers!Steady, NEW s \in Seekers, rrp'[s].pc = "get"
        PROVE  rrp'[s].tried = {} /\ (rrp'[s].group = 1 \/ Addrs = {})
    <3>1. rrp'[s] = rrp[s]
      BY <2>2
    <3> QED
      BY <1>1, <2>2, <3>1 DEF Turns
  <2>3. \A i \in DOMAIN list[1] : LET q == list[1][i] IN
             /\ mem'[q].addr = mem[q].addr /\ mem'[q].cw = mem[q].cw
             /\ mem'[q].ew = mem[q].ew /\ mem'[q].fails = mem[q].fails
    BY DEF WeightsRest
  <2>4. ASSUME Peers!Steady, NEW a \in Addrs
        PROVE \E i \in DOMAIN list[1] : mem'[list[1][i]].addr = a
    <3>1. PICK i \in DOMAIN list[1] : mem[list[1][i]].addr = a
      BY <1>1, <2>4 DEF Turns
    <3> QED
      BY <2>3, <3>1
  <2>5. ASSUME Peers!Steady, NEW i \in DOMAIN list[1]
        PROVE  LET n == mem'[list[1][i]] IN
               /\ n.ew = Weight(n.addr) /\ n.fails = 0
               /\ n.cw = AllPicked * Weight(n.addr) - AllWeights * picked[n.addr]
    <3>1. LET n == mem[list[1][i]] IN
               /\ n.ew = Weight(n.addr) /\ n.fails = 0
               /\ n.cw = AllPicked * Weight(n.addr) - AllWeights * picked[n.addr]
      BY <1>1, <2>5 DEF Turns
    <3> QED
      BY <2>3, <3>1
  <2>6. Peers!Steady' <=> Peers!Steady
    BY <1>1 DEF Peers!Steady
  <2> QED
    BY <1>1, <2>1, <2>2, <2>4, <2>5, <2>6 DEF Turns
<1> QED
  BY <1>3, <1>4

\* A request takes the single server; it has used none before.
LEMMA GetSingleStep ==
    ASSUME PeersInv, UNCHANGED upstream, NEW r \in Seekers, Peers!GetSingle(r)
    PROVE  PeersInv' /\ rrp[r].used = {}
<1> DEFINE p == list[1][1]
           n == mem[p]
           m == [n EXCEPT !.refs = @ + 1, !.conns = @ + 1]
           x == [rrp[r] EXCEPT !.pc = "connected", !.current = p, !.addr = mem[p].addr,
                               !.used = @ \cup {mem[p].addr}]
<1>1. PeersTyped /\ PeersBounded /\ ListsApart /\ TriedKnown
  BY DEF PeersInv
<1>2. /\ rrp[r].pc = "get" /\ ~(rrp[r].config # config) /\ Peers!Single(rrp[r].group)
           /\ ~Peers!Full(p)
      /\ mem' = [mem EXCEPT ![p] = m]
      /\ rrp' = [rrp EXCEPT ![r].pc = "connected", ![r].current = p,
                            ![r].addr = mem[p].addr, ![r].used = @ \cup {mem[p].addr}]
      /\ UNCHANGED <<upstream, list, config, seconds, orphans, probed, picked>>
  BY DEF Peers!GetSingle, Peers!ConfigChanged, Peers!Hold, Peers!ghosts
<1>3. rrp[r] \in SeekerRec /\ rrp[r].group = 1 /\ 1 \in DOMAIN list[rrp[r].group]
      /\ p = list[rrp[r].group][1]
  <2>1. rrp[r].group = 1 /\ Len(list[1]) = 1
    BY <1>2 DEF Peers!Single
  <2>2. DOMAIN list[1] = 1 .. Len(list[1])
    BY <1>1, ListedIs
  <2> QED
    BY <2>1, <2>2, SeekerIs
<1>4. p \in Memory /\ n \in PeerRec /\ n.addr \in Addrs
  BY <1>1, <1>3, ListedIs, PeerIs DEF ListsApart
<1> HIDE DEF p, n, x
<1>5. rrp' = [rrp EXCEPT ![r] = x]
  <2>1. DOMAIN rrp = Seekers
    BY <1>1 DEF PeersTyped
  <2> QED
    BY <1>2, <2>1 DEF x
<1>6. /\ x \in SeekerRec /\ x.pc = "connected" /\ x.current = p /\ x.addr = n.addr
      /\ x.config = rrp[r].config /\ x.group = rrp[r].group
      /\ x.used = rrp[r].used \cup {n.addr}
  <2>1. rrp[r].used \cup {n.addr} \in SUBSET Addrs
    BY <1>3, <1>4 DEF SeekerRec
  <2> QED
    BY <1>3, <1>4, <2>1 DEF x, n, SeekerRec
<1>7. n.refs + 1 \in Nat /\ n.conns + 1 \in Nat /\ n.checked \in Nat
  BY <1>4 DEF PeerRec
<1>8. /\ m \in PeerRec /\ m.addr = n.addr /\ (m.zombie <=> n.zombie) /\ m.cw = n.cw
      /\ m.refs = n.refs + 1 /\ m.conns = n.conns + 1 /\ m.ew = n.ew /\ m.fails = n.fails
      /\ m.accessed = n.accessed /\ m.checked = n.checked
  BY <1>4, <1>7 DEF PeerRec
<1> HIDE DEF m
<1>9. mem'[p] = m /\ (\A q \in Memory \ {p} : mem'[q] = mem[q])
      /\ mem' \in [Memory -> PeerRec \cup {[addr |-> 0]}]
  BY <1>1, <1>2, <1>4, <1>8 DEF PeersTyped
<1>10. \A q \in Memory : mem[q].addr # 0 =>
          /\ mem[q] \in PeerRec /\ mem[q].ew <= Weight(mem[q].addr) /\ mem[q].checked <= seconds
  BY <1>1, PeerIs DEF PeersBounded
<1>11. 0 \notin Addrs
  BY <1>1, ScenarioFacts DEF PeersTyped
<1>12. TakenAt(mem', p)
  <2>1. \A q \in Memory : mem[q].addr = 0 => mem'[q] = mem[q]
    BY <1>4, <1>9, <1>11 DEF n
  <2>2. ASSUME NEW q \in Memory, mem[q].addr # 0
        PROVE Turned(mem'[q], mem[q], IF q = p THEN 1 ELSE 0)
    <3>1. CASE q = p
      <4>1. Turned(m, n, 1)
        BY <1>7, <1>8, <1>10, <2>2, <3>1 DEF Turned, n
      <4> QED
        BY <1>9, <3>1, <4>1 DEF n
    <3>2. CASE q # p
      <4>1. mem[q].refs \in Nat /\ mem[q].conns \in Nat /\ mem[q].checked \in Nat
        BY <1>10, <2>2 DEF PeerRec
      <4>2. Turned(mem[q], mem[q], 0)
        BY <1>10, <2>2, <4>1 DEF Turned
      <4> QED
        BY <1>9, <3>2, <4>2
    <3> QED
      BY <3>1, <3>2
  <2> QED
    BY <1>9, <2>1, <2>2 DEF TakenAt
<1>13. TakesServer(x, r, p)
  BY Zenon, <1>6 DEF TakesServer, n
<1>14. /\ PeersTyped' /\ PeersBounded' /\ ListsApart' /\ RefsCounted'
       /\ RequestsPlaced' /\ TriedKnown' /\ ProbesPast'
  <2>1. probed' \in [Memory -> Int] /\ picked' \in [Addrs -> Nat] /\ ProbesMove
    BY <1>1, <1>2 DEF PeersTyped, ProbesMove
  <2> QED
    BY <1>2, <1>3, <1>5, <1>12, <1>13, <2>1, ChosenServer
<1>15. Balanced' /\ Turns'
  <2>1. WeightsRest
    <3>1. SUFFICES ASSUME NEW g \in 1 .. 2, NEW i \in DOMAIN list[g]
          PROVE  LET q == list[g][i] IN
                 /\ mem'[q].addr = mem[q].addr /\ mem'[q].cw = mem[q].cw
                 /\ mem'[q].ew = mem[q].ew /\ mem'[q].fails = mem[q].fails
      BY DEF WeightsRest
    <3>2. PICK q \in Memory : q = list[g][i]
      BY <1>1, ListedIs
    <3> QED
      BY <1>8, <1>9, <3>2 DEF n
  <2>2. \A s \in Seekers : rrp'[s].pc = "get" => rrp'[s] = rrp[s]
    <3>1. rrp'[r] = x /\ \A s \in Seekers \ {r} : rrp'[s] = rrp[s]
      BY <1>1, <1>5 DEF PeersTyped
    <3> QED
      BY <1>6, <3>1
  <2> QED
    BY <1>2, <2>1, <2>2, WeightsKept
<1>16. rrp[r].used = {}
  BY <1>1, <1>2 DEF TriedKnown
<1> QED
  BY <1>14, <1>15, <1>16 DEF PeersInv

\* The least of some numbers.
LEMMA PeersMin ==
    ASSUME NEW S \in SUBSET Nat, S # {}
    PROVE  Peers!Min(S) \in S /\ \A y \in S : Peers!Min(S) <= y
<1>1. PICK x \in S : \A y \in S : ~(<<y, x>> \in OpToRel(<, Nat))
  BY WFMin, NatLessThanWellFounded
<1>2. \A y \in S : x <= y
  <2>1. SUFFICES ASSUME NEW y \in S, y < x PROVE FALSE
    OBVIOUS
  <2>2. <<y, x>> \in OpToRel(<, Nat)
    BY <2>1 DEF OpToRel
  <2> QED
    BY <1>1, <2>2
<1> QED
  BY <1>2 DEF Peers!Min

\* What the best server is chosen by.
Gain(r, i) == mem[list[rrp[r].group][i]].cw + mem[list[rrp[r].group][i]].ew

\* The servers a request may choose are listed, untried, rested and not full.
LEMMA EligibleIs ==
    ASSUME PeersInv, NEW r \in Seekers
    PROVE  /\ rrp[r].group \in 1 .. 2
           /\ IsFiniteSet(Peers!Eligible(r))
                /\ Peers!Eligible(r) \in SUBSET (DOMAIN list[rrp[r].group])
           /\ \A i \in Peers!Eligible(r) : i \in Nat /\ i \notin rrp[r].tried /\ Gain(r, i) \in Int
           /\ \A i \in Peers!Eligible(r) : ~Peers!Full(list[rrp[r].group][i])
                                           /\ ~Peers!Resting(list[rrp[r].group][i])
<1>1. rrp[r].group \in 1 .. 2
  BY SeekerIs DEF SeekerRec
<1>2. PeersTyped /\ ListsApart
  BY DEF PeersInv
<1>3. Peers!Eligible(r) \in SUBSET (DOMAIN list[rrp[r].group])
  BY DEF Peers!Eligible
<1>4. IsFiniteSet(Peers!Eligible(r))
  BY <1>1, <1>2, <1>3, ListedIs, FS_Subset
<1>5. \A i \in Peers!Eligible(r) : i \notin rrp[r].tried
        /\ ~Peers!Full(list[rrp[r].group][i]) /\ ~Peers!Resting(list[rrp[r].group][i])
  BY DEF Peers!Eligible
<1>6. ASSUME NEW i \in Peers!Eligible(r) PROVE i \in Nat /\ Gain(r, i) \in Int
  <2>1. DOMAIN list[rrp[r].group] = 1 .. Len(list[rrp[r].group]) /\ Len(list[rrp[r].group]) \in Nat
    BY <1>1, <1>2, ListedIs
  <2>2. i \in Nat
    BY <1>3, <2>1
  <2>3. PICK q \in Memory : q = list[rrp[r].group][i] /\ mem[q].addr # 0
    BY <1>1, <1>2, <1>3, ListedIs DEF ListsApart
  <2>4. mem[q].cw \in Int /\ mem[q].ew \in Nat
    BY <1>2, <2>3, PeerIs DEF PeerRec
  <2> QED
    BY <2>2, <2>3, <2>4 DEF Gain
<1> QED
  BY <1>1, <1>3, <1>4, <1>5, <1>6

\* The best server is one of those, and none of them gains more.
LEMMA BestIs ==
    ASSUME PeersInv, NEW r \in Seekers, Peers!Eligible(r) # {}
    PROVE  /\ Peers!Best(r) \in Peers!Eligible(r)
           /\ \A j \in Peers!Eligible(r) : Gain(r, j) <= Gain(r, Peers!Best(r))
<1> DEFINE E == Peers!Eligible(r)
           f == [i \in E |-> Gain(r, i)]
           S == {i \in E : \A j \in E : Gain(r, j) <= Gain(r, i)}
<1>1. IsFiniteSet(E) /\ \A i \in E : i \in Nat /\ Gain(r, i) \in Int
  BY EligibleIs
<1>2. Peers!Best(r) = Peers!Min(S)
  BY DEF Peers!Best, Gain
<1> HIDE DEF E
<1>3. S # {}
  <2>1. Summed(f, E)
    BY <1>1 DEF Summed
  <2>2. \E x \in E : \A y \in E : f[y] <= f[x]
    <3> HIDE DEF f
    <3> QED
      BY <1>1, <2>1, Greatest DEF E
  <2> QED
    BY <2>2
<1>4. S \in SUBSET Nat
  BY <1>1
<1>5. Peers!Min(S) \in S
  BY <1>3, <1>4, PeersMin
<1> QED
  BY <1>2, <1>5 DEF E

\* What the best server pays is what all of them gain.
LEMMA TotalIs ==
    ASSUME PeersInv, NEW r \in Seekers
    PROVE  /\ Peers!Total(r) \in Nat
           /\ Peers!Total(r) = Sum([i \in Peers!Eligible(r) |-> mem[list[rrp[r].group][i]].ew],
                                   Peers!Eligible(r))
<1> DEFINE E == Peers!Eligible(r)
           f == [i \in E |-> mem[list[rrp[r].group][i]].ew]
<1>1. Peers!Total(r) = Peers!SumFunction(f)
  BY DEF Peers!Total
<1>2. DOMAIN f = E
  OBVIOUS
<1>3. IsFiniteSet(E) /\ \A i \in E : f[i] \in Nat
  <2>1. IsFiniteSet(E) /\ E \in SUBSET (DOMAIN list[rrp[r].group]) /\ rrp[r].group \in 1 .. 2
    BY EligibleIs
  <2>2. PeersTyped /\ ListsApart
    BY DEF PeersInv
  <2>3. \A i \in E : list[rrp[r].group][i] \in Memory /\ mem[list[rrp[r].group][i]].addr # 0
    BY <2>1, <2>2, ListedIs DEF ListsApart
  <2> HIDE DEF E
  <2>4. \A i \in E : mem[list[rrp[r].group][i]].ew \in Nat
    BY <2>2, <2>3, PeerIs DEF PeerRec
  <2> QED
    BY <2>1, <2>4 DEF E
<1> HIDE DEF f, E
<1>4. Peers!Total(r) = Sum(f, E)
  BY Zenon, <1>1, <1>2, SumIs
<1> QED
  BY <1>3, <1>4, SumCovers DEF f, E

(* What a choice with the weights does to the memory.                      *)
LEMMA WeighedIs ==
    ASSUME PeersInv, NEW r \in Seekers, Peers!GetPeer(r),
           NEW g, g = rrp[r].group, NEW b, b = Peers!Best(r), NEW p, p = list[g][b]
    PROVE  /\ g \in 1 .. 2 /\ b \in DOMAIN list[g] /\ b \in Peers!Eligible(r)
           /\ p \in Memory /\ mem[p].addr \in Addrs
           /\ TakenAt(mem', p)
           /\ \A i \in DOMAIN list[g] : LET q == list[g][i] IN
               /\ mem'[q].cw = mem[q].cw + (IF i \in Peers!Eligible(r) THEN mem[q].ew ELSE 0)
                                 - (IF i = b THEN Peers!Total(r) ELSE 0)
               /\ mem'[q].ew = IF i \in Peers!Eligible(r) /\ mem[q].ew < Weight(mem[q].addr)
                               THEN mem[q].ew + 1 ELSE mem[q].ew
               /\ mem'[q].fails = mem[q].fails
           /\ \A q \in Memory : (\A i \in DOMAIN list[g] : list[g][i] # q) => mem'[q] = mem[q]
           /\ mem'[p].checked = Peers!Checked(mem[p])
<1> DEFINE E == Peers!Eligible(r)
           T == Peers!Total(r)
           W == Peers!Weighed(r)
<1>1. PeersTyped /\ PeersBounded /\ ListsApart
  BY Zenon DEF PeersInv
<1>2. /\ g \in 1 .. 2 /\ E # {} /\ E \in SUBSET (DOMAIN list[g])
      /\ b \in E /\ b \in DOMAIN list[g]
      /\ mem' = [W EXCEPT ![p] = [Peers!Hold(W[p]) EXCEPT !.checked = Peers!Checked(W[p])]]
  <2>1. Peers!Eligible(r) # {}
    BY Zenon DEF Peers!GetPeer
  <2>2. Peers!Best(r) \in E /\ E \in SUBSET (DOMAIN list[g]) /\ g \in 1 .. 2
    BY Zenon, <2>1, BestIs, EligibleIs
  <2> QED
    BY ZenonT(40), <2>1, <2>2 DEF Peers!GetPeer
<1>3. \A i \in DOMAIN list[g] : /\ list[g][i] \in Memory /\ mem[list[g][i]].addr # 0
                                /\ mem[list[g][i]] \in PeerRec
  BY Zenon, <1>1, <1>2, ListedIs, PeerIs DEF ListsApart
<1>4. p \in Memory /\ mem[p].addr \in Addrs
  BY Zenon, <1>2, <1>3 DEF PeerRec
<1>5. \A i, j \in DOMAIN list[g] : list[g][i] = list[g][j] => i = j
  BY <1>1, <1>2 DEF ListsApart
<1>6. T \in Nat
  BY TotalIs
<1>7. W = [q \in Memory |-> IF q \notin {list[g][i] : i \in E} THEN mem[q] ELSE
             [mem[q] EXCEPT !.cw = @ + mem[q].ew - (IF q = p THEN T ELSE 0),
                            !.ew = IF @ < upstream.weight[mem[q].addr] THEN @ + 1 ELSE @]]
  BY DEF Peers!Weighed, Peers!Pays
<1> HIDE DEF E, T, W
<1>8. seconds \in Nat /\ upstream.timeout \in Nat /\ \A a \in Addrs : Weight(a) \in Nat
  BY <1>1, ScenarioFacts DEF PeersTyped, Weight
<1>9. ASSUME NEW q \in Memory, q \notin {list[g][i] : i \in E} PROVE W[q] = mem[q]
  BY <1>7, <1>9
\* The weights of an eligible peer.
<1>10. ASSUME NEW i \in E, NEW q \in Memory, q = list[g][i]
       PROVE  /\ W[q] \in PeerRec /\ W[q].addr = mem[q].addr /\ (W[q].zombie <=> mem[q].zombie)
              /\ W[q].refs = mem[q].refs /\ W[q].conns = mem[q].conns /\ W[q].fails = mem[q].fails
              /\ W[q].accessed = mem[q].accessed /\ W[q].checked = mem[q].checked
              /\ W[q].cw = mem[q].cw + mem[q].ew - (IF i = b THEN T ELSE 0)
              /\ W[q].ew = IF mem[q].ew < Weight(mem[q].addr) THEN mem[q].ew + 1 ELSE mem[q].ew
  <2> DEFINE n == mem[q]
             c == n.cw + n.ew - (IF q = p THEN T ELSE 0)
             e == IF n.ew < Weight(n.addr) THEN n.ew + 1 ELSE n.ew
             m == [n EXCEPT !.cw = c, !.ew = e]
  <2>1. n \in PeerRec
    BY Zenon, <1>2, <1>3, <1>10
  <2>2. W[q] = m
    BY Zenon, <1>7, <1>10 DEF Weight
  <2>3. n.cw \in Int /\ n.ew \in Nat
    BY <2>1 DEF PeerRec
  <2>4. c \in Int /\ e \in Nat
    BY <1>6, <2>3
  <2>5. c = n.cw + n.ew - (IF i = b THEN T ELSE 0)
    <3>1. q = p <=> i = b
      BY <1>2, <1>5, <1>10
    <3> QED
      BY <3>1
  <2> HIDE DEF n, c, e
  <2>6. /\ m \in PeerRec /\ m.addr = n.addr /\ (m.zombie <=> n.zombie)
        /\ m.refs = n.refs /\ m.conns = n.conns /\ m.fails = n.fails
        /\ m.accessed = n.accessed /\ m.checked = n.checked /\ m.cw = c /\ m.ew = e
    BY Zenon, <2>1, <2>4 DEF PeerRec
  <2> HIDE DEF m
  <2> QED
    BY Zenon, <2>2, <2>5, <2>6 DEF n, e
<1>11. ASSUME NEW q \in Memory, q # p PROVE mem'[q] = W[q]
  BY ZenonT(40), <1>2, <1>4, <1>7, <1>11
\* The best pays and is held.
<1>12. /\ mem'[p] \in PeerRec /\ mem'[p].addr = mem[p].addr /\ (mem'[p].zombie <=> mem[p].zombie)
       /\ mem'[p].refs = mem[p].refs + 1 /\ mem'[p].conns = mem[p].conns + 1
       /\ mem'[p].fails = mem[p].fails /\ mem'[p].accessed = mem[p].accessed
       /\ mem'[p].cw = W[p].cw /\ mem'[p].ew = W[p].ew
       /\ mem'[p].checked = Peers!Checked(mem[p])
  <2> DEFINE n == W[p]
             h == [n EXCEPT !.refs = @ + 1, !.conns = @ + 1]
             c == Peers!Checked(mem[p])
             m == [h EXCEPT !.checked = c]
  <2>1. /\ n \in PeerRec /\ n.addr = mem[p].addr /\ (n.zombie <=> mem[p].zombie)
        /\ n.refs = mem[p].refs /\ n.conns = mem[p].conns /\ n.fails = mem[p].fails
        /\ n.accessed = mem[p].accessed /\ n.checked = mem[p].checked
    BY Zenon, <1>2, <1>4, <1>10
  <2>2. Peers!Checked(n) = c
    BY Zenon, <2>1 DEF Peers!Checked
  <2>3. mem'[p] = m
    BY ZenonT(40), <1>2, <1>4, <1>7, <2>2 DEF Peers!Hold
  <2>4. n.refs + 1 \in Nat /\ n.conns + 1 \in Nat
    BY <2>1 DEF PeerRec
  <2>5. c \in Nat
    <3>1. mem[p].checked \in Nat
      BY Zenon, <1>2, <1>3 DEF PeerRec
    <3> QED
      BY Zenon, <1>8, <3>1 DEF Peers!Checked
  <2> HIDE DEF n, c
  <2>6. /\ h \in PeerRec /\ h.addr = n.addr /\ (h.zombie <=> n.zombie)
        /\ h.refs = n.refs + 1 /\ h.conns = n.conns + 1 /\ h.fails = n.fails
        /\ h.accessed = n.accessed /\ h.cw = n.cw /\ h.ew = n.ew
    BY Zenon, <2>1, <2>4 DEF PeerRec
  <2> HIDE DEF h
  <2>7. /\ m \in PeerRec /\ m.addr = h.addr /\ (m.zombie <=> h.zombie)
        /\ m.refs = h.refs /\ m.conns = h.conns /\ m.fails = h.fails
        /\ m.accessed = h.accessed /\ m.cw = h.cw /\ m.ew = h.ew /\ m.checked = c
    BY <2>5, <2>6 DEF PeerRec
  <2> HIDE DEF m
  <2> QED
    BY Zenon, <2>1, <2>3, <2>6, <2>7 DEF n, c
<1>13. ASSUME NEW q \in Memory, mem[q].addr = 0 PROVE mem'[q] = mem[q]
  <2>1. q \notin {list[g][i] : i \in E}
    BY Zenon, <1>2, <1>3, <1>13
  <2>2. q # p
    BY <1>2, <1>3, <1>13
  <2> QED
    BY Zenon, <1>9, <1>11, <2>1, <2>2
<1>14. ASSUME NEW q \in Memory, mem[q].addr # 0
       PROVE  Turned(mem'[q], mem[q], IF q = p THEN 1 ELSE 0)
  <2>1. /\ mem[q] \in PeerRec /\ mem[q].ew <= Weight(mem[q].addr) /\ mem[q].checked <= seconds
        /\ mem[q].addr \in Addrs
    BY <1>1, <1>14, PeerIs DEF PeersBounded
  <2>2. /\ mem[q].refs \in Nat /\ mem[q].conns \in Nat /\ mem[q].checked \in Nat
             /\ mem[q].ew \in Nat
        /\ Weight(mem[q].addr) \in Nat
    BY <1>8, <2>1 DEF PeerRec
  <2>3. W[q].ew <= Weight(mem[q].addr)
    <3>1. CASE q \in {list[g][i] : i \in E}
      <4>1. PICK i \in E : q = list[g][i]
        BY <3>1
      <4> QED
        BY <1>10, <2>1, <2>2, <4>1
    <3>2. CASE q \notin {list[g][i] : i \in E}
      BY Zenon, <1>9, <2>1, <3>2
    <3> QED
      BY Zenon, <3>1, <3>2
  <2>4. CASE q = p
    <3>1. Peers!Checked(mem[p]) \in Nat /\ mem[p].checked <= Peers!Checked(mem[p])
          /\ Peers!Checked(mem[p]) <= seconds
      BY <1>8, <2>1, <2>2, <2>4 DEF Peers!Checked
    <3> QED
      BY Zenon, <1>12, <2>3, <2>4, <3>1 DEF Turned
  <2>5. CASE q # p
    <3>1. CASE q \in {list[g][i] : i \in E}
      <4>1. PICK i \in E : q = list[g][i]
        BY <3>1
      <4>2. /\ W[q] \in PeerRec /\ W[q].addr = mem[q].addr /\ (W[q].zombie <=> mem[q].zombie)
            /\ W[q].refs = mem[q].refs /\ W[q].conns = mem[q].conns
            /\ W[q].accessed = mem[q].accessed /\ W[q].checked = mem[q].checked
        BY <1>10, <4>1
      <4>3. Turned(W[q], mem[q], 0)
        BY <2>1, <2>2, <2>3, <4>2 DEF Turned
      <4> QED
        BY Zenon, <1>11, <2>5, <4>3
    <3>2. CASE q \notin {list[g][i] : i \in E}
      <4>1. mem'[q] = mem[q]
        BY <1>9, <1>11, <2>5, <3>2
      <4>2. Turned(mem[q], mem[q], 0)
        BY <2>1, <2>2 DEF Turned
      <4> QED
        BY <2>5, <4>1, <4>2
    <3> QED
      BY <3>1, <3>2
  <2> QED
    BY <2>4, <2>5
<1>15. mem' \in [Memory -> PeerRec \cup {[addr |-> 0]}]
  <2>1. ASSUME NEW q \in Memory PROVE mem'[q] \in PeerRec \cup {[addr |-> 0]}
    <3>1. CASE mem[q].addr = 0
      BY <1>1, <1>13, <3>1 DEF PeersTyped
    <3>2. CASE mem[q].addr # 0
      BY <1>14, <3>2 DEF Turned
    <3> QED
      BY <3>1, <3>2
  <2> HIDE DEF PeerRec
  <2>2. mem' = [q \in Memory |-> mem'[q]]
    <3> DEFINE z == [Peers!Hold(W[p]) EXCEPT !.checked = Peers!Checked(W[p])]
    <3>1. mem' = [W EXCEPT ![p] = z]
      BY <1>2
    <3> HIDE DEF z
    <3>2. \E F : W = [q \in Memory |-> F[q]]
      <4>1. W = [q \in Memory |-> W[q]]
        <5> DEFINE F(q) == IF q \notin {list[g][i] : i \in E} THEN mem[q] ELSE
             [mem[q] EXCEPT !.cw = @ + mem[q].ew - (IF q = p THEN T ELSE 0),
                            !.ew = IF @ < upstream.weight[mem[q].addr] THEN @ + 1 ELSE @]
        <5>1. W = [q \in Memory |-> F(q)]
          BY <1>7
        <5> HIDE DEF F
        <5> QED
          BY Zenon, <5>1
      <4> QED
        BY <4>1
    <3> QED
      BY <3>1, <3>2
  <2> QED
    BY <2>1, <2>2
<1>16. TakenAt(mem', p)
  BY Zenon, <1>13, <1>14, <1>15 DEF TakenAt
<1>17. ASSUME NEW i \in DOMAIN list[g]
       PROVE  LET q == list[g][i] IN
              /\ mem'[q].cw
                   = mem[q].cw + (IF i \in E THEN mem[q].ew ELSE 0) - (IF i = b THEN T ELSE 0)
              /\ mem'[q].ew = IF i \in E /\ mem[q].ew < Weight(mem[q].addr)
                              THEN mem[q].ew + 1 ELSE mem[q].ew
              /\ mem'[q].fails = mem[q].fails
  <2>1. PICK q \in Memory : q = list[g][i] /\ mem[q] \in PeerRec
    BY Zenon, <1>3
  <2>2. mem'[q].cw = W[q].cw /\ mem'[q].ew = W[q].ew
    BY Zenon, <1>11, <1>12
  <2>3. CASE i \in E
    <3>1. mem'[q].fails = mem[q].fails
      <4>1. W[q].fails = mem[q].fails
        BY <1>10, <2>1, <2>3
      <4> QED
        BY <1>11, <1>12, <2>1, <4>1
    <3> QED
      BY Zenon, <1>10, <2>1, <2>2, <2>3, <3>1
  <2>4. CASE i \notin E
    <3>1. q \notin {list[g][j] : j \in E}
      BY Zenon, <1>2, <1>5, <2>1, <2>4
    <3>2. i # b /\ q # p
      BY <1>2, <1>5, <2>1, <2>4
    <3>3. mem'[q] = mem[q]
      BY <1>9, <1>11, <3>1, <3>2
    <3>4. mem[q].cw = mem[q].cw + 0 - 0
      BY <2>1 DEF PeerRec
    <3> QED
      BY Zenon, <2>1, <2>4, <3>2, <3>3, <3>4
  <2> QED
    BY <2>3, <2>4
<1>18. \A q \in Memory : (\A i \in DOMAIN list[g] : list[g][i] # q) => mem'[q] = mem[q]
  BY <1>2, <1>9, <1>11
<1> QED
  BY Zenon, <1>2, <1>4, <1>12, <1>16, <1>17, <1>18 DEF E, T

\* How the current weights of the listed peers of group g change in a turn.
Turn(r, g, b) ==
    \A i \in DOMAIN list[g] : LET q == list[g][i] IN
        /\ mem'[q].cw = mem[q].cw + (IF i \in Peers!Eligible(r) THEN mem[q].ew ELSE 0)
                          - (IF i = b THEN Peers!Total(r) ELSE 0)
        /\ mem'[q].ew = IF i \in Peers!Eligible(r) /\ mem[q].ew < Weight(mem[q].addr)
                        THEN mem[q].ew + 1 ELSE mem[q].ew
        /\ mem'[q].fails = mem[q].fails

\* A listed place holds a server.
LEMMA ListedPeer ==
    ASSUME PeersInv, NEW g \in 1 .. 2, NEW i \in DOMAIN list[g]
    PROVE  /\ list[g][i] \in Memory /\ mem[list[g][i]] \in PeerRec
           /\ mem[list[g][i]].addr # 0 /\ mem[list[g][i]].addr \in Addrs
           /\ mem[list[g][i]].cw \in Int /\ mem[list[g][i]].ew \in Nat
<1>1. PeersTyped /\ ListsApart
  BY DEF PeersInv
<1>2. list[g][i] \in Memory /\ mem[list[g][i]].addr # 0
  BY <1>1, ListedIs DEF ListsApart
<1>3. mem[list[g][i]] \in PeerRec
  BY <1>1, <1>2, PeerIs
<1> QED
  BY <1>2, <1>3 DEF PeerRec

\* A turn leaves the current weights in balance.
LEMMA BalancedTurn ==
    ASSUME PeersInv, NEW r \in Seekers, NEW g \in 1 .. 2, g = rrp[r].group,
           NEW b \in DOMAIN list[g], b \in Peers!Eligible(r), Turn(r, g, b),
           \A q \in Memory : (\A i \in DOMAIN list[g] : list[g][i] # q) => mem'[q] = mem[q],
           UNCHANGED <<upstream, list>>
    PROVE  Balanced'
<1>1. PeersTyped /\ ListsApart /\ Balanced /\ upstream' = upstream /\ list' = list
  BY DEF PeersInv
<1>2. SUFFICES ASSUME NEW h \in (1 .. 2) \ upstream.resolving
      PROVE  Sum(Credits(h)', DOMAIN list[h]) = 0
  BY <1>1 DEF Balanced
<1>3. CASE h # g
  <2>1. ASSUME NEW i \in DOMAIN list[h] PROVE mem'[list[h][i]] = mem[list[h][i]]
    <3>1. list[h][i] \in Memory
      BY ListedPeer
    <3>2. \A j \in DOMAIN list[g] : list[g][j] # list[h][i]
      BY <1>1, <1>3 DEF ListsApart
    <3> QED
      BY <3>1, <3>2
  <2>2. Credits(h)' = Credits(h)
    BY <1>1, <2>1 DEF Credits
  <2> QED
    BY <1>1, <2>2 DEF Balanced
<1>4. CASE h = g
  <2> DEFINE D == DOMAIN list[g]
             E == Peers!Eligible(r)
             T == Peers!Total(r)
             f == Credits(g)
             e == [i \in D |-> IF i \in E THEN mem[list[g][i]].ew ELSE 0]
             t == [i \in D |-> IF i = b THEN 0 - T ELSE 0]
             k == [i \in D |-> f[i] + e[i]]
             c == Credits(g)'
  <2>1. IsFiniteSet(D) /\ E \in SUBSET D /\ IsFiniteSet(E)
    BY <1>1, ListedIs, EligibleIs
  <2>0. T \in Nat
    BY TotalIs
  <2>2. T = Sum([i \in E |-> mem[list[g][i]].ew], E)
    BY TotalIs
  <2>3. \A i \in D : mem[list[g][i]].cw \in Int /\ mem[list[g][i]].ew \in Nat
    BY ListedPeer
  <2>4. \A i \in D : f[i] = mem[list[g][i]].cw
    BY DEF Credits
  <2>5. \A i \in D : c[i] = mem'[list[g][i]].cw
    BY <1>1 DEF Credits
  <2>6. \A i \in D :
          mem'[list[g][i]].cw = mem[list[g][i]].cw + (IF i \in E THEN mem[list[g][i]].ew ELSE 0)
                          - (IF i = b THEN T ELSE 0)
    BY DEF Turn
  <2> HIDE DEF D, E, T, f, c
  <2>7. Summed(f, D) /\ Summed(e, D) /\ Summed(t, D) /\ Summed(k, D)
    <3>1. \A i \in D : f[i] \in Int /\ e[i] \in Int
      BY <2>3, <2>4
    <3>2. \A i \in D : t[i] \in Int
      BY <2>0
    <3> HIDE DEF e, t
    <3>3. \A i \in D : k[i] \in Int
      BY <3>1
    <3> HIDE DEF k
    <3> QED
      BY <3>1, <3>2, <3>3 DEF Summed
  <2>8. \A i \in D : c[i] = k[i] + t[i]
    <3>1. SUFFICES ASSUME NEW i \in D PROVE c[i] = k[i] + t[i]
      OBVIOUS
    <3>2. PICK u \in Int, v \in Nat : u = mem[list[g][i]].cw /\ v = mem[list[g][i]].ew
      BY <2>3
    <3>3. c[i] = u + (IF i \in E THEN v ELSE 0) - (IF i = b THEN T ELSE 0)
      BY <2>5, <2>6, <3>2
    <3>4. k[i] = u + (IF i \in E THEN v ELSE 0) /\ t[i] = IF i = b THEN 0 - T ELSE 0
      BY <2>4, <3>2
    <3> HIDE DEF k, t
    <3> QED
      BY <2>0, <3>3, <3>4
  <2>9. Sum(e, D) = T
    <3>1. \A i \in D \ E : e[i] = 0
      OBVIOUS
    <3> DEFINE w == [i \in E |-> mem[list[g][i]].ew]
    <3>2. \A i \in E : w[i] = e[i]
      BY <2>1
    <3>3. Summed(e, E)
      BY <2>1, <2>7 DEF Summed
    <3>4. T = Sum(w, E)
      BY <2>2
    <3> HIDE DEF e, w
    <3>5. Sum(e, D) = Sum(e, E)
      BY <2>1, <2>7, <3>1, SumWithin
    <3>6. Sum(w, E) = Sum(e, E)
      BY <2>1, <3>2, <3>3, SumSame
    <3> QED
      BY <3>4, <3>5, <3>6
  <2>10. Sum(t, D) = 0 - T
    <3>1. b \in D /\ t[b] = 0 - T /\ \A i \in D \ {b} : t[i] = 0
      BY Zenon DEF D
    <3> HIDE DEF t
    <3>2. Sum(t, D) = t[b] + Sum(t, D \ {b})
      BY <2>1, <2>7, <3>1, SumTaken
    <3>3. Sum(t, D \ {b}) = 0
      <4>1. IsFiniteSet(D \ {b})
        BY <2>1, FS_Subset
      <4> QED
        BY <3>1, <4>1, SumZero
    <3> QED
      BY <2>0, <3>1, <3>2, <3>3
  <2>11. Sum(f, D) = 0
    BY <1>1, <1>4 DEF Balanced, f, D
  <2>12. \A i \in D : k[i] = f[i] + e[i]
    OBVIOUS
  <2> HIDE DEF e, t, k
  <2>13. Sum(k, D) = Sum(f, D) + Sum(e, D)
    BY <2>1, <2>7, <2>12, SumAdds
  <2>14. Sum(c, D) = Sum(k, D) + Sum(t, D)
    BY <2>1, <2>7, <2>8, SumAdds
  <2>15. Sum(c, D) = 0
    BY <2>0, <2>9, <2>10, <2>11, <2>13, <2>14
  <2> QED
    BY <1>4, <2>15 DEF c, D
<1> QED
  BY <1>3, <1>4

(* A server that is due after n of W choices has not had its weight.       *)
LEMMA Behind ==
    ASSUME NEW n \in Nat, NEW W \in Nat, n < W, NEW w \in Nat, NEW k \in Nat, n * w - W * k + w > 0
    PROVE  k < w
<1> SUFFICES ASSUME k >= w PROVE FALSE
  OBVIOUS
<1>1. PICK d \in Nat : k = w + d
  <2>1. k - w \in Nat /\ k = w + (k - w)
    OBVIOUS
  <2> QED
    BY <2>1
<1>2. PICK e \in Nat : W = (n + 1) + e
  <2>1. W - (n + 1) \in Nat /\ W = (n + 1) + (W - (n + 1))
    OBVIOUS
  <2> QED
    BY <2>1
<1>3. W * k = W * w + W * d
  BY <1>1
<1>4. W * w = n * w + w + e * w
  BY <1>2
<1>5. W * d \in Nat /\ e * w \in Nat /\ n * w \in Nat
  OBVIOUS
<1> QED
  BY ONLY <1>3, <1>4, <1>5, n * w - W * k + w > 0, n \in Nat, W \in Nat, k \in Nat, w \in Nat

\* The current weight after one turn more, chosen or not.
LEMMA OneTurn ==
    ASSUME NEW n \in Nat, NEW W \in Nat, NEW w \in Nat, NEW k \in Nat
    PROVE  /\ n * w - W * k + w = (n + 1) * w - W * k
           /\ n * w - W * k + w - W = (n + 1) * w - W * (k + 1)
           /\ n * w - W * k \in Int
           /\ (n + 1) * w \in Nat /\ W * k \in Nat /\ W * (k + 1) \in Nat
OBVIOUS

\* How a choice is counted in the round.
LEMMA CountIs ==
    ASSUME PeersInv, NEW a \in Addrs, Peers!Count(a)
    PROVE  LET n == [picked EXCEPT ![a] = @ + 1] IN
           /\ ~Peers!Steady => picked' = picked
           /\ Peers!Steady /\ Sum(n, Addrs) = AllWeights =>
                 picked' = [c \in Addrs |-> n[c] - Weight(c)]
           /\ Peers!Steady /\ Sum(n, Addrs) # AllWeights => picked' = n
<1> DEFINE n == [picked EXCEPT ![a] = @ + 1]
           round == Peers!SumFunction(n) = Peers!SumFunction(upstream.weight)
<1>1. upstream.weight \in [Addrs -> Nat \ {0}] /\ picked \in [Addrs -> Nat]
  BY ScenarioFacts DEF PeersInv, PeersTyped
<1>2. picked' = CASE ~Peers!Steady -> picked
                  [] Peers!Steady /\ round -> [c \in Addrs |-> n[c] - upstream.weight[c]]
                  [] OTHER -> n
  BY DEF Peers!Count
<1>3. DOMAIN n = Addrs /\ DOMAIN upstream.weight = Addrs
  BY <1>1
<1> HIDE DEF n
<1>4. Peers!SumFunction(n) = Sum(n, Addrs)
        /\ Peers!SumFunction(upstream.weight) = Sum(upstream.weight, Addrs)
  BY <1>3, SumIs
<1>5. round <=> Sum(n, Addrs) = AllWeights
  BY <1>4 DEF AllWeights
<1> HIDE DEF round
<1>6. /\ ~Peers!Steady => picked' = picked
      /\ Peers!Steady /\ round => picked' = [c \in Addrs |-> n[c] - upstream.weight[c]]
      /\ Peers!Steady /\ ~round => picked' = n
  BY Zenon, <1>2
<1> QED
  BY <1>5, <1>6 DEF n, Weight

(* No server a request may choose gains more than b's.                     *)
Furthest(r, b) == \A j \in Peers!Eligible(r) : Gain(r, j) <= Gain(r, b)

(* Steady: one more choice of the server that is furthest behind.          *)
LEMMA SteadyTurn ==
    ASSUME PeersInv, Peers!Steady, NEW r \in Seekers, rrp[r].pc = "get",
           NEW b \in DOMAIN list[1], rrp[r].group = 1,
           Furthest(r, b), Turn(r, 1, b)
    PROVE  LET a == mem[list[1][b]].addr IN
           /\ AllPicked \in Nat /\ AllWeights \in Nat /\ AllPicked < AllWeights
           /\ \A c \in Addrs : Weight(c) \in Nat /\ picked[c] \in Nat /\ picked[c] <= Weight(c)
           /\ a \in Addrs /\ picked[a] < Weight(a)
           /\ \A i \in DOMAIN list[1] : LET q == list[1][i]
                                            c == mem[q].addr
                                            k == IF i = b THEN picked[c] + 1 ELSE picked[c] IN
               /\ mem'[q].ew = Weight(c) /\ mem'[q].fails = 0
               /\ mem'[q].cw = (AllPicked + 1) * Weight(c) - AllWeights * k
<1> DEFINE D == DOMAIN list[1]
           u == [i \in D |-> mem[list[1][i]].addr]
           a == u[b]
           n == AllPicked
           W == AllWeights
           T == Peers!Total(r)
           c == Credits(1)
           e == [i \in D |-> mem[list[1][i]].ew]
           k == [i \in D |-> Gain(r, i)]
<1>1. PeersTyped /\ ListsApart /\ Balanced /\ Turns
  BY DEF PeersInv
<1>2. /\ IsFiniteSet(Addrs) /\ upstream.weight \in [Addrs -> Nat \ {0}] /\ picked \in [Addrs -> Nat]
      /\ upstream.resolving = {}
  BY <1>1, ScenarioFacts DEF PeersTyped, Peers!Steady
<1>3. \A x \in Addrs : Weight(x) \in Nat /\ picked[x] \in Nat /\ picked[x] <= Weight(x)
                       /\ Weight(x) = upstream.weight[x]
  BY <1>1, <1>2 DEF Turns, Weight
<1>4. n \in Nat /\ W \in Nat
  <2>1. Sum(picked, Addrs) \in Nat
    BY <1>2, SumCovers
  <2>2. Sum(upstream.weight, Addrs) \in Nat
    BY <1>2, SumCovers
  <2> QED
    BY <2>1, <2>2 DEF AllPicked, AllWeights
<1>5. IsFiniteSet(D) /\ Peers!Eligible(r) = D /\ b \in D
  BY <1>1, ListedIs, AllEligible
<1>6. \A i \in D : u[i] \in Addrs /\ mem[list[1][i]].cw \in Int /\ mem[list[1][i]].ew \in Nat
                   /\ u[i] = mem[list[1][i]].addr
  BY ListedPeer
<1>7. a \in Addrs /\ n < W
  <2>1. a \in Addrs
    BY <1>5, <1>6
  <2> QED
    BY <1>1, <2>1 DEF Turns
<1>8. \A i \in D : /\ mem[list[1][i]].ew = Weight(u[i]) /\ mem[list[1][i]].fails = 0
                   /\ mem[list[1][i]].cw = n * Weight(u[i]) - W * picked[u[i]]
  BY <1>1 DEF Turns
<1>9. \A i, j \in D : u[i] = u[j] => i = j
  BY <1>1 DEF ListsApart
<1>10. {u[i] : i \in D} = Addrs
  <2>1. \A x \in Addrs : \E i \in D : mem[list[1][i]].addr = x
    BY <1>1 DEF Turns
  <2> HIDE DEF u, D
  <2> QED
    BY <1>6, <2>1
<1>11. /\ \A i \in D : e[i] = mem[list[1][i]].ew /\ c[i] = mem[list[1][i]].cw
       /\ \A i \in D : k[i] = Gain(r, i) /\ Gain(r, i) = mem[list[1][i]].cw + mem[list[1][i]].ew
  BY DEF Credits, Gain
<1>12. T = Sum(e, D)
  BY <1>5, TotalIs
<1>13. u \in [D -> Addrs]
  BY <1>6
<1>14. Sum(c, D) = 0
  BY <1>1, <1>2 DEF Balanced
<1>15. \A j \in D : Gain(r, j) <= Gain(r, b)
  BY <1>5 DEF Furthest
<1>16. \A i \in D : LET q == list[1][i] IN
          /\ mem'[q].cw = mem[q].cw + mem[q].ew - (IF i = b THEN T ELSE 0)
          /\ mem'[q].ew = IF mem[q].ew < Weight(mem[q].addr) THEN mem[q].ew + 1 ELSE mem[q].ew
          /\ mem'[q].fails = mem[q].fails
  BY <1>5 DEF Turn
<1> HIDE DEF D, u, n, W, T, c, e, k
<1>17. T = W
  <2>1. \A i \in D : e[i] = upstream.weight[u[i]]
    BY <1>3, <1>6, <1>8, <1>11
  <2>2. Summed(upstream.weight, Addrs)
    BY <1>2 DEF Summed
  <2>3. Sum(e, D) = Sum(upstream.weight, {u[i] : i \in D})
    BY <1>2, <1>5, <1>9, <1>13, <2>1, <2>2, SumMoved
  <2> QED
    BY <1>10, <1>12, <2>3 DEF W, AllWeights
<1>18. Gain(r, b) > 0
  <2>1. Summed(c, D) /\ Summed(e, D)
    BY <1>6, <1>11 DEF Summed
  <2>2. \A i \in D : k[i] = c[i] + e[i]
    BY <1>11
  <2>3. Sum(k, D) = Sum(c, D) + Sum(e, D)
    BY <1>5, <2>1, <2>2, SumAdds
  <2>4. Sum(k, D) > 0
    <3>1. Sum(k, D) = 0 + W
      BY <1>12, <1>14, <1>17, <2>3
    <3>2. W > 0 /\ 0 + W = W
      BY <1>4, <1>7
    <3> QED
      BY <3>1, <3>2
  <2>5. Summed(k, D)
    BY <1>6, <1>11 DEF Summed
  <2>6. PICK i \in D : k[i] > 0
    BY <1>5, <2>4, <2>5, SumPositive
  <2>7. Gain(r, i) > 0 /\ Gain(r, i) <= Gain(r, b) /\ Gain(r, i) \in Int /\ Gain(r, b) \in Int
    BY <1>5, <1>6, <1>11, <1>15, <2>6
  <2> QED
    BY <2>7
<1>19. picked[a] < Weight(a)
  <2>1. Gain(r, b) = n * Weight(a) - W * picked[a] + Weight(a)
    BY <1>5, <1>8, <1>11
  <2>2. Weight(a) \in Nat /\ picked[a] \in Nat
    BY <1>3, <1>7
  <2> QED
    BY <1>4, <1>7, <1>18, <2>1, <2>2, Behind
<1>20. ASSUME NEW i \in D
       PROVE  LET q == list[1][i]
                  x == mem[q].addr
                  y == IF i = b THEN picked[x] + 1 ELSE picked[x] IN
              /\ mem'[q].ew = Weight(x) /\ mem'[q].fails = 0
              /\ mem'[q].cw = (n + 1) * Weight(x) - W * y
  <2> DEFINE q == list[1][i]
             x == u[i]
             w == Weight(x)
             d == picked[x]
  <2>1. mem[q].addr = x /\ w \in Nat /\ d \in Nat
    BY <1>3, <1>6
  <2>2. mem[q].ew = w /\ mem[q].fails = 0 /\ mem[q].cw = n * w - W * d
    BY <1>8
  <2>3. mem'[q].cw = n * w - W * d + w - (IF i = b THEN W ELSE 0)
    BY <1>16, <1>17, <2>2
  <2>4. mem'[q].ew = w /\ mem'[q].fails = 0
    BY <1>16, <2>1, <2>2
  <2> HIDE DEF w, d, q, x
  <2>5. /\ n * w - W * d + w = (n + 1) * w - W * d
        /\ n * w - W * d + w - W = (n + 1) * w - W * (d + 1)
        /\ n * w - W * d \in Int
    BY <1>4, <2>1, OneTurn
  <2>6. mem'[q].cw = (n + 1) * w - W * (IF i = b THEN d + 1 ELSE d)
    <3>1. CASE i = b
      BY <2>3, <2>5, <3>1
    <3>2. CASE i # b
      <4>1. mem'[q].cw = n * w - W * d + w - 0
        BY <2>3, <3>2
      <4>2. w - 0 = w
        BY <2>1
      <4>3. mem'[q].cw = n * w - W * d + w
        BY ONLY <4>1, <4>2
      <4>4. mem'[q].cw = (n + 1) * w - W * d
        BY ONLY <2>5, <4>3
      <4> QED
        BY <3>2, <4>4
    <3> QED
      BY <3>1, <3>2
  <2> QED
    BY <2>1, <2>4, <2>6 DEF q, w, d
<1> QED
  BY <1>3, <1>4, <1>6, <1>7, <1>19, <1>20 DEF D, n, W, u

\* A choice keeps the weights and the round in step.
LEMMA TurnsTurn ==
    ASSUME PeersInv, NEW r \in Seekers, rrp[r].pc = "get", NEW g \in 1 .. 2, g = rrp[r].group,
           NEW b \in DOMAIN list[g], Furthest(r, b),
           Turn(r, g, b), Peers!Count(mem[list[g][b]].addr),
           \A q \in Memory : mem'[q].addr = mem[q].addr, UNCHANGED <<upstream, list>>,
           \A s \in Seekers : rrp'[s].pc = "get" => rrp'[s] = rrp[s]
    PROVE  Turns' /\ picked' \in [Addrs -> Nat]
<1> DEFINE a == mem[list[g][b]].addr
           n == [picked EXCEPT ![a] = @ + 1]
<1>1. /\ PeersTyped /\ ListsApart /\ Turns /\ upstream' = upstream /\ list' = list
      /\ IsFiniteSet(Addrs) /\ picked \in [Addrs -> Nat] /\ a \in Addrs
      /\ upstream.weight \in [Addrs -> Nat \ {0}]
  BY Zenon, ScenarioFacts, ListedPeer DEF PeersInv, PeersTyped
<1>2. /\ ~Peers!Steady => picked' = picked
      /\ Peers!Steady /\ Sum(n, Addrs) = AllWeights => picked' = [c \in Addrs |-> n[c] - Weight(c)]
      /\ Peers!Steady /\ Sum(n, Addrs) # AllWeights => picked' = n
  BY Zenon, <1>1, CountIs
<1>3. AllWeights' = AllWeights /\ \A c : Weight(c)' = Weight(c)
  BY <1>1 DEF AllWeights, Weight
<1>4. Peers!Steady' <=> Peers!Steady
  BY Zenon, <1>1 DEF Peers!Steady
<1>5. CASE ~Peers!Steady
  BY Zenon, <1>1, <1>2, <1>4, <1>5 DEF Turns
<1>6. CASE Peers!Steady
  <2>1. g = 1
    BY <1>1, <1>6 DEF Turns
  <2>2. /\ AllPicked \in Nat /\ AllWeights \in Nat /\ AllPicked < AllWeights
        /\ \A c \in Addrs : Weight(c) \in Nat /\ picked[c] \in Nat /\ picked[c] <= Weight(c)
        /\ a \in Addrs /\ picked[a] < Weight(a)
        /\ \A i \in DOMAIN list[1] : LET q == list[1][i]
                                         c == mem[q].addr
                                         k == IF i = b THEN picked[c] + 1 ELSE picked[c] IN
            /\ mem'[q].ew = Weight(c) /\ mem'[q].fails = 0
            /\ mem'[q].cw = (AllPicked + 1) * Weight(c) - AllWeights * k
    <3>1. /\ b \in DOMAIN list[1] /\ Turn(r, 1, b) /\ rrp[r].group = 1
          /\ mem[list[1][b]].addr = a
      BY Zenon, <2>1
    <3> HIDE DEF a
    <3> QED
      BY <1>6, <3>1, SteadyTurn
  <2>12. \A c \in Addrs : Weight(c) \in Nat /\ picked[c] \in Nat /\ picked[c] <= Weight(c)
    BY Zenon, <2>2
  <2>13. a \in Addrs /\ picked[a] < Weight(a) /\ picked[a] + 1 \in Nat
    <3> HIDE DEF a, n
    <3>1. a \in Addrs /\ picked[a] < Weight(a)
      BY <2>2
    <3>2. picked[a] \in Nat
      BY <2>12, <3>1
    <3> QED
      BY <3>1, <3>2
  <2>3. n \in [Addrs -> Nat] /\ n[a] = picked[a] + 1 /\ \A c \in Addrs \ {a} : n[c] = picked[c]
    <3> HIDE DEF a
    <3> QED
      BY <1>1, <2>13
  <2>4. \A c \in Addrs : n[c] \in Nat /\ n[c] <= Weight(c)
    <3> HIDE DEF n, a
    <3>1. SUFFICES ASSUME NEW c \in Addrs PROVE n[c] \in Nat /\ n[c] <= Weight(c)
      OBVIOUS
    <3>2. Weight(c) \in Nat /\ picked[c] \in Nat /\ picked[c] <= Weight(c)
      BY <2>12
    <3>3. CASE c = a
      <4>1. n[c] = picked[c] + 1 /\ picked[c] < Weight(c)
        BY <2>3, <2>13, <3>3
      <4> QED
        BY <3>2, <4>1
    <3>4. CASE c # a
      BY Zenon, <2>3, <3>2, <3>4
    <3> QED
      BY <3>3, <3>4
  <2>5. \A i \in DOMAIN list[1] : LET c == mem[list[1][i]].addr IN
           c \in Addrs /\ n[c] = IF i = b THEN picked[c] + 1 ELSE picked[c]
    <3>1. SUFFICES ASSUME NEW i \in DOMAIN list[1]
          PROVE  LET c == mem[list[1][i]].addr IN
                 c \in Addrs /\ n[c] = IF i = b THEN picked[c] + 1 ELSE picked[c]
      BY Zenon
    <3>2. mem[list[1][i]].addr \in Addrs
      BY ListedPeer
    <3>3. mem[list[1][i]].addr = a <=> i = b
      BY <1>1, <2>1 DEF ListsApart
    <3> QED
      BY Zenon, <2>1, <2>3, <3>2, <3>3
  <2> HIDE DEF n, a
  <2>6. Sum(n, Addrs) = AllPicked + 1
    <3>1. Summed(picked, Addrs)
      BY <1>1 DEF Summed
    <3>2. n[a] \in Int
      BY <2>3, <2>2
    <3>3. Sum(n, Addrs) = Sum(picked, Addrs) - picked[a] + n[a]
      BY <1>1, <2>3, <3>1, <3>2, SumChange
    <3>4. picked[a] \in Nat
      BY Zenon, <2>2
    <3> QED
      BY <2>2, <2>3, <3>3, <3>4 DEF AllPicked
  <2>7. \A i \in DOMAIN list[1] : LET q == list[1][i]
                                      c == mem[q].addr IN
           /\ q \in Memory /\ c \in Addrs /\ mem'[q].addr = c /\ mem'[q].ew = Weight(c)
                /\ mem'[q].fails = 0
           /\ mem'[q].cw = (AllPicked + 1) * Weight(c) - AllWeights * n[c]
    <3>1. SUFFICES ASSUME NEW i \in DOMAIN list[1]
          PROVE  LET q == list[1][i]
                     c == mem[q].addr IN
           /\ q \in Memory /\ c \in Addrs /\ mem'[q].addr = c /\ mem'[q].ew = Weight(c)
                /\ mem'[q].fails = 0
           /\ mem'[q].cw = (AllPicked + 1) * Weight(c) - AllWeights * n[c]
      BY Zenon
    <3>2. list[1][i] \in Memory
      BY ListedPeer
    <3> QED
      BY Zenon, <2>2, <2>5, <3>2
  <2>8. picked' \in [Addrs -> Nat] /\ (\A c \in Addrs : picked'[c] <= Weight(c))
        /\ AllPicked' < AllWeights
        /\ \A i \in DOMAIN list[1] : LET m == mem'[list[1][i]] IN
              m.cw = AllPicked' * Weight(m.addr) - AllWeights * picked'[m.addr]
    <3>1. CASE AllPicked + 1 = AllWeights
      <4> DEFINE d == [c \in Addrs |-> Weight(c) - n[c]]
      <4>1. \A c \in Addrs : d[c] \in Nat /\ upstream.weight[c] = n[c] + d[c]
        <5>1. \A c \in Addrs : upstream.weight[c] = Weight(c)
          BY Zenon DEF Weight
        <5> QED
          BY <2>2, <2>4, <5>1
      <4>2. Sum(d, Addrs) = 0
        <5>1. Summed(n, Addrs) /\ Summed(d, Addrs)
          BY <2>4, <4>1 DEF Summed
        <5> HIDE DEF d
        <5>2. AllWeights = Sum(n, Addrs) + Sum(d, Addrs)
          BY <1>1, <4>1, <5>1, SumAdds DEF AllWeights
        <5>3. Sum(d, Addrs) \in Int
          BY <1>1, <5>1, SumFirst
        <5>4. Sum(n, Addrs) = AllWeights /\ AllWeights \in Int
          BY <2>2, <2>6, <3>1
        <5> QED
          BY ONLY <5>2, <5>3, <5>4
      <4>3. \A c \in Addrs : d[c] <= 0
        <5> HIDE DEF d
        <5> QED
          BY <1>1, <4>1, <4>2, SumCovers
      <4>4. \A c \in Addrs : n[c] = Weight(c)
        <5>1. SUFFICES ASSUME NEW c \in Addrs PROVE n[c] = Weight(c)
          OBVIOUS
        <5>2. d[c] = 0
          BY <4>1, <4>3
        <5>3. Weight(c) - n[c] = 0
          BY <5>2
        <5> QED
          BY <2>2, <2>4, <5>3
      <4>5. picked' = [c \in Addrs |-> n[c] - Weight(c)]
        BY Zenon, <1>2, <1>6, <2>6, <3>1
      <4>6. \A c \in Addrs : picked'[c] = 0
        BY <2>2, <4>4, <4>5
      <4>7. AllPicked' = 0
        BY <1>1, <4>6, SumZero DEF AllPicked
      <4>8. picked' \in [Addrs -> Nat]
        BY <4>5, <4>6
      <4>9. ASSUME NEW i \in DOMAIN list[1]
            PROVE  LET m == mem'[list[1][i]] IN
                   m.cw = AllPicked' * Weight(m.addr) - AllWeights * picked'[m.addr]
        <5>1. PICK c \in Addrs : /\ mem'[list[1][i]].addr = c
                                 /\ mem'[list[1][i]].cw
                                      = (AllPicked + 1) * Weight(c) - AllWeights * n[c]
          BY <2>7
        <5>2. mem'[list[1][i]].cw = AllWeights * Weight(c) - AllWeights * Weight(c)
          BY Zenon, <3>1, <4>4, <5>1
        <5>3. AllWeights * Weight(c) \in Nat /\ 0 * Weight(c) = 0 /\ AllWeights * 0 = 0
          BY <2>2
        <5>4. mem'[list[1][i]].cw = 0
          BY ONLY SMTT(30), <5>2, <5>3
        <5> QED
          BY <4>6, <4>7, <5>1, <5>3, <5>4
      <4> QED
        BY <2>2, <4>6, <4>7, <4>8, <4>9
    <3>2. CASE AllPicked + 1 # AllWeights
      <4>1. picked' = n
        BY <1>2, <1>6, <2>6, <3>2
      <4>2. AllPicked' = AllPicked + 1
        BY Zenon, <2>6, <4>1 DEF AllPicked
      <4>3. AllPicked' < AllWeights
        BY <2>2, <3>2, <4>2
      <4> QED
        BY <2>3, <2>4, <2>7, <4>1, <4>2, <4>3
    <3> QED
      BY Zenon, <3>1, <3>2
  <2>9. \A i \in DOMAIN list[1] : LET m == mem'[list[1][i]] IN m.ew = Weight(m.addr) /\ m.fails = 0
    BY Zenon, <2>7
  <2>10. ASSUME NEW c \in Addrs PROVE \E i \in DOMAIN list[1] : mem'[list[1][i]].addr = c
    <3>1. PICK i \in DOMAIN list[1] : mem[list[1][i]].addr = c
      BY Zenon, <1>1, <1>6 DEF Turns
    <3> QED
      BY Zenon, <2>7, <3>1
  <2>11. ASSUME NEW s \in Seekers, rrp'[s].pc = "get"
         PROVE  rrp'[s].tried = {} /\ (rrp'[s].group = 1 \/ Addrs = {})
    <3>1. rrp'[s] = rrp[s]
      BY <2>11
    <3> QED
      BY <1>1, <1>6, <2>11, <3>1 DEF Turns
  <2>14. \A s \in Seekers : rrp'[s].pc = "get" =>
            rrp'[s].tried = {} /\ (rrp'[s].group = 1 \/ Addrs = {})
    BY <2>11
  <2>15. \A c \in Addrs : \E i \in DOMAIN list[1] : mem'[list[1][i]].addr = c
    BY Zenon, <2>10
  <2>16. \A i \in DOMAIN list[1] : LET m == mem'[list[1][i]] IN
            /\ m.ew = Weight(m.addr) /\ m.fails = 0
            /\ m.cw = AllPicked' * Weight(m.addr) - AllWeights * picked'[m.addr]
    BY <2>8, <2>9
  <2>17. Turns'
    <3>1. list' = list /\ AllWeights' = AllWeights /\ upstream' = upstream
      BY Zenon, <1>1, <1>3
    <3>2. \A c \in Addrs : picked'[c] <= upstream'.weight[c]
      BY Zenon, <2>8, <3>1 DEF Weight
    <3>3. AllPicked' < AllWeights'
      BY <2>8, <3>1
    <3>4. \A i \in DOMAIN list'[1] : LET m == mem'[list'[1][i]] IN
            /\ m.ew = upstream'.weight[m.addr] /\ m.fails = 0
            /\ m.cw = AllPicked' * upstream'.weight[m.addr] - AllWeights' * picked'[m.addr]
      BY ONLY <2>16, <3>1 DEF Weight
    <3>5. \A c \in Addrs : \E i \in DOMAIN list'[1] : mem'[list'[1][i]].addr = c
      BY <2>15, <3>1
    <3>6. Peers!Steady'
      BY <1>4, <1>6
    <3> QED
      BY ONLY <2>14, <3>2, <3>3, <3>4, <3>5, <3>6 DEF Turns, Weight
  <2> QED
    BY Zenon, <2>8, <2>17
<1> QED
  BY Zenon, <1>5, <1>6

\* A request takes one of several servers.
LEMMA GetPeerStep ==
    ASSUME PeersInv, UNCHANGED upstream, NEW r \in Seekers, Peers!GetPeer(r)
    PROVE  PeersInv'
<1> DEFINE g == rrp[r].group
           b == Peers!Best(r)
           p == list[g][b]
           x == [rrp[r] EXCEPT !.pc = "connected", !.current = p, !.addr = mem[p].addr,
                               !.tried = @ \cup {b}, !.used = @ \cup {mem[p].addr}]
<1>1. PeersTyped
  BY Zenon DEF PeersInv
<1>2. /\ rrp[r].pc = "get" /\ ~(rrp[r].config # config) /\ ~Peers!Single(g)
           /\ Peers!Eligible(r) # {}
      /\ rrp' = [rrp EXCEPT ![r].pc = "connected", ![r].current = p,
                            ![r].addr = mem[p].addr, ![r].tried = @ \cup {b},
                            ![r].used = @ \cup {mem[p].addr}]
      /\ probed' = IF Peers!Disabled(p) THEN [probed EXCEPT ![p] = seconds] ELSE probed
      /\ Peers!Count(mem[p].addr)
      /\ UNCHANGED <<upstream, list, config, seconds, orphans>>
  BY Zenon DEF Peers!GetPeer, Peers!ConfigChanged
<1>3. /\ g \in 1 .. 2 /\ b \in DOMAIN list[g] /\ b \in Peers!Eligible(r)
      /\ p \in Memory /\ mem[p].addr \in Addrs
      /\ TakenAt(mem', p)
      /\ \A q \in Memory : (\A i \in DOMAIN list[g] : list[g][i] # q) => mem'[q] = mem[q]
      /\ mem'[p].checked = Peers!Checked(mem[p])
  BY WeighedIs
<1>4. Turn(r, g, b)
  BY WeighedIs DEF Turn
<1>5. Furthest(r, b)
  BY Zenon, <1>2, BestIs DEF Furthest
<1>6. rrp[r] \in SeekerRec /\ b \in Nat /\ ~Peers!Full(p) /\ ~Peers!Resting(p)
  BY <1>3, SeekerIs, EligibleIs
<1> HIDE DEF g, b, p, x
<1>7. rrp' = [rrp EXCEPT ![r] = x]
  <2>1. DOMAIN rrp = Seekers
    BY <1>1 DEF PeersTyped
  <2> QED
    BY <1>2, <2>1 DEF x
<1>8. /\ x \in SeekerRec /\ x.pc = "connected" /\ x.current = p /\ x.addr = mem[p].addr
      /\ x.config = rrp[r].config /\ x.group = rrp[r].group
      /\ x.used = rrp[r].used \cup {mem[p].addr} /\ x.tried = rrp[r].tried \cup {b}
  <2>1. rrp[r].used \cup {mem[p].addr} \in SUBSET Addrs /\ rrp[r].tried \cup {b} \in SUBSET Nat
    BY <1>3, <1>6 DEF SeekerRec
  <2> QED
    BY <1>3, <1>6, <2>1 DEF x, SeekerRec
<1>9. TakesServer(x, r, p)
  BY <1>8 DEF TakesServer
<1>10. \A q \in Memory : mem'[q].addr = mem[q].addr
  BY <1>3 DEF TakenAt, Turned
<1>11. \A s \in Seekers : rrp'[s].pc = "get" => rrp'[s] = rrp[s]
  <2>1. rrp'[r] = x /\ \A s \in Seekers \ {r} : rrp'[s] = rrp[s]
    BY Zenon, <1>1, <1>7 DEF PeersTyped
  <2> QED
    BY <1>8, <2>1
<1>12. Turns' /\ picked' \in [Addrs -> Nat]
  BY Zenon, <1>2, <1>3, <1>4, <1>5, <1>10, <1>11, TurnsTurn DEF g, p
<1>13. Balanced'
  BY <1>2, <1>3, <1>4, BalancedTurn DEF g
<1>14. probed' \in [Memory -> Int] /\ ProbesMove
  <2>1. CASE ~Peers!Disabled(p)
    BY <1>1, <1>2, <2>1 DEF PeersTyped, ProbesMove
  <2>2. CASE Peers!Disabled(p)
    <3>1. seconds \in Nat /\ probed' = [probed EXCEPT ![p] = seconds]
      BY <1>1, <1>2, <2>2, ScenarioFacts DEF PeersTyped
    <3>2. Peers!Checked(mem[p]) = seconds
      <4>1. ~(seconds - mem[p].checked <= upstream.timeout)
        BY <1>6, <2>2 DEF Peers!Resting
      <4>2. mem[p].checked \in Nat /\ upstream.timeout \in Nat
        <5>1. 0 \notin Addrs
          BY <1>1, ScenarioFacts DEF PeersTyped
        <5>2. mem[p] \in PeerRec
          BY <1>1, <1>3, <5>1, PeerIs
        <5> QED
          BY <1>1, <5>2, ScenarioFacts DEF PeersTyped, PeerRec
      <4> QED
        BY <3>1, <4>1, <4>2 DEF Peers!Checked
    <3>3. probed' \in [Memory -> Int] /\ probed'[p] = seconds
            /\ \A q \in Memory \ {p} : probed'[q] = probed[q]
      BY <1>1, <1>3, <3>1 DEF PeersTyped
    <3>4. probed'[p] <= mem'[p].checked
      BY <1>3, <3>1, <3>2, <3>3
    <3> QED
      BY <3>3, <3>4 DEF ProbesMove
  <2> QED
    BY <2>1, <2>2
<1>15. rrp[r].config = config
  BY <1>2
<1>16. /\ PeersTyped' /\ PeersBounded' /\ ListsApart' /\ RefsCounted'
       /\ RequestsPlaced' /\ TriedKnown' /\ ProbesPast'
  <2>1. PeersInv
    OBVIOUS
  <2>2. b \in DOMAIN list[rrp[r].group] /\ p = list[rrp[r].group][b] /\ rrp[r].pc = "get"
    BY Zenon, <1>2, <1>3 DEF g, p
  <2>3. UNCHANGED <<upstream, list, config, seconds, orphans>>
    BY <1>2
  <2>4. x.tried = rrp[r].tried \cup {b}
    BY <1>8
  <2>5. TakenAt(mem', p) /\ ~Peers!Full(p) /\ TakesServer(x, r, p) /\ rrp' = [rrp EXCEPT ![r] = x]
        /\ probed' \in [Memory -> Int] /\ ProbesMove /\ picked' \in [Addrs -> Nat]
    BY <1>3, <1>6, <1>7, <1>9, <1>12, <1>14
  <2> QED
    BY ONLY <1>15, <2>1, <2>2, <2>3, <2>4, <2>5, ChosenServer
<1> QED
  BY <1>12, <1>13, <1>16 DEF PeersInv

\* The pieces of a resolving of group g, and what the places become.
Kept(g, ans) ==
    Peers!Among(list[g], {p \in Peers!Allocated :
                             mem[p].addr \in ToSet(ans) \cup (Addrs \ Peers!Named)})
\* The places that leave the list.
Gone(g, ans) == ToSet(list[g]) \ ToSet(Kept(g, ans))
\* The addresses the list has from names.
Known(g) == {mem[p].addr : p \in ToSet(list[g])} \cap Peers!Named
\* The addresses that are new.
Fresh(g, ans) == Peers!Among(ans, Addrs \ Known(g))
\* A place after the removals.
LeftAs(g, ans, p) == IF p \in Gone(g, ans) THEN Peers!Removed(mem[p]) ELSE mem[p]
\* The places that are free then.
Spare(g, ans) ==
    Peers!Among([p \in Peers!Room |-> p], {p \in Peers!Room : LeftAs(g, ans, p).addr = 0})
\* The places the new servers get.
Filled(g, ans) == SubSeq(Spare(g, ans), 1, Peers!Min({Len(Spare(g, ans)), Len(Fresh(g, ans))}))

\* Where p stands in d.
Place(d, p) == CHOOSE i \in DOMAIN d : d[i] = p

\* A resolving, in these terms.
LEMMA ResolveIs ==
    ASSUME PeersTyped, NEW g, NEW ans, Peers!Resolve(g, ans)
    PROVE  LET d == Filled(g, ans) IN
           /\ list' = [list EXCEPT ![g] = Kept(g, ans) \o d]
           /\ mem' = [p \in Memory |-> IF p \in ToSet(d)
                         THEN Peers!NewPeer(Fresh(g, ans)[Place(d, p)])
                         ELSE LeftAs(g, ans, p)]
           /\ config' = config + Cardinality(Gone(g, ans)) + Len(d)
           /\ config' <= upstream.changes
           /\ probed' = [p \in Memory |-> IF p \in ToSet(d) THEN -1 ELSE probed[p]]
           /\ rrp' = rrp /\ seconds' = seconds /\ orphans' = orphans /\ picked' = picked
<1> DEFINE S == Peers!ToSet(ans)
           kn == {mem[p].addr : p \in Peers!ToSet(list[g])} \cap Peers!Named
           k == Peers!Among(list[g], {p \in Peers!Allocated :
                                        mem[p].addr \in S \cup (Addrs \ Peers!Named)})
           go == Peers!ToSet(list[g]) \ Peers!ToSet(k)
           le == [p \in Memory |-> IF p \in go THEN Peers!Removed(mem[p]) ELSE mem[p]]
           ro == Peers!Among([p \in Peers!Room |-> p], {p \in Peers!Room : le[p].addr = Peers!Null})
           ne == Peers!Among(ans, Addrs \ kn)
           ad == SubSeq(ro, 1, Peers!Min({Len(ro), Len(ne)}))
<1>1. /\ list' = [list EXCEPT ![g] = k \o ad]
      /\ mem' = [p \in Memory |-> IF p \in Peers!ToSet(ad)
                         THEN Peers!NewPeer(ne[Place(ad, p)])
                         ELSE le[p]]
      /\ config' = config + Peers!Cardinality(go) + Len(ad)
      /\ config' <= upstream.changes
      /\ probed' = [p \in Memory |-> IF p \in Peers!ToSet(ad) THEN -1 ELSE probed[p]]
      /\ rrp' = rrp /\ seconds' = seconds /\ orphans' = orphans /\ picked' = picked
  BY Zenon DEF Peers!Resolve, Place
<1>2. k = Kept(g, ans)
  BY PeersSets DEF Kept
<1> HIDE DEF k
<1>3. go = Gone(g, ans)
  BY <1>2, PeersSets DEF Gone
<1>4. ne = Fresh(g, ans)
  BY PeersSets DEF Fresh, Known
<1> HIDE DEF go, ne
<1>5. \A p \in Memory : le[p] = LeftAs(g, ans, p)
  BY <1>3 DEF LeftAs
<1>6. Peers!Room \subseteq Memory
  BY ScenarioFacts DEF Peers!Room, PeersTyped
<1>7. ro = Spare(g, ans)
  <2> HIDE DEF le
  <2>1. {p \in Peers!Room : le[p].addr = Peers!Null}
          = {p \in Peers!Room : LeftAs(g, ans, p).addr = 0}
    BY <1>5, <1>6 DEF Peers!Null
  <2> QED
    BY <2>1 DEF Spare
<1> HIDE DEF ro, le
<1>8. ad = Filled(g, ans)
  BY <1>4, <1>7 DEF Filled
<1> HIDE DEF ad
<1>9. /\ Peers!Cardinality(go) = Cardinality(Gone(g, ans))
           /\ Peers!ToSet(ad) = ToSet(Filled(g, ans))
  BY <1>3, <1>8, PeersSets
<1>10. mem' = [p \in Memory |-> IF p \in ToSet(ad)
                         THEN Peers!NewPeer(ne[Place(ad, p)])
                         ELSE LeftAs(g, ans, p)]
  BY <1>1, <1>5, <1>8, <1>9
<1> QED
  BY Zenon, <1>1, <1>2, <1>3, <1>4, <1>8, <1>9, <1>10

(* What is kept of a list, and what is gone.                               *)
LEMMA KeptIs ==
    ASSUME PeersTyped, ListsApart, NEW g \in 1 .. 2, NEW ans
    PROVE  LET k == Kept(g, ans)
               G == Gone(g, ans) IN
           /\ k \in Seq(Memory) /\ DOMAIN k = 1 .. Len(k) /\ Len(k) \in Nat
           /\ \A n \in DOMAIN k : k[n] \notin G /\ \E i \in DOMAIN list[g] : list[g][i] = k[n]
           /\ \A n, m \in DOMAIN k : k[n] = k[m] => n = m
           /\ \A i \in DOMAIN list[g] : list[g][i] \in G \/ \E n \in DOMAIN k : k[n] = list[g][i]
           /\ \A p \in G : p \in Memory /\ \E i \in DOMAIN list[g] : list[g][i] = p
           /\ G = {} => k = list[g]
           /\ IsFiniteSet(G) /\ Cardinality(G) \in Nat
<1> DEFINE l == list[g]
           T == {p \in Peers!Allocated : mem[p].addr \in ToSet(ans) \cup (Addrs \ Peers!Named)}
           k == Kept(g, ans)
           G == Gone(g, ans)
<1>1. l \in Seq(Memory) /\ IsFiniteSet(DOMAIN l) /\ \A i \in DOMAIN l : l[i] \in Memory
  BY ListedIs
<1>2. IsInjective(l)
  BY DEF ListsApart, IsInjective
<1>3. k = Peers!Among(l, T)
  BY DEF Kept
<1>4. G = ToSet(l) \ ToSet(k)
  BY DEF Gone
<1> HIDE DEF l, T, k, G
<1>5. /\ k \in Seq(Memory)
      /\ \A n \in DOMAIN k : k[n] \in T /\ \E i \in DOMAIN l : l[i] = k[n]
      /\ \A i \in DOMAIN l : l[i] \in T => \E n \in DOMAIN k : k[n] = l[i]
      /\ IsInjective(k)
      /\ (\A i \in DOMAIN l : l[i] \in T) => k = l
  BY <1>1, <1>2, <1>3, AmongIs
<1>6. ToSet(l) = {l[i] : i \in DOMAIN l} /\ ToSet(k) = {k[n] : n \in DOMAIN k}
  BY DEF ToSet
<1>7. \A n, m \in DOMAIN k : k[n] = k[m] => n = m
  BY <1>5 DEF IsInjective
<1>8. DOMAIN k = 1 .. Len(k) /\ Len(k) \in Nat
  BY <1>5
<1>9. \A n \in DOMAIN k : k[n] \notin G
  BY <1>4, <1>6
<1>10. \A i \in DOMAIN l : l[i] \in G \/ \E n \in DOMAIN k : k[n] = l[i]
  BY <1>4, <1>6
<1>11. \A p \in G : p \in Memory /\ \E i \in DOMAIN l : l[i] = p
  BY <1>1, <1>4, <1>6
<1>12. ASSUME G = {} PROVE k = l
  <2>1. \A i \in DOMAIN l : l[i] \in T
    BY <1>5, <1>10, <1>12
  <2> QED
    BY <1>5, <2>1
<1>13. IsFiniteSet(G) /\ Cardinality(G) \in Nat
  <2>1. IsFiniteSet({l[i] : i \in DOMAIN l})
    <3> DEFINE D == DOMAIN l
    <3>1. IsFiniteSet(D)
      BY <1>1
    <3> HIDE DEF D
    <3>2. IsFiniteSet({l[i] : i \in D})
      <4> DEFINE I == {l[i] : i \in D}
                 h == [i \in D |-> l[i]]
      <4>1. h \in Surjection(D, I)
        BY DEF Surjection
      <4> HIDE DEF h, I
      <4>2. IsFiniteSet(I)
        BY <3>1, <4>1, FS_Surjection
      <4> QED
        BY <4>2 DEF I
    <3> QED
      BY <3>2 DEF D
  <2>2. G \in SUBSET {l[i] : i \in DOMAIN l}
    BY <1>4, <1>6
  <2> QED
    BY <2>1, <2>2, FS_Subset, FS_CardinalityType
<1> QED
  BY <1>5, <1>7, <1>8, <1>9, <1>10, <1>11, <1>12, <1>13 DEF k, G, l

(* Which places are filled anew, and with what.                            *)
LEMMA AddedIs ==
    ASSUME PeersTyped, ListsApart, NEW g \in 1 .. 2, NEW ans \in upstream.answers
    PROVE  LET d == Filled(g, ans)
               f == Fresh(g, ans) IN
           /\ d \in Seq(Memory) /\ DOMAIN d = 1 .. Len(d) /\ Len(d) \in Nat
           /\ \A n \in DOMAIN d : LeftAs(g, ans, d[n]).addr = 0
           /\ \A n, m \in DOMAIN d : d[n] = d[m] => n = m
           /\ \A n \in DOMAIN d : /\ f[n] \in Addrs
                                 /\ \A i \in DOMAIN list[g] : mem[list[g][i]].addr # f[n]
           /\ \A n, m \in DOMAIN d : f[n] = f[m] => n = m
<1> DEFINE R == Peers!Room
           e == [p \in R |-> p]
           T == {p \in R : LeftAs(g, ans, p).addr = 0}
           s == Spare(g, ans)
           f == Fresh(g, ans)
           M == {Len(s), Len(f)}
           c == Peers!Min(M)
           d == Filled(g, ans)
<1>1. /\ upstream.room \in Nat /\ 1 .. upstream.room \subseteq Memory
      /\ ans \in Seq(Addrs) /\ IsInjective(ans)
  BY ScenarioFacts DEF PeersTyped
<1>2. R = 1 .. upstream.room
  BY DEF Peers!Room
<1>3. e \in Seq(Memory) /\ DOMAIN e = R /\ \A p \in R : e[p] = p
  <2>1. e \in [1 .. upstream.room -> Memory]
    BY <1>1, <1>2
  <2> QED
    BY <1>1, <2>1, IsASequence
<1>4. s = Peers!Among(e, T) /\ d = SubSeq(s, 1, c) /\ f = Peers!Among(ans, Addrs \ Known(g))
  BY DEF Spare, Filled, Fresh
<1>5. IsInjective(e)
  BY <1>3 DEF IsInjective
<1>6. \A p \in T : LeftAs(g, ans, p).addr = 0
  OBVIOUS
<1> HIDE DEF e, T, s, f, R, c, d
<1>7. /\ s \in Seq(Memory) /\ IsInjective(s)
      /\ \A n \in DOMAIN s : s[n] \in T
  BY <1>3, <1>4, <1>5, AmongIs
<1>8. /\ f \in Seq(Addrs) /\ IsInjective(f)
      /\ \A n \in DOMAIN f : f[n] \in Addrs \ Known(g) /\ \E i \in DOMAIN ans : ans[i] = f[n]
  <2> DEFINE K == Addrs \ Known(g)
  <2>1. f = Peers!Among(ans, K) /\ K \subseteq Addrs
    BY <1>4
  <2> HIDE DEF K
  <2>2. /\ f \in Seq(Addrs) /\ IsInjective(f)
        /\ \A n \in DOMAIN f : f[n] \in K /\ \E i \in DOMAIN ans : ans[i] = f[n]
    BY <1>1, <2>1, AmongIs
  <2> QED
    BY <2>2 DEF K
<1>9. c \in Nat /\ c <= Len(s) /\ c <= Len(f)
  <2>1. M \in SUBSET Nat /\ M # {} /\ Len(s) \in M /\ Len(f) \in M
    BY <1>7, <1>8
  <2> HIDE DEF M
  <2>2. c \in M /\ \A y \in M : c <= y
    BY <2>1, PeersMin DEF c
  <2> QED
    BY <2>1, <2>2
<1>10. /\ DOMAIN s = 1 .. Len(s) /\ Len(s) \in Nat /\ DOMAIN f = 1 .. Len(f) /\ Len(f) \in Nat
  BY <1>7, <1>8
<1>11. /\ d \in Seq(Memory) /\ Len(d) = c /\ DOMAIN d = 1 .. c
       /\ \A n \in 1 .. c : d[n] = s[n]
  BY <1>4, <1>7, <1>9, <1>10
<1>12. \A n \in 1 .. c : n \in DOMAIN s /\ n \in DOMAIN f
  BY <1>9, <1>10
<1>13. ASSUME NEW n \in 1 .. c, NEW i \in DOMAIN list[g] PROVE mem[list[g][i]].addr # f[n]
  <2>1. SUFFICES ASSUME mem[list[g][i]].addr = f[n] PROVE FALSE
    OBVIOUS
  <2>2. f[n] \in Addrs \ Known(g)
    BY <1>8, <1>12
  <2>3. PICK j \in DOMAIN ans : ans[j] = f[n]
    BY <1>8, <1>12
  <2>4. f[n] \in Peers!Named
    <3>1. f[n] \in ToSet(ans)
      BY <2>3 DEF ToSet
    <3>2. Peers!ToSet(ans) = ToSet(ans)
      BY PeersSets
    <3> QED
      BY <3>1, <3>2 DEF Peers!Named
  <2>5. list[g][i] \in ToSet(list[g])
    BY DEF ToSet
  <2> QED
    BY <2>1, <2>2, <2>4, <2>5 DEF Known
<1>14. \A n, m \in DOMAIN d : d[n] = d[m] => n = m
  BY <1>7, <1>11, <1>12 DEF IsInjective
<1>15. \A n, m \in DOMAIN d : f[n] = f[m] => n = m
  BY <1>8, <1>11, <1>12 DEF IsInjective
<1>16. \A n \in DOMAIN d : LeftAs(g, ans, d[n]).addr = 0
  BY <1>6, <1>7, <1>11, <1>12
<1>17. \A n \in DOMAIN d : f[n] \in Addrs /\ \A i \in DOMAIN list[g] : mem[list[g][i]].addr # f[n]
  BY <1>8, <1>11, <1>12, <1>13
<1> QED
  BY <1>9, <1>11, <1>14, <1>15, <1>16, <1>17 DEF d, f

\* No request holds the place, and none died with it.
Unheld(q) == Holding(rrp, q) = {} /\ orphans[q] = 0

\* The nth new server is put into q.
Renewed(g, ans, q, n) ==
    /\ n \in DOMAIN Filled(g, ans) /\ Filled(g, ans)[n] = q
    /\ mem'[q] = Peers!NewPeer(Fresh(g, ans)[n]) /\ probed'[q] = -1

\* No request is at a place that is free or has no references.
LEMMA UnheldIs ==
    ASSUME PeersInv, NEW q \in Memory, mem[q].addr = 0 \/ mem[q].refs = 0
    PROVE  Unheld(q)
<1>1. PeersTyped /\ RefsCounted /\ RequestsPlaced
  BY DEF PeersInv
<1>2. orphans[q] \in Nat /\ q # 0
  BY <1>1, ScenarioFacts DEF PeersTyped
<1>3. CASE mem[q].addr = 0
  BY <1>1, <1>2, <1>3 DEF RefsCounted, RequestsPlaced, Unheld, Holding
<1>4. CASE mem[q].addr # 0
  <2>1. Cardinality(Holding(rrp, q)) + orphans[q] = 0
    BY <1>1, <1>4 DEF RefsCounted
  <2>2. IsFiniteSet(Holding(rrp, q)) /\ Cardinality(Holding(rrp, q)) \in Nat
    <3>1. Holding(rrp, q) \in SUBSET Seekers /\ IsFiniteSet(Seekers)
      BY <1>1, ScenarioFacts DEF Holding, PeersTyped
    <3> QED
      BY <3>1, FS_Subset, FS_CardinalityType
  <2>3. Cardinality(Holding(rrp, q)) = 0 /\ orphans[q] = 0
    BY <1>2, <2>1, <2>2
  <2> QED
    BY <2>2, <2>3, FS_EmptySet DEF Unheld
<1> QED
  BY <1>3, <1>4

(* What a resolving makes of each place.                                   *)
LEMMA PlaceIs ==
    ASSUME PeersInv, NEW g \in 1 .. 2, NEW ans \in upstream.answers, Peers!Resolve(g, ans),
           NEW q \in Memory
    PROVE  \/ /\ \E n \in DOMAIN Filled(g, ans) : Renewed(g, ans, q, n)
              /\ Unheld(q) /\ (mem[q].addr = 0 \/ q \in Gone(g, ans))
           \/ /\ probed'[q] = probed[q] /\ \A n \in DOMAIN Filled(g, ans) : Filled(g, ans)[n] # q
              /\ \/ q \in Gone(g, ans) /\ mem'[q] = [addr |-> 0] /\ Unheld(q)
                 \/ /\ q \in Gone(g, ans) /\ mem[q].addr # 0 /\ mem[q].refs > 0
                    /\ mem'[q] = [mem[q] EXCEPT !.zombie = TRUE]
                 \/ q \notin Gone(g, ans) /\ mem'[q] = mem[q]
<1> DEFINE d == Filled(g, ans)
           G == Gone(g, ans)
           f == Fresh(g, ans)
<1>1. PeersTyped /\ ListsApart
  BY DEF PeersInv
<1>2. /\ mem' = [p \in Memory |-> IF p \in ToSet(d)
                         THEN Peers!NewPeer(f[Place(d, p)])
                         ELSE LeftAs(g, ans, p)]
      /\ probed' = [p \in Memory |-> IF p \in ToSet(d) THEN -1 ELSE probed[p]]
  BY <1>1, ResolveIs
<1>3. /\ \A n \in DOMAIN d : LeftAs(g, ans, d[n]).addr = 0
      /\ \A n, m \in DOMAIN d : d[n] = d[m] => n = m
  BY <1>1, AddedIs
<1>4. ASSUME q \in G
      PROVE  /\ mem[q].addr # 0 /\ mem[q].refs \in Nat
             /\ mem[q].refs = 0 => LeftAs(g, ans, q) = [addr |-> 0]
             /\ mem[q].refs # 0 => /\ mem[q].refs > 0
                  /\ LeftAs(g, ans, q) = [mem[q] EXCEPT !.zombie = TRUE]
                                   /\ LeftAs(g, ans, q).addr # 0
  <2>1. mem[q].addr # 0
    <3>1. PICK i \in DOMAIN list[g] : list[g][i] = q
      BY <1>1, <1>4, KeptIs
    <3> QED
      BY <1>1, <3>1 DEF ListsApart
  <2>2. mem[q] \in PeerRec /\ mem[q].refs \in Nat
    BY <1>1, <2>1, PeerIs DEF PeerRec
  <2>3. LeftAs(g, ans, q) = IF mem[q].refs > 0 THEN [mem[q] EXCEPT !.zombie = TRUE]
          ELSE [addr |-> 0]
    BY <1>4 DEF LeftAs, Peers!Removed, Peers!FreeMemory, Peers!Null
  <2>4. [mem[q] EXCEPT !.zombie = TRUE].addr = mem[q].addr
    BY <2>2 DEF PeerRec
  <2> QED
    BY <2>1, <2>2, <2>3, <2>4
<1>5. q \notin G => LeftAs(g, ans, q) = mem[q]
  BY DEF LeftAs
<1>6. ToSet(d) = {d[n] : n \in DOMAIN d}
  BY DEF ToSet
<1> HIDE DEF d, G, f
<1>7. CASE q \in ToSet(d)
  <2>1. PICK n \in DOMAIN d : d[n] = q
    BY <1>6, <1>7
  <2>2. Place(d, q) = n
    BY <1>3, <2>1 DEF Place
  <2>3. mem'[q] = Peers!NewPeer(f[n]) /\ probed'[q] = -1
    BY <1>2, <1>7, <2>2
  <2>4. LeftAs(g, ans, q).addr = 0
    BY <1>3, <2>1
  <2>5. mem[q].addr = 0 \/ (q \in G /\ mem[q].refs = 0)
    BY <1>4, <1>5, <2>4
  <2>6. Unheld(q)
    BY <2>5, UnheldIs
  <2> QED
    BY <2>1, <2>3, <2>5, <2>6 DEF Renewed, d, f, G
<1>8. CASE q \notin ToSet(d)
  <2>1. /\ mem'[q] = LeftAs(g, ans, q) /\ probed'[q] = probed[q]
        /\ \A n \in DOMAIN Filled(g, ans) : Filled(g, ans)[n] # q
    BY <1>2, <1>6, <1>8 DEF d
  <2>2. CASE q \notin G
    BY <1>5, <2>1, <2>2 DEF G
  <2>3. CASE q \in G /\ mem[q].refs = 0
    <3>1. Unheld(q)
      BY <2>3, UnheldIs
    <3> QED
      BY <1>4, <2>1, <2>3, <3>1 DEF G
  <2>4. CASE q \in G /\ mem[q].refs # 0
    BY <1>4, <2>1, <2>4 DEF G
  <2> QED
    BY <2>2, <2>3, <2>4
<1> QED
  BY <1>7, <1>8

\* What holds of the place q while group g is resolved anew.
Renews(g, ans, q) == \E n \in DOMAIN Filled(g, ans) : Renewed(g, ans, q, n)

\* m is a new server for the address a.
NewLike(m, a) ==
    /\ m \in PeerRec /\ m.addr = a /\ m.cw = 0 /\ m.ew = Weight(a) /\ m.conns = 0 /\ m.refs = 0
    /\ m.accessed = 0 /\ m.checked = 0 /\ ~m.zombie

\* So is one that is made from the configuration.
LEMMA NewPeerIs ==
    ASSUME PeersTyped, NEW a \in Addrs
    PROVE  NewLike(Peers!NewPeer(a), a) /\ a # 0
<1>1. upstream.weight \in [Addrs -> Nat \ {0}] /\ 0 \notin Addrs
  BY ScenarioFacts DEF PeersTyped
<1>2. upstream.weight[a] \in Nat /\ Weight(a) = upstream.weight[a] /\ a # 0
  BY <1>1 DEF Weight
<1>3. Peers!NewPeer(a) = [addr |-> a, cw |-> 0, ew |-> upstream.weight[a], conns |-> 0, refs |-> 0,
                          fails |-> 0, accessed |-> 0, checked |-> 0, zombie |-> FALSE]
  BY DEF Peers!NewPeer
<1> QED
  BY <1>2, <1>3 DEF NewLike, PeerRec

\* m is the server n, removed from the list and kept for its requests.
Buried(m, n) ==
    /\ m \in PeerRec /\ m.addr = n.addr /\ m.ew = n.ew /\ m.conns = n.conns /\ m.refs = n.refs
    /\ m.accessed = n.accessed /\ m.checked = n.checked /\ m.zombie

\* So is one that was marked a zombie.
LEMMA BuriedIs ==
    ASSUME NEW n \in PeerRec
    PROVE  Buried([n EXCEPT !.zombie = TRUE], n)
BY DEF Buried, PeerRec

\* The fate of a place q of the zone.
Fate(g, ans, q) ==
    \/ /\ \E n \in DOMAIN Filled(g, ans) : /\ Filled(g, ans)[n] = q
                                           /\ NewLike(mem'[q], Fresh(g, ans)[n])
       /\ probed'[q] = -1 /\ Unheld(q) /\ (mem[q].addr = 0 \/ q \in Gone(g, ans))
    \/ /\ probed'[q] = probed[q] /\ \A n \in DOMAIN Filled(g, ans) : Filled(g, ans)[n] # q
       /\ \/ q \in Gone(g, ans) /\ mem'[q] = [addr |-> 0] /\ Unheld(q)
          \/ q \in Gone(g, ans) /\ mem[q].addr # 0 /\ mem[q].refs > 0 /\ Buried(mem'[q], mem[q])
          \/ q \notin Gone(g, ans) /\ mem'[q] = mem[q]

\* A place meets one of these fates.
LEMMA FateIs ==
    ASSUME PeersInv, NEW g \in 1 .. 2, NEW ans \in upstream.answers, Peers!Resolve(g, ans),
           NEW q \in Memory
    PROVE  Fate(g, ans, q)
<1>1. PeersTyped /\ ListsApart
  BY DEF PeersInv
<1>2. CASE /\ \E n \in DOMAIN Filled(g, ans) : Renewed(g, ans, q, n)
           /\ Unheld(q) /\ (mem[q].addr = 0 \/ q \in Gone(g, ans))
  <2>1. PICK n \in DOMAIN Filled(g, ans) : Renewed(g, ans, q, n)
    BY <1>2
  <2>2. Fresh(g, ans)[n] \in Addrs
    BY <1>1, AddedIs
  <2>3. NewLike(mem'[q], Fresh(g, ans)[n])
    BY <1>1, <2>1, <2>2, NewPeerIs DEF Renewed
  <2>4. Filled(g, ans)[n] = q /\ probed'[q] = -1
    BY <2>1 DEF Renewed
  <2> QED
    BY <1>2, <2>3, <2>4 DEF Fate
<1>3. CASE /\ probed'[q] = probed[q] /\ \A n \in DOMAIN Filled(g, ans) : Filled(g, ans)[n] # q
           /\ q \in Gone(g, ans) /\ mem'[q] = [addr |-> 0] /\ Unheld(q)
  BY <1>3 DEF Fate
<1>4. CASE /\ probed'[q] = probed[q] /\ \A n \in DOMAIN Filled(g, ans) : Filled(g, ans)[n] # q
           /\ q \in Gone(g, ans) /\ mem[q].addr # 0 /\ mem[q].refs > 0
           /\ mem'[q] = [mem[q] EXCEPT !.zombie = TRUE]
  <2>1. mem[q] \in PeerRec
    BY <1>1, <1>4, PeerIs
  <2>2. Buried(mem'[q], mem[q])
    BY <1>4, <2>1, BuriedIs
  <2> QED
    BY <1>4, <2>2 DEF Fate
<1>5. CASE /\ probed'[q] = probed[q] /\ \A n \in DOMAIN Filled(g, ans) : Filled(g, ans)[n] # q
           /\ q \notin Gone(g, ans) /\ mem'[q] = mem[q]
  BY <1>5 DEF Fate
<1> QED
  BY <1>2, <1>3, <1>4, <1>5, PlaceIs

(* The list that was resolved, place by place.                             *)
LEMMA NewListIs ==
    ASSUME PeersInv, NEW g \in 1 .. 2, NEW ans \in upstream.answers, Peers!Resolve(g, ans)
    PROVE  /\ list' \in [1 .. 2 -> Seq(Memory)]
           /\ \A h \in 1 .. 2 : h # g => list'[h] = list[h]
           /\ DOMAIN list'[g] = 1 .. (Len(Kept(g, ans)) + Len(Filled(g, ans)))
           /\ \A i \in DOMAIN Kept(g, ans) : i \in DOMAIN list'[g] /\ list'[g][i] = Kept(g, ans)[i]
           /\ \A i \in DOMAIN Filled(g, ans) :
                 /\ Len(Kept(g, ans)) + i \in DOMAIN list'[g]
                 /\ list'[g][Len(Kept(g, ans)) + i] = Filled(g, ans)[i]
           /\ \A i \in DOMAIN list'[g] :
                 \/ i \in DOMAIN Kept(g, ans)
                 \/ \E j \in DOMAIN Filled(g, ans) : i = Len(Kept(g, ans)) + j
<1> DEFINE k == Kept(g, ans)
           d == Filled(g, ans)
<1>1. PeersTyped /\ ListsApart
  BY DEF PeersInv
<1>2. list' = [list EXCEPT ![g] = k \o d]
  BY <1>1, ResolveIs
<1>3. k \in Seq(Memory)
  BY <1>1, KeptIs
<1>4. d \in Seq(Memory)
  BY <1>1, AddedIs
<1> HIDE DEF k, d
<1>5. /\ Len(k) \in Nat /\ Len(d) \in Nat /\ DOMAIN k = 1 .. Len(k) /\ DOMAIN d = 1 .. Len(d)
      /\ k \o d \in Seq(Memory) /\ Len(k \o d) = Len(k) + Len(d)
      /\ DOMAIN (k \o d) = 1 .. Len(k \o d)
      /\ \A i \in DOMAIN k : (k \o d)[i] = k[i]
      /\ \A i \in DOMAIN d : (k \o d)[Len(k) + i] = d[i]
  BY ONLY <1>3, <1>4, Joined
<1> DEFINE s == k \o d
<1>6. /\ s \in Seq(Memory) /\ DOMAIN s = 1 .. (Len(k) + Len(d))
      /\ \A i \in DOMAIN k : s[i] = k[i]
      /\ \A i \in DOMAIN d : s[Len(k) + i] = d[i]
  BY <1>5
<1> HIDE DEF s
<1>7. list' = [list EXCEPT ![g] = s]
  BY <1>2 DEF s
<1>8. list' \in [1 .. 2 -> Seq(Memory)] /\ list'[g] = s
        /\ \A h \in 1 .. 2 : h # g => list'[h] = list[h]
  BY <1>1, <1>6, <1>7 DEF PeersTyped
<1>9. \A i \in DOMAIN k : i \in DOMAIN s
  BY <1>5, <1>6
<1>10. \A i \in DOMAIN d : Len(k) + i \in DOMAIN s
  BY <1>5, <1>6
<1>11. ASSUME NEW i \in DOMAIN s, i \notin DOMAIN k PROVE \E j \in DOMAIN d : i = Len(k) + j
  <2>1. i - Len(k) \in DOMAIN d /\ i = Len(k) + (i - Len(k))
    BY <1>5, <1>6, <1>11
  <2> QED
    BY <2>1
<1> QED
  BY <1>6, <1>8, <1>9, <1>10, <1>11 DEF k, d

\* The names of a group are resolved anew.
LEMMA ResolveStep ==
    ASSUME PeersInv, UNCHANGED upstream, NEW g \in upstream.resolving, NEW ans \in upstream.answers,
           Peers!Resolve(g, ans)
    PROVE  PeersInv'
<1> DEFINE k == Kept(g, ans)
           d == Filled(g, ans)
           f == Fresh(g, ans)
           G == Gone(g, ans)
<1>1. PeersTyped /\ PeersBounded /\ ListsApart /\ RefsCounted /\ RequestsPlaced /\ TriedKnown
      /\ ProbesPast /\ Balanced /\ Turns
  BY DEF PeersInv
<1>2. g \in 1 .. 2 /\ upstream.resolving # {} /\ upstream.changes \in Nat /\ config \in Nat
      /\ seconds \in Nat /\ upstream' = upstream
  BY <1>1, ScenarioFacts DEF PeersTyped
<1>3. /\ rrp' = rrp /\ seconds' = seconds /\ orphans' = orphans /\ picked' = picked
      /\ config' = config + Cardinality(G) + Len(d) /\ config' <= upstream.changes
      /\ mem' = [p \in Memory |-> mem'[p]] /\ probed' = [p \in Memory |-> probed'[p]]
  <2>1. /\ mem' = [p \in Memory |-> IF p \in ToSet(d) THEN Peers!NewPeer(f[Place(d, p)])
                                                      ELSE LeftAs(g, ans, p)]
        /\ probed' = [p \in Memory |-> IF p \in ToSet(d) THEN -1 ELSE probed[p]]
    BY <1>1, ResolveIs
  <2>2. mem' = [p \in Memory |-> mem'[p]] /\ probed' = [p \in Memory |-> probed'[p]]
    BY <2>1
  <2> QED
    BY <1>1, <2>2, ResolveIs
<1>4. /\ k \in Seq(Memory) /\ DOMAIN k = 1 .. Len(k) /\ Len(k) \in Nat
      /\ \A n \in DOMAIN k : k[n] \notin G /\ \E i \in DOMAIN list[g] : list[g][i] = k[n]
      /\ \A n, m \in DOMAIN k : k[n] = k[m] => n = m
      /\ \A i \in DOMAIN list[g] : list[g][i] \in G \/ \E n \in DOMAIN k : k[n] = list[g][i]
      /\ \A p \in G : p \in Memory /\ \E i \in DOMAIN list[g] : list[g][i] = p
      /\ G = {} => k = list[g]
      /\ IsFiniteSet(G) /\ Cardinality(G) \in Nat
  BY <1>1, <1>2, KeptIs
<1>5. /\ d \in Seq(Memory) /\ DOMAIN d = 1 .. Len(d) /\ Len(d) \in Nat
      /\ \A n, m \in DOMAIN d : d[n] = d[m] => n = m
      /\ \A n \in DOMAIN d : f[n] \in Addrs /\ \A i \in DOMAIN list[g] : mem[list[g][i]].addr # f[n]
      /\ \A n, m \in DOMAIN d : f[n] = f[m] => n = m
  BY <1>1, <1>2, AddedIs
<1>6. /\ list' \in [1 .. 2 -> Seq(Memory)] /\ \A h \in 1 .. 2 : h # g => list'[h] = list[h]
      /\ DOMAIN list'[g] = 1 .. (Len(k) + Len(d))
      /\ \A i \in DOMAIN k : i \in DOMAIN list'[g] /\ list'[g][i] = k[i]
      /\ \A i \in DOMAIN d : Len(k) + i \in DOMAIN list'[g] /\ list'[g][Len(k) + i] = d[i]
      /\ \A i \in DOMAIN list'[g] : i \in DOMAIN k \/ \E j \in DOMAIN d : i = Len(k) + j
  BY <1>2, NewListIs
<1>7. \A q \in Memory : Fate(g, ans, q)
  BY <1>2, FateIs
<1> HIDE DEF k, d, f, G
<1>8. ASSUME NEW q \in Memory
      PROVE  \/ /\ \E n \in DOMAIN d : d[n] = q /\ NewLike(mem'[q], f[n])
                /\ probed'[q] = -1 /\ Unheld(q) /\ (mem[q].addr = 0 \/ q \in G)
             \/ /\ probed'[q] = probed[q] /\ \A n \in DOMAIN d : d[n] # q
                /\ \/ q \in G /\ mem'[q] = [addr |-> 0] /\ Unheld(q)
                   \/ q \in G /\ mem[q].addr # 0 /\ mem[q].refs > 0 /\ Buried(mem'[q], mem[q])
                   \/ q \notin G /\ mem'[q] = mem[q]
  BY <1>7 DEF Fate, d, f, G
<1>9. ASSUME NEW n \in DOMAIN k
      PROVE  /\ k[n] \in Memory /\ mem[k[n]].addr # 0 /\ mem'[k[n]] = mem[k[n]]
             /\ probed'[k[n]] = probed[k[n]] /\ \E i \in DOMAIN list[g] : list[g][i] = k[n]
  <2>1. PICK i \in DOMAIN list[g] : list[g][i] = k[n] /\ k[n] \notin G
    BY <1>4
  <2>2. PICK q \in Memory : q = k[n]
    BY <1>1, <1>2, <2>1, ListedIs
  <2>3. mem[q].addr # 0 /\ q \notin G
    BY <1>1, <1>2, <2>1, <2>2 DEF ListsApart
  <2> QED
    BY <1>8, <2>1, <2>2, <2>3
<1>10. ASSUME NEW h \in 1 .. 2, h # g, NEW i \in DOMAIN list[h]
       PROVE  list[h][i] \in Memory /\ mem'[list[h][i]] = mem[list[h][i]]
              /\ probed'[list[h][i]] = probed[list[h][i]]
  <2>1. PICK q \in Memory : q = list[h][i]
    BY <1>1, ListedIs
  <2>2. mem[q].addr # 0
    BY <1>1, <2>1 DEF ListsApart
  <2>3. q \notin G
    <3>1. \A j \in DOMAIN list[g] : list[g][j] # q
      BY <1>1, <1>2, <1>10, <2>1 DEF ListsApart
    <3> QED
      BY <1>4, <3>1
  <2> QED
    BY <1>8, <2>1, <2>2, <2>3
<1>11. ASSUME NEW n \in DOMAIN d
       PROVE  /\ d[n] \in Memory /\ NewLike(mem'[d[n]], f[n]) /\ f[n] # 0
              /\ mem'[d[n]].addr = f[n] /\ ~mem'[d[n]].zombie /\ mem'[d[n]].checked = 0
              /\ probed'[d[n]] = -1 /\ (mem[d[n]].addr = 0 \/ d[n] \in G)
  <2>1. PICK q \in Memory : q = d[n]
    BY <1>5
  <2>2. PICK m \in DOMAIN d : d[m] = q /\ NewLike(mem'[q], f[m])
    BY <1>8, <2>1
  <2>3. /\ probed'[q] = -1 /\ (mem[q].addr = 0 \/ q \in G)
    BY <1>8, <2>1
  <2>4. m = n /\ f[n] \in Addrs
    BY <1>5, <2>1, <2>2
  <2>5. f[n] # 0
    BY <1>1, <2>4, ScenarioFacts DEF PeersTyped
  <2> QED
    BY <2>1, <2>2, <2>3, <2>4, <2>5 DEF NewLike
<1>12. PeersTyped'
  <2>1. ASSUME NEW q \in Memory
        PROVE  mem'[q] \in PeerRec \cup {[addr |-> 0]} /\ probed'[q] \in Int
    <3>1. CASE /\ \E n \in DOMAIN d : d[n] = q /\ NewLike(mem'[q], f[n])
               /\ probed'[q] = -1
      BY <3>1 DEF NewLike
    <3>2. CASE probed'[q] = probed[q] /\ mem'[q] = [addr |-> 0]
      BY <1>1, <3>2 DEF PeersTyped
    <3>3. CASE probed'[q] = probed[q] /\ Buried(mem'[q], mem[q])
      BY <1>1, <3>3 DEF Buried, PeersTyped
    <3>4. CASE probed'[q] = probed[q] /\ mem'[q] = mem[q]
      BY <1>1, <3>4 DEF PeersTyped
    <3> QED
      BY <1>8, <3>1, <3>2, <3>3, <3>4
  <2>2. mem' \in [Memory -> PeerRec \cup {[addr |-> 0]}] /\ probed' \in [Memory -> Int]
    BY <1>3, <2>1
  <2>3. config' \in 0 .. upstream.changes
    BY <1>2, <1>3, <1>4, <1>5
  <2> QED
    BY <1>1, <1>2, <1>3, <1>6, <2>2, <2>3 DEF PeersTyped
<1>13. PeersBounded'
  <2>1. SUFFICES ASSUME NEW q \in Memory, mem'[q].addr # 0
        PROVE  /\ mem'[q].ew <= Weight(mem'[q].addr)
               /\ mem'[q].accessed <= seconds /\ mem'[q].checked <= seconds
               /\ mem'[q].conns = mem'[q].refs
               /\ upstream.maxconns > 0 => mem'[q].conns <= upstream.maxconns
    BY <1>2, <1>3 DEF PeersBounded, Weight
  <2>2. ASSUME NEW n \in DOMAIN d, NewLike(mem'[q], f[n])
        PROVE  /\ mem'[q].ew <= Weight(mem'[q].addr)
               /\ mem'[q].accessed <= seconds /\ mem'[q].checked <= seconds
               /\ mem'[q].conns = mem'[q].refs
               /\ upstream.maxconns > 0 => mem'[q].conns <= upstream.maxconns
    <3>1. /\ mem'[q].addr = f[n] /\ mem'[q].ew = Weight(f[n]) /\ mem'[q].conns = 0
               /\ mem'[q].refs = 0
          /\ mem'[q].accessed = 0 /\ mem'[q].checked = 0 /\ mem'[q] \in PeerRec
      BY <2>2 DEF NewLike
    <3>2. mem'[q].ew \in Nat
      BY <3>1 DEF PeerRec
    <3>3. upstream.maxconns \in Nat
      BY <1>1, ScenarioFacts DEF PeersTyped
    <3> QED
      BY <1>2, <3>1, <3>2, <3>3
  <2>3. ASSUME mem[q].addr # 0, Buried(mem'[q], mem[q]) \/ mem'[q] = mem[q]
        PROVE  /\ mem'[q].ew <= Weight(mem'[q].addr)
               /\ mem'[q].accessed <= seconds /\ mem'[q].checked <= seconds
               /\ mem'[q].conns = mem'[q].refs
               /\ upstream.maxconns > 0 => mem'[q].conns <= upstream.maxconns
    BY <1>1, <2>3 DEF PeersBounded, Buried
  <2>4. mem'[q] # [addr |-> 0]
    BY <2>1
  <2> QED
    BY <1>8, <2>1, <2>2, <2>3, <2>4
<1>14. ASSUME NEW i \in DOMAIN list'[g]
       PROVE  /\ list'[g][i] \in Memory /\ mem'[list'[g][i]].addr # 0
              /\ ~mem'[list'[g][i]].zombie /\ probed'[list'[g][i]] <= mem'[list'[g][i]].checked
              /\ \A h \in 1 .. 2 : h # g => \A j \in DOMAIN list[h] : list[h][j] # list'[g][i]
  <2>1. CASE i \in DOMAIN k
    <3>1. PICK q \in Memory : q = k[i]
      BY <1>9, <2>1
    <3>2. PICK j \in DOMAIN list[g] : list[g][j] = q
      BY <1>9, <2>1, <3>1
    <3>3. mem'[q] = mem[q] /\ probed'[q] = probed[q] /\ list'[g][i] = q
      BY <1>6, <1>9, <2>1, <3>1
    <3>4. mem[q].addr # 0 /\ ~mem[q].zombie /\ probed[q] <= mem[q].checked
      BY <1>1, <1>2, <3>2 DEF ListsApart, ProbesPast
    <3>5. \A h \in 1 .. 2 : h # g => \A m \in DOMAIN list[h] : list[h][m] # q
      BY <1>1, <1>2, <3>2 DEF ListsApart
    <3> QED
      BY <3>3, <3>4, <3>5
  <2>2. CASE \E j \in DOMAIN d : i = Len(k) + j
    <3>1. PICK j \in DOMAIN d : i = Len(k) + j
      BY <2>2
    <3>2. list'[g][i] = d[j]
      BY <1>6, <3>1
    <3>3. PICK q \in Memory : q = d[j]
      BY <1>11
    <3>4. /\ mem'[q].addr # 0 /\ ~mem'[q].zombie /\ mem'[q].checked = 0 /\ probed'[q] = -1
          /\ mem[q].addr = 0 \/ q \in G
      BY <1>11, <3>3
    <3>5. \A h \in 1 .. 2 : h # g => \A m \in DOMAIN list[h] : list[h][m] # q
      BY <1>1, <1>2, <1>4, <3>4 DEF ListsApart
    <3>6. -1 <= 0
      OBVIOUS
    <3> QED
      BY <3>2, <3>3, <3>4, <3>5, <3>6
  <2> QED
    BY <1>6, <2>1, <2>2
<1>15. ASSUME NEW i \in DOMAIN list'[g]
       PROVE  \/ i \in DOMAIN k /\ mem'[list'[g][i]].addr = mem[k[i]].addr
              \/ \E j \in DOMAIN d : i = Len(k) + j /\ mem'[list'[g][i]].addr = f[j]
  <2>1. CASE i \in DOMAIN k
    BY <1>6, <1>9, <2>1
  <2>2. CASE \E j \in DOMAIN d : i = Len(k) + j
    BY <1>6, <1>11, <2>2
  <2> QED
    BY <1>6, <2>1, <2>2
<1>16. ASSUME NEW i \in DOMAIN list'[g], NEW j \in DOMAIN list'[g],
              mem'[list'[g][i]].addr = mem'[list'[g][j]].addr
       PROVE  i = j
  <2>1. \A n, m \in DOMAIN k : mem[k[n]].addr = mem[k[m]].addr => n = m
    <3>1. SUFFICES ASSUME NEW n \in DOMAIN k, NEW m \in DOMAIN k, mem[k[n]].addr = mem[k[m]].addr
          PROVE  n = m
      OBVIOUS
    <3>2. PICK a \in DOMAIN list[g] : list[g][a] = k[n]
      BY <1>9
    <3>3. PICK b \in DOMAIN list[g] : list[g][b] = k[m]
      BY <1>9
    <3>4. a = b
      BY <1>1, <1>2, <3>1, <3>2, <3>3 DEF ListsApart
    <3> QED
      BY <1>4, <3>2, <3>3, <3>4
  <2>2. \A n \in DOMAIN k, m \in DOMAIN d : mem[k[n]].addr # f[m]
    <3>1. SUFFICES ASSUME NEW n \in DOMAIN k, NEW m \in DOMAIN d PROVE mem[k[n]].addr # f[m]
      OBVIOUS
    <3>2. PICK a \in DOMAIN list[g] : list[g][a] = k[n]
      BY <1>9
    <3>3. mem[list[g][a]].addr # f[m]
      BY <1>5
    <3> QED
      BY <3>2, <3>3
  <2>3. CASE i \in DOMAIN k /\ mem'[list'[g][i]].addr = mem[k[i]].addr
    <3>1. CASE j \in DOMAIN k /\ mem'[list'[g][j]].addr = mem[k[j]].addr
      BY <1>16, <2>1, <2>3, <3>1
    <3>2. CASE \E m \in DOMAIN d : j = Len(k) + m /\ mem'[list'[g][j]].addr = f[m]
      BY <1>16, <2>2, <2>3, <3>2
    <3> QED
      BY <1>15, <3>1, <3>2
  <2>4. CASE \E n \in DOMAIN d : i = Len(k) + n /\ mem'[list'[g][i]].addr = f[n]
    <3>1. CASE j \in DOMAIN k /\ mem'[list'[g][j]].addr = mem[k[j]].addr
      BY <1>16, <2>2, <2>4, <3>1
    <3>2. CASE \E m \in DOMAIN d : j = Len(k) + m /\ mem'[list'[g][j]].addr = f[m]
      BY <1>5, <1>16, <2>4, <3>2
    <3> QED
      BY <1>15, <3>1, <3>2
  <2> QED
    BY <1>15, <2>3, <2>4
<1>17. ASSUME NEW h \in 1 .. 2, h # g, NEW i \in DOMAIN list'[h]
       PROVE  /\ list'[h] = list[h] /\ i \in DOMAIN list[h] /\ list[h][i] \in Memory
              /\ mem'[list'[h][i]] = mem[list[h][i]] /\ mem'[list'[h][i]].addr # 0
              /\ ~mem'[list'[h][i]].zombie
              /\ probed'[list'[h][i]] <= mem'[list'[h][i]].checked
  <2>1. list'[h] = list[h]
    BY <1>6, <1>17
  <2>2. i \in DOMAIN list[h]
    BY <1>17, <2>1
  <2>3. /\ list[h][i] \in Memory /\ mem'[list[h][i]] = mem[list[h][i]]
        /\ probed'[list[h][i]] = probed[list[h][i]]
    BY <1>10, <1>17, <2>2
  <2>4. /\ mem[list[h][i]].addr # 0 /\ ~mem[list[h][i]].zombie
        /\ probed[list[h][i]] <= mem[list[h][i]].checked
    BY <1>1, <2>2 DEF ListsApart, ProbesPast
  <2> QED
    BY <2>1, <2>2, <2>3, <2>4
<1>18. ListsApart'
  <2>1. \A h \in 1 .. 2 : \A i \in DOMAIN list'[h] :
           mem'[list'[h][i]].addr # 0 /\ ~mem'[list'[h][i]].zombie
    BY <1>14, <1>17
  <2>2. ASSUME NEW h \in 1 .. 2, NEW i \in DOMAIN list'[h], NEW j \in DOMAIN list'[h],
               mem'[list'[h][i]].addr = mem'[list'[h][j]].addr
        PROVE  i = j
    <3>1. CASE h = g
      BY <1>16, <2>2, <3>1
    <3>2. CASE h # g
      <4>1. /\ i \in DOMAIN list[h] /\ j \in DOMAIN list[h]
            /\ mem'[list'[h][i]] = mem[list[h][i]] /\ mem'[list'[h][j]] = mem[list[h][j]]
        BY <1>17, <3>2
      <4> QED
        BY <1>1, <2>2, <4>1 DEF ListsApart
    <3> QED
      BY <3>1, <3>2
  <2>3. ASSUME NEW i \in DOMAIN list'[1], NEW j \in DOMAIN list'[2]
        PROVE  list'[1][i] # list'[2][j]
    <3>1. CASE g = 1
      <4>1. list'[2] = list[2]
        BY <1>6, <3>1
      <4> QED
        BY <1>14, <3>1, <4>1
    <3>2. CASE g = 2
      <4>1. list'[1] = list[1]
        BY <1>6, <3>2
      <4> QED
        BY <1>14, <3>2, <4>1
    <3> QED
      BY <1>2, <3>1, <3>2
  <2> QED
    BY <2>1, <2>2, <2>3 DEF ListsApart
<1>19. ProbesPast'
  <2>1. ASSUME NEW h \in 1 .. 2, NEW i \in DOMAIN list'[h]
        PROVE  probed'[list'[h][i]] <= mem'[list'[h][i]].checked
    <3>1. CASE h = g
      BY <1>14, <3>1
    <3>2. CASE h # g
      BY <1>17, <3>2
    <3> QED
      BY <3>1, <3>2
  <2> QED
    BY <2>1 DEF ProbesPast
<1>20. ASSUME NEW q \in Memory, mem'[q].addr # 0, Listed(list, q)
       PROVE  Listed(list', q) \/ q \in G
  <2>1. PICK h \in 1 .. 2 : \E i \in DOMAIN list[h] : list[h][i] = q
    BY <1>20 DEF Listed
  <2>4. PICK i \in DOMAIN list[h] : list[h][i] = q
    BY <2>1
  <2>2. CASE h # g
    <3>1. list'[h] = list[h]
      BY <1>6, <2>2
    <3>2. i \in DOMAIN list'[h] /\ list'[h][i] = q
      BY <2>4, <3>1
    <3> QED
      BY <3>2 DEF Listed
  <2>3. CASE h = g
    <3>1. q \in G \/ \E n \in DOMAIN k : k[n] = q
      BY <1>4, <2>3, <2>4
    <3>2. ASSUME NEW n \in DOMAIN k, k[n] = q PROVE Listed(list', q)
      <4>1. n \in DOMAIN list'[g] /\ list'[g][n] = q
        BY <1>6, <3>2
      <4> QED
        BY <1>2, <4>1 DEF Listed
    <3> QED
      BY <3>1, <3>2
  <2> QED
    BY <2>2, <2>3
<1>21. RefsCounted'
  <2>1. SUFFICES ASSUME NEW q \in Memory
        PROVE  IF mem'[q].addr = 0 THEN orphans[q] = 0
               ELSE /\ mem'[q].refs = Cardinality(Holding(rrp, q)) + orphans[q]
                    /\ ~Listed(list', q) => mem'[q].zombie /\ mem'[q].refs > 0
    BY <1>3 DEF RefsCounted
  <2>2. CASE \E n \in DOMAIN d : d[n] = q /\ NewLike(mem'[q], f[n])
    <3>1. PICK n \in DOMAIN d : d[n] = q /\ NewLike(mem'[q], f[n])
      BY <2>2
    <3>2. Holding(rrp, q) = {} /\ orphans[q] = 0
      <4>1. Unheld(q)
        BY <1>8, <3>1
      <4> QED
        BY <4>1 DEF Unheld
    <3>3. mem'[q].refs = Cardinality(Holding(rrp, q)) + orphans[q]
      BY <3>1, <3>2, FS_EmptySet DEF NewLike
    <3>4. Listed(list', q)
      <4>1. Len(k) + n \in DOMAIN list'[g] /\ list'[g][Len(k) + n] = q
        BY <1>6, <3>1
      <4> QED
        BY <1>2, <4>1 DEF Listed
    <3> QED
      BY <3>2, <3>3, <3>4
  <2>3. CASE mem'[q] = [addr |-> 0] /\ Unheld(q)
    <3>1. mem'[q].addr = 0
      BY <2>3
    <3> QED
      BY <2>3, <3>1 DEF Unheld
  <2>4. CASE mem[q].addr # 0 /\ mem[q].refs > 0 /\ Buried(mem'[q], mem[q])
    <3>1. mem[q].refs = Cardinality(Holding(rrp, q)) + orphans[q]
      BY <1>1, <2>4 DEF RefsCounted
    <3>2. mem'[q].addr # 0 /\ mem'[q].refs = mem[q].refs /\ mem'[q].zombie
      BY <2>4 DEF Buried
    <3> QED
      BY <2>4, <3>1, <3>2
  <2>5. CASE q \notin G /\ mem'[q] = mem[q]
    <3>1. CASE mem[q].addr = 0
      BY <1>1, <2>5, <3>1 DEF RefsCounted
    <3>2. CASE mem[q].addr # 0
      <4>1. /\ mem[q].refs = Cardinality(Holding(rrp, q)) + orphans[q]
            /\ ~Listed(list, q) => mem[q].zombie /\ mem[q].refs > 0
        BY <1>1, <3>2 DEF RefsCounted
      <4>2. Listed(list, q) => Listed(list', q)
        BY <1>20, <2>5, <3>2
      <4> QED
        BY <2>5, <3>2, <4>1, <4>2
    <3> QED
      BY <3>1, <3>2
  <2> QED
    BY <1>8, <2>2, <2>3, <2>4, <2>5
<1>22. config <= config' /\ (config' = config => G = {} /\ DOMAIN d = {})
  <2>1. config' = config => Cardinality(G) = 0 /\ Len(d) = 0
    BY <1>2, <1>3, <1>4, <1>5
  <2>2. config <= config'
    BY <1>2, <1>3, <1>4, <1>5
  <2>3. Cardinality(G) = 0 => G = {}
    BY <1>4, FS_EmptySet
  <2>4. Len(d) = 0 => DOMAIN d = {}
    BY <1>5
  <2> QED
    BY <2>1, <2>2, <2>3, <2>4
<1>23. RequestsPlaced'
  <2>1. SUFFICES ASSUME NEW r \in Seekers
        PROVE  /\ rrp[r].pc = "connected" <=> rrp[r].current # 0
               /\ rrp[r].current # 0 => rrp[r].addr # 0 /\ mem'[rrp[r].current].addr = rrp[r].addr
               /\ rrp[r].config <= config'
    BY <1>3 DEF RequestsPlaced
  <2>2. /\ rrp[r].pc = "connected" <=> rrp[r].current # 0
        /\ rrp[r].current # 0 => rrp[r].addr # 0 /\ mem[rrp[r].current].addr = rrp[r].addr
        /\ rrp[r].config <= config /\ rrp[r] \in SeekerRec
    BY <1>1, SeekerIs DEF RequestsPlaced
  <2>3. ASSUME rrp[r].current # 0 PROVE mem'[rrp[r].current].addr = mem[rrp[r].current].addr
    <3>1. PICK q \in Memory : q = rrp[r].current
      BY <2>2, <2>3 DEF SeekerRec
    <3>2. ~Unheld(q)
      BY <3>1 DEF Unheld, Holding
    <3> QED
      BY <1>8, <3>1, <3>2 DEF Buried
  <2>4. rrp[r].config <= config'
    <3>1. rrp[r].config \in Nat /\ config' \in Nat
      BY <1>2, <1>3, <1>4, <1>5, <2>2 DEF SeekerRec
    <3> QED
      BY <1>2, <1>22, <2>2, <3>1
  <2> QED
    BY <2>2, <2>3, <2>4
<1>24. TriedKnown'
  <2>1. CASE config' # config
    <3>1. \A r \in Seekers : rrp'[r].config # config'
      <4>1. SUFFICES ASSUME NEW r \in Seekers PROVE rrp[r].config # config'
        BY <1>3
      <4>2. rrp[r].config <= config /\ rrp[r].config \in Nat
        BY SeekerIs DEF SeekerRec
      <4>3. config' \in Nat /\ config < config'
        BY <1>2, <1>3, <1>4, <1>5, <1>22, <2>1
      <4> QED
        BY <1>2, <4>2, <4>3
    <3> QED
      BY <3>1 DEF TriedKnown
  <2>2. CASE config' = config
    <3>1. G = {} /\ DOMAIN d = {}
      BY <1>22, <2>2
    <3>2. \A q \in Memory : mem'[q] = mem[q]
      BY <1>8, <3>1
    <3>3. list'[g] = list[g]
      <4>1. k = list[g] /\ Len(d) = 0
        BY <1>4, <1>5, <3>1
      <4>2. DOMAIN list'[g] = DOMAIN k
        BY <1>4, <1>6, <4>1
      <4>3. \A i \in DOMAIN k : list'[g][i] = k[i]
        BY <1>6
      <4>4. list'[g] \in Seq(Memory) /\ k \in Seq(Memory)
        BY <1>2, <1>4, <1>6
      <4> QED
        BY <4>1, <4>2, <4>3, <4>4
    <3>4. list' = list
      <4>1. list = [h \in 1 .. 2 |-> list[h]] /\ list' = [h \in 1 .. 2 |-> list'[h]]
        BY <1>1, <1>6 DEF PeersTyped
      <4>2. \A h \in 1 .. 2 : list'[h] = list[h]
        BY <1>6, <3>3
      <4> QED
        BY ONLY <4>1, <4>2
    <3>5. mem' = mem
      <4>1. mem = [q \in Memory |-> mem[q]]
        BY <1>1 DEF PeersTyped
      <4> QED
        BY <1>3, <3>2, <4>1
    <3> QED
      BY <1>1, <1>3, <2>2, <3>4, <3>5 DEF TriedKnown, Peers!Single
  <2> QED
    BY <2>1, <2>2
<1>25. Balanced'
  <2>1. SUFFICES ASSUME NEW h \in (1 .. 2) \ upstream.resolving
        PROVE  Sum(Credits(h), DOMAIN list[h])' = 0
    BY <1>2 DEF Balanced
  <2>2. h # g /\ h \in 1 .. 2
    OBVIOUS
  <2>3. list'[h] = list[h]
    BY <1>6, <2>2
  <2>4. \A i \in DOMAIN list[h] : mem'[list[h][i]].cw = mem[list[h][i]].cw
    BY <1>10, <2>2
  <2>5. Credits(h)' = Credits(h)
    BY <2>3, <2>4 DEF Credits
  <2> QED
    BY <1>1, <2>3, <2>5 DEF Balanced
<1>26. Turns'
  <2>1. ~Peers!Steady /\ ~Peers!Steady'
    BY <1>2 DEF Peers!Steady
  <2> QED
    BY <1>1, <1>3, <2>1 DEF Turns
<1> QED
  BY <1>12, <1>13, <1>18, <1>19, <1>21, <1>23, <1>24, <1>25, <1>26 DEF PeersInv

\* Every step keeps the invariant.
LEMMA PeersStep ==
    ASSUME PeersInv, Peers!Next
    PROVE  PeersInv'
<1>1. UNCHANGED upstream
  BY DEF Peers!Next
<1>2. ASSUME NEW r \in Seekers, Peers!Step(r) PROVE PeersInv'
  <2>1. ASSUME Peers!InitPeer(r) PROVE PeersInv'
    BY <1>1, <2>1, InitPeerStep
  <2>2. ASSUME Peers!GetPeer(r) PROVE PeersInv'
    BY <1>1, <2>2, GetPeerStep
  <2>3. ASSUME Peers!GetSingle(r) PROVE PeersInv'
    BY <1>1, <2>3, GetSingleStep
  <2>4. ASSUME Peers!GetBackup(r) PROVE PeersInv'
    BY <1>1, <2>4, GetBackupStep
  <2>5. ASSUME Peers!GetBusy(r) PROVE PeersInv'
    BY <1>1, <2>5, GetBusyStep
  <2>6. ASSUME Peers!Finish(r) PROVE PeersInv'
    BY <1>1, <2>6, FinishStep
  <2> QED
    BY <1>2, <2>1, <2>2, <2>3, <2>4, <2>5, <2>6 DEF Peers!Step
<1>3. ASSUME NEW r \in Seekers, Peers!Again(r) PROVE PeersInv'
  BY <1>1, <1>3, AgainStep
<1>4. ASSUME NEW r \in Seekers, Peers!Crash(r) PROVE PeersInv'
  BY <1>1, <1>4, PeersCrashStep
<1>5. ASSUME NEW r \in Seekers, NEW f \in BOOLEAN, NEW to \in {"get", "done"},
             Peers!NextUpstream(r, f, to)
      PROVE  PeersInv'
  BY <1>1, <1>5, NextUpstreamStep
<1>6. ASSUME NEW g \in upstream.resolving, NEW ans \in upstream.answers, Peers!Resolve(g, ans)
      PROVE  PeersInv'
  BY <1>1, <1>6, ResolveStep
<1>7. ASSUME Peers!Tick PROVE PeersInv'
  BY <1>1, <1>7, PeersTickStep
<1> QED
  BY <1>2, <1>3, <1>4, <1>5, <1>6, <1>7 DEF Peers!Next

\* So does a step of the others.
LEMMA PeersRest ==
    ASSUME PeersInv, UNCHANGED Peers!vars
    PROVE  PeersInv'
<1>1. /\ upstream' = upstream /\ mem' = mem /\ list' = list /\ config' = config /\ rrp' = rrp
      /\ seconds' = seconds /\ orphans' = orphans /\ probed' = probed /\ picked' = picked
  BY DEF Peers!vars
<1>2. PeersTyped' /\ PeersBounded' /\ ListsApart' /\ RefsCounted' /\ RequestsPlaced' /\ ProbesPast'
  BY <1>1 DEF PeersInv, PeersTyped, PeersBounded, ListsApart, RefsCounted, RequestsPlaced,
       ProbesPast,
              Weight
<1>3. TriedKnown'
  BY <1>1 DEF PeersInv, TriedKnown, Peers!Single
<1>4. Balanced'
  BY <1>1 DEF PeersInv, Balanced, Credits
<1>5. Turns'
  <2>1. AllPicked' = AllPicked /\ AllWeights' = AllWeights /\ \A a : Weight(a)' = Weight(a)
    BY <1>1 DEF AllPicked, AllWeights, Weight
  <2>2. Peers!Steady' <=> Peers!Steady
    BY <1>1 DEF Peers!Steady
  <2> QED
    BY <1>1, <2>1, <2>2 DEF PeersInv, Turns
<1> QED
  BY <1>2, <1>3, <1>4, <1>5 DEF PeersInv

\* The invariant always holds.
LEMMA PeersInvariance == Peers!Spec => []PeersInv
<1>1. Peers!Init => PeersInv
  BY PeersInitially
<1>2. PeersInv /\ [Peers!Next]_Peers!vars => PeersInv'
  BY PeersStep, PeersRest
<1> QED
  BY <1>1, <1>2, PTL DEF Peers!Spec

\* A behaviour of the three parts is, of the servers, one of UpstreamPeers.
LEMMA PeersPart == MCSpec => Peers!Spec
<1>1. MCInit => Peers!Init
  BY DEF MCInit
<1>2. [MCNext]_<<vars, connVars, peersVars, part>> => [Peers!Next]_Peers!vars
  BY DEF MCNext, peersVars, Peers!vars
<1> QED
  BY <1>1, <1>2, PTL DEF MCSpec, Peers!Spec

\* The counts of servers are exact, and they live while they are used.
LEMMA PeersKeptFollows ==
    ASSUME PeersInv
    PROVE  Peers!PeersKept
<1>1. PeersTyped /\ PeersBounded /\ ListsApart /\ RefsCounted /\ RequestsPlaced
  BY DEF PeersInv
<1>2. \A p : p \in Peers!Allocated <=> p \in Memory /\ mem[p].addr # 0
  BY DEF Peers!Allocated, Peers!Null
<1>3. \A p \in Peers!Allocated : p \in Memory /\ mem[p] \in PeerRec /\ mem[p].addr # 0
  BY <1>1, <1>2, PeerIs
<1>4. \A p \in Memory : Peers!Holders(p) = Holding(rrp, p)
  BY DEF Peers!Holders, Holding
<1>5. Peers!TypeOK
  <2>1. ASSUME NEW p \in Peers!Allocated
        PROVE  /\ {mem[p].conns, mem[p].refs, mem[p].fails} \subseteq Nat
               /\ mem[p].ew \in 0 .. upstream.weight[mem[p].addr] /\ mem[p].cw \in Int
               /\ mem[p].accessed <= seconds /\ mem[p].checked <= seconds
    <3>1. /\ mem[p].ew <= Weight(mem[p].addr)
          /\ mem[p].accessed <= seconds /\ mem[p].checked <= seconds
      BY <1>1, <1>3 DEF PeersBounded
    <3>2. /\ mem[p].conns \in Nat /\ mem[p].refs \in Nat /\ mem[p].fails \in Nat
               /\ mem[p].ew \in Nat
          /\ mem[p].cw \in Int /\ mem[p].addr \in Addrs
      BY <1>3 DEF PeerRec
    <3>3. upstream.weight[mem[p].addr] \in Nat
      BY <1>1, <3>2, ScenarioFacts DEF PeersTyped
    <3> QED
      BY <3>1, <3>2, <3>3 DEF Weight
  <2>2. ASSUME NEW g \in 1 .. 2
        PROVE  Peers!ToSet(list[g]) \subseteq Peers!Allocated /\ Peers!IsInjective(list[g])
    <3>1. \A i \in DOMAIN list[g] : list[g][i] \in Memory /\ mem[list[g][i]].addr # 0
      BY <1>1, ListedIs DEF ListsApart
    <3>2. ToSet(list[g]) \subseteq Peers!Allocated
      BY <1>2, <3>1 DEF ToSet
    <3>3. IsInjective(list[g])
      BY <1>1 DEF ListsApart, IsInjective
    <3> QED
      BY <3>2, <3>3, PeersSets
  <2>3. ASSUME NEW r \in Seekers
        PROVE  /\ rrp[r].pc \in {"init", "get", "connected", "done"} /\ rrp[r].tries \in Nat
               /\ rrp[r].pc = "connected" <=> rrp[r].current # Peers!Null
    <3>1. rrp[r] \in SeekerRec
      BY SeekerIs
    <3> QED
      BY <1>1, <3>1 DEF SeekerRec, RequestsPlaced, Peers!Null
  <2>4. config \in 0 .. upstream.changes /\ seconds \in 0 .. upstream.time
    BY <1>1 DEF PeersTyped
  <2> QED
    BY <2>1, <2>2, <2>3, <2>4 DEF Peers!TypeOK
<1>6. Peers!PeersOutliveRequests
  <2>1. \A r \in Seekers : rrp[r].current # Peers!Null => mem[rrp[r].current].addr = rrp[r].addr
    BY <1>1 DEF RequestsPlaced, Peers!Null
  <2>2. ASSUME NEW p \in Peers!Allocated, p \notin Peers!ToSet(list[1]),
                 p \notin Peers!ToSet(list[2])
        PROVE  mem[p].zombie /\ Peers!Cardinality(Peers!Holders(p)) + orphans[p] > 0
    <3>1. p \notin ToSet(list[1]) /\ p \notin ToSet(list[2])
      BY <2>2, PeersSets
    <3>2. ~Listed(list, p)
      <4>1. SUFFICES ASSUME NEW g \in 1 .. 2, NEW i \in DOMAIN list[g], list[g][i] = p PROVE FALSE
        BY DEF Listed
      <4>2. p \in ToSet(list[g])
        BY <4>1 DEF ToSet
      <4>3. g = 1 \/ g = 2
        OBVIOUS
      <4> QED
        BY <3>1, <4>2, <4>3
    <3>3. /\ mem[p].refs = Cardinality(Holding(rrp, p)) + orphans[p]
          /\ mem[p].zombie /\ mem[p].refs > 0
      BY <1>1, <1>3, <3>2 DEF RefsCounted
    <3> QED
      BY <1>3, <1>4, <3>3, PeersSets
  <2> QED
    BY <2>1, <2>2 DEF Peers!PeersOutliveRequests
<1>7. Peers!ConnsExact
  <2>1. ASSUME NEW p \in Peers!Allocated
        PROVE  /\ mem[p].refs = Peers!Cardinality(Peers!Holders(p)) + orphans[p]
               /\ mem[p].conns = mem[p].refs
               /\ upstream.maxconns > 0 => mem[p].conns <= upstream.maxconns
    <3>1. mem[p].refs = Cardinality(Holding(rrp, p)) + orphans[p]
      BY <1>1, <1>3 DEF RefsCounted
    <3>2. /\ mem[p].conns = mem[p].refs
          /\ upstream.maxconns > 0 => mem[p].conns <= upstream.maxconns
      BY <1>1, <1>3 DEF PeersBounded
    <3> QED
      BY <1>3, <1>4, <3>1, <3>2, PeersSets
  <2> QED
    BY <2>1 DEF Peers!ConnsExact
<1> QED
  BY <1>5, <1>6, <1>7 DEF Peers!PeersKept

\* No credit is made or lost, and rounds follow the weights.
LEMMA WeightsFairFollows ==
    ASSUME PeersInv
    PROVE  Peers!WeightsFair
<1>1. ASSUME NEW g \in {1, 2} \ upstream.resolving
      PROVE  Peers!SumFunction([i \in DOMAIN list[g] |-> mem[list[g][i]].cw]) = 0
  <2>1. g \in (1 .. 2) \ upstream.resolving
    OBVIOUS
  <2>2. Sum(Credits(g), DOMAIN list[g]) = 0
    BY <2>1 DEF PeersInv, Balanced
  <2>3. DOMAIN Credits(g) = DOMAIN list[g]
    BY DEF Credits
  <2>4. Peers!SumFunction(Credits(g)) = Sum(Credits(g), DOMAIN Credits(g))
    BY SumIs
  <2>5. Peers!SumFunction(Credits(g)) = 0
    BY <2>2, <2>3, <2>4
  <2> QED
    BY <2>5 DEF Credits
<1>2. Peers!WeightsBalanced
  BY <1>1 DEF Peers!WeightsBalanced
<1>3. Peers!RoundsFair
  <2>1. SUFFICES ASSUME NEW a \in Addrs PROVE picked[a] <= upstream.weight[a]
    BY DEF Peers!RoundsFair
  <2>2. upstream.weight[a] \in Nat \ {0}
    BY ScenarioFacts DEF PeersInv, PeersTyped
  <2>3. picked[a] = 0 \/ picked[a] <= upstream.weight[a]
    BY DEF PeersInv, Turns, Weight
  <2> QED
    BY <2>2, <2>3
<1> QED
  BY <1>2, <1>3 DEF Peers!WeightsFair

\* Servers are counted exactly, kept while a request uses them, and chosen by their weights,
\* for any number of requests, servers and places, any weights and any answers of the resolver.
THEOREM PeersAreExact == MCSpec => []PeersExact
<1>1. PeersInv => PeersExact
  BY PeersKeptFollows, WeightsFairFollows DEF PeersExact, Peers!PeersExact
<1> QED
  BY <1>1, PeersPart, PeersInvariance, PTL

\* No request gets a server, none but r can have moved.
Connects(s) == rrp[s].pc = "get" /\ rrp'[s].pc = "connected"

\* Where no request gets a server and no probe is made, nothing is to be shown.
LEMMA NonePicked ==
    ASSUME UNCHANGED probed, \A s \in Seekers : ~Connects(s)
    PROVE  Peers!NoServerTwice /\ Peers!OneProbe
BY DEF Peers!NoServerTwice, Peers!OneProbe, Connects

\* When one request moves, no other gets a server.
LEMMA OthersRest ==
    ASSUME PeersTyped, NEW r \in Seekers, NEW x, rrp' = [rrp EXCEPT ![r] = x]
    PROVE  rrp'[r] = x /\ \A s \in Seekers \ {r} : ~Connects(s)
<1>1. rrp'[r] = x /\ \A s \in Seekers \ {r} : rrp'[s] = rrp[s]
  BY DEF PeersTyped
<1> QED
  BY <1>1 DEF Connects

\* The one chosen of several was not tried before, and rested if it had failed.
LEMMA PeerPicked ==
    ASSUME PeersInv, NEW r \in Seekers, Peers!GetPeer(r)
    PROVE  Peers!NoServerTwice /\ Peers!OneProbe
<1> DEFINE g == rrp[r].group
           b == Peers!Best(r)
           p == list[g][b]
<1>1. PeersTyped /\ ListsApart /\ TriedKnown /\ ProbesPast
  BY Zenon DEF PeersInv
<1>2. /\ rrp[r].pc = "get" /\ ~(rrp[r].config # config) /\ ~Peers!Single(g)
           /\ Peers!Eligible(r) # {}
      /\ rrp' = [rrp EXCEPT ![r].pc = "connected", ![r].current = p,
                            ![r].addr = mem[p].addr, ![r].tried = @ \cup {b},
                            ![r].used = @ \cup {mem[p].addr}]
      /\ probed' = IF Peers!Disabled(p) THEN [probed EXCEPT ![p] = seconds] ELSE probed
  BY ZenonT(40) DEF Peers!GetPeer, Peers!ConfigChanged
<1>3. /\ g \in 1 .. 2 /\ b \in DOMAIN list[g] /\ b \in Peers!Eligible(r)
      /\ p \in Memory /\ mem[p].addr \in Addrs
  BY <1>2, WeighedIs
<1>4. b \notin rrp[r].tried /\ ~Peers!Resting(p) /\ rrp[r] \in SeekerRec
  BY <1>3, EligibleIs, SeekerIs
<1> HIDE DEF b
<1>5. mem[p].addr \notin rrp[r].used
  <2>1. SUFFICES ASSUME mem[p].addr \in rrp[r].used PROVE FALSE
    BY Zenon
  <2>2. PICK i \in rrp[r].tried : i \in DOMAIN list[g] /\ mem[list[g][i]].addr = mem[p].addr
    BY Zenon, <1>1, <1>2, <2>1 DEF TriedKnown
  <2>3. i = b
    BY <1>1, <1>3, <2>2 DEF ListsApart
  <2> QED
    BY <1>4, <2>2, <2>3
<1> HIDE DEF g, p
<1>6. rrp'[r].addr = mem[p].addr /\ \A s \in Seekers \ {r} : rrp'[s] = rrp[s]
  <2> DEFINE x == [rrp[r] EXCEPT !.pc = "connected", !.current = p, !.addr = mem[p].addr,
                               !.tried = @ \cup {b}, !.used = @ \cup {mem[p].addr}]
  <2>1. rrp' = [rrp EXCEPT ![r] = x]
    BY <1>1, <1>2 DEF PeersTyped
  <2>2. x.addr = mem[p].addr
    BY <1>4 DEF SeekerRec
  <2> HIDE DEF x
  <2> QED
    BY <1>1, <2>1, <2>2 DEF PeersTyped
<1>7. Peers!NoServerTwice
  BY <1>5, <1>6 DEF Peers!NoServerTwice
<1>8. Peers!OneProbe
  <2>1. CASE ~Peers!Disabled(p)
    BY <1>2, <2>1 DEF Peers!OneProbe
  <2>2. CASE Peers!Disabled(p)
    <3>1. ~(seconds - mem[p].checked <= upstream.timeout)
      BY <1>4, <2>2 DEF Peers!Resting
    <3>2. probed[p] <= mem[p].checked
      BY <1>1, <1>3 DEF ProbesPast, p
    <3>3. mem[p].checked \in Nat /\ seconds \in Nat /\ upstream.timeout \in Nat /\ probed[p] \in Int
      <4>1. 0 \notin Addrs
        BY <1>1, ScenarioFacts DEF PeersTyped
      <4>2. mem[p] \in PeerRec
        BY Zenon, <1>1, <1>3, <4>1, PeerIs
      <4> QED
        BY <1>1, <1>3, <4>2, ScenarioFacts DEF PeersTyped, PeerRec
    <3>4. seconds - probed[p] > upstream.timeout
      BY <3>1, <3>2, <3>3
    <3>5. probed' = [probed EXCEPT ![p] = seconds]
      BY <1>2, <2>2
    <3>6. \A q \in Memory : probed'[q] # probed[q] => q = p /\ probed'[q] = seconds
      BY <1>1, <1>3, <3>5 DEF PeersTyped
    <3> QED
      BY <3>4, <3>6 DEF Peers!OneProbe
  <2> QED
    BY <2>1, <2>2
<1> QED
  BY <1>7, <1>8

\* No step makes an unsound choice.
LEMMA PicksStep ==
    ASSUME PeersInv, Peers!Next
    PROVE  Peers!NoServerTwice /\ Peers!OneProbe
<1> DEFINE Sound == Peers!NoServerTwice /\ Peers!OneProbe
<1>1. PeersTyped
  BY DEF PeersInv
<1>3. ASSUME NEW r \in Seekers, NEW x, rrp' = [rrp EXCEPT ![r] = x], UNCHANGED probed,
             rrp[r].pc # "get" \/ x.pc # "connected"
      PROVE  Sound
  <2>1. rrp'[r] = x /\ \A s \in Seekers \ {r} : ~Connects(s)
    BY <1>1, <1>3, OthersRest
  <2>2. ~Connects(r)
    BY <1>3, <2>1 DEF Connects
  <2> QED
    BY <1>3, <2>1, <2>2, NonePicked
<1>4. ASSUME NEW r \in Seekers, Peers!Step(r) PROVE Sound
  <2>1. ASSUME Peers!InitPeer(r) PROVE Sound
    <3> DEFINE x == [Peers!NewRequest EXCEPT !.pc = "get", !.config = config,
                                    !.tries = Peers!Tries(1) + Peers!Tries(2)]
    <3>1. rrp[r].pc = "init" /\ rrp' = [rrp EXCEPT ![r] = x] /\ UNCHANGED probed
      BY <2>1 DEF Peers!InitPeer, Peers!ghosts
    <3> HIDE DEF x
    <3> QED
      BY <1>3, <3>1
  <2>2. ASSUME Peers!GetPeer(r) PROVE Sound
    BY <2>2, PeerPicked
  <2>3. ASSUME Peers!GetSingle(r) PROVE Sound
    <3>1. UNCHANGED upstream
      BY DEF Peers!Next
    <3>2. rrp[r].used = {}
      BY <2>3, <3>1, GetSingleStep
    <3>3. probed' = probed /\ \A s \in Seekers \ {r} : rrp'[s] = rrp[s]
      BY <1>1, <2>3 DEF Peers!GetSingle, Peers!ghosts, PeersTyped
    <3> QED
      BY <3>2, <3>3 DEF Peers!NoServerTwice, Peers!OneProbe
  <2>4. ASSUME Peers!GetBackup(r) PROVE Sound
    <3> DEFINE x == [rrp[r] EXCEPT !.group = 2, !.tried = {}, !.used = {}]
    <3>1. rrp[r].pc = "get" /\ rrp' = [rrp EXCEPT ![r] = x] /\ UNCHANGED probed
      BY <2>4 DEF Peers!GetBackup, Peers!ghosts
    <3>2. x.pc = "get"
      BY <3>1, SeekerIs DEF SeekerRec
    <3> HIDE DEF x
    <3> QED
      BY <1>3, <3>1, <3>2
  <2>5. ASSUME Peers!GetBusy(r) PROVE Sound
    <3> DEFINE x == [rrp[r] EXCEPT !.pc = "done"]
    <3>1. rrp' = [rrp EXCEPT ![r] = x] /\ UNCHANGED probed
      BY <2>5 DEF Peers!GetBusy, Peers!ghosts
    <3>2. x.pc = "done"
      BY SeekerIs DEF SeekerRec
    <3> HIDE DEF x
    <3> QED
      BY <1>3, <3>1, <3>2
  <2>6. ASSUME Peers!Finish(r) PROVE Sound
    <3> DEFINE x == [Peers!NewRequest EXCEPT !.pc = "done"]
    <3>1. rrp[r].pc = "connected" /\ rrp' = [rrp EXCEPT ![r] = x] /\ UNCHANGED probed
      BY <2>6 DEF Peers!Finish, Peers!ghosts
    <3> HIDE DEF x
    <3> QED
      BY <1>3, <3>1
  <2> QED
    BY <1>4, <2>1, <2>2, <2>3, <2>4, <2>5, <2>6 DEF Peers!Step
<1>5. ASSUME NEW r \in Seekers, Peers!Again(r) PROVE Sound
  <2>1. rrp[r].pc = "done" /\ rrp' = [rrp EXCEPT ![r] = Peers!NewRequest] /\ UNCHANGED probed
    BY <1>5 DEF Peers!Again, Peers!ghosts
  <2> QED
    BY <1>3, <2>1
<1>6. ASSUME NEW r \in Seekers, Peers!Crash(r) PROVE Sound
  <2> DEFINE x == [Peers!NewRequest EXCEPT !.pc = "done"]
  <2>1. rrp[r].pc = "connected" /\ rrp' = [rrp EXCEPT ![r] = x] /\ UNCHANGED probed
    BY <1>6 DEF Peers!Crash
  <2> HIDE DEF x
  <2> QED
    BY <1>3, <2>1
<1>7. ASSUME NEW r \in Seekers, NEW f \in BOOLEAN, NEW to \in {"get", "done"},
             Peers!NextUpstream(r, f, to)
      PROVE  Sound
  <2> DEFINE x == [rrp[r] EXCEPT !.current = Peers!Null, !.addr = Peers!Null,
                                 !.tries = Peers!TriesLeft(r),
                                 !.pc = IF Peers!TriesLeft(r) = 0 THEN "done" ELSE to]
  <2>1. rrp[r].pc = "connected" /\ UNCHANGED probed
        /\ rrp' = [rrp EXCEPT ![r].current = Peers!Null, ![r].addr = Peers!Null,
                              ![r].tries = Peers!TriesLeft(r),
                              ![r].pc = IF Peers!TriesLeft(r) = 0 THEN "done" ELSE to]
    BY <1>7 DEF Peers!NextUpstream, Peers!ghosts
  <2>2. rrp' = [rrp EXCEPT ![r] = x]
    BY <1>1, <2>1 DEF PeersTyped
  <2> HIDE DEF x
  <2> QED
    BY <1>3, <2>1, <2>2
<1>8. ASSUME NEW g \in upstream.resolving, NEW ans \in upstream.answers, Peers!Resolve(g, ans)
      PROVE  Sound
  <2>1. rrp' = rrp
          /\ probed' = [p \in Memory |-> IF p \in ToSet(Filled(g, ans)) THEN -1 ELSE probed[p]]
    BY <1>1, <1>8, ResolveIs
  <2>2. Peers!NoServerTwice
    BY <2>1 DEF Peers!NoServerTwice
  <2>3. \A p \in Memory : probed'[p] = probed[p] \/ ~(probed'[p] >= 0)
    BY <2>1
  <2> QED
    BY <2>2, <2>3 DEF Peers!OneProbe
<1>9. ASSUME Peers!Tick PROVE Sound
  <2>1. rrp' = rrp /\ UNCHANGED probed
    BY <1>9 DEF Peers!Tick, Peers!ghosts
  <2> QED
    BY <2>1, NonePicked DEF Connects
<1> QED
  BY <1>4, <1>5, <1>6, <1>7, <1>8, <1>9 DEF Peers!Next

\* No request goes back to a server of the group it tried, and a server that failed is
\* probed once in each fail_timeout.
THEOREM PicksAreSound == MCSpec => PicksSound
<1>1. PeersInv /\ [Peers!Next]_Peers!vars => [Peers!NoServerTwice /\ Peers!OneProbe]_peersVars
  BY PicksStep DEF peersVars, Peers!vars
<1> QED
  BY <1>1, PeersPart, PeersInvariance, PTL DEF Peers!Spec, PicksSound
=============================================================================
