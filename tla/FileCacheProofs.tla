-------------------------- MODULE FileCacheProofs --------------------------
(***************************************************************************)
(* For any number of requests, keys, entries and scenarios: an entry of    *)
(* the cache is counted exactly, stays in memory while a request or a      *)
(* deletion refers to it, and is in the queue once; and the recorded size  *)
(* is the number of files wherever SizeCountsFiles says so.                *)
(***************************************************************************)
EXTENDS FileCache, QueueProofs, FiniteSetTheorems

Deleting == Requests \cup {Manager}

PCs == {"open", "force", "retry", "test", "read", "stale", "lock", "wait",
        "fetch", "update", "serve", "done"}

Entry ==
    [key : Keys, count : Nat, exists : BOOLEAN, fs : {0, 1}, updating : BOOLEAN,
     deleting : BOOLEAN, lock : Nat, live : BOOLEAN, error : BOOLEAN, valid : BOOLEAN]

Request ==
    [pc : PCs, key : Keys, node : Slots \cup {Nil}, updating : BOOLEAN, lock : Nat,
     secondary : BOOLEAN, late : BOOLEAN, patient : BOOLEAN, cacheable : BOOLEAN,
     old : BOOLEAN, fs : {0, 1}, error : BOOLEAN, valid : BOOLEAN]

Deletion == [pc : {"no", "unlink", "finish"}, node : Slots \cup {Nil}]

(* The types, as sets of records. *)
OtherTypes ==
    /\ size \in Int
    /\ cold \in BOOLEAN
    /\ file \in [Keys -> {"none", "fresh", "expired"}]
    /\ walk \subseteq Keys
    /\ found \in Keys \cup {Nil}
    /\ crashes \in Nat
    /\ broken \in Nat

RequestsTyped ==
    /\ conf \in Scenarios
    /\ c \in [Requests -> Request \cup {NoRequest}]
    /\ \A r \in Requests : IF r \in Active THEN c[r] \in Request ELSE c[r] = NoRequest

Types ==
    /\ node \in [Slots -> Entry \cup {FreeMemory}]
    /\ queue \in Seq(Slots)
    /\ del \in [Deleting -> Deletion]
    /\ leaked \in [Slots -> Nat]
    /\ RequestsTyped
    /\ OtherTypes

WithEntry == {"test", "read", "stale", "lock", "wait", "fetch", "update", "serve"}

(* Where a request is says whether it holds an entry. *)
NodeFits(v) == /\ v.pc \in WithEntry => v.node # Nil
               /\ v.pc \in {"force", "retry", "done"} => v.node = Nil

HoldsByPC == \A r \in Requests : NodeFits(c[r])

(* A deletion has an entry, and a request that deletes waits for memory. *)
DeletionsHold ==
    /\ \A d \in Deleting : del[d].pc = "no" <=> del[d].node = Nil
    /\ \A r \in Requests : del[r].pc # "no" => c[r].pc = "force"

(* What is true of an entry: it is there for those that refer to it, with  *)
(* their key, it counts them, and nothing is left of it when it is freed.  *)
EntryExact(n) ==
    /\ Holders(n) \cup Deleters(n) # {} => n \in Used
    /\ \A r \in Holders(n) : node[n].key = c[r].key
    /\ n \in Used =>
        node[n].count = Cardinality(Holders(n)) + Cardinality(Deleters(n)) + leaked[n]
    /\ n \notin Used => leaked[n] = 0

IInv == /\ Types /\ HoldsByPC /\ DeletionsHold /\ QueueExact
        /\ \A n \in Slots : EntryExact(n)

-----------------------------------------------------------------------------
(* The queue of inactive entries: the newest to the head, and the search    *)
(* for an entry to delete.                                                 *)
LEMMA QueueToHead ==
    ASSUME NEW S, NEW q \in Seq(S), IsInjective(q), NEW n \in ToSet(q)
    PROVE  /\ ToHead(q, n) \in Seq(S) /\ IsInjective(ToHead(q, n))
           /\ ToSet(ToHead(q, n)) = ToSet(q)
<1>1. n \in S
  BY DEF ToSet
<1>2. /\ Without(q, n) \in Seq(S) /\ IsInjective(Without(q, n))
      /\ ToSet(Without(q, n)) = ToSet(q) \ {n}
  BY QueueRemove
<1>3. /\ <<n>> \o Without(q, n) \in Seq(S) /\ IsInjective(<<n>> \o Without(q, n))
      /\ ToSet(<<n>> \o Without(q, n)) = ToSet(Without(q, n)) \cup {n}
  BY <1>1, <1>2, QueueInsert
<1> QED
  BY <1>2, <1>3 DEF ToHead

LEMMA QueueSearched ==
    ASSUME queue \in Seq(Slots), IsInjective(queue)
    PROVE  /\ Searched \in Seq(Slots) /\ IsInjective(Searched)
           /\ ToSet(Searched) = ToSet(queue)
           /\ queue # <<>> => Searched # <<>>
<1> DEFINE stops == {i \in DOMAIN queue : ~Locked(queue[i])}
<1>1. CASE stops = {}
  BY <1>1 DEF Searched
<1>2. CASE stops # {}
  <2>1. stops \subseteq 1 .. Len(queue) /\ Len(queue) \in Nat
    OBVIOUS
  <2>2. Searched = SubSeq(queue, Max(stops) + 1, Len(queue)) \o SubSeq(queue, 1, Max(stops))
    BY <1>2 DEF Searched
  <2> HIDE DEF stops
  <2>3. Max(stops) \in 1 .. Len(queue)
    BY <1>2, <2>1, LastPlace
  <2>4. Searched \in Seq(Slots) /\ IsInjective(Searched) /\ ToSet(Searched) = ToSet(queue)
    BY <2>2, <2>3, QueueTurned
  <2>5. queue # <<>> => Searched # <<>>
    BY <2>4 DEF ToSet
  <2> QED
    BY <2>4, <2>5
<1> QED
  BY <1>1, <1>2
-----------------------------------------------------------------------------
(* Lemmas about the use of the entries.                                    *)

(* What a step leaves as it is when it changes neither who uses an entry   *)
(* nor how many are counted.                                               *)
CountsKept ==
    /\ node' \in [Slots -> Entry \cup {FreeMemory}]
    /\ \A n \in Slots : node'[n].key = node[n].key /\ node'[n].count = node[n].count
    /\ leaked' = leaked

QueueKept == queue' \in Seq(Slots) /\ IsInjective(queue') /\ ToSet(queue') = ToSet(queue)

LEMMA ConstantsOK ==
    /\ Manager \notin Requests /\ IsFiniteSet(Requests) /\ IsFiniteSet(Keys)
    /\ Nil \notin Keys /\ Nil \notin Slots /\ IsFiniteSet(Slots) /\ IsFiniteSet(Deleting)
<1>1. IsFiniteSet(1 .. 19)
  <2>1. 1 \in Int /\ 19 \in Int
    OBVIOUS
  <2> QED
    BY ONLY <2>1, FS_Interval
<1>2. IsFiniteSet(Slots)
  BY <1>1, FileCacheAssumption, FS_Subset
<1>3. Nil \notin Slots
  BY FileCacheAssumption DEF Nil
<1>4. IsFiniteSet(Deleting)
  BY FileCacheAssumption, FS_AddElement DEF Deleting
<1> QED
  BY <1>2, <1>3, <1>4, FileCacheAssumption

LEMMA UsedIsEntry ==
    ASSUME Types, NEW n \in Slots
    PROVE  n \in Used <=> node[n] \in Entry
BY ConstantsOK DEF Types, Used, Entry, FreeMemory, Nil

LEMMA ActiveRequest ==
    ASSUME RequestsTyped, NEW r \in Requests, c[r].pc # "done"
    PROVE  r \in Active /\ c[r] \in Request
BY DEF RequestsTyped, NoRequest

LEMMA UsersFinite ==
    ASSUME Types, NEW n \in Slots
    PROVE  /\ IsFiniteSet(Holders(n)) /\ Cardinality(Holders(n)) \in Nat
           /\ IsFiniteSet(Deleters(n)) /\ Cardinality(Deleters(n)) \in Nat
<1>1. Holders(n) \subseteq Requests /\ Deleters(n) \subseteq Deleting
  BY DEF Holders, Deleters, Types
<1> QED
  BY <1>1, ConstantsOK, FS_Subset, FS_CardinalityType

(* One request changes its record. *)
LEMMA RequestMoves ==
    ASSUME RequestsTyped, HoldsByPC, DeletionsHold, conf' = conf, del' = del,
           NEW r \in Requests, r \in Active, NEW v \in Request, c' = [c EXCEPT ![r] = v],
           NodeFits(v), del[r].pc # "no" => v.pc = "force"
    PROVE  RequestsTyped' /\ HoldsByPC' /\ DeletionsHold'
<1>1. RequestsTyped'
  BY DEF RequestsTyped, Active
<1>2. HoldsByPC'
  BY DEF RequestsTyped, HoldsByPC, NodeFits
<1>3. DeletionsHold'
  BY DEF RequestsTyped, DeletionsHold
<1> QED
  BY <1>1, <1>2, <1>3

(* Nobody takes or gives back an entry. *)
LEMMA UseKept ==
    ASSUME IInv, Types', HoldsByPC', DeletionsHold', CountsKept, QueueKept,
           \A r \in Requests : c'[r].node = c[r].node /\ (c[r].node # Nil => c'[r].key = c[r].key),
           \A d \in Deleting : del'[d].node = del[d].node
    PROVE  IInv'
<1> USE DEF IInv
<1>1. Used' = Used
  BY DEF Used, CountsKept
<1>2. QueueExact'
  BY <1>1 DEF QueueKept, QueueExact
<1>3. ASSUME NEW n \in Slots PROVE EntryExact(n)'
  <2>1. Holders(n)' = Holders(n)
    BY DEF Holders
  <2>2. Deleters(n)' = Deleters(n)
    BY DEF Deleters, Types
  <2>3. \A r \in Holders(n) : c'[r].key = c[r].key
    BY <1>3, ConstantsOK DEF Holders
  <2> QED
    <3>1. EntryExact(n)
      BY <1>3
    <3>2. /\ node'[n].key = node[n].key /\ node'[n].count = node[n].count
          /\ leaked'[n] = leaked[n]
      BY <1>3 DEF CountsKept
    <3>3. \A r \in Holders(n)' : node'[n].key = c'[r].key
      BY <2>1, <2>3, <3>1, <3>2 DEF EntryExact
    <3> HIDE DEF IInv
    <3> QED
      BY <1>1, <2>1, <2>2, <3>1, <3>2, <3>3 DEF EntryExact
<1> QED
  BY <1>2, <1>3

(* A request goes on with the entry that it has, or without one. *)
LEMMA RequestGoesOn ==
    ASSUME IInv, conf' = conf, del' = del,
           NEW r \in Requests, r \in Active, del[r].pc = "no",
           NEW v \in Request, c' = [c EXCEPT ![r] = v], NodeFits(v),
           v.node = c[r].node, v.node # Nil => v.key = c[r].key,
           CountsKept, QueueKept, OtherTypes'
    PROVE  IInv'
<1>1. RequestsTyped' /\ HoldsByPC' /\ DeletionsHold'
  BY RequestMoves DEF IInv, Types
<1>2. Types'
  BY <1>1 DEF IInv, Types, CountsKept, QueueKept
<1>3. \A q \in Requests : c'[q].node = c[q].node /\ (c[q].node # Nil => c'[q].key = c[q].key)
  BY DEF IInv, Types, RequestsTyped
<1>4. \A d \in Deleting : del'[d].node = del[d].node
  OBVIOUS
<1> QED
  BY <1>1, <1>2, <1>3, <1>4, UseKept

(* Nothing changes but c[r]. *)
LEMMA OnlyRequest ==
    ASSUME IInv, conf' = conf, UNCHANGED <<node, queue, size, file>>, Frame,
           NEW r \in Requests, r \in Active, del[r].pc = "no",
           NEW v \in Request, c' = [c EXCEPT ![r] = v], NodeFits(v),
           v.node = c[r].node, v.node # Nil => v.key = c[r].key
    PROVE  IInv'
<1>1. CountsKept /\ QueueKept
  BY DEF CountsKept, QueueKept, IInv, Types, QueueExact, Frame
<1>2. OtherTypes'
  BY DEF IInv, Types, OtherTypes, Frame
<1> QED
  BY <1>1, <1>2, RequestGoesOn DEF Frame

LEMMA Deciding ==
    ASSUME IInv, NEW r \in Requests, c[r].pc \notin {"done", "force"}
    PROVE  r \in Active /\ c[r] \in Request /\ del[r].pc = "no" /\ NodeFits(c[r])
BY ActiveRequest DEF IInv, Types, DeletionsHold, Deletion, Deleting, HoldsByPC

(* A request moves to another place, or changes its mind about the cache.  *)
LEMMA PlainSteps ==
    ASSUME IInv, conf' = conf, NEW r \in Requests,
           \/ ExistsFull(r) \/ ExistsFails(r) \/ OpenFile(r) \/ BadFile(r) \/ NoLock(r)
           \/ LockBusy(r) \/ LockWait(r) \/ LockTimeout(r) \/ FetchFails(r)
           \/ FetchError(r) \/ Abort(r)
    PROVE  IInv'
<1>1. /\ c[r].pc \notin {"done", "force"}
      /\ UNCHANGED <<node, queue, size, file>> /\ Frame
  BY DEF ExistsFull, ExistsFails, OpenFile, BadFile, NoLock, LockBusy, LockWait,
         LockTimeout, FetchFails, FetchError, Abort
<1>2. r \in Active /\ c[r] \in Request /\ del[r].pc = "no" /\ NodeFits(c[r])
  BY <1>1, Deciding
<1>3. SUFFICES \E v \in Request : /\ c' = [c EXCEPT ![r] = v] /\ NodeFits(v)
                                  /\ v.node = c[r].node /\ v.key = c[r].key
  BY <1>1, <1>2, OnlyRequest
<1> DEFINE At(p) == [c[r] EXCEPT !.pc = p]
<1>4. \A p \in PCs : At(p) \in Request /\ At(p).pc = p /\ At(p).node = c[r].node /\ At(p).key = c[r].key
  BY <1>2 DEF Request
<1>5. c \in [Requests -> Request \cup {NoRequest}]
  BY DEF IInv, Types, RequestsTyped
<1>6. CASE ExistsFull(r)
  BY <1>2, <1>4, <1>5, <1>6 DEF ExistsFull, Missing, NodeFits, WithEntry, PCs
<1>7. CASE ExistsFails(r)
  BY ZenonT(60), <1>2, <1>4, <1>5, <1>7 DEF ExistsFails, NodeFits, WithEntry, PCs
<1>8. CASE OpenFile(r)
  <2> DEFINE v == [c[r] EXCEPT !.pc = IF file[c[r].key] = "none" THEN "lock" ELSE "read",
                               !.old = file[c[r].key] = "expired"]
  <2>1. v \in Request /\ v.node = c[r].node /\ v.key = c[r].key /\ v.pc \in {"lock", "read"}
    BY <1>2 DEF Request, PCs
  <2>2. c' = [c EXCEPT ![r] = v]
    BY <1>2, <1>5, <1>8 DEF OpenFile
  <2>3. v.node # Nil
    BY <1>2, <1>8, <2>1 DEF OpenFile, NodeFits, WithEntry
  <2> HIDE DEF v
  <2> QED
    BY <2>1, <2>2, <2>3 DEF NodeFits
<1>9. CASE BadFile(r)
  <2> DEFINE v == [c[r] EXCEPT !.pc = "fetch", !.old = FALSE]
  <2>1. v \in Request /\ v.node = c[r].node /\ v.key = c[r].key /\ v.pc = "fetch"
    BY <1>2 DEF Request, PCs
  <2>2. c' = [c EXCEPT ![r] = v]
    BY <1>2, <1>5, <1>9 DEF BadFile
  <2> QED
    BY <1>2, <1>9, <2>1, <2>2 DEF BadFile, NodeFits, WithEntry
<1>10. CASE NoLock(r)
  BY <1>2, <1>4, <1>5, <1>10 DEF NoLock, NodeFits, WithEntry, PCs
<1>11. CASE LockBusy(r)
  <2> DEFINE v == [c[r] EXCEPT !.pc = "fetch", !.cacheable = FALSE]
  <2>1. v \in Request /\ v.node = c[r].node /\ v.key = c[r].key /\ v.pc = "fetch"
    BY <1>2 DEF Request, PCs
  <2>2. c[r].node # Nil
    BY <1>2, <1>11 DEF LockBusy, NodeFits, WithEntry
  <2>3. \/ c' = [c EXCEPT ![r] = At("fetch")] \/ c' = [c EXCEPT ![r] = At("wait")]
        \/ c' = [c EXCEPT ![r] = v]
    BY <1>2, <1>5, <1>11 DEF LockBusy
  <2> QED
    BY <1>4, <2>1, <2>2, <2>3 DEF NodeFits, PCs
<1>12. CASE LockWait(r)
  BY <1>2, <1>4, <1>5, <1>12 DEF LockWait, NodeFits, WithEntry, PCs
<1>13. CASE LockTimeout(r)
  <2> DEFINE v == [c[r] EXCEPT !.pc = "open", !.patient = FALSE]
  <2>1. v \in Request /\ v.node = c[r].node /\ v.key = c[r].key /\ v.pc = "open"
    BY <1>2 DEF Request, PCs
  <2>2. c' = [c EXCEPT ![r] = v]
    BY <1>2, <1>5, <1>13 DEF LockTimeout
  <2> QED
    BY <2>1, <2>2 DEF NodeFits, WithEntry
<1>14. CASE FetchFails(r)
  BY <1>2, <1>4, <1>5, <1>14 DEF FetchFails, NodeFits, WithEntry, PCs
<1>15. CASE FetchError(r)
  <2> DEFINE v == [c[r] EXCEPT !.pc = "serve", !.error = TRUE, !.valid = TRUE]
  <2>1. v \in Request /\ v.node = c[r].node /\ v.key = c[r].key /\ v.pc = "serve"
    BY <1>2 DEF Request, PCs
  <2>2. c' = [c EXCEPT ![r] = v]
    BY <1>2, <1>5, <1>15 DEF FetchError
  <2> QED
    BY <1>2, <1>15, <2>1, <2>2 DEF FetchError, NodeFits, WithEntry
<1>16. CASE Abort(r)
  BY <1>2, <1>4, <1>5, <1>16 DEF Abort, NodeFits, WithEntry, PCs
<1> QED
  BY <1>6, <1>7, <1>8, <1>9, <1>10, <1>11, <1>12, <1>13, <1>14, <1>15, <1>16

(* The steps that also touch the disk or the date of a file. *)
LEMMA DiskSteps ==
    ASSUME IInv, conf' = conf, NEW r \in Requests,
           Rename(r) \/ RenameFails(r) \/ Revalidate(r) \/ Again(r)
    PROVE  IInv'
<1>1. /\ UNCHANGED <<node, queue, size>> /\ Frame
  BY DEF Rename, RenameFails, Revalidate, Again
<1>2. c \in [Requests -> Request \cup {NoRequest}]
  BY DEF IInv, Types, RequestsTyped
<1>3. CountsKept /\ QueueKept
  BY <1>1 DEF CountsKept, QueueKept, IInv, Types, QueueExact, Frame
<1>4. OtherTypes'
  <2>1. file' \in [Keys -> {"none", "fresh", "expired"}]
    BY DEF IInv, Types, OtherTypes, Rename, RenameFails, Revalidate, Again
  <2> QED
    BY <1>1, <2>1 DEF IInv, Types, OtherTypes, Frame
<1>5. SUFFICES \E v \in Request : /\ c' = [c EXCEPT ![r] = v] /\ NodeFits(v)
                                  /\ v.node = c[r].node /\ (v.node # Nil => v.key = c[r].key)
                                  /\ r \in Active /\ del[r].pc = "no"
  BY <1>1, <1>3, <1>4, RequestGoesOn DEF Frame
<1>6. CASE ~Again(r)
  <2>1. c[r].pc = "fetch"
    BY <1>6 DEF Rename, RenameFails, Revalidate
  <2>2. r \in Active /\ c[r] \in Request /\ del[r].pc = "no" /\ NodeFits(c[r])
    BY <2>1, Deciding
  <2>3. \A p \in PCs, f \in {0, 1} :
            LET v == [c[r] EXCEPT !.pc = p, !.fs = f]
            IN  v \in Request /\ v.pc = p /\ v.node = c[r].node /\ v.key = c[r].key
    BY <2>2 DEF Request
  <2>4. \A p \in PCs :
            LET v == [c[r] EXCEPT !.pc = p]
            IN  v \in Request /\ v.pc = p /\ v.node = c[r].node /\ v.key = c[r].key
    BY <2>2 DEF Request
  <2>5. c[r].node # Nil
    BY <2>1, <2>2 DEF NodeFits, WithEntry
  <2>6. \/ c' = [c EXCEPT ![r] = [c[r] EXCEPT !.pc = "update", !.fs = 1]]
        \/ c' = [c EXCEPT ![r] = [c[r] EXCEPT !.pc = "update", !.fs = 0]]
        \/ c' = [c EXCEPT ![r] = [c[r] EXCEPT !.pc = "serve"]]
    BY <1>2, <1>6, <2>2 DEF Rename, RenameFails, Revalidate
  <2>7. "update" \in PCs /\ "serve" \in PCs
    BY DEF PCs
  <2> QED
    BY ZenonT(60), <2>2, <2>3, <2>4, <2>5, <2>6, <2>7 DEF NodeFits
<1>7. CASE Again(r)
  <2>1. NewRequest(r) \in Request /\ NewRequest(r).node = Nil /\ NewRequest(r).pc = "open"
    <3>1. conf.main[r] \in Keys
      BY <1>7, FileCacheAssumption DEF Again, Active, IInv, Types, RequestsTyped, Range
    <3> QED
      BY <3>1 DEF NewRequest, Request, PCs
  <2>2. c[r].node = Nil
    BY <1>7 DEF Again, IInv, HoldsByPC, NodeFits
  <2>3. del[r].pc = "no"
    BY <1>7 DEF Again, NoDeletion
  <2> QED
    BY <1>7, <2>1, <2>2, <2>3 DEF Again, NodeFits, WithEntry
<1> QED
  BY <1>6, <1>7

(* The entry of a request that has one. *)
LEMMA HeldEntry ==
    ASSUME IInv, NEW r \in Requests, c[r].pc \in WithEntry
    PROVE  /\ r \in Active /\ c[r] \in Request /\ del[r].pc = "no"
           /\ c[r].node \in Slots /\ c[r].node \in Used /\ node[c[r].node] \in Entry
           /\ node[c[r].node].key = c[r].key /\ r \in Holders(c[r].node)
<1>1. r \in Active /\ c[r] \in Request /\ del[r].pc = "no" /\ NodeFits(c[r])
  BY Deciding DEF WithEntry
<1>2. c[r].node \in Slots
  BY <1>1 DEF NodeFits, Request
<1>3. r \in Holders(c[r].node)
  BY DEF Holders
<1>4. c[r].node \in Used /\ node[c[r].node].key = c[r].key
  BY <1>2, <1>3 DEF IInv, EntryExact
<1> QED
  BY <1>1, <1>2, <1>3, <1>4, UsedIsEntry DEF IInv

(* Other fields of an entry than its key and its count change.             *)
LEMMA OneEntry ==
    ASSUME IInv, NEW n \in Slots, NEW m \in Entry, m.key = node[n].key,
           m.count = node[n].count, node' = [node EXCEPT ![n] = m], leaked' = leaked
    PROVE  CountsKept
BY DEF CountsKept, IInv, Types

LEMMA EntrySteps ==
    ASSUME IInv, conf' = conf, NEW r \in Requests, Read(r) \/ ReadStale(r) \/ Lock(r)
    PROVE  IInv'
<1>1. c[r].pc \in WithEntry \ {"serve"}
  BY DEF Read, ReadStale, Lock, WithEntry
<1> DEFINE n == c[r].node
           m == node[n]
<1>2. /\ r \in Active /\ c[r] \in Request /\ del[r].pc = "no"
      /\ n \in Slots /\ m \in Entry /\ n # Nil
  BY <1>1, HeldEntry, ConstantsOK
<1>3. c \in [Requests -> Request \cup {NoRequest}] /\ size \in Int
  BY DEF IInv, Types, RequestsTyped, OtherTypes
<1>4. QueueKept
  BY DEF QueueKept, IInv, Types, QueueExact, Read, ReadStale, Lock
<1>5. OtherTypes'
  <2>1. size' \in Int
    BY <1>3 DEF Read, ReadStale, Lock, Fits
  <2> QED
    BY <2>1 DEF IInv, Types, OtherTypes, Frame, Read, ReadStale, Lock
<1>6. CountsKept
  <2>1. leaked' = leaked
    BY DEF Read, ReadStale, Lock, Frame
  <2>2. SUFFICES \E e \in Entry : e.key = m.key /\ e.count = m.count /\ node' = [node EXCEPT ![n] = e]
    BY <1>2, <2>1, OneEntry
  <2> HIDE DEF n
  <2>3. CASE Read(r)
    <3>1. Learn(m) \in Entry /\ Learn(m).key = m.key /\ Learn(m).count = m.count
      BY <1>2 DEF Learn, Entry
    <3> QED
      BY <2>3, <3>1 DEF Read, n
  <2>4. CASE ReadStale(r)
    <3> DEFINE e == [m EXCEPT !.updating = TRUE]
    <3>1. e \in Entry /\ e.key = m.key /\ e.count = m.count
      BY <1>2 DEF Entry
    <3>2. node' = [node EXCEPT ![n] = e]
      BY <2>4 DEF ReadStale, n
    <3> QED
      BY <3>1, <3>2
  <2>5. CASE Lock(r)
    <3> DEFINE e(l) == [m EXCEPT !.updating = TRUE, !.live = TRUE, !.lock = l]
    <3>1. \A l \in Nat : e(l) \in Entry /\ e(l).key = m.key /\ e(l).count = m.count
      BY <1>2 DEF Entry
    <3>2. m.lock + 1 \in Nat
      BY <1>2 DEF Entry
    <3>3. node' = [node EXCEPT ![n] = e(m.lock + 1)]
      BY <2>5 DEF Lock, n
    <3> HIDE DEF e
    <3> QED
      BY <3>1, <3>2, <3>3
  <2> QED
    BY <2>3, <2>4, <2>5
<1>7. SUFFICES \E v \in Request : /\ c' = [c EXCEPT ![r] = v] /\ v.pc \in PCs \ {"force", "retry", "done"}
                                  /\ v.node = c[r].node /\ v.key = c[r].key
  <2>1. del' = del
    BY DEF Read, ReadStale, Lock, Frame
  <2> QED
    BY <1>2, <1>4, <1>5, <1>6, <2>1, RequestGoesOn DEF NodeFits
<1>8. \A p \in PCs :
          LET v == [c[r] EXCEPT !.pc = p]
          IN  v \in Request /\ v.pc = p /\ v.node = c[r].node /\ v.key = c[r].key
  BY <1>2 DEF Request
<1>9. \A p \in PCs, l \in Nat :
          LET v == [c[r] EXCEPT !.pc = p, !.updating = TRUE, !.lock = l]
          IN  v \in Request /\ v.pc = p /\ v.node = c[r].node /\ v.key = c[r].key
  BY <1>2 DEF Request
<1>10. m.lock \in Nat /\ m.lock + 1 \in Nat
  BY <1>2 DEF Entry
<1>11. \A p \in {"stale", "serve", "fetch"} : p \in PCs \ {"force", "retry", "done"}
  BY DEF PCs
<1>12. \/ \E p \in {"stale", "serve", "fetch"} : c' = [c EXCEPT ![r] = [c[r] EXCEPT !.pc = p]]
       \/ \E l \in {m.lock, m.lock + 1} :
            c' = [c EXCEPT ![r] = [c[r] EXCEPT !.pc = "fetch", !.updating = TRUE, !.lock = l]]
  BY ZenonT(60), <1>2, <1>3 DEF Read, ReadStale, Lock
<1> HIDE DEF m, n
<1>13. CASE \E p \in {"stale", "serve", "fetch"} : c' = [c EXCEPT ![r] = [c[r] EXCEPT !.pc = p]]
  <2>1. PICK p \in {"stale", "serve", "fetch"} : c' = [c EXCEPT ![r] = [c[r] EXCEPT !.pc = p]]
    BY <1>13
  <2> DEFINE v == [c[r] EXCEPT !.pc = p]
  <2>2. v \in Request /\ v.pc = p /\ v.node = c[r].node /\ v.key = c[r].key
    BY <1>8, <1>11
  <2>3. p \in PCs \ {"force", "retry", "done"} /\ c' = [c EXCEPT ![r] = v]
    BY <1>11, <2>1
  <2> HIDE DEF v
  <2> QED
    BY <2>2, <2>3
<1>14. CASE \E l \in {m.lock, m.lock + 1} :
              c' = [c EXCEPT ![r] = [c[r] EXCEPT !.pc = "fetch", !.updating = TRUE, !.lock = l]]
  <2>1. PICK l \in Nat :
            c' = [c EXCEPT ![r] = [c[r] EXCEPT !.pc = "fetch", !.updating = TRUE, !.lock = l]]
    BY <1>10, <1>14
  <2> DEFINE v == [c[r] EXCEPT !.pc = "fetch", !.updating = TRUE, !.lock = l]
  <2>2. v \in Request /\ v.pc = "fetch" /\ v.node = c[r].node /\ v.key = c[r].key
    BY <1>9, <1>11
  <2>3. "fetch" \in PCs \ {"force", "retry", "done"} /\ c' = [c EXCEPT ![r] = v]
    BY <1>11, <2>1
  <2> HIDE DEF v
  <2> QED
    BY <2>2, <2>3
<1> QED
  BY <1>12, <1>13, <1>14

(* Time passes for an entry. *)
LEMMA EntryAges ==
    ASSUME IInv, conf' = conf, NEW n \in Slots, ErrorExpires(n) \/ LockAges(n)
    PROVE  IInv'
<1>1. node[n] \in Entry
  BY UsedIsEntry DEF IInv, ErrorExpires, LockAges
<1>2. UNCHANGED <<queue, size, cold, file, c, del, walk, found, leaked, crashes, broken>>
  BY DEF ErrorExpires, LockAges
<1>3. CountsKept
  <2> DEFINE e == [node[n] EXCEPT !.valid = FALSE]
             l == [node[n] EXCEPT !.live = FALSE]
  <2>1. e \in Entry /\ e.key = node[n].key /\ e.count = node[n].count
    BY <1>1 DEF Entry
  <2>2. l \in Entry /\ l.key = node[n].key /\ l.count = node[n].count
    BY <1>1 DEF Entry
  <2>3. node' = [node EXCEPT ![n] = e] \/ node' = [node EXCEPT ![n] = l]
    BY DEF ErrorExpires, LockAges
  <2> QED
    BY <1>2, <2>1, <2>2, <2>3, OneEntry
<1>4. QueueKept
  BY <1>2 DEF QueueKept, IInv, Types, QueueExact
<1>5. RequestsTyped' /\ HoldsByPC' /\ DeletionsHold' /\ OtherTypes'
  BY <1>2 DEF IInv, Types, RequestsTyped, HoldsByPC, DeletionsHold, OtherTypes, Active
<1>6. Types'
  BY <1>2, <1>3, <1>4, <1>5 DEF IInv, Types, CountsKept, QueueKept
<1> QED
  BY <1>2, <1>3, <1>4, <1>5, <1>6, UseKept

-----------------------------------------------------------------------------
(* Lemmas about the references.                                            *)

(* An entry that a step has nothing to do with. *)
LEMMA Untouched ==
    ASSUME NEW n \in Slots, EntryExact(n), node'[n] = node[n], leaked'[n] = leaked[n],
           Holders(n)' = Holders(n), Deleters(n)' = Deleters(n),
           \A q \in Holders(n) : c'[q].key = c[q].key
    PROVE  EntryExact(n)'
BY DEF EntryExact, Used

LEMMA CountedAgain ==
    ASSUME Types', NEW n \in Slots, node'[n] \in Entry,
           \A q \in Holders(n)' : node'[n].key = c'[q].key,
           node'[n].count = Cardinality(Holders(n)') + Cardinality(Deleters(n)') + leaked'[n]
    PROVE  EntryExact(n)'
<1>1. n \in Used'
  BY ConstantsOK DEF Used, Entry
<1> QED
  BY <1>1 DEF EntryExact

LEMMA Freed ==
    ASSUME NEW n \in Slots, node'[n] = FreeMemory, Holders(n)' = {}, Deleters(n)' = {},
           leaked'[n] = 0
    PROVE  EntryExact(n)'
<1>1. n \notin Used'
  BY DEF Used, FreeMemory
<1>2. Holders(n)' \cup Deleters(n)' = {}
  OBVIOUS
<1> QED
  BY <1>1, <1>2 DEF EntryExact

(* Who holds an entry after the record of one request has changed. *)
LEMMA HoldersChange ==
    ASSUME Types, NEW r \in Requests, NEW n \in Slots,
           \A q \in Requests \ {r} : c'[q] = c[q]
    PROVE  /\ c[r].node # n /\ c'[r].node # n =>
                /\ Holders(n)' = Holders(n)
                /\ \A q \in Holders(n) : c'[q].key = c[q].key
           /\ c[r].node # n /\ c'[r].node = n =>
                /\ Cardinality(Holders(n)') = Cardinality(Holders(n)) + 1
                /\ \A q \in Holders(n)' : q = r \/ (q \in Holders(n) /\ c'[q] = c[q])
           /\ c[r].node = n /\ c'[r].node # n =>
                /\ Cardinality(Holders(n)') = Cardinality(Holders(n)) - 1
                /\ \A q \in Holders(n)' : q \in Holders(n) /\ c'[q] = c[q]
<1>2. IsFiniteSet(Holders(n))
  BY UsersFinite
<1>3. ASSUME c[r].node # n, c'[r].node # n
      PROVE  Holders(n)' = Holders(n) /\ \A q \in Holders(n) : c'[q].key = c[q].key
  BY <1>3 DEF Holders
<1>4. ASSUME c[r].node # n, c'[r].node = n
      PROVE  Holders(n)' = Holders(n) \cup {r} /\ r \notin Holders(n)
  BY <1>4 DEF Holders
<1>5. ASSUME c[r].node = n, c'[r].node # n
      PROVE  Holders(n)' = Holders(n) \ {r} /\ r \in Holders(n)
  BY <1>5 DEF Holders
<1>6. ASSUME c[r].node # n, c'[r].node = n
      PROVE  Cardinality(Holders(n)') = Cardinality(Holders(n)) + 1
  BY <1>2, <1>4, <1>6, FS_AddElement
<1>7. ASSUME c[r].node = n, c'[r].node # n
      PROVE  Cardinality(Holders(n)') = Cardinality(Holders(n)) - 1
  BY <1>2, <1>5, <1>7, FS_RemoveElement
<1>8. Holders(n) \subseteq Requests
  BY DEF Holders
<1> QED
  BY <1>3, <1>4, <1>5, <1>6, <1>7, <1>8

LEMMA DeletersSame ==
    ASSUME del' = del, NEW n \in Slots
    PROVE  Deleters(n)' = Deleters(n)
BY DEF Deleters

(* A request without an entry takes one. *)
LEMMA RequestTakes ==
    ASSUME IInv, conf' = conf, del' = del, leaked' = leaked, OtherTypes',
           NEW r \in Requests, r \in Active, del[r].pc = "no", c[r].node = Nil,
           NEW n \in Slots, NEW v \in Request, c' = [c EXCEPT ![r] = v], NodeFits(v),
           v.node = n, NEW m \in Entry, node' = [node EXCEPT ![n] = m], m.key = v.key,
           \/ /\ n \in Used /\ m.key = node[n].key /\ m.count = node[n].count + 1
              /\ QueueKept
           \/ /\ n \notin Used /\ m.count = 1 /\ queue' = <<n>> \o queue
    PROVE  IInv'
<1>0. Types /\ c'[r] = v /\ \A q \in Requests \ {r} : c'[q] = c[q]
  BY DEF IInv, Types, RequestsTyped
<1>1. RequestsTyped' /\ HoldsByPC' /\ DeletionsHold'
  BY RequestMoves DEF IInv, Types
<1>2. node'[n] = m /\ \A x \in Slots \ {n} : node'[x] = node[x]
  BY DEF IInv, Types
<1>3. Used' = Used \cup {n}
  BY <1>2, ConstantsOK DEF Used, Entry
<1>4. queue' \in Seq(Slots) /\ QueueExact'
  <2>1. CASE n \in Used
    BY <1>3, <2>1 DEF QueueKept, IInv, QueueExact
  <2>2. CASE n \notin Used
    <3>1. /\ queue \in Seq(Slots) /\ IsInjective(queue) /\ n \notin ToSet(queue)
          /\ ToSet(queue) = Used
      BY <2>2 DEF IInv, Types, QueueExact
    <3>2. /\ <<n>> \o queue \in Seq(Slots) /\ IsInjective(<<n>> \o queue)
          /\ ToSet(<<n>> \o queue) = ToSet(queue) \cup {n}
      BY <3>1, QueueInsert
    <3>3. queue' = <<n>> \o queue
      BY <2>2
    <3> QED
      BY <1>3, <3>1, <3>2, <3>3 DEF QueueExact
  <2> QED
    BY <2>1, <2>2
<1>5. Types'
  BY <1>1, <1>4 DEF IInv, Types
<1>6. ASSUME NEW x \in Slots PROVE EntryExact(x)'
  <2>1. Deleters(x)' = Deleters(x) /\ leaked'[x] = leaked[x]
    BY DeletersSame
  <2>2. CASE x # n
    <3>1. c[r].node # x /\ v.node # x
      BY <2>2, ConstantsOK
    <3>2. Holders(x)' = Holders(x) /\ \A q \in Holders(x) : c'[q].key = c[q].key
      BY <1>0, <3>1, HoldersChange
    <3> QED
      BY <1>2, <2>1, <2>2, <3>2, Untouched DEF IInv
  <2>3. CASE x = n
    <3>1. c[r].node # n
      BY ConstantsOK
    <3>2. /\ Cardinality(Holders(n)') = Cardinality(Holders(n)) + 1
          /\ \A q \in Holders(n)' : q = r \/ (q \in Holders(n) /\ c'[q] = c[q])
      BY <1>0, <3>1, HoldersChange
    <3>3. EntryExact(n)
      BY DEF IInv
    <3>4. c'[r] = v
      BY <1>0
    <3>5. /\ Cardinality(Holders(n)) \in Nat /\ Cardinality(Deleters(n)) \in Nat
          /\ leaked[n] \in Nat
      BY UsersFinite DEF IInv, Types
    <3>6. node'[n].count = Cardinality(Holders(n)') + Cardinality(Deleters(n)') + leaked'[n]
      <4>1. CASE n \in Used
        BY <1>2, <2>1, <2>3, <3>2, <3>3, <3>5, <4>1 DEF EntryExact
      <4>2. CASE n \notin Used
        <5>1. Holders(n) = {} /\ Deleters(n) = {} /\ leaked[n] = 0
          BY <3>3, <4>2 DEF EntryExact
        <5>2. Cardinality(Holders(n)) = 0 /\ Cardinality(Deleters(n)) = 0
          BY <5>1, FS_EmptySet
        <5>3. Deleters(n)' = {} /\ leaked'[n] = 0
          BY <2>1, <2>3, <5>1
        <5>4. Cardinality(Holders(n)') = 1 /\ Cardinality(Deleters(n)') = 0
          BY <3>2, <5>2, <5>3, FS_EmptySet
        <5>5. node'[n].count = 1
          BY <1>2, <4>2
        <5> QED
          BY <5>3, <5>4, <5>5
      <4> QED
        BY <4>1, <4>2
    <3>7. ASSUME NEW q \in Holders(n)' PROVE node'[n].key = c'[q].key
      <4>1. CASE q = r
        BY <1>2, <3>4, <4>1
      <4>2. CASE q # r
        <5>1. q \in Holders(n) /\ c'[q] = c[q]
          BY <3>2, <4>2
        <5>2. n \in Used /\ node[n].key = c[q].key
          BY <3>3, <5>1 DEF EntryExact
        <5> QED
          BY <1>2, <5>1, <5>2
      <4> QED
        BY <4>1, <4>2
    <3> QED
      BY <1>2, <1>5, <2>3, <3>6, <3>7, CountedAgain
  <2> QED
    BY <2>2, <2>3
<1> QED
  BY <1>1, <1>4, <1>5, <1>6 DEF IInv

LEMMA FoundStep ==
    ASSUME IInv, conf' = conf, NEW r \in Requests, ExistsFound(r)
    PROVE  IInv'
<1>1. c[r].pc = "open" /\ UNCHANGED <<size, file>> /\ Frame
  BY DEF ExistsFound
<1>2. r \in Active /\ c[r] \in Request /\ del[r].pc = "no"
  BY <1>1, Deciding
<1> DEFINE M(n) == [node[n] EXCEPT !.count = @ + TakesReference(r)]
           Renew(n) == M(n).error /\ ~M(n).valid
           N(n) == IF Renew(n) THEN [M(n) EXCEPT !.error = FALSE, !.exists = FALSE, !.fs = 0]
                   ELSE M(n)
           P(n) == Then(r, CASE M(n).error /\ ~Renew(n) -> "serve"
                             [] Renew(n) /\ cold -> "test"
                             [] ~Renew(n) /\ M(n).exists -> "test"
                             [] OTHER -> "lock")
           E(n) == M(n).error /\ ~Renew(n)
<1>3. PICK n \in IF c[r].node # Nil THEN {c[r].node} ELSE Lookup(c[r].key) :
          /\ node' = [node EXCEPT ![n] = N(n)]
          /\ queue' = ToHead(queue, n)
          /\ c' = [c EXCEPT ![r].node = n, ![r].error = E(n), ![r].pc = P(n)]
  BY DEF ExistsFound
<1>4. n \in Slots /\ n \in Used /\ node[n] \in Entry /\ node[n].key = c[r].key
  <2>1. CASE c[r].node # Nil
    <3>1. n \in Slots /\ r \in Holders(n)
      BY <1>2, <1>3, <2>1 DEF Request, Holders
    <3>2. n \in Used /\ node[n].key = c[r].key
      BY <3>1 DEF IInv, EntryExact
    <3> QED
      BY <3>1, <3>2, UsedIsEntry DEF IInv
  <2>2. CASE c[r].node = Nil
    <3>1. n \in Slots /\ n \in Used /\ node[n].key = c[r].key
      BY <1>3, <2>2 DEF Lookup, Used
    <3> QED
      BY <3>1, UsedIsEntry DEF IInv
  <2> QED
    BY <2>1, <2>2
<1> DEFINE m == N(n)
<1>5. m \in Entry /\ m.key = c[r].key /\ m.count = node[n].count + TakesReference(r)
  <2>1. TakesReference(r) \in Nat
    BY DEF TakesReference
  <2>2. M(n) \in Entry /\ M(n).key = node[n].key /\ M(n).count = node[n].count + TakesReference(r)
    BY <1>4, <2>1 DEF Entry
  <2> HIDE DEF M
  <2>3. N(n) \in Entry /\ N(n).key = M(n).key /\ N(n).count = M(n).count
    BY <2>2 DEF Entry
  <2> QED
    BY <1>4, <2>2, <2>3
<1>6. P(n) \in {"serve", "test", "lock", "fetch"}
  BY DEF Then
<1>7. E(n) \in BOOLEAN
  OBVIOUS
<1> HIDE DEF m, M, N, P, E
<1> DEFINE v == [c[r] EXCEPT !.node = n, !.error = E(n), !.pc = P(n)]
<1>8. /\ v \in Request /\ v.node = n /\ v.key = c[r].key /\ v.pc = P(n)
  BY <1>2, <1>4, <1>6, <1>7 DEF Request, PCs
<1>9. c' = [c EXCEPT ![r] = v]
  BY <1>3 DEF IInv, Types, RequestsTyped
<1>10. NodeFits(v)
  BY <1>4, <1>6, <1>8, ConstantsOK DEF NodeFits
<1> HIDE DEF v
<1>11. QueueKept
  BY <1>3, <1>4, QueueToHead DEF IInv, Types, QueueExact, QueueKept
<1>12. OtherTypes' /\ leaked' = leaked /\ del' = del
  BY <1>1 DEF IInv, Types, OtherTypes, Frame
<1>13. node' = [node EXCEPT ![n] = m]
  BY <1>3 DEF m
<1>14. CASE c[r].node = Nil
  <2>1. m.count = node[n].count + 1
    BY <1>5, <1>14 DEF TakesReference
  <2>2. m.key = v.key /\ m.key = node[n].key
    BY <1>4, <1>5, <1>8
  <2> QED
    BY <1>2, <1>4, <1>5, <1>8, <1>9, <1>10, <1>11, <1>12, <1>13, <1>14, <2>1, <2>2, RequestTakes
<1>15. CASE c[r].node # Nil
  <2>1. m.count = node[n].count /\ m.key = node[n].key
    BY <1>4, <1>5, <1>15 DEF TakesReference, Entry
  <2>2. CountsKept
    BY <1>4, <1>5, <1>12, <1>13, <2>1, OneEntry
  <2>3. v.node = c[r].node
    BY <1>3, <1>8, <1>15
  <2> QED
    BY <1>2, <1>8, <1>9, <1>10, <1>11, <1>12, <2>2, <2>3, RequestGoesOn
<1> QED
  BY <1>14, <1>15

LEMMA NewSteps ==
    ASSUME IInv, conf' = conf, NEW r \in Requests, ExistsNew(r) \/ ExistsRetry(r)
    PROVE  IInv'
<1>1. c[r].pc \in {"open", "retry"} /\ UNCHANGED <<size, file>> /\ Frame
  BY DEF ExistsNew, ExistsRetry
<1>2. r \in Active /\ c[r] \in Request /\ del[r].pc = "no" /\ NodeFits(c[r])
  BY <1>1, Deciding
<1>3. c[r].node = Nil
  BY <1>2 DEF ExistsNew, ExistsRetry, Missing, NodeFits
<1>4. PICK n \in Memory \ Used : Insert(r, n)
  BY DEF ExistsNew, ExistsRetry
<1>5. n \in Slots /\ n \notin Used
  BY DEF Memory
<1> DEFINE P == Then(r, IF cold THEN "test" ELSE "lock")
           v == [c[r] EXCEPT !.node = n, !.error = FALSE, !.pc = P]
           m == [NewNode(c[r].key) EXCEPT !.count = 1]
<1>6. P \in {"fetch", "test", "lock"}
  BY DEF Then
<1> HIDE DEF P
<1>7. v \in Request /\ v.node = n /\ v.key = c[r].key /\ v.pc = P
  BY <1>2, <1>5, <1>6 DEF Request, PCs
<1>8. m \in Entry /\ m.key = c[r].key /\ m.count = 1
  BY <1>2 DEF NewNode, Entry, Request
<1>9. c' = [c EXCEPT ![r] = v]
  BY <1>4 DEF Insert, P, IInv, Types, RequestsTyped
<1>10. NodeFits(v)
  BY <1>5, <1>6, <1>7, ConstantsOK DEF NodeFits
<1>11. node' = [node EXCEPT ![n] = m] /\ queue' = <<n>> \o queue
  BY <1>4 DEF Insert
<1>12. OtherTypes' /\ leaked' = leaked /\ del' = del
  BY <1>1 DEF IInv, Types, OtherTypes, Frame
<1> HIDE DEF v, m
<1> QED
  BY <1>2, <1>3, <1>5, <1>7, <1>8, <1>9, <1>10, <1>11, <1>12, RequestTakes

LEMMA HeldIsCounted ==
    ASSUME IInv, NEW r \in Requests, NEW n \in Slots, c[r].node = n
    PROVE  n \in Used /\ node[n] \in Entry /\ node[n].count \in Nat \ {0}
<1>1. r \in Holders(n) /\ IsFiniteSet(Holders(n)) /\ Cardinality(Deleters(n)) \in Nat
  BY UsersFinite DEF Holders, IInv
<1>2. Cardinality(Holders(n)) \in Nat \ {0}
  BY <1>1, FS_EmptySet, UsersFinite DEF IInv
<1>3. n \in Used /\ leaked[n] \in Nat
      /\ node[n].count = Cardinality(Holders(n)) + Cardinality(Deleters(n)) + leaked[n]
  BY <1>1 DEF IInv, EntryExact, Types
<1> QED
  BY <1>1, <1>2, <1>3, UsedIsEntry DEF IInv

(* A request gives its entry back; the entry goes with the last reference  *)
(* if gone is true.                                                        *)
LEMMA RequestGives ==
    ASSUME IInv, conf' = conf, del' = del, leaked' = leaked, OtherTypes',
           NEW r \in Requests, c[r].pc \in WithEntry, NEW n \in Slots, c[r].node = n,
           NEW v \in Request, c' = [c EXCEPT ![r] = v], NodeFits(v), v.node = Nil,
           NEW m \in Entry, m.key = node[n].key, m.count = node[n].count - 1,
           NEW gone \in BOOLEAN, gone => m.count = 0,
           node' = [node EXCEPT ![n] = IF gone THEN FreeMemory ELSE m],
           queue' = IF gone THEN Without(queue, n) ELSE queue
    PROVE  IInv'
<1>1. /\ r \in Active /\ c[r] \in Request /\ del[r].pc = "no" /\ n # Nil
  BY HeldEntry, ConstantsOK
<1>2. Types /\ c'[r] = v /\ \A q \in Requests \ {r} : c'[q] = c[q]
  BY DEF IInv, Types, RequestsTyped
<1>3. RequestsTyped' /\ HoldsByPC' /\ DeletionsHold'
  BY <1>1, RequestMoves DEF IInv, Types
<1>4. /\ Cardinality(Holders(n)') = Cardinality(Holders(n)) - 1
      /\ \A q \in Holders(n)' : q \in Holders(n) /\ c'[q] = c[q]
  BY <1>1, <1>2, HoldersChange
<1>5. /\ Cardinality(Holders(n)) \in Nat /\ Cardinality(Deleters(n)) \in Nat
      /\ leaked[n] \in Nat /\ IsFiniteSet(Deleters(n)) /\ IsFiniteSet(Holders(n))
      /\ n \in Used /\ EntryExact(n) /\ Cardinality(Holders(n)) > 0
  <2>1. n \in Used /\ r \in Holders(n)
    BY HeldIsCounted DEF Holders
  <2> QED
    BY <1>2, <2>1, UsersFinite, FS_EmptySet DEF Types, IInv
<1>6. Deleters(n)' = Deleters(n) /\ leaked'[n] = leaked[n]
  BY <1>1, DeletersSame
<1>7. m.count = Cardinality(Holders(n)') + Cardinality(Deleters(n)') + leaked'[n]
  BY <1>1, <1>4, <1>5, <1>6 DEF EntryExact
<1>8. /\ \A x \in Slots \ {n} : node'[x] = node[x]
      /\ node'[n] = IF gone THEN FreeMemory ELSE m
      /\ node' \in [Slots -> Entry \cup {FreeMemory}]
  BY <1>2 DEF Types
<1>9. Used' = IF gone THEN Used \ {n} ELSE Used
  BY <1>5, <1>8, ConstantsOK DEF Used, FreeMemory, Entry
<1>10. queue' \in Seq(Slots) /\ QueueExact'
  <2>1. queue \in Seq(Slots) /\ IsInjective(queue) /\ ToSet(queue) = Used
    BY DEF IInv, Types, QueueExact
  <2>2. CASE gone
    <3>1. /\ Without(queue, n) \in Seq(Slots) /\ IsInjective(Without(queue, n))
          /\ ToSet(Without(queue, n)) = ToSet(queue) \ {n}
      BY <1>5, <2>1, QueueRemove
    <3> QED
      BY <1>9, <2>1, <2>2, <3>1 DEF QueueExact
  <2>3. CASE ~gone
    BY <1>9, <2>1, <2>3 DEF QueueExact
  <2> QED
    BY <2>2, <2>3
<1>11. Types'
  BY <1>2, <1>3, <1>8, <1>10 DEF Types
<1>12. ASSUME NEW x \in Slots PROVE EntryExact(x)'
  <2>1. CASE x # n
    <3>1. c[r].node # x /\ c'[r].node # x
      BY <1>2, <2>1, ConstantsOK
    <3>2. Holders(x)' = Holders(x) /\ \A q \in Holders(x) : c'[q].key = c[q].key
      BY <1>2, <3>1, HoldersChange
    <3>3. Deleters(x)' = Deleters(x)
      BY DeletersSame
    <3> QED
      BY <1>8, <2>1, <3>2, <3>3, Untouched DEF IInv
  <2>2. CASE x = n /\ ~gone
    <3>1. \A q \in Holders(n)' : node'[n].key = c'[q].key
      BY <1>4, <1>5, <1>8, <2>2 DEF EntryExact
    <3> QED
      BY <1>7, <1>8, <1>11, <2>2, <3>1, CountedAgain
  <2>3. CASE x = n /\ gone
    <3>1. /\ Cardinality(Holders(n)') = 0 /\ Cardinality(Deleters(n)') = 0 /\ leaked'[n] = 0
      BY <1>4, <1>5, <1>6, <1>7, <2>3
    <3>2. IsFiniteSet(Holders(n)') /\ IsFiniteSet(Deleters(n)')
      <4>1. Holders(n)' \subseteq Holders(n)
        BY <1>4
      <4> QED
        BY <1>5, <1>6, <4>1, FS_Subset
    <3>3. Holders(n)' = {} /\ Deleters(n)' = {}
      BY <3>1, <3>2, FS_EmptySet
    <3> QED
      BY <1>8, <2>3, <3>1, <3>3, Freed
  <2> QED
    BY <2>1, <2>2, <2>3
<1> QED
  BY <1>3, <1>10, <1>11, <1>12 DEF IInv

LEMMA VariantSteps ==
    ASSUME IInv, conf' = conf, NEW r \in Requests, Reopen(r) \/ UpdateVariant(r)
    PROVE  IInv'
<1>1. c[r].pc \in WithEntry /\ UNCHANGED <<queue, size, file>> /\ Frame /\ conf.vary
  BY DEF Reopen, UpdateVariant, WithEntry
<1>2. PICK n \in Slots : c[r].node = n
  BY <1>1, HeldEntry
<1>3. /\ r \in Active /\ c[r] \in Request
      /\ n \in Used /\ node[n] \in Entry /\ node[n].count \in Nat \ {0}
  BY <1>1, <1>2, HeldEntry, HeldIsCounted
<1>4. conf \in Scenarios /\ conf.main[r] \in Keys
  BY <1>3, FileCacheAssumption DEF IInv, Types, RequestsTyped, Active, Range
<1>5. OtherKey(r) \in Keys
  <2>1. conf.main[r] \in Range(conf.main)
    BY <1>3 DEF Active, Range
  <2>2. Keys # {conf.main[r]}
    BY <1>1, <1>4, <2>1, FileCacheAssumption
  <2>3. \E k \in Keys : k # conf.main[r]
    BY <1>4, <2>2
  <2> QED
    BY <2>3 DEF OtherKey
<1> DEFINE m == [node[n] EXCEPT !.count = @ - 1]
           w == [node[n] EXCEPT !.count = @ - 1, !.updating = FALSE]
           a == [c[r] EXCEPT !.node = Nil, !.secondary = TRUE, !.key = OtherKey(r), !.pc = "open"]
           b == [c[r] EXCEPT !.node = Nil, !.key = conf.main[r], !.late = TRUE, !.pc = "open"]
<1>6. node[n].count - 1 \in Nat
  BY <1>3
<1>7. m \in Entry /\ m.key = node[n].key /\ m.count = node[n].count - 1
  BY <1>3, <1>6 DEF Entry
<1>8. w \in Entry /\ w.key = node[n].key /\ w.count = node[n].count - 1
  BY <1>3, <1>6 DEF Entry
<1>9. a \in Request /\ a.node = Nil /\ a.pc = "open"
  BY <1>3, <1>5 DEF Request, PCs
<1>10. b \in Request /\ b.node = Nil /\ b.pc = "open"
  BY <1>3, <1>4 DEF Request, PCs
<1>11. NodeFits(a) /\ NodeFits(b)
  BY <1>9, <1>10 DEF NodeFits, WithEntry
<1>12. OtherTypes' /\ leaked' = leaked /\ del' = del
  BY <1>1 DEF IInv, Types, OtherTypes, Frame
<1>13. queue' = queue
  BY <1>1
<1>14. \/ c' = [c EXCEPT ![r] = a] /\ node' = [node EXCEPT ![n] = m]
       \/ c' = [c EXCEPT ![r] = b] /\ node' = [node EXCEPT ![n] = w]
  <2>1. CASE Reopen(r)
    BY <1>2, <2>1 DEF Reopen, Released, IInv, Types, RequestsTyped
  <2>2. CASE UpdateVariant(r)
    BY <1>2, <2>2 DEF UpdateVariant, Released, IInv, Types, RequestsTyped
  <2> QED
    BY <2>1, <2>2
<1> HIDE DEF m, w, a, b
<1>15. CASE c' = [c EXCEPT ![r] = a] /\ node' = [node EXCEPT ![n] = m]
  <2> DEFINE gone == FALSE
  <2>1. /\ gone \in BOOLEAN /\ (gone => m.count = 0)
        /\ queue' = IF gone THEN Without(queue, n) ELSE queue
        /\ node' = [node EXCEPT ![n] = IF gone THEN FreeMemory ELSE m]
    BY <1>13, <1>15
  <2> HIDE DEF gone
  <2> QED
    BY <1>1, <1>2, <1>7, <1>9, <1>11, <1>12, <1>15, <2>1, RequestGives
<1>16. CASE c' = [c EXCEPT ![r] = b] /\ node' = [node EXCEPT ![n] = w]
  <2> DEFINE gone == FALSE
  <2>1. /\ gone \in BOOLEAN /\ (gone => w.count = 0)
        /\ queue' = IF gone THEN Without(queue, n) ELSE queue
        /\ node' = [node EXCEPT ![n] = IF gone THEN FreeMemory ELSE w]
    BY <1>13, <1>16
  <2> HIDE DEF gone
  <2> QED
    BY <1>1, <1>2, <1>8, <1>10, <1>11, <1>12, <1>16, <2>1, RequestGives
<1> QED
  BY <1>14, <1>15, <1>16

LEMMA UpdateStep ==
    ASSUME IInv, conf' = conf, NEW r \in Requests, Update(r)
    PROVE  IInv'
<1>1. c[r].pc \in WithEntry /\ UNCHANGED <<queue, file>> /\ Frame
  BY DEF Update, WithEntry
<1>2. PICK n \in Slots : c[r].node = n
  BY <1>1, HeldEntry
<1>3. /\ c[r] \in Request /\ node[n] \in Entry /\ node[n].count \in Nat \ {0}
  BY <1>1, <1>2, HeldEntry, HeldIsCounted
<1> DEFINE u == Updated(node[n], r)
           m == [u EXCEPT !.count = @ - 1]
           v == [c[r] EXCEPT !.pc = "done", !.node = Nil, !.updating = FALSE]
<1>4. u \in Entry /\ u.key = node[n].key /\ u.count = node[n].count
  <2>1. c[r].fs \in {0, 1}
    BY <1>3 DEF Request
  <2> QED
    BY <1>3, <2>1 DEF Updated, Entry
<1>5. m \in Entry /\ m.key = node[n].key /\ m.count = node[n].count - 1
  <2> HIDE DEF u
  <2>1. u.count - 1 \in Nat
    BY <1>3, <1>4
  <2> QED
    BY <1>4, <2>1 DEF Entry
<1>6. v \in Request /\ v.node = Nil /\ v.pc = "done"
  BY <1>3 DEF Request, PCs
<1>7. NodeFits(v)
  BY <1>6 DEF NodeFits, WithEntry
<1>8. OtherTypes' /\ leaked' = leaked /\ del' = del
  <2>1. size' \in Int
    BY DEF Update, Fits, IInv, Types, OtherTypes
  <2> QED
    BY <1>1, <2>1 DEF IInv, Types, OtherTypes, Frame
<1>9. c' = [c EXCEPT ![r] = v] /\ node' = [node EXCEPT ![n] = m] /\ queue' = queue
  <2>1. c' = [c EXCEPT ![r] = v]
    BY DEF Update, IInv, Types, RequestsTyped
  <2>2. node' = [node EXCEPT ![n] = m]
    BY <1>2 DEF Update, Released
  <2> QED
    BY <1>1, <2>1, <2>2
<1> HIDE DEF m, v
<1> DEFINE gone == FALSE
<1>10. /\ gone \in BOOLEAN /\ (gone => m.count = 0)
       /\ queue' = IF gone THEN Without(queue, n) ELSE queue
       /\ node' = [node EXCEPT ![n] = IF gone THEN FreeMemory ELSE m]
  BY <1>9
<1> HIDE DEF gone
<1> QED
  BY <1>1, <1>2, <1>5, <1>6, <1>7, <1>8, <1>9, <1>10, RequestGives

LEMMA FreeStep ==
    ASSUME IInv, conf' = conf, NEW r \in Requests, Free(r)
    PROVE  IInv'
<1>1. c[r].pc \in WithEntry /\ UNCHANGED <<size, file>> /\ Frame
  BY DEF Free, WithEntry
<1>2. PICK n \in Slots : c[r].node = n
  BY <1>1, HeldEntry
<1>3. /\ c[r] \in Request /\ node[n] \in Entry /\ node[n].count \in Nat \ {0}
  BY <1>1, <1>2, HeldEntry, HeldIsCounted
<1> DEFINE m == [node[n] EXCEPT
                   !.count = @ - 1,
                   !.updating = @ /\ ~(c[r].updating /\ node[n].lock = c[r].lock),
                   !.error = @ \/ c[r].error, !.valid = @ \/ c[r].valid]
           gone == ~c[r].error /\ LastReference(m)
           v == [c[r] EXCEPT !.pc = "done", !.node = Nil, !.updating = FALSE]
<1>4. m \in Entry /\ m.key = node[n].key /\ m.count = node[n].count - 1
  <2>1. node[n].count - 1 \in Nat
    BY <1>3
  <2> QED
    BY ZenonT(60), <1>3, <2>1 DEF Entry
<1>5. v \in Request /\ v.node = Nil /\ v.pc = "done"
  BY <1>3 DEF Request, PCs
<1>6. NodeFits(v)
  BY <1>5 DEF NodeFits, WithEntry
<1>7. OtherTypes' /\ leaked' = leaked /\ del' = del
  BY <1>1 DEF IInv, Types, OtherTypes, Frame
<1>8. c' = [c EXCEPT ![r] = v]
  BY DEF Free, IInv, Types, RequestsTyped
<1>9. /\ node' = [node EXCEPT ![n] = IF gone THEN FreeMemory ELSE m]
      /\ queue' = IF gone THEN Without(queue, n) ELSE queue
  BY <1>2 DEF Free
<1>10. gone \in BOOLEAN /\ (gone => m.count = 0)
  BY DEF LastReference
<1> HIDE DEF m, v, gone
<1> QED
  BY <1>1, <1>2, <1>4, <1>5, <1>6, <1>7, <1>8, <1>9, <1>10, RequestGives

(* A worker dies: the entry counts its reference for ever. *)
LEMMA CrashStep ==
    ASSUME IInv, conf' = conf, NEW r \in Requests, Crash(r)
    PROVE  IInv'
<1> DEFINE v == [c[r] EXCEPT !.pc = "done", !.node = Nil, !.updating = FALSE]
<1>1. r \in Active /\ c[r] \in Request /\ del[r].pc = "no"
  BY ActiveRequest DEF Crash, IInv, Types, NoDeletion
<1>2. v \in Request /\ v.node = Nil /\ v.pc = "done"
  BY <1>1 DEF Request, PCs
<1>3. NodeFits(v)
  BY <1>2 DEF NodeFits, WithEntry
<1>4. c' = [c EXCEPT ![r] = v]
  BY DEF Crash, IInv, Types, RequestsTyped
<1>5. UNCHANGED <<node, queue, size, cold, file, del, walk, found, broken>>
  BY DEF Crash
<1> HIDE DEF v
<1>6. Types /\ c'[r] = v /\ \A q \in Requests \ {r} : c'[q] = c[q]
  BY <1>4 DEF IInv, Types, RequestsTyped
<1>7. RequestsTyped' /\ HoldsByPC' /\ DeletionsHold'
  BY <1>1, <1>2, <1>3, <1>4, <1>5, RequestMoves DEF IInv, Types
<1>8. \A n \in Slots : leaked'[n] = leaked[n] + (IF c[r].node = n THEN 1 ELSE 0)
  BY DEF Crash
<1>9. leaked' \in [Slots -> Nat]
  <2>1. leaked \in [Slots -> Nat]
    BY <1>6 DEF Types
  <2> QED
    BY <2>1 DEF Crash
<1>10. OtherTypes' /\ QueueExact' /\ Used' = Used
  BY <1>5 DEF Crash, IInv, Types, OtherTypes, QueueExact, Used
<1>11. Types'
  BY <1>5, <1>6, <1>7, <1>9, <1>10 DEF Types
<1>12. ASSUME NEW n \in Slots PROVE EntryExact(n)'
  <2>1. Deleters(n)' = Deleters(n) /\ EntryExact(n)
    BY <1>5, DeletersSame DEF IInv
  <2>2. CASE c[r].node # n
    <3>1. c'[r].node # n
      BY <1>2, <1>6, ConstantsOK
    <3>2. Holders(n)' = Holders(n) /\ \A q \in Holders(n) : c'[q].key = c[q].key
      BY <1>6, <2>2, <3>1, HoldersChange
    <3>3. leaked'[n] = leaked[n]
      BY <1>6, <1>8, <2>2 DEF Types
    <3> QED
      BY <1>5, <2>1, <3>2, <3>3, Untouched
  <2>3. CASE c[r].node = n
    <3>1. c'[r].node # n
      BY <1>2, <1>6, ConstantsOK
    <3>2. /\ Cardinality(Holders(n)') = Cardinality(Holders(n)) - 1
          /\ \A q \in Holders(n)' : q \in Holders(n) /\ c'[q] = c[q]
      BY <1>6, <2>3, <3>1, HoldersChange
    <3>3. n \in Used /\ node[n] \in Entry
      BY <2>3, HeldIsCounted
    <3>4. /\ Cardinality(Holders(n)) \in Nat /\ Cardinality(Deleters(n)) \in Nat
          /\ leaked[n] \in Nat
      BY <1>6, UsersFinite DEF Types
    <3>5. node[n].count = Cardinality(Holders(n)) + Cardinality(Deleters(n)) + leaked[n]
      BY <2>1, <3>3 DEF EntryExact
    <3>6. leaked'[n] = leaked[n] + 1
      BY <1>8, <2>3
    <3>7. node'[n].count = Cardinality(Holders(n)') + Cardinality(Deleters(n)') + leaked'[n]
      BY <1>5, <2>1, <3>2, <3>4, <3>5, <3>6
    <3>8. \A q \in Holders(n)' : node'[n].key = c'[q].key
      BY <1>5, <2>1, <3>2 DEF EntryExact
    <3> QED
      BY <1>5, <1>11, <3>3, <3>7, <3>8, CountedAgain
  <2> QED
    BY <2>2, <2>3
<1> QED
  BY <1>7, <1>10, <1>11, <1>12 DEF IInv

-----------------------------------------------------------------------------
(* Lemmas about deletion.                                                  *)

(* A deletion moves, and the request that waits for it may go on.          *)
LEMMA DeletionMoves ==
    ASSUME IInv, conf' = conf, NEW d \in Deleting, d # Manager => c[d].pc = "force",
           NEW w \in Deletion, w.pc = "no" <=> w.node = Nil, del' = [del EXCEPT ![d] = w],
           \/ c' = c
           \/ /\ w.pc = "no" /\ d # Manager
              /\ \E p \in {"retry", "done"} : c' = [c EXCEPT ![d].pc = p]
    PROVE  /\ RequestsTyped' /\ HoldsByPC' /\ DeletionsHold' /\ del' \in [Deleting -> Deletion]
           /\ \A q \in Requests : c'[q].node = c[q].node /\ c'[q].key = c[q].key
           /\ \A n \in Slots : /\ Holders(n)' = Holders(n)
                               /\ \A q \in Holders(n) : c'[q].key = c[q].key
<1>1. del \in [Deleting -> Deletion] /\ c \in [Requests -> Request \cup {NoRequest}]
  BY DEF IInv, Types, RequestsTyped
<1>2. del' \in [Deleting -> Deletion]
  BY <1>1
<1>3. \A e \in Deleting : del'[e].pc = "no" <=> del'[e].node = Nil
  BY <1>1 DEF IInv, DeletionsHold
<1>4. Requests \subseteq Deleting
  BY DEF Deleting
<1>5. CASE c' = c
  <2>1. RequestsTyped' /\ HoldsByPC'
    BY <1>5 DEF IInv, Types, RequestsTyped, HoldsByPC, Active
  <2>2. \A r \in Requests : del'[r].pc # "no" => c'[r].pc = "force"
    BY <1>1, <1>4, <1>5, ConstantsOK DEF IInv, DeletionsHold
  <2> QED
    BY <1>2, <1>3, <1>5, <2>1, <2>2 DEF DeletionsHold, Holders
<1>6. CASE /\ w.pc = "no" /\ d # Manager
           /\ \E p \in {"retry", "done"} : c' = [c EXCEPT ![d].pc = p]
  <2>1. PICK p \in {"retry", "done"} : c' = [c EXCEPT ![d].pc = p]
    BY <1>6
  <2>2. d \in Requests /\ d \in Active /\ c[d] \in Request /\ c[d].node = Nil
    BY <1>6, ActiveRequest DEF Deleting, IInv, Types, HoldsByPC, NodeFits
  <2> DEFINE v == [c[d] EXCEPT !.pc = p]
  <2>3. v \in Request /\ v.pc = p /\ v.node = c[d].node /\ v.key = c[d].key
    BY <2>2 DEF Request, PCs
  <2>4. c' = [c EXCEPT ![d] = v]
    BY <2>1
  <2> HIDE DEF v
  <2>5. c'[d] = v /\ \A q \in Requests \ {d} : c'[q] = c[q]
    BY <1>1, <2>2, <2>4
  <2>6. RequestsTyped'
    BY <2>2, <2>3, <2>4 DEF IInv, Types, RequestsTyped, Active
  <2>7. HoldsByPC'
    <3>1. NodeFits(v)
      BY <2>2, <2>3 DEF NodeFits, WithEntry
    <3> QED
      BY <2>2, <2>5, <3>1 DEF IInv, HoldsByPC, NodeFits
  <2>8. \A r \in Requests : del'[r].pc # "no" => c'[r].pc = "force"
    BY <1>1, <1>4, <1>6, <2>5 DEF IInv, DeletionsHold
  <2>9. \A q \in Requests : c'[q].node = c[q].node /\ c'[q].key = c[q].key
    BY <2>2, <2>3, <2>5
  <2> QED
    BY <1>2, <1>3, <2>6, <2>7, <2>8, <2>9 DEF DeletionsHold, Holders
<1> QED
  BY <1>5, <1>6

LEMMA DeletersChange ==
    ASSUME Types, NEW d \in Deleting, NEW n \in Slots, DOMAIN del' = Deleting,
           \A e \in Deleting \ {d} : del'[e] = del[e]
    PROVE  /\ (del[d].node = n <=> del'[d].node = n) => Deleters(n)' = Deleters(n)
           /\ del[d].node # n /\ del'[d].node = n =>
                Cardinality(Deleters(n)') = Cardinality(Deleters(n)) + 1
           /\ del[d].node = n /\ del'[d].node # n =>
                Cardinality(Deleters(n)') = Cardinality(Deleters(n)) - 1
<1>1. IsFiniteSet(Deleters(n)) /\ DOMAIN del = Deleting
  BY UsersFinite DEF Types
<1>2. ASSUME del[d].node = n <=> del'[d].node = n
      PROVE  Deleters(n)' = Deleters(n)
  BY <1>1, <1>2 DEF Deleters
<1>3. ASSUME del[d].node # n, del'[d].node = n
      PROVE  Deleters(n)' = Deleters(n) \cup {d} /\ d \notin Deleters(n)
  BY <1>1, <1>3 DEF Deleters
<1>4. ASSUME del[d].node = n, del'[d].node # n
      PROVE  Deleters(n)' = Deleters(n) \ {d} /\ d \in Deleters(n)
  BY <1>1, <1>4 DEF Deleters
<1>5. ASSUME del[d].node # n, del'[d].node = n
      PROVE  Cardinality(Deleters(n)') = Cardinality(Deleters(n)) + 1
  BY <1>1, <1>3, <1>5, FS_AddElement
<1>6. ASSUME del[d].node = n, del'[d].node # n
      PROVE  Cardinality(Deleters(n)') = Cardinality(Deleters(n)) - 1
  BY <1>1, <1>4, <1>6, FS_RemoveElement
<1> QED
  BY <1>2, <1>5, <1>6

(* A deletion changes the count of an entry, or frees it. *)
LEMMA DeletionCounts ==
    ASSUME IInv, RequestsTyped', HoldsByPC', DeletionsHold', OtherTypes',
           NEW d \in Deleting, del' \in [Deleting -> Deletion],
           \A e \in Deleting \ {d} : del'[e] = del[e],
           \A x \in Slots : /\ Holders(x)' = Holders(x)
                            /\ \A q \in Holders(x) : c'[q].key = c[q].key,
           NEW n \in Slots, n \in Used, leaked' \in [Slots -> Nat],
           \A x \in Slots \ {n} : /\ leaked'[x] = leaked[x]
                                  /\ del[d].node = x <=> del'[d].node = x,
           NEW m \in Entry, m.key = node[n].key,
           m.count = Cardinality(Holders(n)) + Cardinality(Deleters(n)') + leaked'[n],
           NEW gone \in BOOLEAN, gone => m.count = 0,
           node' = [node EXCEPT ![n] = IF gone THEN FreeMemory ELSE m],
           queue' \in Seq(Slots), IsInjective(queue'),
           ToSet(queue') = IF gone THEN Used \ {n} ELSE Used
    PROVE  IInv'
<1>1. Types /\ \A x \in Slots : EntryExact(x)
  BY DEF IInv
<1>2. /\ \A x \in Slots \ {n} : node'[x] = node[x]
      /\ node'[n] = IF gone THEN FreeMemory ELSE m
      /\ node' \in [Slots -> Entry \cup {FreeMemory}]
  BY <1>1 DEF Types
<1>3. Types'
  BY <1>2 DEF Types
<1>4. Used' = IF gone THEN Used \ {n} ELSE Used
  BY <1>2, ConstantsOK DEF Used, FreeMemory, Entry
<1>5. QueueExact'
  BY <1>4 DEF QueueExact
<1>6. ASSUME NEW x \in Slots PROVE EntryExact(x)'
  <2>1. CASE x # n
    <3>1. Deleters(x)' = Deleters(x)
      BY <1>1, <2>1, DeletersChange
    <3> QED
      BY <1>1, <1>2, <2>1, <3>1, Untouched
  <2>2. CASE x = n /\ ~gone
    <3>1. \A q \in Holders(n)' : node'[n].key = c'[q].key
      BY <1>1, <1>2, <2>2 DEF EntryExact
    <3>2. Holders(n)' = Holders(n)
      OBVIOUS
    <3> QED
      BY <1>2, <1>3, <2>2, <3>1, <3>2, CountedAgain
  <2>3. CASE x = n /\ gone
    <3>1. /\ Cardinality(Holders(n)) \in Nat /\ IsFiniteSet(Holders(n))
      BY <1>1, UsersFinite
    <3>2. /\ Cardinality(Deleters(n)') \in Nat /\ IsFiniteSet(Deleters(n)')
      <4>1. Deleters(n)' \subseteq Deleting
        BY DEF Deleters
      <4> QED
        BY <4>1, ConstantsOK, FS_Subset, FS_CardinalityType
    <3>3. leaked'[n] \in Nat
      OBVIOUS
    <3>4. Cardinality(Holders(n)) = 0 /\ Cardinality(Deleters(n)') = 0 /\ leaked'[n] = 0
      BY <2>3, <3>1, <3>2, <3>3
    <3>5. Holders(n)' = {} /\ Deleters(n)' = {}
      BY <3>1, <3>2, <3>4, FS_EmptySet
    <3> QED
      BY <1>2, <2>3, <3>4, <3>5, Freed
  <2> QED
    BY <2>1, <2>2, <2>3
<1> QED
  BY <1>3, <1>5, <1>6 DEF IInv, Types

(* What MayDelete and Resume mean. *)
LEMMA Resuming ==
    ASSUME IInv, NEW d \in Deleting
    PROVE  /\ MayDelete(d) => del[d] = NoDeletion /\ (d # Manager => c[d].pc = "force")
           /\ del[d] # NoDeletion => (d # Manager => c[d].pc = "force")
           /\ c' = Resume(d) => c' = c \/ (d # Manager /\ c' = [c EXCEPT ![d].pc = "retry"])
           /\ del[d] # NoDeletion => del[d].node \in Slots /\ del[d].pc # "no"
           /\ NoDeletion \in Deletion /\ NoDeletion.pc = "no" /\ NoDeletion.node = Nil
<1>1. del[d] \in Deletion
  BY DEF IInv, Types
<1>2. NoDeletion \in Deletion /\ NoDeletion.pc = "no" /\ NoDeletion.node = Nil
  BY DEF NoDeletion, Deletion
<1>3. del[d] # NoDeletion => del[d].node \in Slots /\ del[d].pc # "no"
  BY <1>1 DEF NoDeletion, Deletion, IInv, DeletionsHold
<1>4. d # Manager => d \in Requests
  BY DEF Deleting
<1>5. del[d] # NoDeletion => (d # Manager => c[d].pc = "force")
  BY <1>3, <1>4 DEF IInv, DeletionsHold
<1> QED
  BY <1>2, <1>3, <1>5 DEF MayDelete, Resume

(* The entry at the end of the searched queue.                             *)
LEMMA SearchEnds ==
    ASSUME IInv
    PROVE  /\ Searched \in Seq(Slots) /\ IsInjective(Searched) /\ ToSet(Searched) = Used
           /\ queue # <<>> =>
                /\ Last(Searched) \in Used /\ Last(Searched) \in Slots
                /\ Front(Searched) \in Seq(Slots) /\ IsInjective(Front(Searched))
                /\ ToSet(Front(Searched)) = Used \ {Last(Searched)}
<1>1. queue \in Seq(Slots) /\ IsInjective(queue) /\ ToSet(queue) = Used
  BY DEF IInv, Types, QueueExact
<1>2. /\ Searched \in Seq(Slots) /\ IsInjective(Searched) /\ ToSet(Searched) = ToSet(queue)
      /\ queue # <<>> => Searched # <<>>
  BY <1>1, QueueSearched
<1>3. queue # <<>> =>
        /\ Last(Searched) \in ToSet(Searched)
        /\ Front(Searched) \in Seq(Slots) /\ IsInjective(Front(Searched))
        /\ ToSet(Front(Searched)) = ToSet(Searched) \ {Last(Searched)}
  BY <1>2, QueueFront
<1>4. Used \subseteq Slots
  BY DEF Used
<1> QED
  BY <1>1, <1>2, <1>3, <1>4

LEMMA ExpireEmptyStep ==
    ASSUME IInv, conf' = conf, NEW d \in Deleting, ExpireEmpty(d)
    PROVE  IInv'
<1>1. PICK n : n = Last(Searched)
  OBVIOUS
<1>2. /\ MayDelete(d) /\ queue # <<>> /\ node[n].count = 0
      /\ node' = [node EXCEPT ![n] = FreeMemory] /\ queue' = Front(Searched) /\ c' = Resume(d)
      /\ UNCHANGED <<size, cold, file, del, walk, found, leaked, crashes, broken>>
  BY <1>1 DEF ExpireEmpty
<1>3. /\ del[d] = NoDeletion /\ (d # Manager => c[d].pc = "force")
      /\ c' = c \/ (d # Manager /\ c' = [c EXCEPT ![d].pc = "retry"])
      /\ NoDeletion \in Deletion /\ NoDeletion.pc = "no" /\ NoDeletion.node = Nil
  BY <1>2, Resuming
<1>4. /\ n \in Used /\ n \in Slots /\ queue' \in Seq(Slots) /\ IsInjective(queue')
      /\ ToSet(queue') = Used \ {n}
  BY <1>1, <1>2, SearchEnds
<1>5. Types /\ EntryExact(n) /\ node[n] \in Entry
  BY <1>4, UsedIsEntry DEF IInv
<1>6. del' = [del EXCEPT ![d] = NoDeletion]
  BY <1>2, <1>3, <1>5 DEF Types
<1>7. /\ RequestsTyped' /\ HoldsByPC' /\ DeletionsHold' /\ del' \in [Deleting -> Deletion]
      /\ \A x \in Slots : /\ Holders(x)' = Holders(x)
                          /\ \A q \in Holders(x) : c'[q].key = c[q].key
  BY <1>3, <1>6, DeletionMoves
<1>8. OtherTypes' /\ leaked' \in [Slots -> Nat]
  BY <1>2 DEF IInv, Types, OtherTypes
<1>9. node[n].count = Cardinality(Holders(n)) + Cardinality(Deleters(n)') + leaked'[n]
  <2>1. Deleters(n)' = Deleters(n)
    BY <1>2, <1>4, DeletersSame
  <2> QED
    BY <1>2, <1>4, <1>5, <2>1 DEF EntryExact
<1> DEFINE gone == TRUE
<1>10. /\ gone \in BOOLEAN /\ (gone => node[n].count = 0)
       /\ node' = [node EXCEPT ![n] = IF gone THEN FreeMemory ELSE node[n]]
       /\ ToSet(queue') = IF gone THEN Used \ {n} ELSE Used
  BY <1>2, <1>4
<1> HIDE DEF gone
<1>11. \A e \in Deleting \ {d} : del'[e] = del[e]
  BY <1>2
<1>12. \A x \in Slots \ {n} : leaked'[x] = leaked[x] /\ (del[d].node = x <=> del'[d].node = x)
  BY <1>2
<1> QED
  BY <1>4, <1>5, <1>7, <1>8, <1>9, <1>10, <1>11, <1>12, DeletionCounts

LEMMA DeleteStep ==
    ASSUME IInv, conf' = conf, NEW d \in Deleting, Delete(d)
    PROVE  IInv'
<1>1. PICK n : n = Last(Searched)
  OBVIOUS
<1> DEFINE w == [pc |-> "unlink", node |-> n]
           m == Mark(node[n])
<1>2. /\ MayDelete(d) /\ queue # <<>> /\ node[n].count = 0
      /\ node' = [node EXCEPT ![n] = m] /\ queue' = Searched
      /\ size' \in Int /\ del' = [del EXCEPT ![d] = w]
      /\ UNCHANGED <<cold, file, c, walk, found, leaked, crashes, broken>>
  BY <1>1 DEF Delete, Fits
<1>3. del[d] = NoDeletion /\ (d # Manager => c[d].pc = "force") /\ NoDeletion.node = Nil
  BY <1>2, Resuming
<1>4. n \in Used /\ n \in Slots /\ queue' \in Seq(Slots) /\ IsInjective(queue') /\ ToSet(queue') = Used
  BY <1>1, <1>2, SearchEnds
<1>5. Types /\ EntryExact(n) /\ node[n] \in Entry
  BY <1>4, UsedIsEntry DEF IInv
<1>6. w \in Deletion /\ (w.pc = "no" <=> w.node = Nil) /\ w.node = n
  BY <1>4, ConstantsOK DEF Deletion
<1> HIDE DEF w
<1>7. /\ RequestsTyped' /\ HoldsByPC' /\ DeletionsHold' /\ del' \in [Deleting -> Deletion]
      /\ \A x \in Slots : /\ Holders(x)' = Holders(x)
                          /\ \A q \in Holders(x) : c'[q].key = c[q].key
  BY <1>2, <1>3, <1>6, DeletionMoves
<1>8. OtherTypes' /\ leaked' \in [Slots -> Nat]
  BY <1>2 DEF IInv, Types, OtherTypes
<1>9. /\ del'[d] = w /\ \A e \in Deleting \ {d} : del'[e] = del[e]
      /\ DOMAIN del' = Deleting
  BY <1>2, <1>5 DEF Types
<1>10. m \in Entry /\ m.key = node[n].key /\ m.count = 1
  <2>1. m = [node[n] EXCEPT !.count = 1, !.deleting = TRUE]
    BY <1>2 DEF Mark
  <2> HIDE DEF m
  <2> QED
    BY <1>5, <2>1 DEF Entry
<1> HIDE DEF m
<1>11. m.count = Cardinality(Holders(n)) + Cardinality(Deleters(n)') + leaked'[n]
  <2>1. Cardinality(Deleters(n)') = Cardinality(Deleters(n)) + 1
    BY <1>3, <1>4, <1>5, <1>6, <1>9, ConstantsOK, DeletersChange
  <2>2. /\ Cardinality(Holders(n)) \in Nat /\ Cardinality(Deleters(n)) \in Nat
        /\ leaked[n] \in Nat /\ leaked'[n] = leaked[n]
    BY <1>2, <1>4, <1>5, UsersFinite DEF Types
  <2>3. node[n].count = Cardinality(Holders(n)) + Cardinality(Deleters(n)) + leaked[n]
    BY <1>4, <1>5 DEF EntryExact
  <2> QED
    BY <1>2, <1>10, <2>1, <2>2, <2>3
<1> DEFINE gone == FALSE
<1>12. /\ gone \in BOOLEAN /\ (gone => m.count = 0)
       /\ node' = [node EXCEPT ![n] = IF gone THEN FreeMemory ELSE m]
       /\ ToSet(queue') = IF gone THEN Used \ {n} ELSE Used
  BY <1>2, <1>4
<1> HIDE DEF gone
<1>13. \A x \in Slots \ {n} : leaked'[x] = leaked[x] /\ (del[d].node = x <=> del'[d].node = x)
  BY <1>2, <1>3, <1>6, <1>9, ConstantsOK
<1> QED
  BY <1>4, <1>7, <1>8, <1>9, <1>10, <1>11, <1>12, <1>13, DeletionCounts

(* The end of a deletion, by its own hand or by the death of the process.  *)
LEMMA DeletionEnds ==
    ASSUME IInv, conf' = conf, NEW d \in Deleting, DeleteFinish(d) \/ DeleterDies(d)
    PROVE  IInv'
<1>1. /\ del[d] # NoDeletion /\ del' = [del EXCEPT ![d] = NoDeletion]
      /\ UNCHANGED <<size, cold, file, walk, found, crashes>>
      /\ c' = Resume(d) \/ c' = IF d = Manager THEN c ELSE [c EXCEPT ![d].pc = "done"]
  BY DEF DeleteFinish, DeleterDies, NoDeletion
<1>2. PICK n \in Slots : n = del[d].node
  BY <1>1, Resuming
<1>3. /\ d # Manager => c[d].pc = "force"
      /\ NoDeletion \in Deletion /\ NoDeletion.pc = "no" /\ NoDeletion.node = Nil
      /\ c' = Resume(d) => c' = c \/ (d # Manager /\ c' = [c EXCEPT ![d].pc = "retry"])
  BY <1>1, Resuming
<1>4. \/ c' = c
      \/ d # Manager /\ \E p \in {"retry", "done"} : c' = [c EXCEPT ![d].pc = p]
  BY <1>1, <1>3
<1>5. Types /\ EntryExact(n) /\ DOMAIN del = Deleting
  BY DEF IInv, Types
<1>6. /\ RequestsTyped' /\ HoldsByPC' /\ DeletionsHold' /\ del' \in [Deleting -> Deletion]
      /\ \A x \in Slots : /\ Holders(x)' = Holders(x)
                          /\ \A q \in Holders(x) : c'[q].key = c[q].key
  BY <1>1, <1>3, <1>4, DeletionMoves
<1>7. /\ del'[d] = NoDeletion /\ \A e \in Deleting \ {d} : del'[e] = del[e]
      /\ DOMAIN del' = Deleting
  BY <1>1, <1>5
<1>8. n \in Used /\ node[n] \in Entry
  <2>1. d \in Deleters(n)
    BY <1>2, <1>5 DEF Deleters
  <2> QED
    BY <1>5, <2>1, UsedIsEntry DEF EntryExact
<1>9. Cardinality(Deleters(n)') = Cardinality(Deleters(n)) - 1
  BY <1>2, <1>3, <1>5, <1>7, ConstantsOK, DeletersChange
<1>10. /\ Cardinality(Holders(n)) \in Nat /\ Cardinality(Deleters(n)) \in Nat
       /\ leaked[n] \in Nat /\ leaked \in [Slots -> Nat]
  BY <1>5, UsersFinite DEF Types
<1>11. Cardinality(Deleters(n)') \in Nat
  <2>1. Deleters(n)' \subseteq Deleting
    BY <1>7 DEF Deleters
  <2> QED
    BY <2>1, ConstantsOK, FS_Subset, FS_CardinalityType
<1>12. node[n].count = Cardinality(Holders(n)) + Cardinality(Deleters(n)) + leaked[n]
  BY <1>5, <1>8 DEF EntryExact
<1>13. \A x \in Slots \ {n} : del[d].node = x <=> del'[d].node = x
  BY <1>2, <1>3, <1>7, ConstantsOK
<1>14. queue \in Seq(Slots) /\ IsInjective(queue) /\ ToSet(queue) = Used
  BY DEF IInv, Types, QueueExact
<1>15. CASE DeleteFinish(d)
  <2> DEFINE m == [node[n] EXCEPT !.count = @ - 1, !.deleting = FALSE]
             gone == m.count = 0
  <2>1. /\ node' = [node EXCEPT ![n] = IF gone THEN FreeMemory ELSE m]
        /\ queue' = (IF gone THEN Without(queue, n) ELSE queue)
        /\ leaked' = leaked /\ broken' = broken
    BY <1>2, <1>15 DEF DeleteFinish, Removed
  <2>2. node[n].count - 1 = Cardinality(Holders(n)) + Cardinality(Deleters(n)') + leaked'[n]
    BY <1>9, <1>10, <1>12, <2>1
  <2>3. node[n].count - 1 \in Nat
    BY <1>10, <1>11, <2>1, <2>2
  <2>4. m \in Entry /\ m.key = node[n].key /\ m.count = node[n].count - 1
    BY <1>8, <2>3 DEF Entry
  <2>5. gone \in BOOLEAN /\ (gone => m.count = 0)
    OBVIOUS
  <2> HIDE DEF m, gone
  <2>6. /\ queue' \in Seq(Slots) /\ IsInjective(queue')
        /\ ToSet(queue') = IF gone THEN Used \ {n} ELSE Used
    <3>1. CASE gone
      <4>1. /\ Without(queue, n) \in Seq(Slots) /\ IsInjective(Without(queue, n))
            /\ ToSet(Without(queue, n)) = ToSet(queue) \ {n}
        BY <1>8, <1>14, QueueRemove
      <4> QED
        BY <1>14, <2>1, <3>1, <4>1
    <3>2. CASE ~gone
      BY <1>14, <2>1, <3>2
    <3> QED
      BY <3>1, <3>2, <2>5
  <2>7. OtherTypes' /\ leaked' \in [Slots -> Nat]
    BY <1>1, <1>10, <2>1 DEF IInv, Types, OtherTypes
  <2>8. \A x \in Slots \ {n} : leaked'[x] = leaked[x] /\ (del[d].node = x <=> del'[d].node = x)
    BY <1>13, <2>1
  <2>9. m.count = Cardinality(Holders(n)) + Cardinality(Deleters(n)') + leaked'[n]
    BY <2>2, <2>4
  <2> QED
    BY <1>6, <1>7, <1>8, <2>1, <2>4, <2>5, <2>6, <2>7, <2>8, <2>9, DeletionCounts
<1>16. CASE DeleterDies(d)
  <2>1. /\ leaked' = [leaked EXCEPT ![n] = @ + 1] /\ broken' = broken + 1
        /\ UNCHANGED <<node, queue>>
    BY <1>2, <1>16 DEF DeleterDies
  <2>2. leaked' \in [Slots -> Nat] /\ leaked'[n] = leaked[n] + 1
        /\ \A x \in Slots \ {n} : leaked'[x] = leaked[x]
    BY <1>10, <2>1
  <2>3. OtherTypes'
    BY <1>1, <2>1 DEF IInv, Types, OtherTypes
  <2> DEFINE gone == FALSE
  <2>4. /\ gone \in BOOLEAN /\ (gone => node[n].count = 0)
        /\ node' = [node EXCEPT ![n] = IF gone THEN FreeMemory ELSE node[n]]
        /\ queue' \in Seq(Slots) /\ IsInjective(queue')
        /\ ToSet(queue') = IF gone THEN Used \ {n} ELSE Used
    BY <1>5, <1>14, <2>1 DEF Types
  <2> HIDE DEF gone
  <2>5. node[n].count = Cardinality(Holders(n)) + Cardinality(Deleters(n)') + leaked'[n]
    BY <1>9, <1>10, <1>12, <2>2
  <2>6. \A x \in Slots \ {n} : leaked'[x] = leaked[x] /\ (del[d].node = x <=> del'[d].node = x)
    BY <1>13, <2>2
  <2> QED
    BY <1>6, <1>7, <1>8, <2>2, <2>3, <2>4, <2>5, <2>6, DeletionCounts
<1> QED
  BY <1>15, <1>16

LEMMA UnlinkStep ==
    ASSUME IInv, conf' = conf, NEW d \in Deleting, Unlink(d)
    PROVE  IInv'
<1> DEFINE w == [del[d] EXCEPT !.pc = "finish"]
<1>1. /\ UNCHANGED <<node, queue, size, cold, c, walk, found, leaked, crashes, broken>>
      /\ del' = [del EXCEPT ![d] = w] /\ del[d] # NoDeletion /\ del[d].pc # "no"
  BY DEF Unlink, NoDeletion
<1>2. del[d].node \in Slots /\ (d # Manager => c[d].pc = "force") /\ del \in [Deleting -> Deletion]
  BY <1>1, Resuming DEF IInv, Types
<1>3. w \in Deletion /\ w.pc # "no" /\ w.node = del[d].node /\ w.node # Nil
  BY <1>2, ConstantsOK DEF Deletion
<1> HIDE DEF w
<1>4. RequestsTyped' /\ HoldsByPC' /\ DeletionsHold' /\ del' \in [Deleting -> Deletion]
  BY <1>1, <1>2, <1>3, DeletionMoves
<1>5. OtherTypes'
  <2>1. file' \in [Keys -> {"none", "fresh", "expired"}]
    BY DEF Unlink, IInv, Types, OtherTypes
  <2> QED
    BY <1>1, <2>1 DEF IInv, Types, OtherTypes
<1>6. CountsKept /\ QueueKept
  BY <1>1 DEF CountsKept, QueueKept, IInv, Types, QueueExact
<1>7. Types'
  BY <1>4, <1>5, <1>6 DEF Types, CountsKept, QueueKept, IInv
<1>8. \A e \in Deleting : del'[e].node = del[e].node
  BY <1>1, <1>2, <1>3
<1> QED
  BY <1>1, <1>4, <1>6, <1>7, <1>8, UseKept

(* The search alone, which turns the queue.                                *)
LEMMA SearchSteps ==
    ASSUME IInv, conf' = conf, (\E d \in Deleting : GiveUp(d)) \/ SkipLocked
    PROVE  IInv'
<1>1. PICK d \in Deleting : GiveUp(d) \/ (d = Manager /\ SkipLocked)
  BY DEF Deleting
<1>2. /\ MayDelete(d) /\ UNCHANGED <<node, size, cold, file, del, walk, found, leaked, crashes, broken>>
      /\ c' = c \/ c' = Resume(d)
  BY <1>1 DEF GiveUp, SkipLocked
<1>3. /\ del[d] = NoDeletion /\ (d # Manager => c[d].pc = "force")
      /\ c' = c \/ (d # Manager /\ c' = [c EXCEPT ![d].pc = "retry"])
      /\ NoDeletion \in Deletion /\ NoDeletion.pc = "no" /\ NoDeletion.node = Nil
  BY <1>2, Resuming
<1>4. del' = [del EXCEPT ![d] = NoDeletion]
  BY <1>2, <1>3 DEF IInv, Types
<1>5. /\ RequestsTyped' /\ HoldsByPC' /\ DeletionsHold' /\ del' \in [Deleting -> Deletion]
      /\ \A q \in Requests : c'[q].node = c[q].node /\ c'[q].key = c[q].key
  BY <1>3, <1>4, DeletionMoves
<1>6. QueueKept
  <2>1. queue \in Seq(Slots) /\ IsInjective(queue) /\ ToSet(queue) = Used
    BY DEF IInv, Types, QueueExact
  <2>2. CASE GiveUp(d)
    BY <2>1, <2>2, SearchEnds DEF GiveUp, QueueKept
  <2>3. CASE SkipLocked
    <3>1. queue # <<>> /\ queue' = ToHead(queue, Last(queue))
      BY <2>3 DEF SkipLocked
    <3>2. Last(queue) \in ToSet(queue)
      BY <2>1, <3>1, QueueFront
    <3> QED
      BY <2>1, <3>1, <3>2, QueueToHead DEF QueueKept
  <2> QED
    BY <1>1, <2>2, <2>3
<1>7. CountsKept /\ OtherTypes'
  BY <1>2 DEF CountsKept, IInv, Types, OtherTypes
<1>8. Types'
  BY <1>2, <1>5, <1>6, <1>7 DEF IInv, Types, CountsKept, QueueKept
<1>9. \A e \in Deleting : del'[e].node = del[e].node
  BY <1>2
<1> QED
  BY <1>5, <1>6, <1>7, <1>8, <1>9, UseKept

-----------------------------------------------------------------------------
(* Lemmas about the loader and the disk.                                   *)

(* The loader adds an entry that nobody uses yet. *)
LEMMA EntryAdded ==
    ASSUME IInv, conf' = conf, c' = c, del' = del, leaked' = leaked, OtherTypes',
           NEW n \in Slots, n \notin Used, NEW m \in Entry, m.count = 0,
           node' = [node EXCEPT ![n] = m], queue' = <<n>> \o queue
    PROVE  IInv'
<1>1. /\ queue \in Seq(Slots) /\ IsInjective(queue) /\ ToSet(queue) = Used /\ n \notin ToSet(queue)
      /\ Types
  BY DEF IInv, Types, QueueExact
<1>2. /\ <<n>> \o queue \in Seq(Slots) /\ IsInjective(<<n>> \o queue)
      /\ ToSet(<<n>> \o queue) = ToSet(queue) \cup {n}
  BY <1>1, QueueInsert
<1>3. /\ \A x \in Slots \ {n} : node'[x] = node[x]
      /\ node'[n] = m /\ node' \in [Slots -> Entry \cup {FreeMemory}]
  BY <1>1 DEF Types
<1>4. Used' = Used \cup {n}
  BY <1>3, ConstantsOK DEF Used, Entry
<1>5. RequestsTyped' /\ HoldsByPC' /\ DeletionsHold'
  BY DEF IInv, Types, RequestsTyped, HoldsByPC, DeletionsHold, Active
<1>6. Types' /\ QueueExact'
  BY <1>1, <1>2, <1>3, <1>4, <1>5 DEF Types, QueueExact
<1>7. ASSUME NEW x \in Slots PROVE EntryExact(x)'
  <2>1. Holders(x)' = Holders(x) /\ Deleters(x)' = Deleters(x) /\ EntryExact(x)
    BY DEF Holders, Deleters, IInv
  <2>2. CASE x # n
    BY <1>3, <2>1, <2>2, Untouched
  <2>3. CASE x = n
    <3>1. Holders(n) = {} /\ Deleters(n) = {} /\ leaked[n] = 0
      BY <2>1, <2>3 DEF EntryExact
    <3>2. Cardinality(Holders(n)') = 0 /\ Cardinality(Deleters(n)') = 0
      BY <2>1, <2>3, <3>1, FS_EmptySet
    <3>3. node'[n].count = Cardinality(Holders(n)') + Cardinality(Deleters(n)') + leaked'[n]
      BY <1>3, <3>1, <3>2
    <3>4. \A q \in Holders(n)' : node'[n].key = c'[q].key
      BY <2>1, <2>3, <3>1
    <3> QED
      BY <1>3, <1>6, <2>3, <3>3, <3>4, CountedAgain
  <2> QED
    BY <2>2, <2>3
<1> QED
  BY <1>5, <1>6, <1>7 DEF IInv

LEMMA LoaderSteps ==
    ASSUME IInv, conf' = conf,
           \/ LoaderAdd \/ LoaderEnds \/ \E k \in Keys : LoaderVisit(k) \/ FileExpires(k)
    PROVE  IInv'
<1>1. UNCHANGED <<c, del, leaked, crashes, broken>>
  BY DEF LoaderAdd, LoaderEnds, LoaderVisit, FileExpires
<1>2. OtherTypes'
  <2>1. size \in Int /\ size + 1 \in Int /\ cold \in BOOLEAN /\ walk \subseteq Keys
        /\ found \in Keys \cup {Nil} /\ crashes \in Nat /\ broken \in Nat
        /\ file \in [Keys -> {"none", "fresh", "expired"}]
    BY DEF IInv, Types, OtherTypes
  <2>2. CASE LoaderAdd
    BY <2>1, <2>2 DEF LoaderAdd, OtherTypes
  <2>3. CASE LoaderEnds
    BY <2>1, <2>3 DEF LoaderEnds, OtherTypes
  <2>4. ASSUME NEW k \in Keys, LoaderVisit(k) PROVE OtherTypes'
    BY <2>1, <2>4 DEF LoaderVisit, OtherTypes
  <2>5. ASSUME NEW k \in Keys, FileExpires(k) PROVE OtherTypes'
    BY <2>1, <2>5 DEF FileExpires, OtherTypes
  <2> QED
    BY <2>2, <2>3, <2>4, <2>5
<1>3. queue \in Seq(Slots) /\ IsInjective(queue) /\ ToSet(queue) = Used
  BY DEF IInv, Types, QueueExact
<1>4. SUFFICES \/ node' = node /\ QueueKept
               \/ \E n \in Slots \ Used, m \in Entry :
                    m.count = 0 /\ node' = [node EXCEPT ![n] = m] /\ queue' = <<n>> \o queue
  <2>1. CASE node' = node /\ QueueKept
    <3>1. RequestsTyped' /\ HoldsByPC' /\ DeletionsHold' /\ CountsKept
      BY <1>1, <2>1 DEF IInv, Types, RequestsTyped, HoldsByPC, DeletionsHold, Active, CountsKept
    <3>2. Types'
      BY <1>1, <1>2, <2>1, <3>1 DEF IInv, Types, QueueKept
    <3> QED
      BY <1>1, <2>1, <3>1, <3>2, UseKept
  <2>2. CASE \E n \in Slots \ Used, m \in Entry :
               m.count = 0 /\ node' = [node EXCEPT ![n] = m] /\ queue' = <<n>> \o queue
    BY <1>1, <1>2, <2>2, EntryAdded
  <2> QED
    BY <1>4, <2>1, <2>2
<1>5. CASE LoaderAdd
  <2>1. found \in Keys
    BY <1>5 DEF LoaderAdd, IInv, Types, OtherTypes
  <2>2. CASE \E n \in Lookup(found) : queue' = ToHead(queue, n) /\ node' = node
    <3>1. PICK n \in ToSet(queue) : queue' = ToHead(queue, n) /\ node' = node
      BY <1>3, <2>2 DEF Lookup
    <3> QED
      BY <1>3, <3>1, QueueToHead DEF QueueKept
  <2>3. CASE \E n \in Memory \ Used :
               /\ node' = [node EXCEPT ![n] = [NewNode(found) EXCEPT !.exists = TRUE, !.fs = 1]]
               /\ queue' = <<n>> \o queue
    <3> DEFINE m == [NewNode(found) EXCEPT !.exists = TRUE, !.fs = 1]
    <3>1. PICK n \in Slots \ Used : node' = [node EXCEPT ![n] = m] /\ queue' = <<n>> \o queue
      BY <2>3 DEF Memory
    <3>2. m \in Entry /\ m.count = 0
      BY <2>1 DEF NewNode, Entry
    <3> HIDE DEF m
    <3> QED
      BY <3>1, <3>2
  <2>4. CASE node' = node /\ queue' = queue
    BY <1>3, <2>4 DEF QueueKept
  <2> QED
    BY <1>5, <2>2, <2>3, <2>4 DEF LoaderAdd
<1>6. CASE LoaderEnds \/ \E k \in Keys : LoaderVisit(k) \/ FileExpires(k)
  BY <1>3, <1>6 DEF LoaderEnds, LoaderVisit, FileExpires, QueueKept
<1> QED
  BY <1>5, <1>6

-----------------------------------------------------------------------------
(* The invariant.                                                          *)

LEMMA Initially == Init => IInv
<1> SUFFICES ASSUME Init PROVE IInv
  OBVIOUS
<1> USE DEF Init
<1>1. conf \in Scenarios /\ conf.disk \subseteq Keys /\ \A r \in Active : conf.main[r] \in Keys
  BY FileCacheAssumption DEF Active, Range
<1>2. \A r \in Requests : c[r] = IF r \in Active THEN NewRequest(r) ELSE NoRequest
  OBVIOUS
<1>3. \A r \in Active : /\ NewRequest(r) \in Request
                        /\ NewRequest(r).node = Nil /\ NewRequest(r).pc = "open"
  BY <1>1 DEF NewRequest, Request, PCs
<1>4. \A r \in Requests : c[r].node = Nil /\ c[r].pc \in {"open", "done"}
  BY <1>2, <1>3 DEF NoRequest
<1>5. RequestsTyped
  BY <1>1, <1>2, <1>3 DEF RequestsTyped
<1>6. del \in [Deleting -> Deletion] /\ \A d \in Deleting : del[d].pc = "no" /\ del[d].node = Nil
  BY DEF Deleting, NoDeletion, Deletion
<1>7. OtherTypes
  BY <1>1 DEF OtherTypes
<1>8. node \in [Slots -> Entry \cup {FreeMemory}] /\ leaked \in [Slots -> Nat]
  OBVIOUS
<1>9. queue \in Seq(Slots)
  OBVIOUS
<1>10. Types
  BY <1>5, <1>6, <1>7, <1>8, <1>9 DEF Types
<1>11. HoldsByPC /\ DeletionsHold
  BY <1>4, <1>6 DEF HoldsByPC, NodeFits, WithEntry, DeletionsHold, Deleting
<1>12. Used = {}
  BY DEF Used, FreeMemory
<1>13. QueueExact
  BY <1>12 DEF QueueExact, ToSet, IsInjective
<1>14. ASSUME NEW n \in Slots PROVE EntryExact(n)
  <2>1. Holders(n) = {} /\ Deleters(n) = {}
    BY <1>4, <1>6, ConstantsOK DEF Holders, Deleters
  <2>2. leaked[n] = 0
    OBVIOUS
  <2> QED
    BY <1>12, <2>1, <2>2 DEF EntryExact
<1> QED
  BY <1>10, <1>11, <1>13, <1>14 DEF IInv

LEMMA Unchanged ==
    ASSUME IInv, UNCHANGED vars
    PROVE  IInv'
<1>1. CountsKept /\ QueueKept
  BY DEF vars, CountsKept, QueueKept, IInv, Types, QueueExact
<1>2. Types' /\ HoldsByPC' /\ DeletionsHold'
  BY DEF vars, IInv, Types, RequestsTyped, OtherTypes, HoldsByPC, DeletionsHold, Active
<1> QED
  BY <1>1, <1>2, UseKept DEF vars

LEMMA Inductive == IInv /\ [Next]_vars => IInv'
<1> SUFFICES ASSUME IInv, [Next]_vars PROVE IInv'
  OBVIOUS
<1>1. CASE UNCHANGED vars
  BY <1>1, Unchanged
<1>2. CASE Next
  <2>1. conf' = conf
    BY <1>2 DEF Next
  <2>2. ASSUME NEW r \in Requests, Step(r) PROVE IInv'
    BY <2>1, <2>2, PlainSteps, FoundStep, NewSteps, EntrySteps, UpdateStep, FreeStep DEF Step
  <2>3. ASSUME NEW r \in Requests, Response(r) PROVE IInv'
    BY <2>1, <2>3, PlainSteps, DiskSteps, VariantSteps DEF Response
  <2>4. ASSUME NEW r \in Requests,
               \/ Reopen(r) \/ BadFile(r) \/ Abort(r) \/ LockTimeout(r) \/ Again(r) \/ Crash(r)
        PROVE  IInv'
    BY <2>1, <2>4, PlainSteps, DiskSteps, VariantSteps, CrashStep
  <2>5. ASSUME NEW d \in Deleting, Expire(d) \/ DeleterDies(d) PROVE IInv'
    BY <2>1, <2>5, ExpireEmptyStep, DeleteStep, UnlinkStep, DeletionEnds, SearchSteps DEF Expire
  <2>6. CASE \/ SkipLocked \/ LoaderAdd \/ LoaderEnds
             \/ \E k \in Keys : LoaderVisit(k) \/ FileExpires(k)
    BY <2>1, <2>6, SearchSteps, LoaderSteps
  <2>7. ASSUME NEW n \in Slots, ErrorExpires(n) \/ LockAges(n) PROVE IInv'
    BY <2>1, <2>7, EntryAges
  <2> QED
    BY <1>2, <2>2, <2>3, <2>4, <2>5, <2>6, <2>7 DEF Next, Deleting
<1> QED
  BY <1>1, <1>2

(* The inductive invariant: IInv holds in every reachable state. *)
THEOREM EntriesInv == Spec => []IInv
BY Initially, Inductive, PTL DEF Spec

-----------------------------------------------------------------------------
(* The recorded size.  Where nothing is deleted or lost, an entry has a    *)
(* block if and only if it has a file, a key has one entry at most, so     *)
(* that memory suffices, and every file has an entry or a request that is  *)
(* about to register it.                                                   *)

Calm == Undisturbed /\ crashes = 0

Stored == {n \in Used : node[n].fs = 1}

Quiet == ~cold /\ found = Nil /\ \A d \in Deleting : del[d] = NoDeletion

RequestsPlain ==
    \A r \in Requests : /\ c[r].pc \notin {"force", "retry"}
                        /\ r \in Active => ~c[r].error
                        /\ c[r].pc = "update" => c[r].fs = 1

EntriesPlain ==
    /\ Used \subseteq Memory
    /\ \A m, n \in Used : node[m].key = node[n].key => m = n
    /\ \A n \in Used : ~node[n].error /\ (node[n].exists <=> node[n].fs = 1)

SizeOfStored == size = Cardinality(Stored)

OnDisk(k) == \/ \E n \in Stored : node[n].key = k
             \/ \E r \in Requests : c[r].pc = "update" /\ c[r].key = k

FilesKnown == \A k \in Keys : file[k] # "none" <=> OnDisk(k)

SizeParts == Quiet /\ RequestsPlain /\ EntriesPlain /\ SizeOfStored /\ FilesKnown

SizeInv == Calm => SizeParts

LEMMA StoredFinite ==
    IsFiniteSet(Stored) /\ Cardinality(Stored) \in Nat /\ IsFiniteSet(Used)
<1>1. Stored \subseteq Slots /\ Used \subseteq Slots
  BY DEF Stored, Used
<1> QED
  BY <1>1, ConstantsOK, FS_Subset, FS_CardinalityType

(* What the size depends on is left as it is. *)
LEMMA SizeKept ==
    ASSUME IInv, SizeParts, conf' = conf, UNCHANGED <<size, cold, del, found>>,
           \A n \in Slots : node'[n].key = node[n].key,
           \A n \in Used : /\ node'[n].fs = node[n].fs /\ node'[n].exists = node[n].exists
                           /\ node'[n].error = node[n].error,
           \A k \in Keys : file'[k] # "none" <=> file[k] # "none",
           \A r \in Requests : /\ c'[r].pc \notin {"force", "retry"}
                               /\ r \in Active => ~c'[r].error
                               /\ c'[r].pc = "update" <=> c[r].pc = "update"
                               /\ c[r].pc = "update" =>
                                    c'[r].key = c[r].key /\ c'[r].fs = c[r].fs
    PROVE  SizeParts'
<1>1. Used' = Used
  BY DEF Used
<1>2. Stored' = Stored
  BY <1>1 DEF Stored
<1>3. Quiet' /\ SizeOfStored'
  BY <1>2 DEF SizeParts, Quiet, SizeOfStored
<1>4. RequestsPlain'
  BY DEF SizeParts, RequestsPlain, Active
<1>5. EntriesPlain'
  <2>1. Memory' = Memory /\ Used \subseteq Slots
    BY DEF Memory, Used
  <2> QED
    BY <1>1, <2>1 DEF SizeParts, EntriesPlain
<1>6. \A k \in Keys : OnDisk(k)' <=> OnDisk(k)
  <2>1. Stored \subseteq Slots
    BY DEF Stored, Used
  <2> QED
    BY <1>2, <2>1 DEF OnDisk
<1>7. FilesKnown'
  BY <1>6 DEF SizeParts, FilesKnown
<1> QED
  BY <1>3, <1>4, <1>5, <1>7 DEF SizeParts

LEMMA SizeInitially == Init => SizeInv
<1> SUFFICES ASSUME Init, Calm PROVE SizeParts
  BY DEF SizeInv
<1> USE DEF Init
<1>1. conf.disk = {}
  BY DEF Calm, Undisturbed
<1>2. Used = {} /\ Stored = {}
  BY DEF Used, Stored, FreeMemory
<1>3. Quiet
  BY <1>1 DEF Quiet, Deleting
<1>4. \A r \in Requests : /\ c[r].pc \in {"open", "done"}
                          /\ r \in Active => ~c[r].error
  BY DEF NewRequest, NoRequest
<1>5. RequestsPlain /\ EntriesPlain
  BY <1>2, <1>4 DEF RequestsPlain, EntriesPlain
<1>6. SizeOfStored
  BY <1>2, FS_EmptySet DEF SizeOfStored
<1>7. FilesKnown
  BY <1>1, <1>2, <1>4 DEF FilesKnown, OnDisk
<1> QED
  BY <1>3, <1>5, <1>6, <1>7 DEF SizeParts

(* Steps that need what is ruled out. *)
LEMMA Impossible ==
    ASSUME IInv, SizeParts, Calm, Calm', conf' = conf
    PROVE  /\ \A r \in Requests :
                 ~(\/ ExistsRetry(r) \/ ExistsFails(r) \/ BadFile(r) \/ RenameFails(r)
                   \/ FetchError(r) \/ Abort(r) \/ Crash(r))
           /\ \A d \in Deleting : ~(Expire(d) \/ DeleterDies(d))
           /\ ~SkipLocked /\ ~LoaderAdd /\ ~LoaderEnds /\ \A k \in Keys : ~LoaderVisit(k)
<1>1. ~conf.faults /\ ~conf.errors /\ ~conf.manager /\ crashes = 0 /\ crashes' = 0
  BY DEF Calm, Undisturbed
<1>2. \A d \in Deleting : del[d] = NoDeletion
  BY DEF SizeParts, Quiet
<1>3. \A d \in Deleting : ~MayDelete(d)
  BY <1>1 DEF MayDelete, SizeParts, RequestsPlain, Deleting
<1>4. \A d \in Deleting : ~(Expire(d) \/ DeleterDies(d))
  BY <1>2, <1>3 DEF Expire, ExpireEmpty, Delete, Unlink, DeleteFinish, GiveUp, DeleterDies, NoDeletion
<1>5. ~SkipLocked
  BY <1>3 DEF SkipLocked, Deleting
<1>6. \A r \in Requests : ~ExistsRetry(r) /\ ~ExistsFails(r)
  BY DEF ExistsRetry, ExistsFails, SizeParts, RequestsPlain
<1>7. \A r \in Requests : ~(BadFile(r) \/ RenameFails(r) \/ FetchError(r) \/ Abort(r) \/ Crash(r))
  BY <1>1 DEF BadFile, RenameFails, FetchError, Abort, Crash
<1>8. ~LoaderAdd /\ ~LoaderEnds /\ \A k \in Keys : ~LoaderVisit(k)
  BY DEF SizeParts, Quiet, LoaderAdd, LoaderEnds, LoaderVisit
<1> QED
  BY <1>4, <1>5, <1>6, <1>7, <1>8

(* Memory suffices: an entry for each key at most. *)
LEMMA MemorySuffices ==
    ASSUME IInv, SizeParts, Calm, NEW r \in Requests, Used = Memory
    PROVE  ~ExistsFull(r)
<1> SUFFICES ASSUME ExistsFull(r) PROVE FALSE
  OBVIOUS
<1>1. c[r].key \in Keys /\ Lookup(c[r].key) = {}
  BY ActiveRequest DEF ExistsFull, Missing, IInv, Types, Request
<1> DEFINE f == [n \in Used |-> node[n].key]
           K == Keys \ {c[r].key}
<1>2. \A n \in Used : node[n].key \in K
  BY <1>1, UsedIsEntry DEF Lookup, Used, IInv, Entry
<1>3. f \in Injection(Used, K)
  BY <1>2 DEF Injection, IsInjective, SizeParts, EntriesPlain
<1>4. IsFiniteSet(Keys) /\ IsFiniteSet(K) /\ IsFiniteSet(Used)
      /\ Cardinality(K) = Cardinality(Keys) - 1
      /\ Cardinality(Keys) \in Nat /\ Cardinality(K) \in Nat /\ Cardinality(Used) \in Nat
  BY <1>1, ConstantsOK, StoredFinite, FS_RemoveElement, FS_CardinalityType
<1>5. Cardinality(Used) <= Cardinality(K)
  BY <1>3, <1>4, FS_Injection
<1>6. Cardinality(Keys) <= Cardinality(Used)
  BY DEF Calm, Undisturbed
<1> HIDE DEF f, K
<1> QED
  BY <1>4, <1>5, <1>6

(* Steps that touch neither a file's name nor what the entry knows of it.  *)
LEMMA SizeSameSteps ==
    ASSUME IInv, IInv', SizeParts, Calm, conf' = conf, NEW r \in Requests,
           \/ OpenFile(r) \/ NoLock(r) \/ LockBusy(r) \/ LockWait(r) \/ LockTimeout(r)
           \/ FetchFails(r) \/ Revalidate(r) \/ Again(r) \/ Read(r) \/ ReadStale(r) \/ Lock(r)
           \/ Reopen(r) \/ UpdateVariant(r)
    PROVE  SizeParts'
<1>1. Types /\ Types' /\ c \in [Requests -> Request \cup {NoRequest}]
  BY DEF IInv, Types, RequestsTyped
<1>2. ~cold
  BY DEF SizeParts, Quiet
<1>3. UNCHANGED <<cold, del, found>>
  BY DEF OpenFile, NoLock, LockBusy, LockWait, LockTimeout, FetchFails, Revalidate, Again, Read,
         ReadStale, Lock, Reopen, UpdateVariant, Frame
<1>4. \A q \in Requests \ {r} : c'[q] = c[q]
  BY <1>1 DEF OpenFile, NoLock, LockBusy, LockWait, LockTimeout, FetchFails, Revalidate, Again,
              Read, ReadStale, Lock, Reopen, UpdateVariant
<1>5. CASE ~Again(r)
  <2>1. c[r].pc \notin {"done", "force", "retry", "update"}
    BY <1>5 DEF OpenFile, NoLock, LockBusy, LockWait, LockTimeout, FetchFails, Revalidate, Read,
                ReadStale, Lock, Reopen, UpdateVariant
  <2>2. r \in Active /\ c[r] \in Request /\ ~c[r].error
    BY <2>1, Deciding DEF SizeParts, RequestsPlain
  <2>3. c'[r].pc \notin {"force", "retry", "update"} /\ c'[r].error = c[r].error
    BY <1>1, <1>5, <2>2
       DEF OpenFile, NoLock, LockBusy, LockWait, LockTimeout, FetchFails, Revalidate, Read,
           ReadStale, Lock, Reopen, UpdateVariant, Request
  <2>4. \A q \in Requests : /\ c'[q].pc \notin {"force", "retry"}
                            /\ q \in Active => ~c'[q].error
                            /\ c'[q].pc = "update" <=> c[q].pc = "update"
                            /\ c[q].pc = "update" =>
                                 c'[q].key = c[q].key /\ c'[q].fs = c[q].fs
    BY <1>4, <2>1, <2>2, <2>3 DEF SizeParts, RequestsPlain
  <2>5. \A k \in Keys : file'[k] # "none" <=> file[k] # "none"
    BY <1>1, <1>5 DEF OpenFile, NoLock, LockBusy, LockWait, LockTimeout, FetchFails, Revalidate,
           Read, ReadStale, Lock, Reopen, UpdateVariant, Types, OtherTypes
  <2>6. CASE ~(Read(r) \/ ReadStale(r) \/ Lock(r) \/ Reopen(r) \/ UpdateVariant(r))
    <3>1. node' = node /\ size' = size
      BY <1>5, <2>6 DEF OpenFile, NoLock, LockBusy, LockWait, LockTimeout, FetchFails, Revalidate
    <3> QED
      BY <1>3, <2>4, <2>5, <3>1, SizeKept
  <2>7. CASE Read(r)
    <3>1. node' = node /\ size' = size
      <4>1. c[r].node \in Slots
        BY <2>7, HeldEntry DEF Read, WithEntry
      <4>2. Learn(node[c[r].node]) = node[c[r].node]
        BY <1>2 DEF Learn
      <4>3. size \in Int
        BY <1>1 DEF Types, OtherTypes
      <4> QED
        BY <1>1, <2>7, <4>1, <4>2, <4>3 DEF Read, Types
    <3> QED
      BY <1>3, <2>4, <2>5, <3>1, SizeKept
  <2>8. CASE ReadStale(r) \/ Lock(r) \/ Reopen(r) \/ UpdateVariant(r)
    <3>1. c[r].pc \in WithEntry /\ size' = size
      BY <2>8 DEF ReadStale, Lock, Reopen, UpdateVariant, WithEntry
    <3>2. PICK n \in Slots : n = c[r].node /\ node[n] \in Entry
      BY <3>1, HeldEntry
    <3>3. \A x \in Slots \ {n} : node'[x] = node[x]
      BY <1>1, <2>8, <3>2 DEF ReadStale, Lock, Reopen, UpdateVariant, Types
    <3>4. /\ node'[n].key = node[n].key /\ node'[n].fs = node[n].fs
          /\ node'[n].exists = node[n].exists /\ node'[n].error = node[n].error
      <4>1. \/ node' = [node EXCEPT ![n].updating = TRUE]
            \/ node' = [node EXCEPT ![n].updating = TRUE, ![n].live = TRUE, ![n].lock = @ + 1]
            \/ node' = [node EXCEPT ![n] = Released(@)]
            \/ node' = [node EXCEPT ![n] = [Released(@) EXCEPT !.updating = FALSE]]
        BY <2>8, <3>2 DEF ReadStale, Lock, Reopen, UpdateVariant
      <4>2. \/ node'[n] = [node[n] EXCEPT !.updating = TRUE]
            \/ node'[n] = [node[n] EXCEPT !.updating = TRUE, !.live = TRUE, !.lock = @ + 1]
            \/ node'[n] = Released(node[n])
            \/ node'[n] = [Released(node[n]) EXCEPT !.updating = FALSE]
        BY <1>1, <4>1 DEF Types
      <4> QED
        BY <3>2, <4>2 DEF Released, Entry
    <3>5. \A x \in Slots : node'[x].key = node[x].key
      BY <3>3, <3>4
    <3>6. \A x \in Used : /\ node'[x].fs = node[x].fs /\ node'[x].exists = node[x].exists
                          /\ node'[x].error = node[x].error
      BY <3>3, <3>4 DEF Used
    <3> QED
      BY <1>3, <2>4, <2>5, <3>1, <3>5, <3>6, SizeKept
  <2> QED
    BY <2>6, <2>7, <2>8
<1>6. CASE Again(r)
  <2>1. c'[r] = NewRequest(r) /\ UNCHANGED <<node, size, file>> /\ c[r].pc = "done"
    BY <1>1, <1>6 DEF Again
  <2>2. c'[r].pc = "open" /\ c'[r].error = FALSE
    BY <2>1 DEF NewRequest
  <2>3. \A q \in Requests : /\ c'[q].pc \notin {"force", "retry"}
                            /\ q \in Active => ~c'[q].error
                            /\ c'[q].pc = "update" <=> c[q].pc = "update"
                            /\ c[q].pc = "update" =>
                                 c'[q].key = c[q].key /\ c'[q].fs = c[q].fs
    BY <1>4, <2>1, <2>2 DEF SizeParts, RequestsPlain
  <2> QED
    BY <1>3, <2>1, <2>3, SizeKept
<1> QED
  BY <1>5, <1>6

LEMMA SizeTime ==
    ASSUME IInv, SizeParts, conf' = conf,
           \/ \E k \in Keys : FileExpires(k)
           \/ \E n \in Slots : ErrorExpires(n) \/ LockAges(n)
    PROVE  SizeParts'
<1>1. UNCHANGED <<size, cold, del, found, c>> /\ Types
  BY DEF FileExpires, ErrorExpires, LockAges, IInv
<1>2. \A k \in Keys : file'[k] # "none" <=> file[k] # "none"
  BY <1>1 DEF FileExpires, ErrorExpires, LockAges, Types, OtherTypes
<1>3. \A q \in Requests : c[q].pc \notin {"force", "retry"} /\ (q \in Active => ~c[q].error)
  BY DEF SizeParts, RequestsPlain
<1>4. CASE \E k \in Keys : FileExpires(k)
  BY <1>1, <1>2, <1>4, <1>3, SizeKept DEF FileExpires
<1>5. ASSUME NEW n \in Slots, ErrorExpires(n) \/ LockAges(n) PROVE SizeParts'
  <2>1. file' = file /\ node[n] \in Entry
    BY <1>5, UsedIsEntry DEF ErrorExpires, LockAges, IInv
  <2>2. \/ node' = [node EXCEPT ![n] = [node[n] EXCEPT !.valid = FALSE]]
        \/ node' = [node EXCEPT ![n] = [node[n] EXCEPT !.live = FALSE]]
    BY <1>5 DEF ErrorExpires, LockAges
  <2>3. \A x \in Slots \ {n} : node'[x] = node[x]
    BY <1>1, <2>2 DEF Types
  <2>4. /\ node'[n].key = node[n].key /\ node'[n].fs = node[n].fs
        /\ node'[n].exists = node[n].exists /\ node'[n].error = node[n].error
    BY <1>1, <2>1, <2>2 DEF Types, Entry
  <2>5. /\ \A x \in Slots : node'[x].key = node[x].key
        /\ \A x \in Used : /\ node'[x].fs = node[x].fs /\ node'[x].exists = node[x].exists
                            /\ node'[x].error = node[x].error
    BY <2>3, <2>4 DEF Used
  <2> QED
    BY <1>1, <1>2, <1>3, <2>5, SizeKept
<1> QED
  BY <1>4, <1>5

LEMMA SizeFound ==
    ASSUME IInv, SizeParts, conf' = conf, NEW r \in Requests, ExistsFound(r)
    PROVE  SizeParts'
<1>1. /\ c[r].pc = "open" /\ UNCHANGED <<size, file, cold, del, found>>
      /\ Types /\ c \in [Requests -> Request \cup {NoRequest}]
  BY DEF ExistsFound, Frame, IInv, Types, RequestsTyped
<1>2. r \in Active /\ c[r] \in Request
  BY <1>1, Deciding
<1>3. PICK n \in IF c[r].node # Nil THEN {c[r].node} ELSE Lookup(c[r].key) :
        LET m == [node[n] EXCEPT !.count = @ + TakesReference(r)]
            renew == m.error /\ ~m.valid
        IN /\ node' = [node EXCEPT ![n] = IF renew
                         THEN [m EXCEPT !.error = FALSE, !.exists = FALSE, !.fs = 0]
                         ELSE m]
           /\ c' = [c EXCEPT ![r].node = n, ![r].error = m.error /\ ~renew,
                             ![r].pc = Then(r, CASE m.error /\ ~renew -> "serve"
                                                 [] renew /\ cold -> "test"
                                                 [] ~renew /\ m.exists -> "test"
                                                 [] OTHER -> "lock")]
  BY DEF ExistsFound
<1>4. n \in Slots /\ n \in Used /\ node[n] \in Entry
  <2>1. CASE c[r].node # Nil
    BY <1>2, <1>3, <2>1, HeldIsCounted DEF Request
  <2>2. CASE c[r].node = Nil
    BY <1>3, <2>2, UsedIsEntry DEF Lookup, Used, IInv
  <2> QED
    BY <2>1, <2>2
<1>5. ~node[n].error
  BY <1>4 DEF SizeParts, EntriesPlain
<1> DEFINE m == [node[n] EXCEPT !.count = @ + TakesReference(r)]
<1>6. /\ m.key = node[n].key /\ m.fs = node[n].fs /\ m.exists = node[n].exists
      /\ m.error = node[n].error /\ ~m.error
  BY <1>4, <1>5 DEF Entry
<1>7. node' = [node EXCEPT ![n] = m]
  BY <1>3, <1>6
<1>8. \E p \in {"fetch", "test", "lock"} :
          c' = [c EXCEPT ![r].node = n, ![r].error = FALSE, ![r].pc = p]
  BY <1>3, <1>6 DEF Then
<1> HIDE DEF m
<1>9. /\ \A x \in Slots : node'[x].key = node[x].key
      /\ \A x \in Used : /\ node'[x].fs = node[x].fs /\ node'[x].exists = node[x].exists
                         /\ node'[x].error = node[x].error
  BY <1>1, <1>4, <1>6, <1>7 DEF Types, Used
<1>10. /\ \A q \in Requests \ {r} : c'[q] = c[q]
       /\ c'[r].pc \in {"fetch", "test", "lock"} /\ c'[r].error = FALSE
  BY <1>1, <1>2, <1>8 DEF Request
<1>11. \A q \in Requests : /\ c'[q].pc \notin {"force", "retry"}
                           /\ q \in Active => ~c'[q].error
                           /\ c'[q].pc = "update" <=> c[q].pc = "update"
                           /\ c[q].pc = "update" =>
                                c'[q].key = c[q].key /\ c'[q].fs = c[q].fs
  BY <1>1, <1>10 DEF SizeParts, RequestsPlain
<1> QED
  BY <1>1, <1>9, <1>11, SizeKept

LEMMA SizeNew ==
    ASSUME IInv, SizeParts, conf' = conf, NEW r \in Requests, ExistsNew(r)
    PROVE  SizeParts'
<1>1. /\ c[r].pc = "open" /\ UNCHANGED <<size, file, cold, del, found>>
      /\ Types /\ c \in [Requests -> Request \cup {NoRequest}] /\ Lookup(c[r].key) = {}
  BY DEF ExistsNew, Missing, Frame, IInv, Types, RequestsTyped
<1>2. r \in Active /\ c[r] \in Request
  BY <1>1, Deciding
<1>3. PICK n \in Memory \ Used : Insert(r, n)
  BY DEF ExistsNew
<1>4. n \in Slots /\ n \in Memory /\ n \notin Used /\ Memory' = Memory
  BY <1>3 DEF Memory
<1> DEFINE m == [NewNode(c[r].key) EXCEPT !.count = 1]
<1>5. m.key = c[r].key /\ m.key # Nil /\ m.fs = 0 /\ m.exists = FALSE /\ m.error = FALSE
  BY <1>2, ConstantsOK DEF NewNode, Request
<1>6. node' = [node EXCEPT ![n] = m]
  BY <1>3 DEF Insert
<1> HIDE DEF m
<1>7. node'[n] = m /\ \A x \in Slots \ {n} : node'[x] = node[x]
  BY <1>1, <1>4, <1>6 DEF Types
<1>8. Used' = Used \cup {n} /\ Used \subseteq Slots
  BY <1>4, <1>5, <1>7 DEF Used
<1>9. Stored' = Stored /\ Stored \subseteq Slots /\ n \notin Stored
  BY <1>4, <1>5, <1>7, <1>8 DEF Stored
<1>10. \E p \in {"fetch", "test", "lock"} :
          c' = [c EXCEPT ![r].node = n, ![r].error = FALSE, ![r].pc = p]
  BY <1>3 DEF Insert, Then
<1>11. /\ \A q \in Requests \ {r} : c'[q] = c[q]
       /\ c'[r].pc \in {"fetch", "test", "lock"} /\ c'[r].error = FALSE
  BY <1>1, <1>2, <1>10 DEF Request
<1>12. Quiet' /\ SizeOfStored'
  BY <1>1, <1>9 DEF SizeParts, Quiet, SizeOfStored
<1>13. RequestsPlain'
  BY <1>11 DEF SizeParts, RequestsPlain, Active
<1>14. EntriesPlain'
  <2>1. \A x \in Used : node[x].key # c[r].key
    BY <1>1 DEF Lookup
  <2>2. \A x, y \in Used' : node'[x].key = node'[y].key => x = y
    BY <1>5, <1>7, <1>8, <2>1 DEF SizeParts, EntriesPlain
  <2>3. \A x \in Used' : ~node'[x].error /\ (node'[x].exists <=> node'[x].fs = 1)
    BY <1>5, <1>7, <1>8 DEF SizeParts, EntriesPlain
  <2> QED
    BY <1>4, <1>8, <2>2, <2>3 DEF SizeParts, EntriesPlain
<1>15. \A k \in Keys : OnDisk(k)' <=> OnDisk(k)
  BY <1>1, <1>7, <1>9, <1>11 DEF OnDisk
<1>16. FilesKnown'
  BY <1>1, <1>15 DEF SizeParts, FilesKnown
<1> QED
  BY <1>12, <1>13, <1>14, <1>16 DEF SizeParts

LEMMA SizeRename ==
    ASSUME IInv, SizeParts, conf' = conf, NEW r \in Requests, Rename(r)
    PROVE  SizeParts'
<1>1. /\ c[r].pc = "fetch" /\ UNCHANGED <<node, size, cold, del, found>>
      /\ Types /\ c \in [Requests -> Request \cup {NoRequest}]
      /\ file' = [file EXCEPT ![c[r].key] = "fresh"]
      /\ c' = [c EXCEPT ![r].pc = "update", ![r].fs = 1]
  BY DEF Rename, Frame, IInv, Types, RequestsTyped
<1>2. r \in Active /\ c[r] \in Request
  BY <1>1, Deciding
<1>3. /\ \A q \in Requests \ {r} : c'[q] = c[q]
      /\ c'[r].pc = "update" /\ c'[r].fs = 1 /\ c'[r].error = c[r].error /\ c'[r].key = c[r].key
      /\ c[r].key \in Keys
  BY <1>1, <1>2 DEF Request
<1>4. Used' = Used /\ Stored' = Stored
  BY <1>1 DEF Used, Stored
<1>5. Quiet' /\ SizeOfStored'
  BY <1>1, <1>4 DEF SizeParts, Quiet, SizeOfStored
<1>6. RequestsPlain'
  BY <1>3 DEF SizeParts, RequestsPlain, Active
<1>7. EntriesPlain'
  BY <1>1, <1>4 DEF SizeParts, EntriesPlain, Memory
<1>8. ASSUME NEW k \in Keys PROVE file'[k] # "none" <=> OnDisk(k)'
  <2>1. file \in [Keys -> {"none", "fresh", "expired"}]
    BY <1>1 DEF Types, OtherTypes
  <2>2. CASE k = c[r].key
    BY <1>1, <1>3, <2>1, <2>2 DEF OnDisk
  <2>3. CASE k # c[r].key
    <3>1. file'[k] = file[k]
      BY <1>1, <2>1, <2>3
    <3>2. OnDisk(k)' <=> OnDisk(k)
      BY <1>1, <1>3, <1>4, <2>3 DEF OnDisk
    <3> QED
      BY <3>1, <3>2 DEF SizeParts, FilesKnown
  <2> QED
    BY <2>2, <2>3
<1> QED
  BY <1>5, <1>6, <1>7, <1>8 DEF SizeParts, FilesKnown

(* The entry of r changes, or goes, and r is done. *)
LEMMA RequestDone ==
    ASSUME IInv, SizeParts, NEW r \in Requests, c[r] \in Request,
           c' = [c EXCEPT ![r].pc = "done", ![r].node = Nil, ![r].updating = FALSE]
    PROVE  /\ \A q \in Requests \ {r} : c'[q] = c[q]
           /\ c'[r].pc = "done" /\ c'[r].error = c[r].error
           /\ conf' = conf => RequestsPlain'
<1>1. c \in [Requests -> Request \cup {NoRequest}]
  BY DEF IInv, Types, RequestsTyped
<1>2. /\ \A q \in Requests \ {r} : c'[q] = c[q]
      /\ c'[r].pc = "done" /\ c'[r].error = c[r].error
  BY <1>1 DEF Request
<1> QED
  BY <1>2 DEF SizeParts, RequestsPlain, Active

LEMMA SizeUpdate ==
    ASSUME IInv, SizeParts, conf' = conf, NEW r \in Requests, Update(r)
    PROVE  SizeParts'
<1>1. /\ c[r].pc = "update" /\ c[r].pc \in WithEntry /\ c[r].fs = 1
      /\ UNCHANGED <<file, cold, del, found>> /\ Types
  BY DEF Update, WithEntry, Frame, SizeParts, RequestsPlain, IInv
<1>2. PICK n \in Slots : n = c[r].node /\ n \in Used /\ node[n] \in Entry /\ node[n].key = c[r].key
                        /\ c[r] \in Request
  BY <1>1, HeldEntry
<1>3. /\ node' = [node EXCEPT ![n] = Released(Updated(@, r))]
      /\ size' = size + (c[r].fs - node[n].fs)
      /\ c' = [c EXCEPT ![r].pc = "done", ![r].node = Nil, ![r].updating = FALSE]
  BY <1>2 DEF Update, Growth
<1>4. /\ \A q \in Requests \ {r} : c'[q] = c[q]
      /\ c'[r].pc = "done" /\ RequestsPlain'
  BY <1>2, <1>3, RequestDone
<1>5. node'[n] = Released(Updated(node[n], r)) /\ \A x \in Slots \ {n} : node'[x] = node[x]
  BY <1>1, <1>3 DEF Types
<1>6. /\ node'[n].key = node[n].key /\ node'[n].fs = 1
      /\ node'[n].exists = TRUE /\ node'[n].error = FALSE
  <2> DEFINE u == Updated(node[n], r)
  <2>1. /\ u.key = node[n].key /\ u.fs = 1 /\ u.exists = TRUE /\ u.error = FALSE
        /\ u = [u EXCEPT !.key = node[n].key]
        /\ u \in [key : Keys, count : Nat, exists : BOOLEAN, fs : {0, 1}, updating : BOOLEAN,
                  deleting : BOOLEAN, lock : Nat, live : BOOLEAN, error : BOOLEAN,
                  valid : BOOLEAN]
    BY <1>1, <1>2 DEF Updated, Entry
  <2> HIDE DEF u
  <2>2. node'[n] = [u EXCEPT !.count = @ - 1]
    BY <1>5 DEF Released, u
  <2> QED
    BY <2>1, <2>2
<1>7. Used' = Used /\ Used \subseteq Slots
  BY <1>2, <1>5, <1>6 DEF Used
<1>8. Stored' = Stored \cup {n} /\ Stored \subseteq Slots
  BY <1>2, <1>5, <1>6, <1>7 DEF Stored
<1>9. SizeOfStored'
  <2>1. size = Cardinality(Stored) /\ Cardinality(Stored) \in Nat /\ IsFiniteSet(Stored)
    BY StoredFinite DEF SizeParts, SizeOfStored
  <2>2. CASE n \in Stored
    <3>1. Stored' = Stored /\ node[n].fs = 1
      BY <1>8, <2>2 DEF Stored
    <3> QED
      BY <1>1, <1>3, <2>1, <3>1 DEF SizeOfStored
  <2>3. CASE n \notin Stored
    <3>1. node[n].fs = 0
      BY <1>2, <2>3 DEF Stored, Entry
    <3>2. Cardinality(Stored') = Cardinality(Stored) + 1
      BY <1>8, <2>1, <2>3, FS_AddElement
    <3> QED
      BY <1>1, <1>3, <2>1, <3>1, <3>2 DEF SizeOfStored
  <2> QED
    BY <2>2, <2>3
<1>10. Quiet'
  BY <1>1 DEF SizeParts, Quiet
<1>11. EntriesPlain'
  <2>1. Memory' = Memory
    BY DEF Memory
  <2>2. \A x, y \in Used' : node'[x].key = node'[y].key => x = y
    BY <1>5, <1>6, <1>7 DEF SizeParts, EntriesPlain
  <2>3. \A x \in Used' : ~node'[x].error /\ (node'[x].exists <=> node'[x].fs = 1)
    BY <1>5, <1>6, <1>7 DEF SizeParts, EntriesPlain
  <2> QED
    BY <1>7, <2>1, <2>2, <2>3 DEF SizeParts, EntriesPlain
<1>12. \A k \in Keys : OnDisk(k)' <=> OnDisk(k)
  <2>1. \A x \in Slots : node'[x].key = node[x].key
    BY <1>5, <1>6
  <2>2. ASSUME NEW k \in Keys, k = c[r].key PROVE OnDisk(k)' /\ OnDisk(k)
    BY <1>1, <1>2, <1>6, <1>8, <2>2 DEF OnDisk
  <2>3. ASSUME NEW k \in Keys, k # c[r].key PROVE OnDisk(k)' <=> OnDisk(k)
    BY <1>1, <1>2, <1>4, <1>8, <2>1, <2>3 DEF OnDisk
  <2> QED
    BY <2>2, <2>3
<1>13. FilesKnown'
  BY <1>1, <1>12 DEF SizeParts, FilesKnown
<1> QED
  BY <1>4, <1>9, <1>10, <1>11, <1>13 DEF SizeParts

LEMMA SizeFree ==
    ASSUME IInv, SizeParts, conf' = conf, NEW r \in Requests, Free(r)
    PROVE  SizeParts'
<1>1. /\ c[r].pc = "serve" /\ c[r].pc \in WithEntry
      /\ UNCHANGED <<size, file, cold, del, found>> /\ Types
  BY DEF Free, WithEntry, Frame, IInv
<1>2. PICK n \in Slots : n = c[r].node /\ n \in Used /\ node[n] \in Entry /\ c[r] \in Request
                        /\ r \in Active
  BY <1>1, HeldEntry
<1>3. ~c[r].error /\ ~node[n].error /\ (node[n].exists <=> node[n].fs = 1)
  BY <1>2 DEF SizeParts, RequestsPlain, EntriesPlain
<1> DEFINE m == [node[n] EXCEPT
                   !.count = @ - 1,
                   !.updating = @ /\ ~(c[r].updating /\ node[n].lock = c[r].lock),
                   !.error = @ \/ c[r].error, !.valid = @ \/ c[r].valid]
           gone == ~c[r].error /\ LastReference(m)
<1>4. /\ node' = [node EXCEPT ![n] = IF gone THEN FreeMemory ELSE m]
      /\ c' = [c EXCEPT ![r].pc = "done", ![r].node = Nil, ![r].updating = FALSE]
  BY <1>2 DEF Free
<1>5. /\ m.key = node[n].key /\ m.fs = node[n].fs /\ m.exists = node[n].exists
      /\ (m.error <=> FALSE)
  BY <1>2, <1>3 DEF Entry
<1>6. gone => node[n].fs # 1
  BY <1>3, <1>5 DEF LastReference
<1> HIDE DEF m, gone
<1>7. /\ \A q \in Requests \ {r} : c'[q] = c[q]
      /\ c'[r].pc = "done" /\ RequestsPlain'
  BY <1>2, <1>4, RequestDone
<1>8. /\ node'[n] = IF gone THEN FreeMemory ELSE m
      /\ \A x \in Slots \ {n} : node'[x] = node[x]
  BY <1>1, <1>4 DEF Types
<1>9. Used' = (IF gone THEN Used \ {n} ELSE Used) /\ Used \subseteq Slots
  BY <1>2, <1>5, <1>8 DEF Used, FreeMemory
<1>10. Stored' = Stored /\ Stored \subseteq Slots /\ (gone => n \notin Stored)
  BY <1>2, <1>5, <1>6, <1>8, <1>9 DEF Stored
<1>11. \A x \in Used' : /\ node'[x].key = node[x].key /\ node'[x].fs = node[x].fs
                        /\ (node'[x].exists <=> node[x].exists)
                        /\ ~node'[x].error /\ x \in Used
  BY <1>2, <1>5, <1>8, <1>9 DEF SizeParts, EntriesPlain
<1>12. Quiet' /\ SizeOfStored'
  BY <1>1, <1>10 DEF SizeParts, Quiet, SizeOfStored
<1>13. EntriesPlain'
  <2>1. Memory' = Memory
    BY DEF Memory
  <2> QED
    BY <1>9, <1>11, <2>1 DEF SizeParts, EntriesPlain
<1>14. \A k \in Keys : OnDisk(k)' <=> OnDisk(k)
  <2>1. \A x \in Stored : node'[x].key = node[x].key
    BY <1>10, <1>11 DEF Stored
  <2>2. \A q \in Requests : /\ c'[q].pc = "update" <=> c[q].pc = "update"
                            /\ c[q].pc = "update" => c'[q].key = c[q].key
    BY <1>1, <1>7
  <2> QED
    BY <1>10, <2>1, <2>2 DEF OnDisk
<1>15. FilesKnown'
  BY <1>1, <1>14 DEF SizeParts, FilesKnown
<1> QED
  BY <1>7, <1>12, <1>13, <1>15 DEF SizeParts

LEMMA OnlyCrashCounts ==
    ASSUME [Next]_vars
    PROVE  crashes' = crashes \/ \E r \in Requests : Crash(r)
<1>1. CASE UNCHANGED vars
  BY <1>1 DEF vars
<1>2. CASE Next
  <2>1. ASSUME NEW r \in Requests, Step(r) \/ Response(r) \/ Reopen(r) \/ BadFile(r) \/ Abort(r)
        PROVE  crashes' = crashes
    <3>1. Step(r) => Frame
      BY DEF Step, ExistsFound, ExistsNew, ExistsFull, ExistsRetry, ExistsFails, OpenFile, Read,
             ReadStale, NoLock, Lock, LockBusy, LockWait, Update, Free
    <3>2. Response(r) \/ Reopen(r) \/ BadFile(r) \/ Abort(r) => Frame
      BY DEF Response, Rename, RenameFails, Revalidate, FetchFails, FetchError, UpdateVariant,
             Reopen, BadFile, Abort
    <3> QED
      BY <2>1, <3>1, <3>2 DEF Frame
  <2>2. ASSUME NEW r \in Requests, LockTimeout(r) \/ Again(r) PROVE crashes' = crashes
    BY <2>2 DEF LockTimeout, Again, Frame
  <2>3. ASSUME NEW d \in Requests \cup {Manager}, Expire(d) \/ DeleterDies(d)
        PROVE  crashes' = crashes
    BY <2>3 DEF Expire, ExpireEmpty, Delete, Unlink, DeleteFinish, GiveUp, DeleterDies
  <2>4. CASE \/ SkipLocked \/ LoaderAdd \/ LoaderEnds
             \/ \E k \in Keys : LoaderVisit(k) \/ FileExpires(k)
             \/ \E n \in Slots : ErrorExpires(n) \/ LockAges(n)
    BY <2>4 DEF SkipLocked, LoaderAdd, LoaderEnds, LoaderVisit, FileExpires, ErrorExpires, LockAges
  <2> QED
    BY <1>2, <2>1, <2>2, <2>3, <2>4 DEF Next
<1> QED
  BY <1>1, <1>2

LEMMA SizeInductive == IInv /\ SizeInv /\ [Next]_vars => SizeInv'
<1> SUFFICES ASSUME IInv, SizeInv, [Next]_vars, Calm' PROVE SizeParts'
  BY DEF SizeInv
<1>1. IInv'
  BY Inductive
<1>2. conf' = conf
  BY DEF Next, vars
<1>3. crashes \in Nat /\ (crashes' = crashes \/ crashes' = crashes + 1)
  <2>1. crashes \in Nat
    BY DEF IInv, Types, OtherTypes
  <2>2. crashes' = crashes \/ \E r \in Requests : Crash(r)
    BY OnlyCrashCounts
  <2> QED
    BY <2>1, <2>2 DEF Crash
<1>4. Calm
  BY <1>2, <1>3 DEF Calm, Undisturbed, Memory
<1>5. SizeParts
  BY <1>4 DEF SizeInv
<1>6. CASE UNCHANGED vars
  <2>1. \A q \in Requests : c[q].pc \notin {"force", "retry"} /\ (q \in Active => ~c[q].error)
    BY <1>5 DEF SizeParts, RequestsPlain
  <2> QED
    BY <1>2, <1>5, <1>6, <2>1, SizeKept DEF vars
<1>7. CASE Next
  <2>1. ASSUME NEW r \in Requests, Step(r) PROVE SizeParts'
    <3>1. ~ExistsRetry(r) /\ ~ExistsFails(r)
      BY <1>2, <1>4, <1>5, Impossible
    <3>2. ~ExistsFull(r)
      BY <1>4, <1>5, MemorySuffices DEF ExistsFull
    <3> QED
      BY <1>1, <1>2, <1>4, <1>5, <2>1, <3>1, <3>2, SizeSameSteps, SizeFound, SizeNew, SizeUpdate,
         SizeFree DEF Step
  <2>2. ASSUME NEW r \in Requests, Response(r) PROVE SizeParts'
    <3>1. ~RenameFails(r) /\ ~FetchError(r)
      BY <1>2, <1>4, <1>5, Impossible
    <3> QED
      BY <1>1, <1>2, <1>4, <1>5, <2>2, <3>1, SizeSameSteps, SizeRename DEF Response
  <2>3. ASSUME NEW r \in Requests,
               \/ Reopen(r) \/ BadFile(r) \/ Abort(r) \/ LockTimeout(r) \/ Again(r) \/ Crash(r)
        PROVE  SizeParts'
    <3>1. ~BadFile(r) /\ ~Abort(r) /\ ~Crash(r)
      BY <1>2, <1>4, <1>5, Impossible
    <3> QED
      BY <1>1, <1>2, <1>4, <1>5, <2>3, <3>1, SizeSameSteps
  <2>4. ASSUME NEW d \in Deleting, Expire(d) \/ DeleterDies(d) PROVE SizeParts'
    BY <1>2, <1>4, <1>5, <2>4, Impossible
  <2>5. CASE SkipLocked \/ LoaderAdd \/ LoaderEnds \/ \E k \in Keys : LoaderVisit(k)
    BY <1>2, <1>4, <1>5, <2>5, Impossible
  <2>6. CASE \/ \E k \in Keys : FileExpires(k)
             \/ \E n \in Slots : ErrorExpires(n) \/ LockAges(n)
    BY <1>2, <1>5, <2>6, SizeTime
  <2> QED
    BY <1>7, <2>1, <2>2, <2>3, <2>4, <2>5, <2>6 DEF Next, Deleting
<1> QED
  BY <1>6, <1>7

-----------------------------------------------------------------------------
(* The theorems.                                                           *)

LEMMA TypesMean == IInv => TypeOK
<1> SUFFICES ASSUME IInv PROVE TypeOK
  OBVIOUS
<1>1. Types /\ RequestsTyped /\ OtherTypes
  BY DEF IInv, Types
<1>2. ASSUME NEW n \in Used
      PROVE  /\ node[n].key \in Keys /\ {node[n].count, node[n].lock} \subseteq Nat
             /\ node[n].fs \in {0, 1}
             /\ \A f \in {"exists", "updating", "deleting", "live", "error", "valid"} :
                    node[n][f] \in BOOLEAN
  <2>1. node[n] \in Entry
    BY <1>1, <1>2, UsedIsEntry DEF Used
  <2> QED
    BY <2>1 DEF Entry
<1>3. \A i \in DOMAIN queue : queue[i] \in Slots
  BY <1>1 DEF Types
<1>4. ASSUME NEW r \in Requests
      PROVE  /\ c[r].node \in Slots \cup {Nil}
             /\ r \in Active => c[r].key \in Keys /\ c[r].fs \in {0, 1}
             /\ c[r].pc \in PCs
  BY <1>1, <1>4 DEF RequestsTyped, Request, NoRequest, PCs
<1>5. \A d \in DOMAIN del : del[d].pc \in {"no", "unlink", "finish"} /\ del[d].node \in Slots \cup {Nil}
  BY <1>1 DEF Types, Deletion
<1> QED
  BY <1>1, <1>2, <1>3, <1>4, <1>5 DEF TypeOK, Types, OtherTypes, PCs

(* At rest the files are those of the entries that have a block. *)
LEMMA SizeIsFiles == IInv /\ SizeInv => SizeCountsFiles
<1> SUFFICES ASSUME IInv, SizeInv, Resting, Undisturbed, crashes = 0
             PROVE  size = Cardinality({k \in Keys : file[k] # "none"})
  BY DEF SizeCountsFiles
<1>1. SizeParts
  BY DEF SizeInv, Calm
<1> DEFINE F == {k \in Keys : file[k] # "none"}
           f == [n \in Stored |-> node[n].key]
<1>2. \A n \in Stored : n \in Used /\ node[n].key \in Keys
  BY UsedIsEntry DEF Stored, Used, IInv, Entry
<1>3. \A k \in Keys : k \in F <=> \E n \in Stored : node[n].key = k
  BY <1>1 DEF SizeParts, FilesKnown, OnDisk, Resting
<1>4. f \in Bijection(Stored, F)
  <2>1. f \in [Stored -> F]
    BY <1>2, <1>3
  <2>2. \A x, y \in Stored : f[x] = f[y] => x = y
    BY <1>1, <1>2 DEF SizeParts, EntriesPlain
  <2>3. \A k \in F : \E n \in Stored : f[n] = k
    BY <1>3
  <2> HIDE DEF f, F
  <2> QED
    BY <2>1, <2>2, <2>3 DEF Bijection, Injection, Surjection, IsInjective
<1>5. Cardinality(F) = Cardinality(Stored)
  BY <1>4, StoredFinite, FS_Bijection DEF ExistsBijection
<1> QED
  BY <1>1, <1>5 DEF SizeParts, SizeOfStored

(* Types, and that what the code keeps about an entry is what is so: the   *)
(* reference count, the queue, and the memory of an entry in use.          *)
THEOREM EntriesAreExact ==
    Spec => [](TypeOK /\ HeldEntriesStay /\ ReferencesExact /\ QueueExact)
<1>1. IInv => HeldEntriesStay /\ ReferencesExact /\ QueueExact
  BY DEF IInv, HeldEntriesStay, ReferencesExact, EntryExact, Used
<1> QED
  BY <1>1, TypesMean, EntriesInv, PTL

(* With nothing deleted or lost, the size that max_size is compared with   *)
(* is the number of blocks on the disk whenever the cache is at rest.      *)
THEOREM SizeIsExact == Spec => []SizeCountsFiles
<1>1. Spec => [](IInv /\ SizeInv)
  BY Initially, SizeInitially, Inductive, SizeInductive, PTL DEF Spec
<1> QED
  BY <1>1, SizeIsFiles, PTL

(* EntriesKept, the invariant of the run: all of the above. *)
THEOREM EntriesStayKept == Spec => []EntriesKept
BY EntriesAreExact, SizeIsExact, PTL DEF EntriesKept
=============================================================================
