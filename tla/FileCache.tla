----------------------------- MODULE FileCache -----------------------------
(***************************************************************************)
(* The HTTP file cache: entries (nodes) in shared memory, files on disk,   *)
(* the requests of several workers, the cache manager that deletes entries *)
(* and the loader that finds the files of an earlier run.                  *)
(*                                                                         *)
(* A critical section under the mutex of the zone is one step.  What the   *)
(* code does without the mutex are steps of their own: opening the file,   *)
(* renaming the temporary file, unlinking a file, fetching the response.   *)
(* Times are replaced by what the code asks of them: whether a file, a     *)
(* cached error, a cache lock or a wait has expired; any entry may be the  *)
(* one that the manager finds inactive.  Every file is one block long, and *)
(* proxy_cache_min_uses is 1.                                              *)
(***************************************************************************)
EXTENDS Integers, FiniteSets, FiniteSetsExt, Queues

CONSTANTS
    Requests,
    Keys,        \* all keys, those of variants included
    Slots,       \* the addresses of entries in the zone
    Scenarios,   \* the configurations and surroundings a behaviour may have
    MaxDrift     \* bound: the recorded size stays within +-MaxDrift

(***************************************************************************)
(* A scenario says how the cache is configured: slots (entries that the    *)
(* zone has room for), lock (proxy_cache_lock), limited (a finite          *)
(* proxy_cache_lock_timeout), stale (proxy_cache_use_stale updating),      *)
(* errors (proxy_cache_valid for errors); what the world is like: main[r]  *)
(* is the key of request r, vary lets responses vary and a second key be   *)
(* used, disk has the keys with a file from an earlier run (the cache is   *)
(* cold then), manager tells whether the cache manager has anything to     *)
(* delete, faults damage files, fail renames and abort requests, repeat    *)
(* lets another request follow a finished one; and what happens at most:   *)
(* locks taken on an entry, crashes (requests lost with their worker),     *)
(* broken (deletions lost with the process that ran them).                 *)
(***************************************************************************)
Manager == "manager"
Nil == 0

ASSUME FileCacheAssumption ==
    /\ Manager \notin Requests /\ MaxDrift \in Nat
    /\ IsFiniteSet(Requests) /\ IsFiniteSet(Keys) /\ Nil \notin Keys
    /\ Slots \subseteq 1 .. 19  \* forced_expire tries 20 entries
    /\ \A s \in Scenarios :
          /\ DOMAIN s.main \subseteq Requests /\ Range(s.main) \cup s.disk \subseteq Keys
          /\ {s.lock, s.limited, s.stale, s.errors, s.vary, s.manager, s.faults, s.repeat}
                \subseteq BOOLEAN
          /\ s.vary => \A k \in Range(s.main) : Keys # {k}
          /\ {s.slots, s.locks, s.crashes, s.broken} \subseteq Nat

VARIABLES
    conf,     \* the scenario of this behaviour
    node,     \* the entries: node[n] is a record, FreeMemory where there is none
    queue,    \* sh->queue, the most recently used first
    size,     \* sh->size
    cold,     \* sh->cold
    file,     \* the disk: "none", "fresh" or "expired" for each key
    c,        \* r->cache of each request
    del,      \* the deletions under way, by the process that runs them
    walk,     \* the files the loader has still to visit
    found,    \* the file it has looked at last, or Nil
    leaked,   \* references that died with a worker, per entry (ghost)
    crashes,
    broken

vars == <<conf, node, queue, size, cold, file, c, del, walk, found, leaked, crashes, broken>>

FreeMemory == [key |-> Nil]
Memory == {n \in Slots : n <= conf.slots}
Active == DOMAIN conf.main

NewNode(k) ==
    [key |-> k, count |-> 0, exists |-> FALSE, fs |-> 0, updating |-> FALSE,
     deleting |-> FALSE, lock |-> 0, live |-> FALSE, error |-> FALSE, valid |-> FALSE]

NewRequest(r) ==
    [pc |-> "open", key |-> conf.main[r], node |-> Nil, updating |-> FALSE, lock |-> 0,
     secondary |-> FALSE, late |-> FALSE, patient |-> TRUE, cacheable |-> TRUE,
     old |-> FALSE, fs |-> 0, error |-> FALSE, valid |-> FALSE]

NoRequest == [pc |-> "done", node |-> Nil]

NoDeletion == [pc |-> "no", node |-> Nil]

(* ngx_http_file_cache_init *)
Init ==
    /\ conf \in Scenarios
    /\ node = [n \in Slots |-> FreeMemory] /\ queue = <<>> /\ size = 0
    /\ cold = (conf.disk # {})
    /\ file = [k \in Keys |-> IF k \in conf.disk THEN "fresh" ELSE "none"]
    /\ c = [r \in Requests |-> IF r \in Active THEN NewRequest(r) ELSE NoRequest]
    /\ del = [d \in Requests \cup {Manager} |-> NoDeletion]
    /\ walk = conf.disk /\ found = Nil
    /\ leaked = [n \in Slots |-> 0] /\ crashes = 0 /\ broken = 0

Used == {n \in Slots : node[n].key # Nil}
Lookup(k) == {n \in Used : node[n].key = k}
ToHeadCopied(q, n) == <<n>> \o q
ToHead(q, n) == <<n>> \o Without(q, n)
Fits(s) == s \in -MaxDrift .. MaxDrift
Frame == UNCHANGED <<cold, del, walk, found, leaked, crashes, broken>>

-----------------------------------------------------------------------------
(* ngx_http_file_cache_exists                                              *)

(* A reference is taken unless the request has one already.                *)
TakesReferenceAlways(r) == 1
TakesReference(r) == IF c[r].node = Nil THEN 1 ELSE 0

(* After update_variant the request goes on with the response it has.      *)
Then(r, pc) == IF c[r].late THEN "fetch" ELSE pc

(* The entry is known.  If its cached error has expired (renew), it starts *)
(* over.                                                                   *)
ExistsFound(r) ==
    /\ c[r].pc = "open"
    /\ \E n \in IF c[r].node # Nil THEN {c[r].node} ELSE Lookup(c[r].key) :
        LET m == [node[n] EXCEPT !.count = @ + TakesReference(r)]
            renew == m.error /\ ~m.valid
        IN /\ node' = [node EXCEPT ![n] = IF renew
                         THEN [m EXCEPT !.error = FALSE, !.exists = FALSE, !.fs = 0]
                         ELSE m]
           /\ queue' = ToHead(queue, n)
           /\ c' = [c EXCEPT ![r].node = n, ![r].error = m.error /\ ~renew,
                             ![r].pc = Then(r, CASE m.error /\ ~renew -> "serve"
                                                 [] renew /\ cold -> "test"
                                                 [] ~renew /\ m.exists -> "test"
                                                 [] OTHER -> "lock")]
    /\ UNCHANGED <<size, file>> /\ Frame

Missing(r) == c[r].node = Nil /\ Lookup(c[r].key) = {}

Insert(r, n) ==
    /\ node' = [node EXCEPT ![n] = [NewNode(c[r].key) EXCEPT !.count = 1]]
    /\ queue' = <<n>> \o queue
    /\ c' = [c EXCEPT ![r].node = n, ![r].error = FALSE,
                      ![r].pc = Then(r, IF cold THEN "test" ELSE "lock")]

ExistsNew(r) ==
    /\ c[r].pc = "open" /\ Missing(r)
    /\ \E n \in Memory \ Used : Insert(r, n)
    /\ UNCHANGED <<size, file>> /\ Frame

(* No memory: the mutex is released and an entry is forced out.            *)
ExistsFull(r) ==
    /\ c[r].pc = "open" /\ Missing(r) /\ Used = Memory
    /\ c' = [c EXCEPT ![r].pc = "force"]
    /\ UNCHANGED <<node, queue, size, file>> /\ Frame

(* The second attempt to allocate, without a second lookup.                *)
ExistsRetry(r) ==
    /\ c[r].pc = "retry"
    /\ \E n \in Memory \ Used : Insert(r, n)
    /\ UNCHANGED <<size, file>> /\ Frame

ExistsFails(r) ==
    /\ c[r].pc = "retry" /\ Used = Memory
    /\ c' = [c EXCEPT ![r].pc = "done"]
    /\ UNCHANGED <<node, queue, size, file>> /\ Frame

-----------------------------------------------------------------------------
(* ngx_http_file_cache_open and ngx_http_file_cache_read                   *)

OpenFile(r) ==
    /\ c[r].pc = "test"
    /\ c' = [c EXCEPT ![r].pc = IF file[c[r].key] = "none" THEN "lock" ELSE "read",
                      ![r].old = file[c[r].key] = "expired"]
    /\ UNCHANGED <<node, queue, size, file>> /\ Frame

(* The file is not what it should be: the response is fetched, without the *)
(* cache lock.                                                             *)
BadFile(r) ==
    /\ conf.faults /\ c[r].pc = "read"
    /\ c' = [c EXCEPT ![r].pc = "fetch", ![r].old = FALSE]
    /\ UNCHANGED <<node, queue, size, file>> /\ Frame

(* The file was there all along: the entry learns of it while the cache is *)
(* cold.                                                                   *)
Learn(m) == IF cold /\ ~m.exists THEN [m EXCEPT !.exists = TRUE, !.fs = 1] ELSE m

Read(r) ==
    /\ c[r].pc = "read"
    /\ LET m == Learn(node[c[r].node]) IN
        /\ node' = [node EXCEPT ![c[r].node] = m]
        /\ size' = size + (IF m # node[c[r].node] THEN 1 ELSE 0) /\ Fits(size')
    /\ c' = [c EXCEPT ![r].pc = IF c[r].old THEN "stale" ELSE "serve"]
    /\ UNCHANGED <<queue, file>> /\ Frame

(* The first to see an expired file updates it; the others serve it stale  *)
(* or fetch the response themselves.                                       *)
ReadStale(r) ==
    /\ c[r].pc = "stale"
    /\ LET n == c[r].node IN
        /\ node' = [node EXCEPT ![n].updating = TRUE]
        /\ c' = IF node[n].updating
                 THEN [c EXCEPT ![r].pc = IF conf.stale THEN "serve" ELSE "fetch"]
                 ELSE [c EXCEPT ![r].pc = "fetch", ![r].updating = TRUE,
                                ![r].lock = node[n].lock]
    /\ UNCHANGED <<queue, size, file>> /\ Frame

ReleasedTwice(m) == [m EXCEPT !.count = @ - 2]
Released(m) == [m EXCEPT !.count = @ - 1]

OtherKey(r) == CHOOSE k \in Keys : k # conf.main[r]

(* ngx_http_file_cache_reopen: the headers of the request ask for another  *)
(* variant than the one in the file.                                       *)
Reopen(r) ==
    /\ conf.vary /\ c[r].pc = "read" /\ ~c[r].secondary
    /\ node' = [node EXCEPT ![c[r].node] = Released(@)]
    /\ c' = [c EXCEPT ![r].node = Nil, ![r].secondary = TRUE, ![r].key = OtherKey(r),
                      ![r].pc = "open"]
    /\ UNCHANGED <<queue, size, file>> /\ Frame

-----------------------------------------------------------------------------
(* ngx_http_file_cache_lock and ngx_http_file_cache_lock_wait              *)

NoLock(r) ==
    /\ c[r].pc = "lock" /\ ~conf.lock
    /\ c' = [c EXCEPT ![r].pc = "fetch"]
    /\ UNCHANGED <<node, queue, size, file>> /\ Frame

BlockedForGood(m) == m.updating
Blocked(m) == m.updating /\ m.live

Lock(r) ==
    /\ c[r].pc = "lock" /\ conf.lock /\ ~Blocked(node[c[r].node])
    /\ LET n == c[r].node IN
        /\ node[n].lock < conf.locks
        /\ node' = [node EXCEPT ![n].updating = TRUE, ![n].live = TRUE, ![n].lock = @ + 1]
        /\ c' = [c EXCEPT ![r].updating = TRUE, ![r].lock = node[n].lock + 1, ![r].pc = "fetch"]
    /\ UNCHANGED <<queue, size, file>> /\ Frame

(* The lock is taken: wait, or pass the response by the cache once the     *)
(* wait has timed out (lock_timeout is then 0).                            *)
LockBusy(r) ==
    /\ c[r].pc = "lock" /\ conf.lock /\ Blocked(node[c[r].node])
    /\ c' = IF c[r].updating THEN [c EXCEPT ![r].pc = "fetch"]
            ELSE IF c[r].patient THEN [c EXCEPT ![r].pc = "wait"]
            ELSE [c EXCEPT ![r].pc = "fetch", ![r].cacheable = FALSE]
    /\ UNCHANGED <<node, queue, size, file>> /\ Frame

(* The waiting request looks again from time to time.                      *)
LockWait(r) ==
    /\ c[r].pc = "wait" /\ ~Blocked(node[c[r].node])
    /\ c' = [c EXCEPT ![r].pc = "open"]
    /\ UNCHANGED <<node, queue, size, file>> /\ Frame

LockTimeout(r) ==
    /\ c[r].pc = "wait" /\ conf.limited
    /\ c' = [c EXCEPT ![r].pc = "open", ![r].patient = FALSE]
    /\ UNCHANGED <<node, queue, size, file>> /\ Frame

-----------------------------------------------------------------------------
(* The response has come, or has not.                                      *)

(* ngx_http_file_cache_update_variant: the response varies otherwise than  *)
(* the key that was used; back to the main key, and to the entry of it.    *)
UpdateVariant(r) ==
    /\ conf.vary /\ c[r].pc = "fetch" /\ c[r].cacheable /\ c[r].secondary /\ ~c[r].late
    /\ node' = [node EXCEPT ![c[r].node] = [Released(@) EXCEPT !.updating = FALSE]]
    /\ c' = [c EXCEPT ![r].node = Nil, ![r].key = conf.main[r], ![r].late = TRUE,
                      ![r].pc = "open"]
    /\ UNCHANGED <<queue, size, file>> /\ Frame

(* The first half of ngx_http_file_cache_update: the temporary file gets   *)
(* its name, or cannot be renamed.                                         *)
Rename(r) ==
    /\ c[r].pc = "fetch" /\ c[r].cacheable
    /\ file' = [file EXCEPT ![c[r].key] = "fresh"]
    /\ c' = [c EXCEPT ![r].pc = "update", ![r].fs = 1]
    /\ UNCHANGED <<node, queue, size>> /\ Frame

RenameFails(r) ==
    /\ conf.faults /\ c[r].pc = "fetch" /\ c[r].cacheable
    /\ c' = [c EXCEPT ![r].pc = "update", ![r].fs = 0]
    /\ UNCHANGED <<node, queue, size, file>> /\ Frame

Added(m, r) == c[r].fs
Growth(m, r) == c[r].fs - m.fs

Updated(m, r) ==
    [m EXCEPT !.exists = @ \/ c[r].fs = 1, !.fs = c[r].fs, !.error = FALSE, !.updating = FALSE]

Update(r) ==
    /\ c[r].pc = "update"
    /\ LET n == c[r].node IN
        /\ node' = [node EXCEPT ![n] = Released(Updated(@, r))]
        /\ size' = size + Growth(node[n], r) /\ Fits(size')
    /\ c' = [c EXCEPT ![r].pc = "done", ![r].node = Nil, ![r].updating = FALSE]
    /\ UNCHANGED <<queue, file>> /\ Frame

(* 304: ngx_http_file_cache_update_header gives the file a new date, if it *)
(* is still there.                                                         *)
Revalidate(r) ==
    /\ c[r].pc = "fetch" /\ c[r].old /\ ~c[r].late
    /\ file' = [file EXCEPT ![c[r].key] = IF @ = "expired" THEN "fresh" ELSE @]
    /\ c' = [c EXCEPT ![r].pc = "serve"]
    /\ UNCHANGED <<node, queue, size>> /\ Frame

(* The response is not cached, or an error is remembered in the entry      *)
(* (ngx_http_upstream_intercept_errors, ngx_http_upstream_finalize_request).*)
FetchFails(r) ==
    /\ c[r].pc = "fetch"
    /\ c' = [c EXCEPT ![r].pc = "serve"]
    /\ UNCHANGED <<node, queue, size, file>> /\ Frame

FetchError(r) ==
    /\ conf.errors /\ c[r].pc = "fetch" /\ c[r].cacheable /\ ~c[r].late
    /\ c' = [c EXCEPT ![r].pc = "serve", ![r].error = TRUE, ![r].valid = TRUE]
    /\ UNCHANGED <<node, queue, size, file>> /\ Frame

(* The request ends before: an error, or the client has gone.              *)
Abort(r) ==
    /\ conf.faults /\ c[r].pc \in {"test", "read", "lock", "wait"}
    /\ c' = [c EXCEPT ![r].pc = "serve"]
    /\ UNCHANGED <<node, queue, size, file>> /\ Frame

(* ngx_http_file_cache_free, also from the cleanup of the request: an      *)
(* entry that never got a file goes with its last reference.               *)
LastReferenceIgnored(m) == ~m.exists
LastReference(m) == ~m.exists /\ m.count = 0

Free(r) ==
    /\ c[r].pc = "serve"
    /\ LET n == c[r].node
           m == [node[n] EXCEPT
                   !.count = @ - 1,
                   !.updating = @ /\ ~(c[r].updating /\ node[n].lock = c[r].lock),
                   !.error = @ \/ c[r].error, !.valid = @ \/ c[r].valid]
           gone == ~c[r].error /\ LastReference(m)
       IN /\ node' = [node EXCEPT ![n] = IF gone THEN FreeMemory ELSE m]
          /\ queue' = IF gone THEN Without(queue, n) ELSE queue
    /\ c' = [c EXCEPT ![r].pc = "done", ![r].node = Nil, ![r].updating = FALSE]
    /\ UNCHANGED <<size, file>> /\ Frame

Again(r) ==
    /\ conf.repeat /\ r \in Active /\ c[r].pc = "done" /\ del[r] = NoDeletion
    /\ c' = [c EXCEPT ![r] = NewRequest(r)]
    /\ UNCHANGED <<node, queue, size, file>> /\ Frame

(* The worker dies: its references stay in the shared memory.              *)
Crash(r) ==
    /\ crashes < conf.crashes /\ c[r].pc # "done" /\ del[r] = NoDeletion
    /\ crashes' = crashes + 1
    /\ leaked' = [n \in Slots |-> leaked[n] + (IF c[r].node = n THEN 1 ELSE 0)]
    /\ c' = [c EXCEPT ![r].pc = "done", ![r].node = Nil, ![r].updating = FALSE]
    /\ UNCHANGED <<node, queue, size, cold, file, del, walk, found, broken>>

-----------------------------------------------------------------------------
(* ngx_http_file_cache_expire and ngx_http_file_cache_forced_expire; d is  *)
(* the manager, or the worker of a request that found no memory.           *)

MayDelete(d) ==
    del[d] = NoDeletion /\ (IF d = Manager THEN conf.manager ELSE c[d].pc = "force")
Locked(n) == node[n].count > 0 /\ ~node[n].deleting

SearchedTail == queue

(* The search starts at the tail of the queue and moves locked entries to  *)
(* the head.                                                               *)
Searched ==
    LET stops == {i \in DOMAIN queue : ~Locked(queue[i])} IN
    IF stops = {} THEN queue
    ELSE SubSeq(queue, Max(stops) + 1, Len(queue)) \o SubSeq(queue, 1, Max(stops))

(* What follows a forced expiry in a worker: the second attempt.           *)
Resume(d) == IF d = Manager THEN c ELSE [c EXCEPT ![d].pc = "retry"]

(* ngx_http_file_cache_delete of an entry without a file.                  *)
ExpireEmpty(d) ==
    /\ MayDelete(d) /\ queue # <<>>
    /\ LET n == Last(Searched) IN
        /\ node[n].count = 0 /\ ~node[n].exists
        /\ node' = [node EXCEPT ![n] = FreeMemory]
    /\ queue' = Front(Searched)
    /\ c' = Resume(d)
    /\ UNCHANGED <<size, cold, file, del, walk, found, leaked, crashes, broken>>

Mark(m) == [m EXCEPT !.count = @ + 1, !.deleting = TRUE]

(* ngx_http_file_cache_delete up to the point where it lets the mutex go.  *)
Delete(d) ==
    /\ MayDelete(d) /\ queue # <<>>
    /\ LET n == Last(Searched) IN
        /\ node[n].count = 0 /\ node[n].exists
        /\ node' = [node EXCEPT ![n] = Mark(@)]
        /\ size' = size - node[n].fs /\ Fits(size')
        /\ del' = [del EXCEPT ![d] = [pc |-> "unlink", node |-> n]]
    /\ queue' = Searched
    /\ UNCHANGED <<cold, file, c, walk, found, leaked, crashes, broken>>

Unlink(d) ==
    /\ del[d].pc = "unlink"
    /\ file' = [file EXCEPT ![node[del[d].node].key] = "none"]
    /\ del' = [del EXCEPT ![d].pc = "finish"]
    /\ UNCHANGED <<node, queue, size, cold, c, walk, found, leaked, crashes, broken>>

(* With the mutex again: the entry goes unless somebody uses it by now.    *)
Removed(m, n) == IF m.count = 0 THEN Without(queue, n) ELSE queue

DeleteFinish(d) ==
    /\ del[d].pc = "finish"
    /\ LET n == del[d].node
           m == [node[n] EXCEPT !.count = @ - 1, !.deleting = FALSE]
       IN /\ node' = [node EXCEPT ![n] = IF m.count = 0 THEN FreeMemory ELSE m]
          /\ queue' = Removed(m, n)
    /\ del' = [del EXCEPT ![d] = NoDeletion]
    /\ c' = Resume(d)
    /\ UNCHANGED <<size, cold, file, walk, found, leaked, crashes, broken>>

(* The process dies in the middle of a deletion; a manager is respawned.   *)
DeleterDies(d) ==
    /\ broken < conf.broken /\ del[d] # NoDeletion
    /\ broken' = broken + 1
    /\ leaked' = [leaked EXCEPT ![del[d].node] = @ + 1]
    /\ del' = [del EXCEPT ![d] = NoDeletion]
    /\ c' = IF d = Manager THEN c ELSE [c EXCEPT ![d].pc = "done"]
    /\ UNCHANGED <<node, queue, size, cold, file, walk, found, crashes>>

(* Nothing to delete: all entries are locked, or the search has met one    *)
(* that is being deleted.                                                  *)
GiveUp(d) ==
    /\ d # Manager /\ MayDelete(d)
    /\ queue # <<>> => node[Last(Searched)].count > 0
    /\ queue' = Searched
    /\ c' = Resume(d)
    /\ UNCHANGED <<node, size, cold, file, del, walk, found, leaked, crashes, broken>>

(* The manager runs out of time after a locked entry.                      *)
SkipLocked ==
    /\ MayDelete(Manager) /\ queue # <<>> /\ Locked(Last(queue))
    /\ queue' = ToHead(queue, Last(queue))
    /\ UNCHANGED <<node, size, cold, file, c, del, walk, found, leaked, crashes, broken>>

-----------------------------------------------------------------------------
(* ngx_http_file_cache_loader                                              *)

(* The walk of the tree looks at a file, which may have gone by now.       *)
LoaderVisit(k) ==
    /\ cold /\ found = Nil /\ k \in walk
    /\ walk' = walk \ {k}
    /\ found' = IF file[k] = "none" THEN Nil ELSE k
    /\ UNCHANGED <<node, queue, size, cold, file, c, del, leaked, crashes, broken>>

LoaderAdd ==
    /\ found # Nil /\ found' = Nil
    /\ \/ \E n \in Lookup(found) : queue' = ToHead(queue, n) /\ UNCHANGED <<node, size, file>>
       \/ /\ Lookup(found) = {}
          /\ \E n \in Memory \ Used :
               /\ node' = [node EXCEPT ![n] = [NewNode(found) EXCEPT !.exists = TRUE, !.fs = 1]]
               /\ queue' = <<n>> \o queue
          /\ size' = size + 1 /\ Fits(size')
          /\ UNCHANGED file
       \/ /\ Lookup(found) = {} /\ Used = Memory
          /\ file' = [file EXCEPT ![found] = "none"]
          /\ UNCHANGED <<node, queue, size>>
    /\ UNCHANGED <<cold, c, del, walk, leaked, crashes, broken>>

LoaderEnds ==
    /\ cold /\ walk = {} /\ found = Nil
    /\ cold' = FALSE
    /\ UNCHANGED <<node, queue, size, file, c, del, walk, found, leaked, crashes, broken>>

-----------------------------------------------------------------------------
(* Time.                                                                   *)

FileExpires(k) ==
    /\ file[k] = "fresh"
    /\ file' = [file EXCEPT ![k] = "expired"]
    /\ UNCHANGED <<node, queue, size, cold, c, del, walk, found, leaked, crashes, broken>>

ErrorExpires(n) ==
    /\ n \in Used /\ node[n].valid
    /\ node' = [node EXCEPT ![n].valid = FALSE]
    /\ UNCHANGED <<queue, size, cold, file, c, del, walk, found, leaked, crashes, broken>>

(* proxy_cache_lock_age has passed since the lock was taken.               *)
LockAges(n) ==
    /\ n \in Used /\ node[n].live
    /\ node' = [node EXCEPT ![n].live = FALSE]
    /\ UNCHANGED <<queue, size, cold, file, c, del, walk, found, leaked, crashes, broken>>

-----------------------------------------------------------------------------
Step(r) ==
    \/ ExistsFound(r) \/ ExistsNew(r) \/ ExistsFull(r) \/ ExistsRetry(r) \/ ExistsFails(r)
    \/ OpenFile(r) \/ Read(r) \/ ReadStale(r)
    \/ NoLock(r) \/ Lock(r) \/ LockBusy(r) \/ LockWait(r) \/ Update(r) \/ Free(r)

Response(r) ==
    \/ Rename(r) \/ RenameFails(r) \/ Revalidate(r) \/ FetchFails(r) \/ FetchError(r)
    \/ UpdateVariant(r)

Expire(d) ==
    ExpireEmpty(d) \/ Delete(d) \/ Unlink(d) \/ DeleteFinish(d) \/ GiveUp(d)

Next ==
    /\ \/ \E r \in Requests : Step(r) \/ Response(r) \/ Reopen(r) \/ BadFile(r) \/ Abort(r)
       \/ \E r \in Requests : LockTimeout(r) \/ Again(r) \/ Crash(r)
       \/ \E d \in Requests \cup {Manager} : Expire(d) \/ DeleterDies(d)
       \/ SkipLocked \/ LoaderAdd \/ LoaderEnds
       \/ \E k \in Keys : LoaderVisit(k) \/ FileExpires(k)
       \/ \E n \in Slots : ErrorExpires(n) \/ LockAges(n)
    /\ UNCHANGED conf

Spec == Init /\ [][Next]_vars

(* Workers and the manager run, time passes for cache locks, and an        *)
(* upstream answers or times out.  One condition for all the requests is   *)
(* enough, because a scenario without repeat has finitely many of their    *)
(* steps.                                                                  *)
FairSpec ==
    /\ Spec
    /\ WF_vars(/\ \/ \E r \in Requests : Step(r) \/ Response(r) \/ Expire(r)
                  \/ \E n \in Slots : LockAges(n)
               /\ UNCHANGED conf)
    /\ WF_vars(Expire(Manager) /\ UNCHANGED conf)
-----------------------------------------------------------------------------
(* Properties.                                                             *)

(* Every variable has its type; in particular no reference count and no    *)
(* size of a file is negative.                                             *)
TypeOK ==
    /\ \A n \in Used :
        /\ node[n].key \in Keys /\ {node[n].count, node[n].lock} \subseteq Nat
        /\ node[n].fs \in {0, 1}
        /\ \A f \in {"exists", "updating", "deleting", "live", "error", "valid"} :
            node[n][f] \in BOOLEAN
    /\ \A i \in DOMAIN queue : queue[i] \in Slots
    /\ size \in Int /\ cold \in BOOLEAN /\ file \in [Keys -> {"none", "fresh", "expired"}]
    /\ \A r \in Requests :
        /\ c[r].node \in Slots \cup {Nil}
        /\ r \in Active => c[r].key \in Keys /\ c[r].fs \in {0, 1}
        /\ c[r].pc \in {"open", "force", "retry", "test", "read", "stale", "lock", "wait",
                        "fetch", "update", "serve", "done"}
    /\ \A d \in DOMAIN del :
        del[d].pc \in {"no", "unlink", "finish"} /\ del[d].node \in Slots \cup {Nil}
    /\ walk \subseteq Keys /\ found \in Keys \cup {Nil} /\ leaked \in [Slots -> Nat]
    /\ {crashes, broken} \subseteq Nat

Holders(n) == {r \in Requests : c[r].node = n}
Deleters(n) == {d \in DOMAIN del : del[d].node = n}

(* The memory of an entry is not freed, nor given to another key, while a  *)
(* request holds it or a deletion that let the mutex go returns to it.     *)
HeldEntriesStay ==
    \A n \in Slots :
        /\ Holders(n) \cup Deleters(n) # {} => n \in Used
        /\ \A r \in Holders(n) : node[n].key = c[r].key

(* fcn->count is the number of requests and deletions that use the entry,  *)
(* and of those that died with their worker.                               *)
ReferencesExact ==
    \A n \in Used :
        node[n].count = Cardinality(Holders(n)) + Cardinality(Deleters(n)) + leaked[n]

(* The inactive queue holds every entry once: an entry outside it would    *)
(* never be deleted.                                                       *)
QueueExact == ToSet(queue) = Used /\ IsInjective(queue)

(* A request that waits for the cache lock gets on, even if the request    *)
(* that held the lock died with its worker: the lock ages.                 *)
WaitersGetOn == []<>(conf.repeat \/ \A r \in Requests : c[r].pc # "wait")

(* An entry that nobody uses any more is deleted in the end, whatever a    *)
(* dead process has left in the queue ("we prefer to just move them to the *)
(* top of the inactive queue"), unless it died in the middle of a          *)
(* deletion: expiry stops at the entry that it left marked.                *)
InactiveGo ==
    []<>(~conf.manager \/ conf.repeat \/ broken > 0 \/ \A n \in Used : node[n].count > 0)

Resting == del = [d \in DOMAIN del |-> NoDeletion] /\ \A r \in Requests : c[r].pc = "done"

(* When nothing is under way, the recorded size of the cache, which is     *)
(* compared with max_size, is the number of blocks of its files.  The code *)
(* miscounts when an entry is deleted under a request, when an error       *)
(* cached over a file expires, when the cold phase ends at a bad moment    *)
(* and after a failed rename; those are left out.                          *)
Undisturbed ==
    /\ ~conf.manager /\ ~conf.errors /\ ~conf.faults /\ conf.disk = {}
    /\ Cardinality(Keys) <= Cardinality(Memory)
SizeCountsFiles ==
    Resting /\ Undisturbed /\ crashes = 0 => size = Cardinality({k \in Keys : file[k] # "none"})

(* The shared entries are kept exactly: in the tree and once in the queue, *)
(* counted for each user, and in memory while they have one; and so is the *)
(* size of the cache.                                                      *)
EntriesKept == TypeOK /\ HeldEntriesStay /\ ReferencesExact /\ QueueExact /\ SizeCountsFiles

(* Nothing stalls: neither a request that waits for an entry nor the       *)
(* deletion of what nobody uses.                                           *)
CacheMovesOn == WaitersGetOn /\ InactiveGo
=============================================================================
