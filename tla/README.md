# Specifications of bjrk-edge

bjrk-edge is an event-driven HTTP, TCP/UDP and mail server and proxy: a master
process, worker processes that each run one event loop, and cache processes,
which share memory zones. This directory holds TLA+ modules of the parts whose
correctness depends on the order in which things happen, the TLC
configurations that check them on small instances, and proofs that TLAPS
checks for every value of the constants.

Paths below are relative to `src/src/`; file names leave out the prefix
`bjrk-edge_` (`core/shmtx.c` is `src/src/core/bjrk-edge_shmtx.c`).

    tlc -workers 2 -config MCLocks.cfg MCLocks      # a run
    tlapm LocksProofs.tla                           # a proof

`PROJECT.json` lists the components, the runs with their properties, for every
definition the source lines it stands for, for every property mutations of
the model that break it, the hazards of the code and the theorems.

## 1. Inventory

### Processes and shared memory

| component | state | operations | interacts with | what makes it correct |
|---|---|---|---|---|
| master and process table (`os/unix/process_cycle.c`, `process.c`, `channel.c`) | flags set by signals, `ngx_processes[]` with pid, channel, `exiting`, `respawn`, `just_spawn`; `live`, `sigio`, `delay` | signal handler, reap, respawn, reload, quit, terminate, upgrade | children by signals and channels | every child is known and told, shutdown ends, no worker is left behind |
| shared mutex (`core/shmtx.c`) | lock word, waiters, semaphore | trylock, lock, unlock, force_unlock | all zones, accept mutex; the master releases the locks of the dead | exclusion, no lost wakeup, recovery |
| read/write lock (`core/rwlock.c`) | one word | wlock, rlock, unlock, downgrade | upstream zones | exclusion, exact count |
| slab allocator (`core/slab.c`) | page lists, bitmaps | alloc, free | all zones, under their mutex | no block given twice, pages in one list |
| configuration cycle (`core/cycle.c`) | open files, sockets, zones of the old and the new cycle | init_cycle, roll back, upgrade | master | a failed reload changes nothing |

### The event loop of a worker

| component | state | operations | interacts with | what makes it correct |
|---|---|---|---|---|
| connections (`core/connection.c`) | free list, files, reusable queue | get, free, close, reusable, drain | every protocol | an event reaches the connection it was meant for |
| event methods (`event/event.c`, `modules/epoll_module.c`, `event_posted.c`, `event_timer.c`) | active flags, instance bit, posted queues, timer tree | add/del, process_events, post, expire | connections | nothing freed is posted or timed |
| accepting (`event/event_accept.c`) | accept mutex, `ngx_accept_disabled` | trylock, accept, disable/enable | shared mutex, connections | clients are accepted whoever holds the mutex |
| thread pools (`core/thread_pool.c`) | queue, done list, condition variable | post, cycle, notify, destroy | event loop | every task completes once, within the limit |
| resolver (`core/resolver.c`) | name tree, resend and expire queues, waiting requests | resolve, process response, resend, expire | upstreams | every request for a name is answered once |
| UDP listeners (`event/event_udp.c`) | sessions by address | receive | stream | a datagram reaches its session |

### HTTP

| component | state | operations | interacts with | what makes it correct |
|---|---|---|---|---|
| requests (`http/http_request.c`, `http_core_module.c`, postpone and copy filters) | `main->count`, `blocked`, posted requests, `c->data`, postponed output | subrequest, finalize, terminate, writer | connections, threads, upstreams | freed once and not in use; output in order |
| request body (`http_request_body.c`) | rest of the body, reading/discarding | read, discard | requests, upstreams | the next request starts where the body ends |
| upstreams (`http_upstream.c`) | connection, tries, cache and pipe | connect, next, process, finalize | peers, cache, pipe | every peer taken is given back; a request is sent once where it must be; retries end |
| servers (`http_upstream_round_robin.c`, `..._zone_module.c`) | weights, fails, conns, references in a zone | get, free, resolve | rwlock, resolver | weights balanced, counts exact, no freed server used |
| kept connections (`modules/http_upstream_keepalive_module.c`) | cache and free queues | get, free, close | upstreams | never handed out twice |
| file cache (`http_file_cache.c`) | nodes with references, queue, size | open, lock, update, expire, load | upstreams, manager, loader | no entry freed in use, size exact, locks get released |
| limits (`modules/http_limit_conn_module.c`, `..._limit_req_module.c`) | counted nodes, excess | handler, cleanup, expire | zones | the limit holds |
| pipe (`event/event_pipe.c`) | buffers, temporary file | read, write | upstreams, cache | no buffer lost; no standstill |
| HTTP/2 (`http/v2`) | streams, windows, queue of frames | frames, close | requests | windows and streams accounted for |
| QUIC and HTTP/3 (`event/quic`, `http/v3`) | packets in flight, streams, paths, ids, dynamic table | frames, loss detection, migration | requests | data delivered once and in order |
| protocol, filter, access and log modules (`http/modules`) | per request | translate | requests | data formats; not a matter of order |

### Other

Stream proxy (`stream/`, a session with two connections; the balancing and
limiting modules are the HTTP ones again), mail proxy (`mail/`, command state
machines), TLS (`event/event_openssl*.c`, wrapping of a library, a shared
session cache), configuration parser, logging, strings, containers, and the
Windows port. `PROJECT.json` says for each why it is or is not modelled.

### What is hard

Several processes share zones and any of them may die at any instruction. In a
worker everything is sequential, but handlers close, reuse and free the objects
that later events of the same batch, posted events, timers, threads or answers
refer to. Signals arrive in any order. A reload or an upgrade overlaps the
previous generation. The hazards, each at its line, are in `PROJECT.json`.

## 2. Modules

One module per component. Where a component has several modes (a directive on
or off, a feature in use, a bound of one kind of event), the module has a
variable that `Init` chooses among the scenarios and no step changes (`conf`,
`limits`, `upstream`, `calls`), so that one run covers all of them. Every module
states its properties at its end: named parts, then the conjunctions that the
runs check.

The `MC...` modules give TLC its instance. Five of them, `MCLocks`, `MCAccept`,
`MCFileCache`, `MCLimits` and `MCQuic`, check several components in one run:
the variable `part` says which of them a behaviour is one of, the others rest
in their initial state, and the fairness and the properties are those of the
parts. The components keep their own specifications; nothing is shared between
the parts but values of constants.

| module | models | state and actions against the code |
|---|---|---|
| `SharedLock` | what a lock with crash recovery promises | owner; `Acquire`, `Release`, `Reclaim` |
| `Shmtx` | `core/shmtx.c` | an action is one access to the lock word, the waiter counter or the semaphore |
| `Rwlock` | `core/rwlock.c` | the same grain; the read before the write of unlock is a step |
| `MasterCycle` | `os/unix/process_cycle.c`, `process.c` | signals are delivered at any step; the master's loop takes one branch per action, in the order of the code; children react to their channel and signals |
| `ThreadPool` | `core/thread_pool.c` | the steps of post, of a thread's cycle and of the completion handler between the mutex operations |
| `Queues` | `core/queue.h` as sequences | operators only: a queue without an element, at its head, turned |
| `Connections` | `core/connection.c`, `event/*.c`, epoll | a batch of events is walked entry by entry; a handler is a sequence of calls (`CallSets` bounds which) |
| `AcceptMutex` | `event/event.c`, `event_accept.c` | one turn of `ngx_process_events_and_timers` in steps, per worker |
| `FileCache` | `http/http_file_cache.c` and its use by `http_upstream.c` | a critical section under the zone mutex is a step; file operations between them are steps |
| `UpstreamPeers` | round robin and zone modules | get, free and the resolve handler, each a critical section |
| `LimitConn`, `LimitReq` | the limit modules | one limit of the handler per step; expiry included in the lookup |
| `Resolver` | `core/resolver.c` | a job is a list of steps of one event: answers, timers, requests and cancellations |
| `Requests` | `http/http_request.c`, subrequests, postpone and copy filters | an event runs a handler, then the posted requests; `step` is the place in this run; each branch of `ngx_http_finalize_request` is an action; the ghost `document` has the buffers in the order in which a browser should see them: what a request produces is written in front of the place of the request, a subrequest with a place of its own |
| `EventPipe` | `event/event_pipe.c` | a call of `ngx_event_pipe` in the steps of its loops (`pc`), the thread that writes the temporary file, the client and the server |
| `Upstream` | `http/http_upstream.c`, the keepalive module | a handler of an event is a step, with what it calls; `run` is a handler that goes on; servers and clients do what they like |
| `Http2` | `http/v2/*.c` | a frame read, a timer or a handler of a request is a step; the queue of frames, windows and streams in one record `w` |
| `QuicStreams` | `event/quic` streams, frames, loss detection and flow control | a packet sent, received, acknowledged or lost; posted events; the network loses, repeats and reorders |
| `QuicAck` | the ranges of `event/quic/event_quic_ack.c` | packets of one level as they come, in any order, and the ACKs sent for them |
| `QuicBuffer` | `ngx_quic_write_buffer` and `ngx_quic_read_buffer` | the chain of pieces of a stream, which may overlap and come in any order |

`QueueProofs` holds lemmas about `Queues`;
`LocksProofs`, `AcceptProofs` and `LimitsProofs` extend the `MC` module and
conclude for the properties that the run checks; `FileCacheProofs`,
`RequestsProofs`, `ResolverProofs` and `UpstreamProofs` are about properties that the component's
module states itself.

Critical sections under a zone mutex are atomic in `FileCache`, `LimitConn`,
`LimitReq` and `UpstreamPeers`. What justifies it is the proof that `Shmtx`
implements `SharedLock`, and the exclusion proved of `Rwlock`.

## 3. Runs

Deadlock is checked except where the system may stop: all processes dead,
everything shut down, or a bound used up. The bounds (faults, signals, posts,
time, buffers) are named constants or fields of a scenario; each hazard needs
fewer of them than there are, which the mutations confirm: a dropped guard, a
missing reset or a swapped order in the model breaks each property, and nearly
all of the named parts of a conjunction, within the bounds of its run.

### Shared memory

- `locks`, the mutex: three processes, the smallest number where one holds, one
  sleeps and one tries, with the semaphore (one fault) and without (two). A
  fault is the death of a process at any point, or a semaphore call that fails.
  `WakeupsExact`: the waiters registered plus the tokens are the processes that
  wait, and before the first fault nobody sleeps beside a free lock without a
  token or a process that will post one. `ImplementsSharedLock`: refinement of
  `SharedLock`, which contains mutual exclusion. The read/write lock: three
  processes, one death. `HoldersExact`: a writer is alone, the word is exact,
  and the decision that unlock and downgrade take from a read of the word holds
  until they write. The thread pool: three threads, three tasks that are posted
  again from their completion, a limit of one, a spurious wake-up, destruction
  at any moment. `SignalsExact`: no signal is lost and the limit holds.
  `OnePlace`: a task is in one place, so it runs and completes once.
  `WaitersMoveOn`: the mutex keeps being acquired, and the master takes it from
  a dead owner; so does the read/write lock while nobody has died in it; tasks
  of the pool complete, and its destruction ends.

### Master

- `master`: eight scenarios, of reload, termination with stuck children,
  shutdown, failures of fork and initialisation, upgrade, the way back from an
  upgrade, and an upgrade that fails; one or two workers with or without cache
  processes, up to four signals in any order, a crash, a failure.
  `ChildrenKnown`: every child that needs a waitpid() is in the table once, a
  child marked `exiting` was told, and no worker survives the master.
  `CommandsObeyed`: no fork after a shutdown has begun; a reload tells the old
  workers and none of the new ones to quit; SIGHUP reads the configuration.
  `MasterMovesOn`: SIGTERM ends the master even if all children are stuck,
  SIGQUIT if they are not; old workers go, and dead or retired ones are replaced.

### Worker

- `accept`, the connection table: three connections, one of them listening, and
  a socket more than the table holds, so that memory and descriptors are used
  again within a batch; five sets of calls a handler may make.
  `EventReachesItsSocket`: no event reaches the next user of a connection (but
  for two reuses in one batch, beyond one instance bit). `TableExact`: the free
  list, its count and the reusable queue are exact, no closed connection is in
  a posted queue or in the timer tree, and `ngx_get_connection` fails only when
  nothing was free or reusable. The accept mutex: two workers, with the
  mutex and without, with multi_accept and without, two connections each, three
  clients, two failed calls, a quit and a death. `FlagsExact`:
  `ngx_accept_mutex_held` is the registration of the accept events, and a worker
  that posts accept events owns the mutex. `BacklogDrains`: clients are accepted, unless
  every worker that listens has stalled or gone deaf (section 5).
- `resolver`: two names that may be aliases of each other, both types of
  address under two idents, and a name that cannot be asked for; late, repeated
  and truncated answers and failing allocations at any time. `ListsExact`: a
  node is in one queue, in the order of its time; a request is in one list; the
  timer runs while something is due. `NothingStays`: every request ends, and so
  does a name that nobody wants.

### HTTP

- `file_cache`: up to three requests, two keys and memory for one or two
  entries, in ten scenarios: requests that follow each other while the manager
  deletes, errors and failing system calls, variants, memory for one entry,
  cache locks whose holder dies, entries and deletions left by a crash.
  `EntriesKept`: no entry is freed or given to another key while a request or
  a deletion uses it, its count is exact, the queue holds each once, and the
  recorded size is that of the files in the scenarios without the disturbances
  of section 5. `CacheMovesOn`: a request that waits for the cache lock gets
  on, and unused entries are deleted. The pipe: two buffers of
  two units, responses of five to seven units to a client that takes one at a
  time, with a temporary file, without one, cached, written by threads, rate
  limited, with failing calls. `PipeExact`: buffers are conserved and bounded,
  and the response passes them and the file in order and complete.
  `PipeEnds`: the request ends, whatever the server and the client do.
- `limits`, limit_conn: three requests, two keys, two zones with limits 2 and
  1, two nodes in each, a lost count. `ConnLimitsExact`: a count is the requests
  that will give it back, each to the node of its own key, and the limits hold.
  limit_req: three workers whose times lag by up to two, two limits, two keys
  with memory for one or two nodes. `RateLimitsExact`: a node stays while a
  request comes back to it, and no key is let pass more requests than burst
  and rate allow, whichever clock charged it. The servers: two requests, two or
  three servers; a resolved name with max_conns and memory for one server more;
  a primary and a backup group, both resolved, and a worker that dies; weights,
  failures and recovery; weights 3, 1, 2 without failures. `PeersExact`: counts
  exact, no server freed in use or kept afterwards, current weights add up to
  zero, and a round follows the weights where every server always takes part
  (`Steady`). `PicksSound`: no request goes back to a
  server it tried, and a failed server is tried by one request per fail_timeout.
- `requests`: a main request of two buffers and two subrequests of one, side by
  side or nested, background, waited, with upstreams and threads, client
  aborts and termination; an output filter that fails, and one call of
  `ngx_handle_write_event` that fails. `ReferencesKept`: `main->count` is exact, no
  alert is logged, and nothing that uses the memory is left when it is freed.
  `OutputExact`: the client gets the document in order, entire if the request
  ends by itself. `Ends`: every request is freed. All three up to a reference
  that is given back twice (`GivenTwice`, section 5).
- `requests_unarmed` shows a violation: when `ngx_handle_write_event` fails,
  `ngx_http_writer` and `ngx_http_set_write_handler` close the request, and the
  request goes on if another reference or a thread keeps it, so that its end
  gives the same reference back again. In the run a thread reads a file for the
  last reference, and the count falls below zero, which `ngx_http_close_request`
  itself calls an error (`CountNeverBelowZero`).
- `upstream`: two requests, two servers and three connections in eight
  configurations: retries, kept connections, requests that are not idempotent,
  bodies passed on unread over TLS to a name that is resolved, a client that
  leaves while its response is cached, slow clients, upgraded connections;
  servers refuse, answer early, close or stay silent at any time.
  `ConnectionsKept`: a connection belongs to one request or is kept once, every
  peer taken is given back once, and what is kept carries nothing of the last
  request. `ExchangeSound`: the client gets a prefix of one response to its own
  request (all of it if the request ends well), and a request that must not be
  repeated is sent once. `RequestsEnd`: no request hangs.
- `upstream_early` shows a violation: a server that answers before it has taken
  the request leaves the write timer of the connection set; if it expires while
  the response is passed on, `ngx_http_upstream_next` tries another server
  although the header has gone to the client (`HeaderOnce`).
- `http2`: two or three streams in nine scenarios, of windows opened late,
  resized and overrun, of resets, priorities, bodies of every kind, a client
  that leaves and a worker that exits; windows of 2 to 4 units, frames of 2.
  `StreamsKept`: queued frames belong to streams that are open, in order, and
  none follows a reset. `FlowControlExact`: what was granted is what was sent,
  is queued or is left, windows of bodies fit their buffers, and whoever waits
  for a window is found when it opens. `ConnectionEnds`.
- `quic`: one or two streams in twenty scenarios over a network that loses and
  delays packets and acknowledgments, with closed windows, resets, rejected
  streams, failing sockets and the ends of a connection; and, as parts of their
  own, the ranges of received packets (seven numbers, two ranges, two
  repeats) and the reassembly of a stream (six units, four overlapping writes).
  `NothingLost`: data, ends of streams and resets are acknowledged, in flight
  or queued, exactly one of them. `FlowExact`: both directions keep their
  limits, the other side hears of its own, nobody waits for nothing.
  `ReceiptsExact`: what is acknowledged came, what must be acknowledged is, and
  bytes arrive whatever order and overlap they come in. `StreamsEnd`.

## 4. Fairness

- A process or thread that can take a step of its program takes it (weak
  fairness): the kernel schedules it. Not assumed of a process that is dead or,
  in `MasterCycle`, stuck; nor of calls, clients, faults and commands.
- Lock hand-over in `Shmtx` and `Rwlock` is not fair to one process; only
  progress of the system is claimed.
- `MasterCycle`: signals that were sent are delivered and the timer fires; as
  long as some child can run, one of them does.
- `FileCache`: some request, response or ageing cache lock goes on, and the
  manager runs; both are needed, since the manager never stops.
- Timers fire: strong fairness in `Resolver`, because another event may come
  first any number of times and a job in progress disables them; the timer tree
  orders them by time, so none is passed over for ever.
- `Requests`: as long as an upstream, a thread or the client owes an answer, one
  of them answers (each has a timeout in the code), and content handlers that
  are called again and again end.
- `AcceptMutex`: each worker's turn is weakly fair; the mutex changes hands
  because the owner releases it in each iteration.
- `EventPipe`: the worker runs, events are reported, timers expire and threads
  finish; nothing of the server and the client. `Upstream`: handlers run when
  their event comes and timers expire. `Http2`: the same of one connection.
- `QuicStreams`: something that is not bounded by the scenario's budget goes
  on; losses are bounded, and a client answers what reaches it.

Where the guard of the fair action is easy to state, `WF` is written out with
that guard for `ENABLED`, which TLC evaluates faster. In `MCLocks` and
`MCFileCache` conditions of the parts share a formula: the part that rests has
no step.

## 5. Cases that the properties leave out

In these the code does not do what the property says. Each is named in the
property (a part of one of those above) as an exception; without it, TLC finds
a behaviour in the scenario that is given.

| property, exception | what the code does |
|---|---|
| `NoOrphans`, `upgrade` (way back) | after SIGUSR2, SIGWINCH and SIGHUP, SIGQUIT leaves the workers just started running without a master (`live` is not set) |
| `ReloadHandsOver`, `failures` (failures); `ExitingWereTold`, `failures` (a larger scenario: three commands HUP and QUIT, a crash and a failure) | after a failed fork() the descriptors of the closed channel stay in the slot; two slots end up with one channel, and a worker never hears of a shutdown |
| `HupReloads`, `Invalid` (failed upgrade) | after an upgrade that failed before its fork `ngx_new_binary` is -1, and a reload starts workers with the old configuration and stops none |
| `TimersAlive`, `AcceptRetry` (`emfile`, `quit`) | quitting within the delay after EMFILE frees the listening connection with its event in the timer tree |
| `InactiveGo`, `broken` (`Breaking`) | a process that dies while deleting a file leaves `deleting` set: later expiry stops at this entry |
| `SizeCountsFiles`, `Undisturbed` (`Stumbling`, `Faulty`, `Varying`) | the size drifts from the files when an entry is deleted under a request, when a cached error over a file expires, and when the cold phase ends at a bad moment |
| `LeakyBucket`, slack (`Several`) | with several limits the check and the charge are apart: concurrent requests pass all limits but the last together |
| `NoLostWakeup`, `faults` | a process that dies after it was woken takes the wakeup with it |
| `EventReachesItsSocket`, `reuses` | an instance bit cannot tell a connection that was used twice more within a batch |
| `BacklogDrains`, `Stalled` | after ENFILE, with the mutex in use, workers may all be idle with their accept events disabled |
| `BacklogDrains`, `Deaf` | without the mutex, when the retry after EMFILE fails to enable the accept events (`event_accept.c:38-40`), no timer is set and nothing tries again: the worker accepts no more |
| `ReferencesKept`, `OutputExact`, `Ends`: `GivenTwice` | `ngx_handle_write_event` fails where a request waits for its client: the writer, or `ngx_http_set_write_handler`, closes the request, and its caller or its own end gives the same reference back again (run `requests_unarmed`) |
| `ResetIsLast`, `deaf` (`Deaf`) | DATA may follow RST_STREAM for a request under proxy_ignore_client_abort |
| `NeedsAreTold` (`QuicAck`) | a packet that comes late, just before an ACK of our ACK is handled, is dropped from the ranges with what was acknowledged and never acknowledged itself |
| `WindowsKept`, `leak` (`One`, unread body) | a stream that is closed with an unread body, and whose FIN comes later, gives no credit back to the connection |

Seen while modelling, too: a resolver's result depends on the order of the
answers for A and AAAA (an alias in the first answer and nothing in the second
is an error, the reverse order follows the alias); two useless answers leave a
name without an open question until its requests time out; a worker that dies
leaks `conns` of a server, counts of limit_conn, and references to cache
entries; `updating` of a stale entry is never cleared after a death.

Of HTTP/2: RST_STREAM queued by `ngx_http_v2_close_stream` while other streams
are processed waits for the next output; an empty answer to a full socket gets
a second, empty DATA frame with END_STREAM; a client that grants too much can
push the connection's window past its maximum when queued frames are cleaned up.
Of QUIC: a rejected stream never raises MAX_STREAMS; STREAM frames that are
queued are still sent after RESET_STREAM; stale MAX_* values may be sent again,
which is harmless; `ngx_quic_skip_buffer` is never called.

## 6. Proofs

Each proof defines the strengthening of a property that is inductive, which TLC
checked first on the instance of the run, shows that it holds initially and is
preserved by each action (a lemma per action or group of actions), and
concludes by temporal logic. The theorems hold for every value of the
constants that satisfies the assumptions named in the modules (finite sets,
positive sizes, `Nil` outside the sets it stands beside), which TLC evaluates.

| module | theorem → property of a run | the inductive invariant, and why it is needed |
|---|---|---|
| `LocksProofs` | `WakeupsAreExact` → `WakeupsExact`; `RefinesSharedLock` → `ImplementsSharedLock` | The lock word names the owner exactly while it is in the critical section or dead in it; `wait + tokens = registered waiters + leaks` by cases on each access; a sleeper beside a free lock has a token or a process that will post one. The refinement maps the owner; a step of the master that frees a dead owner's lock is `Reclaim`. |
| `LocksProofs` | `HoldersAreExact` → `HoldersExact` | The word is the number of readers, or -1 with a writer; what a process holds follows from its place; what unlock has read cannot change sign while it holds the lock. |
| `LocksProofs` | `SignalsAreExact` → `SignalsExact` | `waiting` is the length of the queue minus the threads that went to sleep or are about to; signals in flight cover the queue. |
| `LocksProofs` | `TasksInOnePlace` → `OnePlace` | The positions of a task in the queue, in the completion list and in the detached list and the threads that run it are one in number for a task that is posted, none for another; the counting lemmas say how appending, taking the head and running change these cardinalities. |
| `AcceptProofs` | `TableIsExact` → `TableExact`; `EventsReachTheirSocket` → `EventReachesItsSocket` | Four parts that need each other: the lists; the posted events (once, in one queue, of open connections; none of a listening connection waits for the next iteration); the batch (an entry points at the connection as it was, at one that is closed or has the other instance bit, or at one reused twice); and the drain (a full table with something reusable has a connection to drain yet, or its last one lingers, which happens once only). |
| `AcceptProofs` | `FlagsAreExact` → `FlagsExact` | A living owner of the mutex knows it (`held`); the mutex is not owned by a worker that serves connections (theorem `MutexReleased`); the modes under which timers and posting occur. |
| `LimitsProofs` | `ConnLimitsHold` → `ConnLimitsExact` | The count of a node is the number of requests whose cleanup points at it plus the lost ones; nodes are freed with the last, so memory used again has another key only when nobody points at it; the handler has no count in zones it has not visited. |
| `LimitsProofs` | `RatesAreLimited` → `RateLimitsExact` | A node is a bucket: what it was charged is at most what is in it and what has drained since the first charge. In all limits but the last a request looks first and charges later, so what the requests that count on the node (at most one per worker) have still to charge is added on the left. Draining is superadditive over intervals, and a clock that lags never drains. |
| `LimitsProofs` | `PeersAreExact` → `PeersExact` | The lists hold live servers of different addresses and share no place; the references of a server are the requests whose `current` it is plus those of dead workers, and a place in no list lives by them as a zombie. The weights of a group add up to zero through every choice, since what the chosen one pays is what the eligible ones gained. Without failures: the current weight of a server is (choices made) · (its weight) - (sum of weights) · (its choices), so that the greatest belongs to one that still has a choice in the round. The sums are folds over finite sets (`SumFunction`); what is needed of them is shown for the sets of subsets that have it, from the empty one up (`Grows`), without the induction theorems. |
| `LimitsProofs` | `PicksAreSound` → `PicksSound` | As long as the lists stay, the positions a request has marked are those of the addresses it was given; a listed server was checked when it was last probed, or later. |
| `FileCacheProofs` | `EntriesStayKept` → `EntriesKept` | Where a request is says whether it holds an entry; a deletion holds one and its request waits; the entry of a key in use has that key; per slot, the count is its users, deleters and leaked references, and a slot is in the queue exactly if it has a key. For the size: under the conditions of `SizeCountsFiles` a file is on disk or about to be renamed and counted exactly once. |
| `RequestsProofs` | `ReferencesAreKept` → `ReferencesKept` | Until the main request is finalised by an error: the active request (`c->data`) is reached from the main one on a path where each request has one successor; the output of a request holds only its own unfinished subrequests, each once, the one on the path first, and is closed by a buffer where its document is; what the handler of a request says agrees with its upstream, thread and output; `count` is the number of open requests plus the reference that the handler which runs gives back. Then two further phases: the termination waits for those that hold a reference (`Delayed`), or all that is left is the handler of the termination (`Doomed`). Without the tree, one cannot know that the request whose turn comes has not been finalised before, so that its reference would be given back twice. |
| `RequestsProofs` | `OutputIsExact` → `OutputExact` | The document as an order in which each request, from its opening to its place, encloses its subrequests (`Bounded`, `Family`). `Course`: what was sent begins the document and precedes whoever has not ended; what is not sent waits in the list of the request that produced it; whoever has not ended and stands before the active request is inside it; a request that has ended has nothing left; a list holds only buffers and open subrequests of its request, in order (`Ordered`). Without the lists one cannot know that the next subrequest to get its turn is the next in the document, and without `Bounded` not that all of its output comes before the rest of its parent's. |
| `ResolverProofs` | `ResolverListsAreExact` → `ListsExact` | A node in the queue of questions has no valid answer, one in the queue of answers has no open question and nobody who waits; both queues are in the order of the times; the list of a node holds exactly the requests whose `node` it is; the requests of a job in progress wait for nothing. With it: what `ngx_resolver_expire` takes from the tail has no waiters, whatever the number of names it takes, and what the repetition puts back at the head is due after everything behind it. |
| `UpstreamProofs` | `UpstreamConnectionsAreKept` → `ConnectionsKept`; `UpstreamExchangesAreSound` → `ExchangeSound`; `UpstreamHeaderIsSentOnce` | Per connection: what the server has sent and what was read of it are consecutive parts of one answer (`Answer`). Per request: its flags and its tries (`Alone`, `Attempts`: new connections plus tries left are no more than the tries, or one more while the request is at a server over a connection that was not kept, since its try is taken when it leaves). Per request with its connection (`Linked`, `Passing`): the server's last request is this one, or it has closed; the parts at the client, in the buffer, in the socket and still to come add up to one response; `keepalive` means that none is left. Per call in `run`: what its function relies on (`CanRun`). Without the sums, a connection whose response was cut short could not be told from one that may be kept. |

`QueueProofs` has the facts about queues (no element twice, what is in them
after an insertion, a removal, a turn) that several of these need.

The theorems of `UpstreamProofs` assume `Orderly`: where servers may answer
before they have the request, a timeout is not in `proxy_next_upstream`. Every
scenario of the run `upstream` satisfies it. It cannot be dropped: in the scenario of
`upstream_early`, where it does not hold, TLC finds `ConnectionsKept` and
`ExchangeSound` violated as well as `HeaderOnce`, all after the step of the finding (the
request goes to another server while a response is being passed on).

The proof of `OutputExact` is the longest. Its lemmas about `Course` speak of
any document, parents, lists and active request, and of one change at a time (a
buffer written or sent, the turn given down, a subrequest that ends, one that is
opened); only the last part says which of these an action of `Requests` makes.

Model-checked only:

- Liveness under fairness, and everything with ENABLED, which are out of this
  prover's reach.
- `ChildrenKnown`, `FlowExact`, `NothingLost`, `ReceiptsExact`:
  the models count and choose with folds over sequences and sets of several
  kinds; the induction theorems of the library take operators as parameters,
  and the way round of `LimitsProofs` is for sums over finite sets only.
- `PipeExact`, `StreamsKept` and `FlowControlExact`, for the same reason: what
  is in the buffers of the pipe, in the output queue of an HTTP/2 connection
  and in the windows of its streams is computed by folds over chains.
- `CommandsObeyed`, which is about the same table of children.

## 7. Limits of the models

- `Shmtx`: a waiter that dies after it was woken takes a wakeup with it, hence
  no lost wakeup only before the first fault. `Rwlock` has no recovery in the
  code: a death of a holder blocks the others.
- `MasterCycle`: a reload is one step that succeeds or fails; the bookkeeping
  of OPEN/CLOSE_CHANNEL is left out; both ends of a channel are one number.
- `ThreadPool`: pthread calls succeed.
- `Connections`: handlers take their connection off the reusable queue before
  they ask for another; two reuses of one slot in one batch defeat the instance
  bit by design and are excluded by name; `close_idle_connections` is left out.
- `AcceptMutex`: one listening socket, so that a call which enables or disables
  the events of several and fails halfway is not seen; no EPOLLEXCLUSIVE,
  reuseport or UDP. In `Connections` the accept events are enabled again
  without failure.
- `FileCache`: min_uses is 1, background updates are left out, a file is one
  block, `faults` is off in the scenarios about size. Duplicate entries
  after forced expiry are possible in the code and in the model.
- `UpstreamPeers`: no sticky hints, SRV priorities or copy over a reload; the
  servers of a group have different addresses.
- `LimitConn`: a failed allocation of a cleanup and a dead worker lose counts
  (`MaxLost`); the limits of a request are one chain.
- `LimitReq`: the delay is left out; units are scaled; clocks differ by at most
  `lag`, less than the minute after which the code takes a time as a jump back.
- `Resolver`: no SRV, PTR or TCP; timeouts are not zero; a handler ends its own
  request only.
- `Requests`: content handlers send a last buffer, as `ngx_http_send_special`
  does; background subrequests send none (header_only, as the mirror module and
  background updates set it); keepalive and lingering close are the freeing of
  the request; post_action, in-memory subrequests and error pages are left out. An
  output filter that fails passes on nothing of its call; posting a request does
  not run out of memory. After a reference was given back twice the code may
  work on freed memory, and the model says nothing of it.
- `EventPipe`: one shadow per raw buffer; a request that is not the active
  one of its connection (the guard `downstream->data == output_ctx`), cyclic temporary files, kqueue, IOCP
  and sendfile in threads are left out.
- `Upstream`: a header arrives as a unit; servers send nothing unasked on a
  kept connection.
- `Http2`: a header block arrives as a unit; the dependency tree is a priority;
  the limit of 10000 frames, TLS buffering, padding, HPACK contents, requests
  blocked by threads and wrong content lengths are left out;
  `ngx_http_v2_finalize_connection` is a step that nothing interrupts.
- `QuicStreams`: an error of `ngx_quic_output`, which closes the connection, is
  not an event of its own (the close comes from elsewhere); no congestion control or RTT (a packet may be found lost by
  time whenever the code could), one encryption level, no migration, no
  amplification limit, GSO, MTU probes or limit of frames; posted events run
  in any order.
- Not modelled: TLS and cryptography, data formats, configuration, logging,
  other event methods and platforms, Perl.

## 8. Plan

In this order; what is done is described above. The runs are full; a new small
component becomes a part of one that exists.

1. Theorems: the window equations of `Http2` with payloads summed by a recursive
   function; `SharedLock` as the environment of the zones.
2. Models: reading of requests, keepalive and lingering close of clients with
   the request body; `Slab`, the open file cache, the timer tree at its wrap;
   the configuration cycle with roll back and inherited sockets; the stream proxy;
   resolver SRV and PTR; UDP sessions; the HTTP/3 dynamic table; QUIC paths and
   connection ids; mail state machines; parsers as functions.
