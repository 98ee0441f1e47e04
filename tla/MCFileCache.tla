---------------------------- MODULE MCFileCache ----------------------------
(***************************************************************************)
(* How responses are kept and passed on, for TLC: the shared entries of    *)
(* the cache, and the pipe that brings a response to the client and to the *)
(* file.  A behaviour is one of a part, and the other one rests.           *)
(***************************************************************************)
EXTENDS FileCache, TLC

CONSTANTS r1, r2, r3, k1, k2
CONSTANTS Num, Size, BusySize, WriteSize, Room, Transfers
VARIABLES transfer, p, server, client, pc, end
VARIABLE part

-----------------------------------------------------------------------------
(***************************************************************************)
(* The cache: up to three requests, one or two keys and one or two slots   *)
(* of memory, in a scenario for each of its mechanisms.                    *)
(***************************************************************************)

Same == (r1 :> k1) @@ (r2 :> k1)
Two == (r1 :> k1) @@ (r2 :> k2)
Three == (r1 :> k1) @@ (r2 :> k1) @@ (r3 :> k1)

Plain ==
    [main |-> Same, slots |-> 2, lock |-> FALSE, limited |-> FALSE,
     stale |-> FALSE, errors |-> FALSE, vary |-> FALSE, disk |-> {}, manager |-> FALSE,
     faults |-> FALSE, repeat |-> FALSE, locks |-> 2, crashes |-> 0, broken |-> 0]

(* Requests that follow each other for one key while the manager deletes:  *)
(* two at a time, and one at a time with errors and faults.                *)
Following == [Plain EXCEPT !.slots = 1, !.lock = TRUE, !.stale = TRUE, !.manager = TRUE,
                           !.repeat = TRUE, !.locks = 1]
Stumbling == [Following EXCEPT !.main = (r1 :> k1), !.errors = TRUE, !.faults = TRUE,
                               !.locks = 2]
(* Two concurrent requests with errors and faults. *)
Faulty == [Stumbling EXCEPT !.main = Same, !.repeat = FALSE]
(* Variants: on a cold cache with a crash, and with the manager. *)
Varying == [Plain EXCEPT !.vary = TRUE, !.disk = {k1}, !.crashes = 1]
VaryingDeleted == [Varying EXCEPT !.disk = {}, !.manager = TRUE]
(* Memory for one entry only: entries are forced out. *)
Crowded == [Plain EXCEPT !.main = Two, !.slots = 1, !.lock = TRUE, !.limited = TRUE,
                         !.stale = TRUE, !.disk = {k2}, !.manager = TRUE, !.crashes = 1,
                         !.broken = 1]
(* Three variants of a resource, nothing deleted. *)
Counting == [Plain EXCEPT !.main = Three, !.vary = TRUE]
(* Three requests for one missing resource, one of which may die. *)
Waiting == [Plain EXCEPT !.main = Three, !.slots = 1, !.lock = TRUE, !.stale = TRUE,
                         !.locks = 4, !.crashes = 1]
(* Entries become inactive; a dead worker or deletion leaves one behind. *)
Leaving == [Plain EXCEPT !.main = Two, !.manager = TRUE, !.crashes = 1]
Breaking == [Plain EXCEPT !.main = Two, !.manager = TRUE, !.broken = 1]

Operation == {Following, Stumbling, Faulty, Varying, VaryingDeleted, Crowded, Counting,
              Waiting, Leaving, Breaking}

-----------------------------------------------------------------------------
(***************************************************************************)
(* The pipe: two buffers, a temporary file of two or three, a client that  *)
(* takes little at a time, and transfers that each bring one part of the   *)
(* code into play.                                                         *)
(***************************************************************************)
Direct == [total |-> 7, length |-> -1, preread |-> 1, cacheable |-> FALSE, threads |-> FALSE,
          maxtemp |-> 2, postpone |-> 0, limit |-> FALSE, rate |-> FALSE, faults |-> FALSE]
Limited == [Direct EXCEPT !.limit = TRUE, !.rate = TRUE, !.total = 6, !.faults = TRUE]
Threaded == [Direct EXCEPT !.threads = TRUE, !.rate = TRUE, !.length = 7, !.maxtemp = 3, !.preread = 0]
Cached == [Direct EXCEPT !.cacheable = TRUE, !.total = 5, !.maxtemp = 0, !.faults = TRUE, !.length = 4]
CachedThreads == [Cached EXCEPT !.threads = TRUE, !.length = -1, !.postpone = 2, !.rate = TRUE]
NoFile == [Direct EXCEPT !.maxtemp = 0, !.length = 6, !.total = 7, !.faults = TRUE]
Ways == {Direct, Limited, Threaded, Cached, CachedThreads, NoFile}

Pipe == INSTANCE EventPipe WITH Scenarios <- Transfers, conf <- transfer, s <- server, c <- client

ASSUME PartsAssumption == FileCacheAssumption /\ Pipe!PipeAssumption

-----------------------------------------------------------------------------
pipeVars == <<transfer, p, server, client, pc, end>>
all == <<vars, pipeVars, part>>

MCInit ==
    /\ part \in {"cache", "pipe"}
    /\ Init /\ Pipe!Init
    /\ part = "cache" => transfer = Direct
    /\ part = "pipe" => conf = Breaking

Caching(A) == part = "cache" /\ A /\ UNCHANGED <<pipeVars, part>>
Piping(A) == part = "pipe" /\ A /\ UNCHANGED <<vars, part>>

MCNext == Caching(Next) \/ Piping(Pipe!Next)

(***************************************************************************)
(* The fairness of both.  What rests has no step, so that conditions of    *)
(* different parts can share a formula.                                    *)
(***************************************************************************)
PipeRuns == part = "pipe" /\ Pipe!Running
CacheRuns ==
    /\ \/ \E r \in Requests : Step(r) \/ Response(r) \/ Expire(r)
       \/ \E n \in Slots : LockAges(n)
    /\ UNCHANGED conf
ManagerRuns == Expire(Manager) /\ UNCHANGED conf

MCFairness ==
    /\ []<>~PipeRuns \/ []<><<PipeRuns>>_<<p, pc, client.ready>>
    /\ WF_all(Caching(CacheRuns) \/ Piping(Pipe!Events))
    /\ WF_all(Caching(ManagerRuns) \/ Piping(Pipe!UpstreamTimer))
    /\ WF_all(Piping(Pipe!DownstreamTimer)) /\ WF_all(Piping(Pipe!ThreadDone))

MCSpec == MCInit /\ [][MCNext]_all /\ MCFairness

(* No buffer of the pipe is lost or used twice, and the response passes    *)
(* memory, file and threads in order and complete.                         *)
PipeExact == Pipe!PipeExact

(* A request whose response the pipe passes on ends, whatever the server   *)
(* and the client do, or no longer do.                                     *)
PipeEnds == part = "pipe" => Pipe!PipeEnds
=============================================================================
