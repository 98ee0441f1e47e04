------------------------------ MODULE Requests ------------------------------
(***************************************************************************)
(* The life of an HTTP request and its subrequests on one connection: the  *)
(* reference count of the main request, the queue of posted requests, the  *)
(* request that may send (c->data), output that is postponed until its     *)
(* turn, background and waited subrequests, files read by threads,         *)
(* finalisation in any order, and termination when the client goes away.   *)
(*                                                                         *)
(* A worker is one thread.  An event runs the handler of a request and     *)
(* then all posted requests; step says where in this run the worker is,    *)
(* and nothing else happens until it is at rest.                           *)
(***************************************************************************)
EXTENDS Integers, Sequences, FiniteSets, FiniteSetsExt, SequencesExt, Queues

CONSTANTS
    Main,        \* the main request
    Subs,        \* subrequests
    Nil,
    AioReqs,     \* requests whose location has aio threads
    MaxChunks,   \* bound: MaxChunks[r] is the number of buffers request r produces
    MaxUnarmed   \* bound: calls of ngx_handle_write_event that fail

Reqs == Subs \cup {Main}

Pieces == UNION {{r} \X (1 .. MaxChunks[r]) : r \in Reqs}
Opening(r) == <<r, 0>>

ASSUME RequestsAssumption ==
    /\ IsFiniteSet(Subs) /\ Main \notin Subs /\ Nil \notin Reqs
    /\ AioReqs \subseteq Reqs /\ MaxChunks \in [Reqs -> Nat] /\ MaxUnarmed \in Nat
    /\ \A r \in Reqs : Opening(r) \notin Reqs
    /\ Pieces \cap Reqs = {}

VARIABLES
    req,        \* req[r]: a request, see NewRequest
    count,      \* main->count
    posted,     \* main->posted_requests
    data,       \* c->data, the active request
    buffered,   \* c->buffered: the client has not taken all that was sent
    error,      \* c->error
    terminated, \* main->terminated
    freed,      \* the pool of the request is destroyed
    step,       \* what the worker is doing
    sent,       \* what was passed to the client, in order
    document,   \* what was produced, subrequests in their places (ghost)
    alert,      \* the code has logged an alert
    unarmed,    \* calls of ngx_handle_write_event that failed
    twice       \* one of them gave back a reference that is given back again (ghost)

faults == <<unarmed, twice>>
vars == <<req, count, posted, data, buffered, error, terminated, freed, step, sent, document, alert, faults>>

(* write is write_event_handler; ext: an upstream works for the request;   *)
(* aio: a thread reads a file for it, held is what waits for that; doc is  *)
(* all that the request itself has produced and asked for (ghost).         *)
NewRequest == [parent |-> Nil, write |-> "none", background |-> FALSE, waited |-> FALSE,
               postponed |-> <<>>, held |-> <<>>, aio |-> FALSE, ext |-> FALSE,
               done |-> FALSE, logged |-> FALSE, doc |-> <<>>]

Rest == [op |-> "rest"]
Loop == [op |-> "loop"]
Content(r) == [op |-> "content", r |-> r]
Run(r) == [op |-> "run", r |-> r]
Finalize(r, rc) == [op |-> "finalize", r |-> r, rc |-> rc]

Start ==
    /\ req = [r \in Reqs |-> IF r = Main THEN [NewRequest EXCEPT !.write = "handler"] ELSE NewRequest]
    /\ count = 1 /\ posted = <<>> /\ data = Main /\ buffered = FALSE /\ error = FALSE
    /\ terminated = FALSE /\ freed = FALSE /\ step = Content(Main) /\ sent = <<>> /\ alert = FALSE
    /\ document = <<Opening(Main), Main>>
    /\ unarmed = 0 /\ twice = FALSE

Init == Start

Created == {r \in Reqs : req[r].write # "none"}
NeverBlocked(rq) == FALSE
Blocked(rq) == \E r \in Reqs : rq[r].aio

(* ngx_http_post_request *)
Post(p, r) == IF r \in ToSet(p) THEN p ELSE Append(p, r)

-----------------------------------------------------------------------------
(* ngx_http_postpone_filter for new output of r (possibly none), where rq  *)
(* holds the requests.  Only the active request sends: what comes before   *)
(* its next subrequest, which then becomes the active one.                 *)

IsSub(x) == x \in Reqs

PutInFront(p, out) == out \o p
PutAsideFirst(p, out) == IF p = <<>> THEN out ELSE p
PutAside(p, out) == p \o out

PostponeFilter(rq, r, out) ==
    LET p == PutAside(rq[r].postponed, out)
        subs == {i \in DOMAIN p : IsSub(p[i])}
        n == IF r # data THEN 0 ELSE IF subs = {} THEN Len(p) ELSE Min(subs) - 1
        wake == r = data /\ subs # {}
    IN /\ sent' = sent \o SubSeq(p, 1, n)
       /\ buffered' \in (IF n = 0 THEN {buffered} ELSE BOOLEAN)
       /\ req' = [rq EXCEPT ![r].postponed = SubSeq(p, IF wake THEN n + 2 ELSE n + 1, Len(p)),
                            ![r].held = <<>>]
       /\ data' = IF wake THEN p[n + 1] ELSE data
       /\ posted' = IF wake THEN Post(posted, p[n + 1]) ELSE posted

-----------------------------------------------------------------------------
(* The content handler of a request: it sends buffers and starts           *)
(* subrequests, waits for an upstream or a subrequest, and ends.           *)

Working(r) == step = Content(r)
Buffers(r) == Cardinality({i \in DOMAIN req[r].doc : ~IsSub(req[r].doc[i])})
NewBufferFromZero(r) == <<r, Buffers(r)>>
NewBuffer(r) == <<r, Buffers(r) + 1>>
MayOutput(r) == Buffers(r) < MaxChunks[r] /\ req[r].held = <<>> /\ ~req[r].background
Noted(rq, r, x) == [rq EXCEPT ![r].doc = Append(@, x)]

(* In the document r stands where what it produces goes: x, in front of it. *)
Written(d, r, x) == InsertAt(d, PlaceOf(d, r), x)

Output(r) ==
    /\ Working(r) /\ MayOutput(r) /\ ~(error /\ r = data)
    /\ PostponeFilter(Noted(req, r, NewBuffer(r)), r, <<NewBuffer(r)>>)
    /\ document' = Written(document, r, NewBuffer(r))
    /\ UNCHANGED <<count, error, terminated, freed, step, alert>>

(* The copy filter has a thread read the file: the buffer waits for it.    *)
OutputAio(r) ==
    /\ Working(r) /\ MayOutput(r) /\ r \in AioReqs
    /\ req' = Noted([req EXCEPT ![r].held = <<NewBuffer(r)>>, ![r].aio = TRUE], r, NewBuffer(r))
    /\ document' = Written(document, r, NewBuffer(r))
    /\ UNCHANGED <<count, posted, data, buffered, error, terminated, freed, step, sent, alert>>

(* ngx_http_subrequest *)
NotReferenced == count
Referenced == count + 1

Subrequest(r, s, background, waited) ==
    /\ Working(r) /\ MayOutput(r) /\ s \in Subs \ Created /\ ~(background /\ waited)
    /\ LET new == [NewRequest EXCEPT !.parent = r, !.write = "handler",
                                     !.background = background, !.waited = waited]
       IN IF background
          THEN req' = [req EXCEPT ![s] = new] /\ UNCHANGED <<data, document>>
          ELSE /\ req' = Noted([req EXCEPT ![s] = new, ![r].postponed = Append(@, s)], r, s)
               /\ data' = IF data = r /\ req[r].postponed = <<>> THEN s ELSE data
               /\ document' = Written(Written(document, r, s), s, Opening(s))
    /\ count' = Referenced
    /\ posted' = Post(posted, s)
    /\ UNCHANGED <<buffered, error, terminated, freed, step, sent, alert>>

(* An upstream is started once the body is being read, which counts; the   *)
(* content handler returns bjrk-edge_DONE.                                 *)
StartUpstream(r) ==
    /\ Working(r) /\ req[r].write = "handler" /\ req[r].held = <<>>
    /\ req' = [req EXCEPT ![r].write = "upstream", ![r].ext = TRUE]
    /\ count' = count + 1
    /\ step' = Finalize(r, "done")
    /\ UNCHANGED <<posted, data, buffered, error, terminated, freed, sent, document, alert>>

(* The upstream handler returns and waits for more.                        *)
UpstreamAgain(r) ==
    /\ Working(r) /\ req[r].write = "upstream" /\ Buffers(r) < MaxChunks[r] /\ req[r].held = <<>>
    /\ req' = [req EXCEPT ![r].ext = TRUE]
    /\ step' = Loop
    /\ UNCHANGED <<count, posted, data, buffered, error, terminated, freed, sent, document, alert>>

(* A phase handler waits for its subrequest.                               *)
Awaited(r) == \E s \in Subs : req[s].parent = r /\ req[s].waited /\ ~req[s].done

WaitSubrequest(r) ==
    /\ Working(r) /\ req[r].write = "handler" /\ Awaited(r) /\ req[r].held = <<>>
    /\ req[r].doc # <<>> /\ IsSub(Last(req[r].doc))
    /\ step' = Loop
    /\ UNCHANGED <<req, count, posted, data, buffered, error, terminated, freed, sent, document, alert>>

(* The content is complete: a handler has sent a body that ends in a       *)
(* buffer of its own, or nothing; an upstream sends the last buffer now    *)
(* (ngx_http_send_special), unless it is queued behind a read.             *)
Complete(r) ==
    /\ Working(r) /\ ~Awaited(r)
    /\ \/ /\ req[r].write = "handler" \/ req[r].background \/ req[r].held # <<>>
          /\ req[r].doc # <<>> => ~IsSub(Last(req[r].doc))
          /\ UNCHANGED <<req, posted, data, buffered, sent, document>>
       \/ /\ req[r].write = "upstream" /\ MayOutput(r) /\ ~(error /\ r = data)
          /\ PostponeFilter(Noted(req, r, NewBuffer(r)), r, <<NewBuffer(r)>>)
          /\ document' = Written(document, r, NewBuffer(r))
    /\ step' = Finalize(r, "ok")
    /\ UNCHANGED <<count, error, terminated, freed, alert>>

ContentFails(r) ==
    /\ Working(r)
    /\ step' = Finalize(r, "error")
    /\ UNCHANGED <<req, count, posted, data, buffered, error, terminated, freed, sent, document, alert>>

ContentStep ==
    \E r \in Reqs :
        \/ Output(r) \/ OutputAio(r) \/ StartUpstream(r) \/ UpstreamAgain(r)
        \/ WaitSubrequest(r) \/ Complete(r) \/ ContentFails(r)
        \/ \E s \in Subs, background, waited \in BOOLEAN : Subrequest(r, s, background, waited)

-----------------------------------------------------------------------------
(* ngx_http_finalize_request, a branch at a time.                          *)

(* ngx_http_finalize_connection: drop a reference; the last one frees the  *)
(* request, for the next one on the connection or together with it.        *)
FinalizeConnection ==
    /\ alert' = (alert \/ count = 0)
    /\ count' = count - 1
    /\ freed' = (count = 1)
    /\ step' = Loop

(* ngx_http_close_request for a request that is not done with.             *)
CloseRequest ==
    /\ alert' = (alert \/ count = 0)
    /\ count' = count - 1
    /\ freed' = (count = 1 /\ ~Blocked(req))

(* ngx_http_terminate_request, where was holds the requests: the cleanups  *)
(* end the upstreams, each with bjrk-edge_DONE; then the main request is   *)
(* to be closed, unless a thread works for it: then when the thread is     *)
(* ready.                                                                  *)
TerminateFrom(was, refs) ==
    LET exts == {r \in Reqs : was[r].ext}
        rq == [r \in Reqs |-> [was[r] EXCEPT !.ext = FALSE]]
    IN /\ terminated' = TRUE
       /\ count' = refs - Cardinality(exts)
       /\ alert' = (alert \/ (exts # {} /\ refs <= Cardinality(exts)))
       /\ IF Blocked(was)
          THEN /\ error' = TRUE
               /\ req' = [rq EXCEPT ![data].write = "finalizer"]
               /\ UNCHANGED posted
          ELSE /\ posted' = <<Main>>
               /\ req' = [rq EXCEPT ![Main].write = "terminate"]
               /\ UNCHANGED error
       /\ step' = Loop
       /\ UNCHANGED <<data, buffered, freed, sent, document>>

Terminate(refs) == TerminateFrom(req, refs)

Finalizing(r) == step.op = "finalize" /\ step.r = r
FinalizingOk(r) == Finalizing(r) /\ step.rc = "ok" /\ ~error

FinalizeDone(r) ==
    /\ Finalizing(r) /\ step.rc = "done"
    /\ FinalizeConnection
    /\ UNCHANGED <<req, posted, data, buffered, error, terminated, sent, document>>

FinalizeError(r) ==
    /\ Finalizing(r) /\ (step.rc = "error" \/ (step.rc = "ok" /\ error))
    /\ Terminate(count)

(* ngx_http_set_write_handler *)
HasOutput(r) == req[r].held # <<>> \/ req[r].postponed # <<>> \/ (r = Main /\ buffered)
WriterSet(r) == [req EXCEPT ![r].write = "writer"]

FinalizeLater(r) ==
    /\ FinalizingOk(r) /\ HasOutput(r)
    /\ req' = WriterSet(r)
    /\ step' = Loop
    /\ UNCHANGED <<count, posted, data, buffered, error, terminated, freed, sent, document, alert>>

(* ngx_handle_write_event fails in it: it closes the request, and then     *)
(* ngx_http_finalize_request terminates the same request.  If it was freed *)
(* by the close, the rest works on freed memory, which is left open here.  *)
Unarmed == unarmed < MaxUnarmed /\ unarmed' = unarmed + 1

FinalizeLaterUnarmed(r) ==
    /\ FinalizingOk(r) /\ HasOutput(r) /\ Unarmed
    /\ twice' = TRUE
    /\ IF count = 1 /\ ~Blocked(req)
         THEN /\ CloseRequest
              /\ req' = WriterSet(r)
              /\ step' = Loop
              /\ UNCHANGED <<posted, data, buffered, error, terminated, sent, document>>
         ELSE TerminateFrom(WriterSet(r), count - 1)

DrainedOfHeld(r) == req[r].held = <<>>
Drained(r) == req[r].held = <<>> /\ req[r].postponed = <<>>

FinalizeBackground(r) ==
    /\ FinalizingOk(r) /\ Drained(r) /\ r # Main /\ req[r].background
    /\ req' = [req EXCEPT ![r].done = TRUE, ![r].logged = TRUE]
    /\ FinalizeConnection
    /\ UNCHANGED <<posted, data, buffered, error, terminated, sent, document>>

(* A subrequest whose turn it is ends and hands its turn back.             *)
Unlinked(p, r) == IF p # <<>> /\ Head(p) = r THEN Tail(p) ELSE p

FinalizeActive(r) ==
    /\ FinalizingOk(r) /\ Drained(r) /\ r # Main /\ r = data /\ ~req[r].background
    /\ alert' = (alert \/ req[r].logged)
    /\ LET parent == req[r].parent
       IN /\ req' = [req EXCEPT ![r].done = TRUE, ![r].logged = TRUE, ![r].write = "empty",
                                ![parent].postponed = Unlinked(@, r)]
          /\ data' = parent
          /\ posted' = Post(posted, parent)
    /\ count' = count - 1
    /\ step' = Loop
    /\ UNCHANGED <<buffered, error, terminated, freed, sent, document>>

(* One that ends before its turn is finalised again when its turn comes.   *)
ForgottenInactive(r) == [req EXCEPT ![r].write = "empty", ![r].done = req[r].waited]
Inactive(r) == [req EXCEPT ![r].write = "finalizer", ![r].done = req[r].waited]

FinalizeInactive(r) ==
    /\ FinalizingOk(r) /\ Drained(r) /\ r # Main /\ r # data /\ ~req[r].background
    /\ req' = Inactive(r)
    /\ posted' = Post(posted, req[r].parent)
    /\ step' = Loop
    /\ UNCHANGED <<count, data, buffered, error, terminated, freed, sent, document, alert>>

FinalizeMain ==
    /\ FinalizingOk(Main) /\ Drained(Main) /\ ~buffered
    /\ IF data # Main
       THEN alert' = TRUE /\ step' = Loop /\ UNCHANGED <<req, count, freed>>
       ELSE /\ req' = [req EXCEPT ![Main].done = TRUE, ![Main].write = "empty"]
            /\ FinalizeConnection
    /\ UNCHANGED <<posted, data, buffered, error, terminated, sent, document>>

FinalizeStep ==
    \/ \E r \in Reqs : FinalizeDone(r) \/ FinalizeError(r) \/ FinalizeLater(r)
    \/ \E r \in Subs : FinalizeBackground(r) \/ FinalizeActive(r) \/ FinalizeInactive(r)
    \/ FinalizeMain

-----------------------------------------------------------------------------
(* ngx_http_run_posted_requests, and what a write_event_handler does.      *)

LoopEnds ==
    /\ step = Loop /\ (freed \/ posted = <<>>)
    /\ step' = Rest
    /\ UNCHANGED <<req, count, posted, data, buffered, error, terminated, freed, sent, document, alert>>

RunPosted ==
    /\ step = Loop /\ ~freed /\ posted # <<>>
    /\ posted' = Tail(posted)
    /\ step' = Run(Head(posted))
    /\ UNCHANGED <<req, count, data, buffered, error, terminated, freed, sent, document, alert>>

Running(r, handler) == step = Run(r) /\ req[r].write = handler

(* Phases go on from where they stopped.                                   *)
RunHandler(r) ==
    /\ Running(r, "handler") /\ ~Awaited(r)
    /\ step' = Content(r)
    /\ UNCHANGED <<req, count, posted, data, buffered, error, terminated, freed, sent, document, alert>>

(* A handler that waits for a subrequest lets its output go on; the SSI    *)
(* filter also waits for its turn.                                         *)
Waiting(r) == \E s \in Subs : req[s].parent = r /\ req[s].waited /\ req[r].doc # <<>> /\ Last(req[r].doc) = s

RunWaiting(r) ==
    /\ Running(r, "handler") /\ ~(error /\ r = data)
    /\ Awaited(r) \/ (Waiting(r) /\ r # data)
    /\ PostponeFilter(req, r, <<>>)
    /\ step' = Loop
    /\ UNCHANGED <<count, error, terminated, freed, document, alert>>

(* Upstream handlers and the empty one have nothing to do.                 *)
RunIdle(r) ==
    /\ Running(r, "upstream") \/ Running(r, "empty") \/ (Running(r, "writer") /\ req[r].aio)
    /\ step' = Loop
    /\ UNCHANGED <<req, count, posted, data, buffered, error, terminated, freed, sent, document, alert>>

(* ngx_http_writer *)
RunWriter(r) ==
    /\ Running(r, "writer") /\ ~req[r].aio /\ ~(error /\ r = data)
    /\ PostponeFilter(req, r, req[r].held)
    /\ step' = IF req'[r].postponed # <<>> \/ (r = Main /\ buffered')
               THEN Loop ELSE Finalize(r, "ok")
    /\ UNCHANGED <<count, error, terminated, freed, document, alert>>

(* Its output filter returns an error: one of sending (c->error is set by  *)
(* the active request only) or of an allocation.                           *)
RunWriterFails(r) ==
    /\ Running(r, "writer") /\ ~req[r].aio
    /\ error' \in (IF r = data THEN {error, TRUE} ELSE {error})
    /\ step' = Finalize(r, "error")
    /\ UNCHANGED <<req, count, posted, data, buffered, terminated, freed, sent, document, alert>>

(* ngx_handle_write_event fails in it: the request is closed.  Unless that *)
(* frees it, the reference that was given back is one that the writer will *)
(* give back again when it ends.                                           *)
RunWriterUnarmed(r) ==
    /\ Running(r, "writer") /\ Unarmed
    /\ \/ req[r].aio /\ UNCHANGED <<req, posted, data, buffered, sent>>
       \/ /\ ~req[r].aio /\ ~(error /\ r = data)
          /\ PostponeFilter(req, r, req[r].held)
          /\ req'[r].postponed # <<>> \/ (r = Main /\ buffered')
    /\ CloseRequest
    /\ twice' = (twice \/ ~freed')
    /\ step' = Loop
    /\ UNCHANGED <<error, terminated, document>>

RunFinalizer(r) ==
    /\ Running(r, "finalizer")
    /\ step' = Finalize(r, "ok")
    /\ UNCHANGED <<req, count, posted, data, buffered, error, terminated, freed, sent, document, alert>>

(* ngx_http_terminate_handler, ngx_http_close_request                      *)
RunTerminate ==
    /\ Running(Main, "terminate")
    /\ count' = 0
    /\ freed' = ~Blocked(req)
    /\ step' = Loop
    /\ UNCHANGED <<req, posted, data, buffered, error, terminated, sent, document, alert>>

LoopStep ==
    \/ LoopEnds \/ RunPosted \/ RunTerminate
    \/ \E r \in Reqs : \/ RunHandler(r) \/ RunWaiting(r) \/ RunIdle(r)
                       \/ RunWriter(r) \/ RunWriterFails(r) \/ RunFinalizer(r)

-----------------------------------------------------------------------------
(* Events, while the worker is at rest.                                    *)

Ready == step = Rest /\ ~freed

UpstreamEvent(r) ==
    /\ Ready /\ req[r].ext
    /\ req' = [req EXCEPT ![r].ext = FALSE]
    /\ step' = Content(r)
    /\ UNCHANGED <<count, posted, data, buffered, error, terminated, freed, sent, document, alert>>

(* ngx_http_copy_thread_event_handler *)
AioDone(r) ==
    /\ Ready /\ req[r].aio
    /\ req' = [req EXCEPT ![r].aio = FALSE]
    /\ step' = Run(IF req[r].done \/ terminated THEN data ELSE r)
    /\ UNCHANGED <<count, posted, data, buffered, error, terminated, freed, sent, document, alert>>

(* The client takes what was sent: a write event runs the active request.  *)
ClientWrite ==
    /\ Ready /\ buffered
    /\ buffered' = FALSE
    /\ step' = Run(data)
    /\ UNCHANGED <<req, count, posted, data, error, terminated, freed, sent, document, alert>>

(* ngx_http_test_reading, the upstream's check of the connection, and the  *)
(* timeout of sending: the client is gone.                                 *)
ClientGone ==
    /\ Ready /\ req[data].write \in {"upstream", "writer"}
    /\ error' \in {error, TRUE}
    /\ req' = [req EXCEPT ![data].ext = FALSE]
    /\ step' = Finalize(data, "error")
    /\ UNCHANGED <<count, posted, data, buffered, terminated, freed, sent, document, alert>>

(* c->close in ngx_http_request_handler: the connection is to be closed.   *)
ConnectionClose ==
    /\ Ready /\ ~terminated
    /\ Terminate(count + 1)

(* The request is freed: the next one starts afresh.                       *)
Finished == step = Rest /\ freed /\ UNCHANGED vars

Event ==
    \/ \E r \in Reqs : UpstreamEvent(r) \/ AioDone(r)
    \/ ClientWrite \/ ClientGone \/ ConnectionClose

Worker == ContentStep \/ FinalizeStep \/ LoopStep
Unarming == \E r \in Reqs : FinalizeLaterUnarmed(r) \/ RunWriterUnarmed(r)

Next ==
    \/ (Worker \/ Event \/ Finished) /\ UNCHANGED faults
    \/ Unarming

Spec == Init /\ [][Next]_vars

(* The worker runs; as long as upstreams, threads or the client owe an     *)
(* answer one of them answers or times out; content handlers that are      *)
(* called again and again end.                                             *)
Answer == ClientWrite \/ \E r \in Reqs : UpstreamEvent(r) \/ AioDone(r)
ContentEnds == \E r \in Reqs : Complete(r) \/ ContentFails(r)

Fairness ==
    /\ WF_vars(Worker /\ UNCHANGED faults) /\ SF_vars(Answer /\ UNCHANGED faults)
    /\ SF_vars(ContentEnds /\ UNCHANGED faults)

LiveSpec == Spec /\ Fairness

-----------------------------------------------------------------------------
(* Properties.                                                             *)

TypeOK ==
    /\ \A r \in Reqs :
          /\ req[r].parent \in Reqs \cup {Nil}
          /\ req[r].write \in {"none", "handler", "upstream", "writer", "finalizer", "empty", "terminate"}
          /\ \A f \in {"background", "waited", "aio", "ext", "done", "logged"} : req[r][f] \in BOOLEAN
          /\ \A i \in DOMAIN req[r].postponed : req[r].postponed[i] \in Reqs \cup Pieces
          /\ \A i \in DOMAIN req[r].doc : req[r].doc[i] \in Reqs \cup Pieces
          /\ req[r].held \in {<<>>} \cup {<<p>> : p \in Pieces}
    /\ count \in 0 .. (2 * Cardinality(Reqs) + 1)
    /\ ToSet(posted) \subseteq Created /\ data \in Created
    /\ {buffered, error, terminated, freed, alert} \subseteq BOOLEAN
    /\ ToSet(sent) \subseteq Pieces
    /\ unarmed \in 0 .. MaxUnarmed

(* main->count is the number of requests that are not finalised for good,  *)
(* and of content handlers that have yet to return bjrk-edge_DONE.         *)
Held == {r \in Created : ~(IF r = Main THEN req[r].done ELSE req[r].logged)}

CountExact ==
    ~terminated /\ ~freed =>
        count = Cardinality(Held) + (IF step.op = "finalize" /\ step.rc = "done" THEN 1 ELSE 0)

(* When the request's memory is freed nothing that uses it is left: no     *)
(* upstream, no thread, and no request the worker is about to run.         *)
NothingAfterFree ==
    freed => /\ step \in {Loop, Rest}
             /\ \A r \in Reqs : ~req[r].ext /\ ~req[r].aio

(* The alerts that the code logs when it finds that a request was          *)
(* finalised too often or out of turn are never logged, and termination    *)
(* does not free the request it goes on to use.                            *)
NoAlerts == ~alert

(* The client gets the output of the subrequests in the order of the       *)
(* document, in whatever order they finish: what was sent is what the      *)
(* document begins with, and all of it when the request ends by itself and *)
(* not because it could not wait for the client (unarmed).                 *)
Before(d, x, y) == \E i, j \in DOMAIN d : i < j /\ d[i] = x /\ d[j] = y

InOrder ==
    /\ ToSet(sent) \subseteq ToSet(document)
    /\ \A i, j \in DOMAIN sent : i < j => Before(document, sent[i], sent[j])
    /\ \A x, y \in ToSet(document) \cap Pieces :
          y \in ToSet(sent) /\ Before(document, x, y) => x \in ToSet(sent)

Whole == freed /\ ~terminated => ToSet(document) \cap Pieces \subseteq ToSet(sent)
Entire == unarmed = 0 => Whole

(* What ngx_http_close_request checks itself, and logs an alert if it does *)
(* not hold: who gives a reference back finds one ("http request count is  *)
(* zero").                                                                 *)
CountNeverBelowZero == count >= 0

(* The exception: ngx_handle_write_event failed where the code gives back  *)
(* a reference (ngx_http_set_write_handler, ngx_http_writer) that is given *)
(* back again when the request ends.                                       *)
GivenTwice == twice

(* Every request ends and is freed: no chain of subrequests that wait for  *)
(* their turn, for a thread or for the client stalls, but for GivenTwice.  *)
Ends == <>(freed \/ GivenTwice)

(* The references to the main request are exact, so that none of the       *)
(* alerts is logged and nothing comes back to a request that is freed, as  *)
(* long as no reference was given back twice (GivenTwice).                 *)
ReferencesKept == GivenTwice \/ (TypeOK /\ NoAlerts /\ CountExact /\ NothingAfterFree)

(* The client gets what the request and its subrequests produced, in the   *)
(* order of the document, and when the request ends by itself all of it;   *)
(* nothing is said of a request that may be used after it was freed        *)
(* (GivenTwice).                                                           *)
OutputExact == GivenTwice \/ (InOrder /\ Entire)
=============================================================================
