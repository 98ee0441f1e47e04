------------------------------- MODULE Http2 -------------------------------
(***************************************************************************)
(* An HTTP/2 connection: its streams, the windows of both directions, the  *)
(* queue of frames to be sent, and the ways a stream or the connection     *)
(* ends.  Bytes are counted in units; a frame is one unit of header and    *)
(* its payload.  A handler runs to its end: it is an operator from the     *)
(* state w of the connection to the next one, and the handlers it calls    *)
(* are applied inside it.  Only the read handler, which may take several   *)
(* frames at once, is cut into steps (c.blk is h2c->blocked).              *)
(***************************************************************************)
EXTENDS Integers, Sequences, SequencesExt

CONSTANTS
    NStreams,        \* streams the client may open: 1, 2, ... stand for 1, 3, ...
    DefaultWindow, MaxWindow,   \* HTTP_V2_DEFAULT_WINDOW, HTTP_V2_MAX_WINDOW
    FrameSize,       \* the least of http2_chunk_size and the client's frame size
    Concurrent,      \* http2_max_concurrent_streams
    KeepaliveRequests,
    Preread,         \* http2_body_preread_size
    BodyBuffer,      \* the buffer of a body that is passed on while it is read
    Room,            \* what the socket takes before the client reads
    Scenarios        \* what is asked, and what the client may do: records conf

ASSUME Http2Assumption ==
    /\ \A n \in {NStreams, FrameSize, Concurrent, KeepaliveRequests, Preread,
                 DefaultWindow} : n \in Nat \ {0}
    /\ MaxWindow \in Nat /\ MaxWindow >= DefaultWindow
    /\ BodyBuffer \in Preread .. MaxWindow /\ Room \in Nat \ {0}

VARIABLES w, bud, conf
vars == <<w, bud, conf>>

Sids == 1 .. NStreams

(***************************************************************************)
(* What request s is: the body it takes ("none", "buf": saved before the   *)
(* handler goes on, "unbuf": passed on while it is read), the units of its *)
(* answer, in how many goes, with trailers, with limit_rate, deaf with     *)
(* proxy_ignore_client_abort, late when the body is read after a phase     *)
(* that waits.                                                             *)
(***************************************************************************)
Ask(s) == conf.ask[s]

\* ngx_http_v2_create_stream, the fields of a stream, its request and fc
NewStream(s, win, fin) ==
    [st |-> "open", rq |-> "run", inClosed |-> fin, outClosed |-> FALSE,
     rst |-> FALSE, queued |-> 0, sendw |-> win, recvw |-> Preread,
     grant |-> win, exhausted |-> FALSE, waiting |-> FALSE, skip |-> FALSE, err |-> FALSE,
     buffered |-> FALSE, ready |-> TRUE, delayed |-> FALSE,
     wtimer |-> FALSE, rtimer |-> FALSE, hdr |-> FALSE, in |-> 0,
     last |-> FALSE, more |-> Ask(s).size, made |-> 0, sent |-> 0, tok |-> 1,
     body |-> Ask(s).body, nfc |-> FALSE, pre |-> 0, fill |-> 0, pos |-> 0,
     busy |-> 0, rest |-> TRUE, oops |-> FALSE]

Init ==
    /\ conf \in Scenarios
    /\ bud = conf.bud
    /\ w = [c |-> [sendw |-> DefaultWindow, initw |-> DefaultWindow,
                   recvw |-> MaxWindow, proc |-> 0, goaway |-> FALSE,
                   err |-> FALSE, blk |-> FALSE, lastSid |-> 0, new |-> 0,
                   reqs |-> 0, ack |-> FALSE, close |-> FALSE,
                   rh |-> "read", wh |-> "write", wready |-> TRUE,
                   room |-> Room, wtimer |-> FALSE, rtimer |-> TRUE,
                   gone |-> FALSE, enc |-> 0, encSent |-> 0,
                   grant |-> DefaultWindow],
            in |-> [s |-> 0, len |-> 0, fin |-> FALSE, some |-> FALSE],
            out |-> <<>>, wait |-> <<>>, posted |-> <<>>, rc |-> "ok",
            prio |-> [s \in Sids |-> 0],
            st |-> [s \in Sids |-> [NewStream(s, 0, FALSE) EXCEPT !.st = "none"]]]

\* the memory of a stream or of the connection is given back
Freed(s) == [NewStream(s, 0, FALSE) EXCEPT !.st = "closed", !.rq = "none"]

-----------------------------------------------------------------------------
(* The queue of frames.  out[1] is sent first; h2c->last_out is its end.    *)

Frame(s, id, kind, off, len, fin) ==
    [s |-> s, id |-> id, kind |-> kind, off |-> off, len |-> len, fin |-> fin,
     left |-> len + 1, blocked |-> kind = "hdr"]

\* a frame of the connection itself
Ctl(id, kind) == Frame(0, id, kind, 0, 0, FALSE)

\* the place after the last frame that must not be overtaken
After(q, Stays(_)) ==
    LET at == {i \in 1 .. Len(q) : Stays(q[i])}
    IN  IF at = {} THEN 0 ELSE CHOOSE i \in at : \A j \in at : j <= i

QueueFrame(x, f) ==
    LET Stays(g) == g.blocked \/ g.s = 0 \/ x.prio[g.s] <= x.prio[f.s]
    IN  [x EXCEPT !.out = InsertAt(@, After(@, Stays) + 1, f)]

QueueBlockedFrame(x, f) ==
    LET Stays(g) == g.blocked \/ g.s = 0
    IN  [x EXCEPT !.out = InsertAt(@, After(@, Stays) + 1, f)]

QueueOrderedFrame(x, f) == [x EXCEPT !.out = Append(@, f)]

Post(x, e) == IF Contains(x.posted, e) THEN x
              ELSE [x EXCEPT !.posted = Append(@, e)]
Unpost(x, es) == [x EXCEPT !.posted = SelectSeq(@, LAMBDA e : e \notin es)]

\* ngx_http_v2_handle_stream: output of the stream has gone, it may write again
HandleStream(x, s) ==
    LET t == x.st[s]
        y == [x EXCEPT !.st[s].ready = TRUE]
    IN  IF t.waiting \/ (~t.err /\ t.exhausted) THEN x
        ELSE IF ~t.err /\ t.delayed THEN y
        ELSE Post(y, <<"w", s>>)

\* the handlers of frames that were sent whole, ngx_http_v2_handle_frame; the
\* stream inside ngx_http_v2_filter_send is not woken by its own frames
Sent(x, f, quiet) ==
    LET y == [x EXCEPT !.st[f.s].outClosed = @ \/ f.fin, !.st[f.s].queued = @ - 1,
                       !.st[f.s].sent = @ + f.len, !.c.grant = @ - f.len,
                       !.c.encSent = IF f.kind = "hdr" THEN f.off ELSE @]
    IN  IF f.s = 0 THEN x ELSE IF f.s = quiet THEN y ELSE HandleStream(y, f.s)

Units(q) == FoldSeq(LAMBDA f, n : f.left + n, 0, q)
Payload(q) == FoldSeq(LAMBDA f, n : f.len + n, 0, q)

\* what the socket takes leaves, and the first frame that does not leave whole
\* is blocked: the first k frames have left, and over units of the next one
Leave(x, k, over, quiet) ==
    LET tail == SubSeq(x.out, k + 1, Len(x.out))
        f == tail[1]
        Rest1(y) ==
            IF tail = <<>>
            THEN [y EXCEPT !.out = <<>>, !.c.room = over, !.c.wtimer = FALSE,
                           !.rc = "ok"]
            ELSE [y EXCEPT !.out = [tail EXCEPT ![1].left = @ - over,
                                                ![1].blocked = TRUE],
                           !.c.room = 0, !.c.wready = FALSE,
                           !.c.wtimer = TRUE, !.rc = "again"]
        Begun(y) ==
            IF tail # <<>> /\ over > 0 /\ f.s \notin {0, quiet} /\ f.kind = "data"
            THEN HandleStream(y, f.s) ELSE y
    IN  Begun(Rest1(FoldLeft(LAMBDA a, g : Sent(a, g, quiet), x,
                             SubSeq(x.out, 1, k))))

\* ngx_http_v2_send_output_queue
SendOutputQueue(x, quiet) ==
    LET Fits(i) == Units(SubSeq(x.out, 1, i)) <= x.c.room
        Send(k) == Leave(x, k, x.c.room - Units(SubSeq(x.out, 1, k)), quiet)
        Fail1(e) == IF x.c.blk THEN e ELSE Post(e, <<"cw", 0>>)
    IN  IF x.c.err \/ x.c.gone
        THEN Fail1([x EXCEPT !.c.err = TRUE, !.rc = "error"])
        ELSE IF ~x.c.wready THEN [x EXCEPT !.rc = "again"]
        ELSE Send(CHOOSE k \in 0 .. Len(x.out) :
                    Fits(k) /\ (k < Len(x.out) => ~Fits(k + 1)))

-----------------------------------------------------------------------------
(* Output of a stream: http_v2_filter_module.c.                             *)

\* ngx_http_v2_filter_send
FilterSend(x, s) ==
    LET Then(y) ==
            IF y.rc = "error" THEN [y EXCEPT !.st[s].err = TRUE]
            ELSE IF y.st[s].queued > 0
            THEN [y EXCEPT !.st[s].buffered = TRUE, !.st[s].ready = FALSE,
                           !.rc = "again"]
            ELSE [y EXCEPT !.st[s].buffered = FALSE, !.rc = "ok"]
    IN  IF x.st[s].queued = 0
        THEN [x EXCEPT !.st[s].buffered = FALSE, !.rc = "ok"]
        ELSE Then(SendOutputQueue(x, s))

\* ngx_http_v2_waiting_queue
WaitingQueue(x, s) ==
    LET Stays(t) == x.prio[t] <= x.prio[s]
    IN  IF x.st[s].waiting THEN x
        ELSE [x EXCEPT !.st[s].waiting = TRUE,
                       !.wait = InsertAt(@, After(@, Stays) + 1, s)]

Declined(x, s) == x.st[s].sendw <= 0 \/ x.c.sendw = 0

FlowControlNoMark(x, s) ==
    IF x.st[s].sendw <= 0 THEN x ELSE WaitingQueue(x, s)

\* ngx_http_v2_flow_control, when it declines
FlowControl(x, s) ==
    IF x.st[s].sendw <= 0 THEN [x EXCEPT !.st[s].exhausted = TRUE]
    ELSE WaitingQueue(x, s)

\* one frame of the loop of ngx_http_v2_send_chain
Cut(x, s, n, fin) ==
    LET t == x.st[s]
        y == QueueFrame(x, Frame(s, s, "data", t.made, n, fin))
    IN  [y EXCEPT !.c.sendw = @ - n, !.st[s].sendw = @ - n,
                  !.st[s].queued = @ + 1, !.st[s].made = @ + n]
Least(S) == CHOOSE i \in S : \A j \in S : i <= j

\* a header block is encoded against the state the earlier ones leave
Headers(x, s, fin, Queue(_, _)) ==
    [Queue([x EXCEPT !.c.enc = @ + 1],
           Frame(s, s, "hdr", x.c.enc + 1, 0, fin)) EXCEPT
        !.st[s].queued = @ + 1, !.st[s].hdr = TRUE]

\* the frames made of the first n units; the last one of all ends the stream,
\* or the trailers do
Frames(x, s, n) ==
    LET all == x.st[s].last /\ n = x.st[s].in
        trailers == all /\ Ask(s).trailers
        count == IF n = 0 THEN 1 ELSE (n + FrameSize - 1) \div FrameSize
        One(a, i) ==
            LET size == Least({FrameSize, n - (i - 1) * FrameSize})
                fin == all /\ ~trailers /\ i = count
            IN  IF size = 0 /\ ~fin THEN a ELSE Cut(a, s, size, fin)
        Trail(a) == IF trailers THEN Headers(a, s, TRUE, QueueFrame) ELSE a
    IN  [Trail(FoldLeft(One, x, [i \in 1 .. count |-> i])) EXCEPT
            !.st[s].in = @ - n, !.st[s].last = @ /\ ~all]

\* ngx_http_v2_send_chain; limit 0 is no limit
SendChain(x, s, limit) ==
    LET t == x.st[s]
        windows == {x.c.sendw, t.sendw} \cup (IF limit = 0 THEN {} ELSE {limit})
        n == IF Least(windows) < 0 THEN 0 ELSE Least(windows \cup {t.in})
        closed == t.outClosed \/ (t.in = 0 /\ ~t.last)
        stopped == ~closed /\ t.in > 0 /\ Declined(x, s)
        Then(y) ==
            IF y.rc # "error" /\ ~closed /\ y.st[s].in > 0 /\ Declined(y, s)
            THEN [FlowControl(y, s) EXCEPT !.st[s].ready = FALSE, !.rc = "ok"]
            ELSE y
    IN  IF closed /\ t.in > 0 THEN [x EXCEPT !.rc = "error"]
        ELSE Then(FilterSend(IF closed THEN [x EXCEPT !.st[s].last = FALSE]
                             ELSE IF stopped THEN FlowControl(x, s)
                             ELSE Frames(x, s, n), s))

Remains(t) == t.in > 0 \/ t.last

\* ngx_http_write_filter over ngx_http_v2_send_chain
WriteFilter(x, s) ==
    LET t == x.st[s]
        limit == t.tok - t.sent
        Delay(y) == [y EXCEPT !.st[s].delayed = TRUE, !.st[s].wtimer = TRUE]
        Then(y) ==
            IF y.rc = "error" THEN [y EXCEPT !.st[s].err = TRUE]
            ELSE IF Ask(s).rate /\ y.st[s].sent > t.sent THEN Delay(y)
            ELSE IF Remains(y.st[s]) /\ y.st[s].ready THEN Post(y, <<"w", s>>)
            ELSE y
    IN  IF t.err THEN [x EXCEPT !.rc = "error"]
        ELSE IF t.delayed THEN [x EXCEPT !.rc = "again"]
        ELSE IF ~Remains(t) /\ ~t.buffered THEN [x EXCEPT !.rc = "error"]
        ELSE IF Ask(s).rate /\ limit <= 0 THEN [Delay(x) EXCEPT !.rc = "again"]
        ELSE Then(SendChain(x, s, IF Ask(s).rate THEN limit ELSE 0))

-----------------------------------------------------------------------------
(* The end of a stream.                                                     *)

\* the streams of ss may write again
Wake(x, ss) ==
    FoldLeft(LAMBDA a, s :
        LET b == [a EXCEPT !.st[s].waiting = FALSE, !.st[s].ready = TRUE]
        IN  IF a.st[s].delayed THEN b ELSE Post(b, <<"w", s>>), x, ss)

\* the frames of s that are not begun, and the queues without s
NotBegun(x, s) == SelectSeq(x.out, LAMBDA f : f.s = s /\ ~f.blocked)
Forget(x, s) ==
    [x EXCEPT !.st[s].waiting = FALSE, !.wait = SelectSeq(@, LAMBDA t : t # s),
              !.out = SelectSeq(@, LAMBDA f : f.s # s \/ f.blocked),
              !.st[s].queued = @ - Len(NotBegun(x, s))]
CleanupSilent(x, s) ==
    [Forget(x, s) EXCEPT !.c.sendw = @ + Payload(NotBegun(x, s))]

\* ngx_http_v2_filter_cleanup: frames not begun go, and give the window back
FilterCleanup(x, s) ==
    LET window == Payload(NotBegun(x, s))
        Roused(y) == IF y.c.sendw = 0 /\ window > 0
                     THEN [Wake(y, y.wait) EXCEPT !.wait = <<>>] ELSE y
    IN  [Roused(Forget(x, s)) EXCEPT !.c.sendw = @ + window]

SendRst(x, s) == QueueBlockedFrame(x, Ctl(s, "rst"))

\* the last part of ngx_http_v2_close_stream
Release(x, s) ==
    LET t == x.st[s]
        told == ~t.rst /\ ~x.c.err /\ (~t.outClosed \/ ~t.inClosed)
    IN  [Unpost(FilterCleanup(IF told THEN SendRst(x, s) ELSE x, s),
                {<<"r", s>>, <<"w", s>>}) EXCEPT
            !.in.s = IF @ = s THEN 0 ELSE @, !.c.proc = @ - 1, !.st[s] = Freed(s)]
Released(z) == IF z.c.proc > 0 \/ z.c.blk THEN z
               ELSE Post([z EXCEPT !.c.rh = "handleconn"], <<"cr", 0>>)
CloseNow(x, s) == Released(Release(x, s))
CloseNoPost(x, s) ==
    IF x.st[s].queued > 0 THEN [x EXCEPT !.st[s].err = TRUE, !.st[s].rq = "retry"]
    ELSE Release(x, s)

\* ngx_http_v2_close_stream
CloseStream(x, s) ==
    IF x.st[s].queued > 0 THEN [x EXCEPT !.st[s].err = TRUE, !.st[s].rq = "retry"]
    ELSE Released(Release(x, s))

\* ngx_http_terminate_request
Terminate(x, s) == CloseStream(FilterCleanup(x, s), s)

\* ngx_http_writer, and the write handler of an answer that is still coming
Writer(x, s) ==
    LET Then(y) ==
            LET t == y.st[s]
                again == Remains(t) \/ t.buffered \/ y.rc = "again"
            IN  IF y.rc = "error" THEN Terminate(y, s)
                ELSE IF t.rq = "wait" THEN [y EXCEPT !.st[s].wtimer = ~t.ready]
                ELSE IF again THEN [y EXCEPT !.st[s].wtimer = TRUE]
                ELSE CloseStream(y, s)
    IN  IF x.st[s].rq = "write" /\ x.st[s].delayed THEN x
        ELSE Then(WriteFilter(x, s))
\* fc->write->handler
WriteEvent(x, s) ==
    LET t == x.st[s]
        begun == t.rq = "wait" /\ t.hdr
    IN  IF t.rq = "retry" THEN CloseStream(x, s)
        ELSE IF t.rq = "write" \/ (begun /\ (Remains(t) \/ t.buffered \/ t.err))
        THEN Writer(x, s)
        ELSE IF t.rq \in {"run", "wait"} /\ ~begun /\ t.err /\ ~Ask(s).deaf
        THEN Terminate(x, s)
        ELSE x

\* the answer, or n units of it, is given to the filters
Output(x, s, n, last) ==
    LET Body(y) == [y EXCEPT !.st[s].in = @ + n, !.st[s].last = last,
                             !.st[s].more = @ - n,
                             !.st[s].rq = IF last THEN "write" ELSE "wait"]
        Then(y) == IF y.rc = "error" THEN Terminate(y, s)
                   ELSE IF y.st[s].delayed THEN Body(y)
                   ELSE Writer(Body(y), s)
    IN  Then(IF x.st[s].err THEN [x EXCEPT !.rc = "error"]
             ELSE IF x.st[s].hdr THEN [x EXCEPT !.rc = "ok"]
             ELSE FilterSend(Headers(x, s, last /\ n = 0, QueueBlockedFrame), s))

-----------------------------------------------------------------------------
(* The body of a request.                                                   *)

SendWindowUpdate(x, id) == QueueBlockedFrame(x, Ctl(id, "wu"))

\* an error page in place of an answer
Fail(x, s) ==
    Output([x EXCEPT !.st[s].skip = TRUE, !.st[s].oops = TRUE,
                     !.st[s].more = 0, !.st[s].rtimer = FALSE], s, 0, TRUE)

\* ngx_http_v2_process_request_body without flush: units are put in the buffer
TakeBody(x, s, n, last) ==
    LET t == x.st[s]
        full == t.body = "unbuf" /\ t.fill + n > BodyBuffer
        y == [x EXCEPT !.st[s].fill = IF t.body = "unbuf" THEN @ + n ELSE 0,
                       !.st[s].rest = ~last,
                       !.st[s].rtimer = TRUE, !.rc = "ok"]
    IN  IF n = 0 /\ ~last THEN [x EXCEPT !.rc = "ok"]
        ELSE IF full THEN [x EXCEPT !.rc = "error"]
        ELSE Post(y, <<"r", s>>)

WholeBuffer(x, s) == BodyBuffer
\* the window of an empty buffer, less what is on its way in the frame at hand
BodyWindow(x, s) == BodyBuffer - (IF x.in.s = s THEN x.in.len ELSE 0)

\* the read handlers of a body: ngx_http_v2_read_client_request_body_handler
\* and ngx_http_v2_read_unbuffered_request_body
ReadBody(x, s) ==
    LET t == x.st[s]
        y == [x EXCEPT !.st[s].rest = ~t.inClosed,
                       !.st[s].busy = IF t.body = "unbuf" THEN @ + t.fill - t.pos
                                      ELSE 0,
                       !.st[s].pos = t.fill, !.st[s].rtimer = ~t.inClosed]
        z == [y EXCEPT !.st[s].fill = 0, !.st[s].pos = 0]
        window == BodyWindow(x, s)
        Then(u) == IF u.rc = "error" THEN Terminate(u, s) ELSE u
    IN  IF t.err
        THEN Then([x EXCEPT !.st[s].skip = TRUE, !.rc = "error"])
        ELSE IF t.inClosed THEN [y EXCEPT !.st[s].rq = "wait"]
        ELSE IF t.nfc \/ y.st[s].busy > 0 THEN y
        ELSE IF window = t.recvw THEN z
        ELSE IF window < t.recvw THEN Fail(z, s)
        ELSE Then(SendOutputQueue([SendWindowUpdate(z, s) EXCEPT
                                     !.st[s].recvw = window], 0))

\* ngx_http_v2_read_request_body
StartBody(x, s) ==
    LET t == x.st[s]
        in == [x EXCEPT !.st[s].rq = "body", !.st[s].pre = 0]
        ended == [in EXCEPT !.st[s].body = "buf"]
        size == IF t.body = "unbuf" THEN BodyBuffer - Preread
                ELSE MaxWindow - t.recvw
        Grant(y) == [y EXCEPT !.st[s].recvw = @ + size, !.st[s].nfc = t.body = "buf",
                              !.st[s].rtimer = TRUE]
        Then(y) == IF y.rc = "error" THEN Terminate(y, s) ELSE y
        Told(y) == IF size = 0 THEN y
                   ELSE IF x.c.blk THEN SendWindowUpdate(y, s)
                   ELSE Then(SendOutputQueue(SendWindowUpdate(y, s), 0))
    IN  IF t.skip THEN [x EXCEPT !.st[s].rq = "wait"]
        ELSE IF t.inClosed THEN TakeBody(ended, s, t.pre, TRUE)
        ELSE Told(Grant(TakeBody(in, s, t.pre, FALSE)))

\* fc->read->handler
ReadEvent(x, s) ==
    LET t == x.st[s]
    IN  IF t.rq = "retry" THEN CloseStream(x, s)
        ELSE IF t.rq = "body" THEN ReadBody(x, s)
        ELSE IF t.rq = "wait" /\ Ask(s).deaf THEN x
        ELSE IF t.err THEN Terminate(x, s) ELSE x

\* ngx_http_v2_terminate_stream
TerminateStream(x, s) ==
    IF x.st[s].rst THEN x
    ELSE ReadEvent([SendRst(x, s) EXCEPT !.st[s].rst = TRUE, !.st[s].skip = TRUE,
                                         !.st[s].err = TRUE], s)

-----------------------------------------------------------------------------
(* The end of the connection.                                               *)

Close(x) ==
    [x EXCEPT !.c.rh = "closed", !.c.wh = "empty", !.c.wtimer = FALSE,
              !.c.rtimer = FALSE, !.c.blk = FALSE, !.out = <<>>, !.posted = <<>>]

\* ngx_http_v2_lingering_close
LingeringClose(x) ==
    [x EXCEPT !.c.rh = "linger", !.c.wh = "empty", !.c.close = FALSE,
              !.c.rtimer = TRUE, !.c.blk = FALSE]

\* ngx_http_v2_handle_connection
HandleConnection(x) ==
    IF x.out # <<>> \/ x.c.proc > 0 THEN x
    ELSE IF x.c.err THEN Close(x)
    ELSE IF x.c.goaway THEN LingeringClose(x)
    ELSE LET y == [x EXCEPT !.c.rtimer = TRUE]
         IN  IF x.in.some THEN y
             ELSE [y EXCEPT !.c.rh = "idle", !.c.wh = "empty", !.c.wtimer = FALSE]

SendGoaway(x) == [QueueBlockedFrame(x, Ctl(0, "goaway")) EXCEPT !.c.goaway = TRUE]

Open(x) == SelectSeq([s \in Sids |-> s], LAMBDA s : x.st[s].st = "open")

\* ngx_http_v2_finalize_connection
Finalize(x0) ==
    LET x == [x0 EXCEPT !.c.blk = TRUE]
        Done(a) == IF a.c.err THEN Close(a) ELSE LingeringClose(a)
        Call(b, write, s) ==
            IF write THEN WriteEvent([b EXCEPT !.st[s].ready = TRUE], s)
            ELSE ReadEvent(b, s)
        Break(a, s) == Call([a EXCEPT !.st[s].waiting = FALSE, !.st[s].err = TRUE,
                                      !.st[s].queued = 0], a.st[s].queued > 0, s)
        Left(z) == IF z.c.proc > 0 THEN [z EXCEPT !.c.err = TRUE, !.c.blk = FALSE]
                   ELSE Done(z)
        Streams(y) ==
            IF y.c.proc = 0 THEN Done(y)
            ELSE Left(FoldLeft(Break, [y EXCEPT !.c.rh = "empty", !.c.wh = "empty",
                                                !.out = <<>>, !.wait = <<>>],
                               Open(y)))
    IN  Streams(IF x.c.err \/ x.c.goaway THEN x
                ELSE SendOutputQueue(SendGoaway(x), 0))

\* a call of it, the last thing a handler does, is a step of its own
ToFinalize(x) == [x EXCEPT !.rc = "finalize"]

\* ngx_http_v2_read_handler before and after the frames
ReadHandler(x) ==
    LET y == [x EXCEPT !.c.blk = TRUE, !.c.new = 0, !.c.close = FALSE]
        Then(z) == IF z.rc = "error" \/ (z.c.proc = 0 /\ x.c.close) THEN ToFinalize(z)
                   ELSE [z EXCEPT !.c.blk = FALSE]
    IN  IF ~x.c.close THEN [y EXCEPT !.c.rh = "read"]
        ELSE Then(IF x.c.err THEN [y EXCEPT !.rc = "error"]
                  ELSE IF x.c.proc = 0 \/ x.c.goaway THEN [y EXCEPT !.rc = "ok"]
                  ELSE SendOutputQueue(SendGoaway(y), 0))

EndOfFrames(x) ==
    LET Then(y) == IF y.rc = "error" THEN ToFinalize(y)
                   ELSE HandleConnection([y EXCEPT !.c.blk = FALSE])
    IN  Then(IF x.out = <<>> THEN [x EXCEPT !.rc = "ok"] ELSE SendOutputQueue(x, 0))

\* ngx_http_v2_handle_connection_handler
HandleConnectionHandler(x) ==
    IF x.c.err THEN ToFinalize(x) ELSE EndOfFrames([x EXCEPT !.c.rh = "read"])

\* ngx_http_v2_idle_handler
IdleHandler(x) ==
    IF x.c.close THEN ToFinalize(x)
    ELSE ReadHandler([x EXCEPT !.c.wh = "write"])

\* c->read->handler; some: there is something to be read
ReadCalled(x, some) ==
    LET h == x.c.rh
    IN  IF h = "idle" THEN IdleHandler(x)
        ELSE IF h = "handleconn" /\ (x.c.err \/ ~some) THEN HandleConnectionHandler(x)
        ELSE IF h \in {"read", "handleconn"} THEN ReadHandler(x)
        ELSE IF h = "linger" /\ (x.c.close \/ x.c.gone) THEN Close(x)
        ELSE x

\* ngx_http_v2_write_handler
WriteHandler(x) ==
    LET Then(y) == IF y.rc = "error" THEN ToFinalize(y)
                   ELSE IF y.rc = "again" THEN [y EXCEPT !.c.blk = FALSE]
                   ELSE HandleConnection([y EXCEPT !.c.blk = FALSE])
    IN  IF x.c.wh # "write" THEN x
        ELSE Then(IF x.out = <<>> THEN [x EXCEPT !.c.wtimer = FALSE, !.rc = "ok"]
                  ELSE SendOutputQueue([x EXCEPT !.c.blk = TRUE], 0))

-----------------------------------------------------------------------------
(* Frames of the client.                                                    *)

\* ngx_http_v2_state_headers and ngx_http_v2_run_request
StateHeaders(x, s, fin) ==
    LET c == x.c
        y == [x EXCEPT !.c.lastSid = s]
        refused == \/ c.proc >= Concurrent
                   \/ c.new >= 2 * Concurrent
                   \/ (~c.ack /\ ~fin /\ Preread < DefaultWindow)
        n == [y EXCEPT !.st[s] = NewStream(s, c.initw, fin), !.c.proc = @ + 1,
                       !.c.reqs = @ + 1, !.c.new = @ + 1, !.c.rtimer = FALSE]
        Run(g) == IF Ask(s).sync THEN Output(g, s, Ask(s).size, TRUE)
                  ELSE IF Ask(s).body = "none" \/ Ask(s).late THEN g
                  ELSE StartBody(g, s)
    IN  IF c.goaway THEN x
        ELSE IF s <= c.lastSid THEN ToFinalize(x)
        ELSE IF refused
        THEN SendRst([y EXCEPT !.c.new = IF c.proc >= Concurrent THEN @ ELSE @ + 1], s)
        ELSE Run(IF n.c.reqs >= KeepaliveRequests THEN SendGoaway(n) ELSE n)

\* ngx_http_v2_state_read_data, k units of the frame are there
ReadData(x, k) ==
    LET s == x.in.s
        len == x.in.len - k
        m == [x EXCEPT !.in.len = len, !.in.some = len > 0,
                       !.in.s = IF len = 0 THEN 0 ELSE @]
        End(n) == IF len = 0 THEN [n EXCEPT !.st[s].inClosed = x.in.fin] ELSE n
        Then(b) == IF b.rc = "error" THEN Fail(b, s) ELSE b
        Put(n) == IF n.st[s].rq = "body"
                  THEN Then(TakeBody(n, s, k, n.st[s].inClosed))
                  ELSE IF k > Preread - n.st[s].pre THEN ToFinalize(n)
                  ELSE [n EXCEPT !.st[s].pre = @ + k]
    IN  IF s = 0 THEN m
        ELSE IF x.st[s].skip THEN [m EXCEPT !.in.s = 0]
        ELSE Put(End(m))

\* ngx_http_v2_state_data: a frame of n units, of which k have come
StateData(x, s, n, fin, k) ==
    LET t == x.st[s]
        low(v) == v < MaxWindow \div 4
        more == t.nfc /\ low(t.recvw - n)
        Connection(y) ==
            IF low(y.c.recvw - n)
            THEN [SendWindowUpdate(y, 0) EXCEPT !.c.recvw = MaxWindow]
            ELSE [y EXCEPT !.c.recvw = @ - n]
        Stream(y) ==
            IF more THEN [SendWindowUpdate(y, s) EXCEPT !.st[s].recvw = MaxWindow]
            ELSE [y EXCEPT !.st[s].recvw = @ - n]
        Skip(a) == [a EXCEPT !.in = [s |-> 0, len |-> n - k, fin |-> FALSE,
                                     some |-> n > k]]
        Take(y) == ReadData([y EXCEPT !.in = [s |-> s, len |-> n, fin |-> fin,
                                              some |-> TRUE]], k)
    IN  IF n > x.c.recvw THEN ToFinalize(x)
        ELSE IF t.st # "open" THEN Skip(Connection(x))
        ELSE IF n > t.recvw \/ t.inClosed
        THEN Skip(TerminateStream(IF n > t.recvw THEN Connection(x)
                                  ELSE Stream(Connection(x)), s))
        ELSE Take(Stream(Connection(x)))

\* ngx_http_v2_state_rst_stream
StateRstStream(x, s) ==
    IF x.st[s].st # "open" THEN x
    ELSE ReadEvent([x EXCEPT !.st[s].inClosed = TRUE, !.st[s].outClosed = TRUE,
                             !.st[s].err = TRUE], s)

\* the window of s has grown: a stream that it stopped writes again
Granted(x, s) ==
    LET y == [x EXCEPT !.st[s].exhausted = FALSE, !.st[s].ready = TRUE]
    IN  IF x.st[s].delayed THEN y ELSE WriteEvent(y, s)

StreamUpdateUnchecked(x, s, n) ==
    LET y == [x EXCEPT !.st[s].sendw = @ + n, !.st[s].grant = @ + n]
    IN  IF x.st[s].st # "open" THEN x
        ELSE IF x.st[s].exhausted THEN Granted(y, s) ELSE y

\* ngx_http_v2_state_window_update of a stream
StreamWindowUpdate(x, s, n) ==
    LET t == x.st[s]
        y == [x EXCEPT !.st[s].sendw = @ + n, !.st[s].grant = @ + n]
    IN  IF t.st # "open" THEN x
        ELSE IF n > MaxWindow - t.sendw THEN TerminateStream(x, s)
        ELSE IF t.exhausted THEN Granted(y, s) ELSE y

\* ... and of the connection; MaxWindow - sendw is taken in size_t
ConnectionWindowUpdate(x, n) ==
    LET Mark(d) == [d EXCEPT !.rc = IF d.c.sendw = 0 THEN "stop" ELSE "ok"]
        Call(b, s) == IF b.st[s].delayed THEN b ELSE Mark(WriteEvent(b, s))
        One(a, s) ==
            IF a.rc = "stop" \/ ~Contains(a.wait, s) THEN a
            ELSE Call([a EXCEPT !.wait = Tail(@), !.st[s].waiting = FALSE,
                                !.st[s].ready = TRUE], s)
    IN  IF x.c.sendw <= MaxWindow /\ n > MaxWindow - x.c.sendw THEN ToFinalize(x)
        ELSE FoldLeft(One, [x EXCEPT !.c.sendw = @ + n, !.c.grant = @ + n,
                                     !.rc = "ok"], x.wait)

AdjustOnly(x, value) ==
    [x EXCEPT !.c.initw = value,
              !.st = [s \in Sids |-> [x.st[s] EXCEPT
                        !.sendw = @ + value - x.c.initw,
                        !.grant = @ + value - x.c.initw]]]

\* ngx_http_v2_adjust_windows, the delta of a new initial window
AdjustWindows(x, value) ==
    LET delta == value - x.c.initw
        Grow(b, s) == IF b.st[s].sendw > 0 /\ b.st[s].exhausted THEN Granted(b, s)
                      ELSE b
        Adjust(a, s) ==
            IF a.st[s].st # "open" THEN a
            ELSE IF delta > 0 /\ a.st[s].sendw > MaxWindow - delta
            THEN TerminateStream(a, s)
            ELSE Grow([a EXCEPT !.st[s].sendw = @ + delta,
                                !.st[s].grant = @ + delta], s)
    IN  FoldLeft(Adjust, [x EXCEPT !.c.initw = value], Open(x))

\* ngx_http_v2_state_settings_params
StateSettings(x, value) ==
    LET y == QueueOrderedFrame(x, Ctl(0, "ack"))
    IN  IF value > MaxWindow THEN ToFinalize(x)
        ELSE IF value = x.c.initw THEN y ELSE AdjustWindows(y, value)

-----------------------------------------------------------------------------
(* Steps.                                                                   *)

\* what a step hands to its callees does not outlive it
Step(x) == w' = [x EXCEPT !.rc = IF @ = "finalize" THEN @ ELSE "ok"]

Calls(x) == x.rc = "finalize"
Rest(x) == x.c.rh # "closed" /\ ~x.c.blk /\ ~Calls(x)
Reading(x) == x.c.blk /\ ~Calls(x)

\* something comes, and the read handler is called
ClientSends ==
    /\ Rest(w) /\ ~w.c.gone /\ w.c.rh \in {"read", "idle", "handleconn"}
    /\ bud.sends > 0 /\ bud' = [bud EXCEPT !.sends = @ - 1]
    /\ Step(ReadCalled(w, TRUE))
    /\ UNCHANGED conf

\* it takes a frame, or a part of one
Receive(item, x) ==
    /\ Reading(w) /\ ~w.c.gone /\ bud[item] > 0
    /\ bud' = [bud EXCEPT ![item] = @ - 1]
    /\ Step(x) /\ UNCHANGED conf

ClientHeaders ==
    \E s \in Sids : /\ s \in {w.c.lastSid, w.c.lastSid + 1}
                    /\ ~w.in.some /\ Receive("headers", StateHeaders(w, s, ~Ask(s).up))
ClientData ==
    \E s \in 1 .. w.c.lastSid, n \in 0 .. 2, fin \in BOOLEAN : \E k \in 0 .. n :
        /\ Ask(s).up
        /\ ~w.in.some /\ Receive("data", StateData(w, s, n, fin, k))
ClientDataRest ==
    \E k \in 1 .. w.in.len : w.in.some /\ Receive("rest", ReadData(w, k))
ClientRst ==
    \E s \in 1 .. w.c.lastSid : ~w.in.some /\ Receive("rst", StateRstStream(w, s))
ClientStreamWindow ==
    \E s \in 1 .. w.c.lastSid, n \in {1, MaxWindow} :
        ~w.in.some /\ Receive("window", StreamWindowUpdate(w, s, n))
ClientWindow ==
    \E n \in {1, 2} : ~w.in.some /\ Receive("cwindow", ConnectionWindowUpdate(w, n))
ClientSettings ==
    \E v \in {0, 1, MaxWindow, MaxWindow + 1} :
        ~w.in.some /\ Receive("settings", StateSettings(w, v))
\* ngx_http_v2_state_settings of an acknowledgement
ClientAck == ~w.in.some /\ Receive("ack", [w EXCEPT !.c.ack = TRUE])
\* ngx_http_v2_state_ping
ClientPing == ~w.in.some /\ Receive("ping", QueueBlockedFrame(w, Ctl(0, "ping")))
\* ngx_http_v2_state_priority: the order of the streams changes
ClientPriority ==
    \E s \in Sids : ~w.in.some /\ Receive("priority", [w EXCEPT !.prio[s] = 1 - @])
\* a frame that is an error of the connection: ngx_http_v2_connection_error
ClientBad == ~w.in.some /\ Receive("bad", ToFinalize(w))

ClientGone ==
    /\ bud.gone > 0 /\ Rest(w) /\ ~w.c.gone
    /\ Step([w EXCEPT !.c.gone = TRUE]) /\ bud' = [bud EXCEPT !.gone = 0]
    /\ UNCHANGED conf

\* recv returns 0 or an error
ReadEof ==
    LET Then(x) == IF Reading(x) THEN ToFinalize([x EXCEPT !.c.err = TRUE]) ELSE x
    IN  /\ Rest(w) /\ w.c.gone /\ w.c.rh \in {"read", "idle", "handleconn", "linger"}
        /\ Step(Then(ReadCalled(w, TRUE)))
        /\ UNCHANGED <<bud, conf>>

\* the client reads: the socket takes more, the write event comes
ClientReads ==
    /\ Rest(w) /\ ~w.c.gone /\ w.c.room < Room
    /\ Step(IF w.c.wready THEN [w EXCEPT !.c.room = Room]
            ELSE WriteHandler([w EXCEPT !.c.room = Room, !.c.wready = TRUE]))
    /\ UNCHANGED <<bud, conf>>

\* the worker is told to exit: ngx_close_idle_connections
WorkerExits ==
    /\ Rest(w) /\ bud.exit > 0
    /\ Step(ReadCalled([w EXCEPT !.c.close = TRUE], FALSE))
    /\ bud' = [bud EXCEPT !.exit = 0] /\ UNCHANGED conf

\* the read handler has taken all there is
ReadDone == Reading(w) /\ Step(EndOfFrames(w)) /\ UNCHANGED <<bud, conf>>

FinalizeConnection ==
    /\ Calls(w)
    /\ Step(Finalize([w EXCEPT !.rc = "ok"])) /\ UNCHANGED <<bud, conf>>

RunPosted ==
    LET e == w.posted[1]
        x == [w EXCEPT !.posted = Tail(@)]
    IN  /\ Rest(w) /\ w.posted # <<>>
        /\ Step(CASE e[1] = "w" -> WriteEvent(x, e[2])
                  [] e[1] = "r" -> ReadEvent(x, e[2])
                  [] e[1] = "cw" -> WriteHandler(x)
                  [] e[1] = "cr" -> ReadCalled(x, FALSE))
        /\ UNCHANGED <<bud, conf>>

\* the handler of a request goes on
Answers(s) == LET t == w.st[s] IN
    t.st = "open" /\ ~Remains(t)
    /\ (t.rq = "wait" \/ (t.rq = "run" /\ Ask(s).body = "none"))
Starts(s) == w.st[s].st = "open" /\ w.st[s].rq = "run" /\ Ask(s).body # "none"
Takes(s) == w.st[s].st = "open" /\ w.st[s].rq = "body" /\ w.st[s].busy > 0

Produce ==
    \E s \in Sids : \E n \in 0 .. w.st[s].more :
        /\ Rest(w) /\ Answers(s)
        /\ n = w.st[s].more \/ (n = 1 /\ Ask(s).goes)
        /\ Step(Output(w, s, n, n = w.st[s].more))
        /\ UNCHANGED <<bud, conf>>
LateBody ==
    \E s \in Sids : /\ Rest(w) /\ Starts(s)
                    /\ Step(StartBody(w, s)) /\ UNCHANGED <<bud, conf>>
UpstreamTakes ==
    \E s \in Sids : /\ Rest(w) /\ Takes(s)
                    /\ Step(ReadBody([w EXCEPT !.st[s].busy = 0], s))
                    /\ UNCHANGED <<bud, conf>>

\* the timer of limit_rate or send_timeout
StreamWriteTimer ==
    \E s \in Sids :
        LET t == w.st[s]
            x == [w EXCEPT !.st[s].wtimer = FALSE]
        IN  /\ Rest(w) /\ t.wtimer
            /\ Step(IF t.delayed
                    THEN WriteEvent([x EXCEPT !.st[s].delayed = FALSE,
                                              !.st[s].tok = t.sent + 1], s)
                    ELSE IF t.rq \in {"write", "wait"} THEN Terminate(x, s)
                    ELSE WriteEvent(x, s))
            /\ UNCHANGED <<bud, conf>>
\* client_body_timeout
StreamReadTimer ==
    \E s \in Sids :
        LET t == w.st[s]
            x == [w EXCEPT !.st[s].rtimer = FALSE]
        IN  /\ Rest(w) /\ t.rtimer
            /\ Step(IF t.rq # "body" THEN ReadEvent(x, s)
                    ELSE IF t.body = "unbuf" /\ t.recvw = 0 THEN ReadBody(x, s)
                    ELSE Terminate([x EXCEPT !.st[s].skip = TRUE], s))
            /\ UNCHANGED <<bud, conf>>
\* send_timeout of the connection
ConnectionWriteTimer ==
    LET x == [w EXCEPT !.c.wtimer = FALSE]
    IN  /\ Rest(w) /\ w.c.wtimer
        /\ Step(IF w.c.wh = "write" THEN ToFinalize([x EXCEPT !.c.err = TRUE]) ELSE x)
        /\ UNCHANGED <<bud, conf>>
\* client_header_timeout, keepalive_timeout, lingering_timeout
ConnectionReadTimer ==
    LET x == [w EXCEPT !.c.rtimer = FALSE]
    IN  /\ Rest(w) /\ w.c.rtimer
        /\ Step(CASE w.c.rh \in {"read", "idle"} -> ToFinalize(x)
                  [] w.c.rh = "linger" -> Close(x)
                  [] OTHER -> ReadCalled(x, FALSE))
        /\ UNCHANGED <<bud, conf>>

Ended == w.c.rh = "closed" /\ UNCHANGED vars

Next ==
    \/ ClientSends \/ ClientHeaders \/ ClientData \/ ClientDataRest \/ ClientRst
    \/ ClientStreamWindow \/ ClientWindow \/ ClientSettings \/ ClientAck
    \/ ClientPing \/ ClientPriority \/ ClientBad \/ ClientGone \/ ReadEof
    \/ ClientReads \/ WorkerExits \/ ReadDone \/ FinalizeConnection \/ RunPosted
    \/ Produce \/ LateBody \/ UpstreamTakes
    \/ StreamWriteTimer \/ StreamReadTimer
    \/ ConnectionWriteTimer \/ ConnectionReadTimer
    \/ Ended

Spec == Init /\ [][Next]_vars

\* the worker, its timers and the handlers of requests do not stop; what the
\* client does is bounded by bud and never owed.  This is weak fairness of the
\* steps from ReadEof to ConnectionReadTimer, with ENABLED written out
Busy ==
    /\ w.c.rh # "closed"
    /\ \/ w.c.blk \/ Calls(w) \/ w.posted # <<>> \/ w.c.wtimer \/ w.c.rtimer
       \/ (w.c.gone /\ w.c.rh \in {"read", "idle", "handleconn", "linger"})
       \/ \E s \in Sids : \/ w.st[s].wtimer \/ w.st[s].rtimer
                           \/ Answers(s) \/ Starts(s) \/ Takes(s)
FairSpec == Spec /\ ([]<>~Busy \/ []<><<Busy>>_w)

-----------------------------------------------------------------------------
(* Properties.                                                              *)

FramesOf(s) == SelectSeq(w.out, LAMBDA f : f.s = s)
IsOpen(s) == w.st[s].st = "open"
\* the connection is not broken up: ngx_http_v2_finalize_connection drops the queue
Whole == w.c.rh \in {"read", "idle", "handleconn"} /\ ~w.c.err

\* Frames in the queue belong to streams that are not freed (they point to them),
\* each stream knows how many they are, and the connection, which is closed only
\* when it has no streams left, how many streams it has.
FramesOwned ==
    /\ \A i \in 1 .. Len(w.out) : w.out[i].s # 0 => IsOpen(w.out[i].s)
    /\ \A s \in Sids : IsOpen(s) => w.st[s].queued = Len(FramesOf(s))
    /\ w.c.proc = Len(Open(w)) /\ w.c.proc <= Concurrent
    /\ w.c.rh = "closed" => w.c.proc = 0
    /\ \A s \in Sids : IsOpen(s) => w.st[s].waiting = Contains(w.wait, s)

\* Header blocks leave in the order in which they were encoded and none is left
\* out (the client decodes each with the state the one before leaves); the units
\* of a stream leave in order, and nothing but an empty frame follows the end.
InOrder ==
    LET hs == SelectSeq(w.out, LAMBDA f : f.kind = "hdr")
    IN  /\ \A i \in 1 .. Len(hs) : hs[i].off = w.c.encSent + i
        /\ Whole => w.c.enc = w.c.encSent + Len(hs)
        /\ \A s \in Sids :
             LET q == FramesOf(s)
             IN  \A i \in 1 .. Len(q) :
                   /\ q[i].kind = "data" =>
                        q[i].off = w.st[s].sent + Payload(SubSeq(q, 1, i - 1))
                   /\ \A j \in 1 .. i - 1 : q[j].fin => q[i].len = 0

\* After a reset no frame of the stream follows, but for a request that does not
\* hear of it (proxy_ignore_client_abort).
ResetIsLast ==
    \A i, j \in 1 .. Len(w.out) :
        i < j /\ w.out[i].kind = "rst" =>
            w.out[j].s # w.out[i].id \/ Ask(w.out[j].s).deaf

\* Streams, frames and the connection are kept together, whoever goes first.
StreamsKept == FramesOwned /\ InOrder /\ ResetIsLast

\* What the client granted is what it got, what is queued for it and what is left
\* of the window: nothing is lost and nothing is counted twice, also when the
\* queued frames of a stream are dropped.
SendWindows ==
    /\ Whole =>
         w.c.sendw + Payload(w.out) = w.c.grant
    /\ \A s \in Sids : IsOpen(s) =>
         /\ w.st[s].sendw <= MaxWindow
         /\ ~w.st[s].err => w.st[s].sendw + Payload(FramesOf(s)) + w.st[s].sent
                             = w.st[s].grant

\* What a client may still send of a body fits in the buffer it is to be put in:
\* "should never happen due to flow control" does not happen.
BodyFits ==
    \A s \in Sids : IsOpen(s) =>
        LET t == w.st[s]
            coming == t.recvw + (IF w.in.s = s THEN w.in.len ELSE 0)
        IN  /\ ~t.oops
            /\ t.rq = "run" /\ ~t.skip => t.pre + coming <= Preread
            /\ t.rq = "body" /\ ~t.nfc => t.fill + coming <= BodyBuffer

\* The windows of both directions are exact.
WindowsExact == SendWindows /\ BodyFits

\* A stream that has something to send waits for what really stops it: its own
\* window, the window of the connection, its frames in the queue, limit_rate;
\* and frames of streams stay in the queue only while the socket takes no more.
NoLostWakeup ==
    /\ Whole /\ w.wait # <<>> => w.c.sendw = 0
    /\ Rest(w) /\ w.posted = <<>> /\ Whole =>
        /\ \A s \in Sids :
             LET t == w.st[s]
             IN  IsOpen(s) /\ t.hdr /\ t.rq \in {"wait", "write"} /\ Remains(t) =>
                    \/ t.exhausted /\ t.sendw <= 0
                    \/ t.waiting \/ (t.delayed /\ t.wtimer) \/ t.queued > 0
        /\ (\E s \in Sids : FramesOf(s) # <<>>) => ~w.c.wready /\ w.c.wtimer


\* Flow control neither exceeds a window nor forgets who waits for one.
FlowControlExact == WindowsExact /\ NoLostWakeup

\* Every stream and the connection come to their end, whatever the client does or
\* does not do: windows it never opens, a socket it never reads, a body it never
\* sends.
ConnectionEnds == <>(w.c.rh = "closed")
=============================================================================
