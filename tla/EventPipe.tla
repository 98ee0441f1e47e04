----------------------------- MODULE EventPipe ------------------------------
(***************************************************************************)
(* The event pipe passes the response of a server on to a client.  It      *)
(* reads into a few buffers; when these are full and the client is slow,   *)
(* it writes some of them to a temporary file, as far as the file may      *)
(* grow, and then stops reading.  A response that is cached is written to  *)
(* the file in any case, and sent to the client from there.  The file may  *)
(* be written by a thread.                                                 *)
(*                                                                         *)
(* The response is the sequence 1, 2, 3, ...  of its units, and its header *)
(* the unit 0.  A chain refers to memory and to the file, which are read   *)
(* when a unit is sent or written: a buffer that is used again too early   *)
(* shows in what the client gets.  pc is the place in the code where the   *)
(* worker is; it is "idle" between two events.                             *)
(***************************************************************************)
EXTENDS Integers, Sequences, FiniteSets, SequencesExt, FiniteSetsExt

CONSTANTS
    Num,        \* p->bufs.num
    Size,       \* p->bufs.size, also of the buffer of the header
    BusySize,   \* p->busy_size
    WriteSize,  \* p->temp_file_write_size
    Room,       \* what the socket of the client takes
    Scenarios

(***************************************************************************)
(* The sizes are those ngx_http_proxy_merge_loc_conf accepts.  A scenario: *)
(* total (the units the server sends at most), length (Content-Length, -1  *)
(* if there is none), preread (units read with the header), cacheable,     *)
(* threads (aio_write), maxtemp (p->max_temp_file_size), postpone          *)
(* (postpone_output), limit (proxy_limit_rate), rate (limit_rate), faults  *)
(* (the client may go away, the server reset the connection, a write to    *)
(* the file fail).                                                         *)
(***************************************************************************)
PipeAssumption ==
    /\ {Num, Size, BusySize, WriteSize, Room} \subseteq Nat \ {0}
    /\ Size <= BusySize /\ BusySize <= (Num - 1) * Size /\ Size <= WriteSize
    /\ \A s \in Scenarios :
        /\ s.total \in Nat /\ s.length \in Nat \cup {-1} /\ s.postpone \in Nat
        /\ s.preread \in 0..(Size - 1) /\ s.preread <= s.total
        /\ s.maxtemp = 0 \/ s.maxtemp >= Size

VARIABLES
    conf,   \* the scenario of this behaviour
    p,      \* the pipe
    s,      \* the connection to the server
    c,      \* the connection to the client
    pc,
    end     \* how the request has ended, and what became of the file

vars == <<conf, p, s, c, pc, end>>

Bufs == 0..Num
File == -1

(* A link of a chain: units from..to of buffer b or of the file *)
Link(b, from, to) == [b |-> b, from |-> from, to |-> to, recycled |-> b # File]
Length(l) == l.to - l.from
SizeOf(chain) == FoldLeft(LAMBDA n, l : n + Length(l), 0, chain)
UnitsOf(q, l) == SubSeq(IF l.b = File THEN q.file ELSE q.mem[l.b], l.from + 1, l.to)
Units(q, chain) == FoldLeft(LAMBDA us, l : us \o UnitsOf(q, l), <<>>, chain)

Init ==
    /\ conf \in Scenarios
    /\ p = [free |-> <<>>, in |-> <<>>, out |-> <<>>, busy |-> <<>>,
            writing |-> <<>>, aio |-> FALSE,
            preread |-> TRUE, buf_to_file |-> conf.cacheable, allocated |-> 0,
            mem |-> [b \in Bufs |-> [i \in 1..Size |-> 0]],
            raw |-> [b \in Bufs |-> IF b = 0 THEN [pos |-> 1, last |-> 1] ELSE [pos |-> 0, last |-> 0]],
            file |-> <<>>, offset |-> 0, length |-> conf.length,
            eof |-> FALSE, error |-> FALSE, done |-> FALSE, derror |-> FALSE,
            read |-> FALSE, blocked |-> FALSE]
    /\ s = [sent |-> conf.preread, got |-> 0, closed |-> "open", edge |-> FALSE, pending_eof |-> FALSE,
            ready |-> FALSE, timer |-> FALSE, delayed |-> FALSE]
    /\ c = [got |-> <<>>, room |-> Room, gone |-> FALSE, edge |-> FALSE,
            ready |-> TRUE, timer |-> FALSE, timedout |-> FALSE, delayed |-> FALSE]
    /\ pc = "read"
    /\ end = [rc |-> "none", cache |-> "none"]

Finished(q) == q.eof \/ q.error \/ q.done

-----------------------------------------------------------------------------
(***************************************************************************)
(* Buffers                                                                 *)
(***************************************************************************)

(* ngx_event_pipe_add_free_buf: the buffer is free again.  A buffer at the *)
(* head of the list that is partly filled stays there.                     *)
AddFreeFirst(q, b) ==
    [q EXCEPT !.raw[b] = [pos |-> 0, last |-> 0], !.free = <<b>> \o @]

AddFreeBuf(q, b) ==
    LET start == IF q.buf_to_file /\ b = 0 THEN 1 ELSE 0
        partial == q.free # <<>> /\ q.raw[Head(q.free)].pos # q.raw[Head(q.free)].last
    IN  [q EXCEPT !.raw[b] = [pos |-> start, last |-> start],
                  !.free = IF partial THEN <<Head(@), b>> \o Tail(@) ELSE <<b>> \o @]

(* The raw buffers of the links of a chain *)
Raws(chain) == [i \in 1..Len(SelectSeq(chain, LAMBDA l : l.b # File)) |->
                    SelectSeq(chain, LAMBDA l : l.b # File)[i].b]

(* ngx_event_pipe_copy_input_filter: one shadow of the buffer goes to p->in *)
InputFilter(q, b) ==
    LET n == q.raw[b].last - q.raw[b].pos
        over == q.length # -1 /\ n > q.length
        shadow == Link(b, q.raw[b].pos, q.raw[b].pos + (IF over THEN q.length ELSE n))
    IN  IF n = 0 \/ q.done THEN q
        ELSE IF q.length = 0 THEN [q EXCEPT !.done = TRUE]
        ELSE [q EXCEPT !.in = Append(@, shadow),
                       !.done = over,
                       !.length = IF over \/ @ = -1 THEN @ ELSE @ - n]

(***************************************************************************)
(* n units have been read into the buffers of a chain.  Those which are    *)
(* full go to the filter, the rest is free, the first of it perhaps partly *)
(* filled.                                                                 *)
(***************************************************************************)
Capacity(q, chain) == FoldLeft(LAMBDA k, b : k + Size - q.raw[b].last, 0, chain)

Consume(q, chain, n, first) ==
    LET before(i) == Capacity(q, SubSeq(chain, 1, i - 1))
        into(i) == Max({0, Min({n - before(i), Size - q.raw[chain[i]].last})})
        at(b) == CHOOSE i \in 1..Len(chain) : chain[i] = b
        filled == [b \in Bufs |-> IF b \in ToSet(chain) THEN into(at(b)) ELSE 0]
        full == {i \in 1..Len(chain) : into(i) > 0 /\ into(i) = Size - q.raw[chain[i]].last}
        q1 == [q EXCEPT
                !.mem = [b \in Bufs |-> [j \in 1..Size |->
                            IF j > q.raw[b].last /\ j <= q.raw[b].last + filled[b]
                            THEN first + before(at(b)) + j - q.raw[b].last - 1 ELSE @[b][j]]],
                !.raw = [b \in Bufs |-> [@[b] EXCEPT !.last = @ + filled[b]]],
                !.free = SubSeq(chain, Cardinality(full) + 1, Len(chain))]
    IN  FoldLeft(InputFilter, q1, SubSeq(chain, 1, Cardinality(full)))

-----------------------------------------------------------------------------
(***************************************************************************)
(* ngx_event_pipe_write_chain_to_temp_file                                 *)
(***************************************************************************)
Header == Link(0, 0, 1)

(* What is written at p->temp_file->offset *)
Written(q, chain) ==
    LET us == Units(q, chain) IN
    [i \in 1..Max({Len(q.file), q.offset + Len(us)}) |->
        IF i > q.offset /\ i <= q.offset + Len(us) THEN us[i - q.offset] ELSE q.file[i]]

(* The chain has been written: its units are in p->out now, at the end of  *)
(* the last link if that ends there, and its buffers are free.             *)
ToFile(q) ==
    LET chain == IF q.buf_to_file THEN Tail(q.writing) ELSE q.writing
        n == SizeOf(chain)
        from == IF q.buf_to_file THEN 1 ELSE q.offset
        extends == q.out # <<>> /\ Last(q.out).to = from
    IN  [q EXCEPT
            !.buf_to_file = FALSE, !.writing = <<>>, !.offset = from + n,
            !.out = IF n = 0 THEN @
                    ELSE IF extends THEN [@ EXCEPT ![Len(@)].to = from + n]
                    ELSE Append(@, Link(File, from, from + n)),
            !.free = @ \o Raws(chain),
            !.raw = [b \in Bufs |-> IF b \in ToSet(Raws(chain)) THEN [pos |-> 0, last |-> 0] ELSE @[b]]]

(* The links of p->in that fit: all of them if the response is cached *)
FitWriteSize(q) ==
    IF conf.cacheable THEN Len(q.in)
    ELSE Cardinality({k \in 1..Len(q.in) : SizeOf(SubSeq(q.in, 1, k)) <= WriteSize})

Fit(q) ==
    LET fits(k) == LET n == SizeOf(SubSeq(q.in, 1, k)) IN
                    n <= WriteSize /\ q.offset + n <= conf.maxtemp
    IN  IF conf.cacheable THEN Len(q.in)
        ELSE Cardinality({k \in 1..Len(q.in) : \A j \in 1..k : fits(j)})

Fails == {FALSE} \cup (IF conf.faults THEN {TRUE} ELSE {})

(* [rc, p]: the result and the pipe afterwards *)
WriteChainToTempFile(q, fail) ==
    LET k == Fit(q)
        chain == (IF q.buf_to_file THEN <<Header>> ELSE <<>>) \o SubSeq(q.in, 1, k)
        q1 == [q EXCEPT !.in = SubSeq(@, k + 1, Len(@)), !.writing = chain]
    IN  IF q.writing # <<>>
        THEN IF q.aio THEN [rc |-> "again", p |-> q]
             ELSE IF fail THEN [rc |-> "abort", p |-> [q EXCEPT !.writing = <<>>]]
             ELSE [rc |-> "ok", p |-> ToFile(q)]
        ELSE IF ~conf.cacheable /\ k = 0 THEN [rc |-> "busy", p |-> q]
        ELSE IF fail THEN [rc |-> "abort", p |-> [q EXCEPT !.in = q1.in]]
        ELSE IF conf.threads THEN [rc |-> "again", p |-> [q1 EXCEPT !.aio = TRUE]]
        ELSE [rc |-> "ok", p |-> ToFile([q1 EXCEPT !.file = Written(q, chain)])]

-----------------------------------------------------------------------------
(***************************************************************************)
(* Sending to the client                                                   *)
(***************************************************************************)

(* The links after k units of the chain have been sent *)
Advance(chain, k) ==
    [i \in 1..Len(chain) |->
        LET before == SizeOf(SubSeq(chain, 1, i - 1))
        IN  [chain[i] EXCEPT !.from = @ + Max({0, Min({k - before, Length(chain[i])})})]]

(***************************************************************************)
(* The output filter, ngx_http_write_filter at its end, with               *)
(* ngx_chain_update_chains: the links join p->busy, as many units are sent *)
(* as the socket takes, and the buffers of links sent are free.  Little    *)
(* data is held back unless a link is to be recycled.  The links of the    *)
(* last calls, when the server has finished, stay with the filter only;    *)
(* they are in p->busy here, which is not looked at any more.              *)
(***************************************************************************)
OutputFilter(q, d, chain) ==
    LET all == q.busy \o chain
        flush == \E i \in 1..Len(all) : all[i].recycled
        held == ~flush /\ chain # <<>> /\ SizeOf(all) < conf.postpone
        k == IF d.ready THEN Min({d.room, SizeOf(all)}) ELSE 0
        after == Advance(all, k)
        sent == SelectSeq(after, LAMBDA l : l.from = l.to)
    IN  IF d.gone /\ ~held THEN [rc |-> "error", p |-> [q EXCEPT !.busy = all], c |-> d]
        ELSE IF held \/ d.delayed THEN [rc |-> "ok", p |-> [q EXCEPT !.busy = all], c |-> d]
        ELSE [rc |-> "ok",
              p |-> FoldLeft(AddFreeBuf, [q EXCEPT !.busy = SelectSeq(after, LAMBDA l : l.from < l.to)],
                             Reverse(Raws(sent))),
              c |-> [d EXCEPT !.got = @ \o SubSeq(Units(q, all), 1, k), !.room = @ - k,
                              !.ready = @ /\ k = SizeOf(all),
                              !.delayed = conf.rate /\ k > 0,
                              !.timer = @ \/ (conf.rate /\ k > 0)]]

(* ngx_event_pipe_drain_chains: the client is gone, nothing is kept for it *)
DrainChains(q) ==
    FoldLeft(AddFreeBuf, [q EXCEPT !.busy = <<>>, !.out = <<>>, !.in = <<>>],
             Raws(q.busy \o q.out \o q.in))

(* The server has finished: all that is left goes to the filter. *)
Unrecycled(chain) == [i \in 1..Len(chain) |-> [chain[i] EXCEPT !.recycled = FALSE]]
FlushAll(q, d) ==
    LET q0 == [q EXCEPT !.busy = Unrecycled(@), !.out = <<>>]
        one == IF q.out = <<>> THEN [rc |-> "ok", p |-> q0, c |-> d] ELSE OutputFilter(q0, d, Unrecycled(q.out))
        q1 == [one.p EXCEPT !.in = <<>>]
    IN  IF one.rc = "error" \/ q.writing # <<>> \/ q.in = <<>> THEN one
        ELSE OutputFilter(q1, one.c, Unrecycled(q.in))

(* What the next call of the filter takes: p->out first, then links of     *)
(* p->in as long as the buffers that wait for the client stay within       *)
(* busy_size; [chain, in, flush]                                           *)
BusyBytes(q) == Size * Cardinality({i \in 1..Len(q.busy) : q.busy[i].recycled})

TakeAll(q) ==
    LET k == IF conf.cacheable \/ q.writing # <<>> THEN 0 ELSE Len(q.in)
    IN  [chain |-> q.out \o SubSeq(q.in, 1, k), in |-> SubSeq(q.in, k + 1, Len(q.in)), flush |-> FALSE]
InFirst(q) ==
    LET may == (BusySize - BusyBytes(q)) \div Size
        k == IF conf.cacheable \/ q.writing # <<>> THEN 0 ELSE Min({may, Len(q.in)})
    IN  [chain |-> SubSeq(q.in, 1, k) \o q.out, in |-> SubSeq(q.in, k + 1, Len(q.in)),
         flush |-> ~conf.cacheable /\ q.writing = <<>> /\ k < Len(q.in)]

Take(q) ==
    LET may == (BusySize - BusyBytes(q)) \div Size
        k == IF conf.cacheable \/ q.writing # <<>> THEN 0 ELSE Min({may, Len(q.in)})
    IN  IF BusyBytes(q) >= BusySize
        THEN [chain |-> <<>>, in |-> q.in, flush |-> TRUE]
        ELSE [chain |-> q.out \o SubSeq(q.in, 1, k), in |-> SubSeq(q.in, k + 1, Len(q.in)),
              flush |-> ~conf.cacheable /\ q.writing = <<>> /\ k < Len(q.in)]

-----------------------------------------------------------------------------
(***************************************************************************)
(* The steps of the worker                                                 *)
(***************************************************************************)
Over(rc, cache) ==
    /\ pc' = "over"
    /\ end' = [rc |-> rc, cache |-> cache]
Goto(place) == pc' = place /\ UNCHANGED end
Abort == Over("error", IF conf.cacheable THEN "freed" ELSE "none")

(* ngx_event_pipe_write_to_downstream: first a write to the file is        *)
(* completed                                                               *)
WriteTop ==
    /\ pc = "write"
    /\ IF p.writing = <<>> THEN p' = p /\ Goto("send")
       ELSE \E fail \in Fails :
                LET w == WriteChainToTempFile(p, fail) IN
                p' = w.p /\ IF w.rc = "abort" THEN Abort ELSE Goto("send")
    /\ UNCHANGED <<conf, s, c>>

(* The loop of ngx_event_pipe_write_to_downstream *)
Send ==
    /\ pc = "send"
    /\ UNCHANGED <<conf, s>>
    /\ \/ /\ p.derror
          /\ p' = DrainChains(p) /\ Goto("pipe") /\ UNCHANGED c
       \/ /\ ~p.derror /\ Finished(p)
          /\ LET o == FlushAll(p, c) IN
             /\ p' = IF o.rc = "error" THEN DrainChains([o.p EXCEPT !.derror = TRUE]) ELSE o.p
             /\ c' = o.c
          /\ Goto("pipe")
       \/ /\ ~p.derror /\ ~Finished(p)
          /\ ~c.ready \/ c.delayed
          /\ Goto("pipe") /\ UNCHANGED <<p, c>>
       \/ /\ ~p.derror /\ ~Finished(p)
          /\ c.ready /\ ~c.delayed
          /\ LET t == Take(p)
                 q == [p EXCEPT !.in = t.in, !.out = IF BusyBytes(p) >= BusySize THEN @ ELSE <<>>]
                 o == OutputFilter(q, c, t.chain)
             IN  IF t.chain = <<>> /\ ~t.flush
                 THEN Goto("pipe") /\ UNCHANGED <<p, c>>
                 ELSE /\ c' = o.c
                      /\ p' = IF o.rc = "error" THEN DrainChains([o.p EXCEPT !.derror = TRUE]) ELSE o.p
                      /\ Goto(IF o.rc = "error" THEN "pipe" ELSE "send")

(* ngx_event_pipe, before it reads: what ngx_event_pipe_read_upstream      *)
(* checks first                                                            *)
ReadTop ==
    /\ pc = "pipe"
    /\ LET q == [p EXCEPT !.read = FALSE, !.blocked = FALSE]
       IN  IF Finished(q) \/ q.aio THEN p' = q /\ Goto("loop")
           ELSE IF q.writing = <<>> THEN p' = q /\ Goto("read")
           ELSE \E fail \in Fails :
                    LET w == WriteChainToTempFile(q, fail) IN
                    p' = w.p /\ IF w.rc = "abort" THEN Abort ELSE Goto("read")
    /\ UNCHANGED <<conf, s, c>>

Preread ==
    /\ pc = "read" /\ ~Finished(p) /\ p.preread
    /\ p' = [Consume([p EXCEPT !.preread = FALSE], <<0>>, conf.preread, 1)
                EXCEPT !.read = @ \/ conf.preread > 0]
    /\ s' = [s EXCEPT !.got = conf.preread]
    /\ UNCHANGED <<conf, c, pc, end>>

MayRead == ~Finished(p) /\ ~p.preread /\ s.ready /\ ~(conf.limit /\ s.delayed)

StopReading ==
    /\ pc = "read"
    /\ Finished(p) \/ (~p.preread /\ (~s.ready \/ (conf.limit /\ s.delayed)))
    /\ Goto("readend") /\ UNCHANGED <<conf, p, s, c>>

(* p->upstream->recv_chain: q is the pipe without the chain it reads into *)
Recv(q, chain) ==
    LET available == s.sent - s.got
        n == Min({available, Capacity(q, chain)})
        short == n < Capacity(q, chain)
    IN  IF s.closed = "reset"
        THEN /\ p' = [q EXCEPT !.free = chain, !.error = TRUE]
             /\ s' = [s EXCEPT !.ready = FALSE]
             /\ Goto("readend")
        ELSE IF n = 0
        THEN /\ p' = [q EXCEPT !.free = chain, !.eof = s.closed = "eof", !.read = @ \/ s.closed = "eof"]
             /\ s' = [s EXCEPT !.ready = FALSE]
             /\ Goto("readend")
        ELSE /\ p' = [Consume(q, chain, n, s.got + 1) EXCEPT !.read = TRUE]
             /\ s' = [s EXCEPT !.got = @ + n, !.ready = ~short \/ s.pending_eof,
                               !.delayed = conf.limit, !.timer = @ \/ conf.limit]
             /\ Goto(IF conf.limit THEN "readend" ELSE "read")

NoBufs(q) == q.free = <<>> /\ q.allocated = Num
DownstreamReady == c.ready /\ ~c.delayed

(* The loop of ngx_event_pipe_read_upstream, with a buffer to read into *)
ReadUpstream ==
    /\ pc = "read" /\ MayRead /\ ~NoBufs(p)
    /\ IF p.free # <<>> THEN Recv(p, p.free)
       ELSE Recv([p EXCEPT !.allocated = @ + 1], <<p.allocated + 1>>)
    /\ UNCHANGED <<conf, c>>

(* All the buffers are in use: the client gets some, or the file, or       *)
(* reading stops.                                                          *)
Blocked(q) == [q EXCEPT !.blocked = TRUE]
ReadBlocked ==
    /\ pc = "read" /\ MayRead /\ NoBufs(p)
    /\ UNCHANGED <<conf, c>>
    /\ IF ~conf.cacheable /\ DownstreamReady
       THEN p' = Blocked(p) /\ Goto("readend") /\ UNCHANGED s
       ELSE IF conf.cacheable \/ p.offset < conf.maxtemp
       THEN \E fail \in Fails :
                LET w == WriteChainToTempFile(p, fail) IN
                \/ w.rc = "ok" /\ Recv(w.p, w.p.free)
                \/ w.rc = "busy" /\ p' = w.p /\ Goto("readend") /\ UNCHANGED s
                \/ w.rc = "again" /\ p' = w.p /\ Goto("loop") /\ UNCHANGED s
                \/ w.rc = "abort" /\ p' = w.p /\ Abort /\ UNCHANGED s
       ELSE Goto("readend") /\ UNCHANGED <<p, s>>

(* The end of ngx_event_pipe_read_upstream: a buffer that is partly filled *)
(* is passed on if nothing can follow.                                     *)
PassPartial(q, when) ==
    IF q.free # <<>> /\ when THEN InputFilter([q EXCEPT !.free = Tail(@)], Head(q.free)) ELSE q

KeepPartial(q) == IF q.length = 0 THEN [q EXCEPT !.done = TRUE, !.read = TRUE] ELSE q
EndOfRead(q) ==
    LET first == q.raw[Head(q.free)]
        q1 == PassPartial(q, q.length # -1 /\ first.last - first.pos >= q.length)
        q2 == IF q1.length = 0 THEN [q1 EXCEPT !.done = TRUE, !.read = TRUE] ELSE q1
    IN  PassPartial(q2, q2.eof \/ q2.error)

ReadEnd ==
    /\ pc = "readend"
    /\ LET q == EndOfRead(p) IN
       IF conf.cacheable /\ (q.in # <<>> \/ q.buf_to_file)
       THEN \E fail \in Fails :
                LET w == WriteChainToTempFile(q, fail) IN
                /\ p' = w.p
                /\ IF w.rc = "abort" THEN Abort ELSE Goto("loop")
       ELSE p' = q /\ Goto("loop")
    /\ UNCHANGED <<conf, s, c>>

(***************************************************************************)
(* ngx_event_pipe goes round again if something was read, or if it waits   *)
(* for buffers that the client can take; else it sets the timers.          *)
(***************************************************************************)
TimersUnset == UNCHANGED <<s, c>>
Timers ==
    /\ s' = IF s.delayed THEN s ELSE [s EXCEPT !.timer = ~s.ready]
    /\ c' = IF c.delayed THEN c ELSE [c EXCEPT !.timer = ~c.ready]

Loop ==
    /\ pc = "loop"
    /\ IF p.read \/ p.blocked THEN Goto("write") /\ UNCHANGED <<s, c>>
       ELSE Goto("request") /\ Timers
    /\ UNCHANGED <<conf, p>>

(* ngx_http_upstream_process_request *)
CompleteWrite == p.writing # <<>> /\ ~p.aio
ProcessRequest ==
    LET complete == p.done \/ (p.eof /\ p.length = -1) IN
    /\ pc = "request"
    /\ \/ CompleteWrite /\ Goto("write")
       \/ ~CompleteWrite /\ p.writing # <<>> /\ Goto("idle")
       \/ p.writing = <<>> /\ Finished(p)
          /\ Over(IF complete THEN "ok" ELSE "error",
                  IF ~conf.cacheable THEN "none" ELSE IF complete THEN "kept" ELSE "freed")
       \/ p.writing = <<>> /\ ~Finished(p) /\ p.derror /\ ~conf.cacheable /\ Over("error", "none")
       \/ p.writing = <<>> /\ ~Finished(p) /\ (p.derror => conf.cacheable) /\ Goto("idle")
    /\ UNCHANGED <<conf, p, s, c>>

-----------------------------------------------------------------------------
(***************************************************************************)
(* Events                                                                  *)
(***************************************************************************)

(* ngx_http_upstream_process_upstream *)
UpstreamEvent ==
    /\ pc = "idle" /\ s.edge
    /\ s' = [s EXCEPT !.edge = FALSE, !.ready = TRUE, !.pending_eof = s.closed # "open"]
    /\ Goto(IF s.delayed THEN "idle" ELSE "pipe")
    /\ UNCHANGED <<conf, p, c>>

UpstreamTimer ==
    /\ pc = "idle" /\ s.timer
    /\ s' = [s EXCEPT !.timer = FALSE, !.delayed = FALSE]
    /\ p' = [p EXCEPT !.error = @ \/ ~s.delayed]
    /\ Goto(IF s.delayed THEN "pipe" ELSE "request")
    /\ UNCHANGED <<conf, c>>

(* ngx_http_upstream_process_downstream, for the client connection d *)
ProcessDownstream(q, d) ==
    /\ c' = d
    /\ IF d.timedout THEN p' = [q EXCEPT !.derror = TRUE] /\ Goto("request")
       ELSE p' = q /\ Goto(IF d.delayed THEN "idle" ELSE "write")
    /\ UNCHANGED <<conf, s>>

DownstreamEvent ==
    /\ pc = "idle" /\ c.edge
    /\ ProcessDownstream(p, [c EXCEPT !.edge = FALSE, !.ready = TRUE])

DownstreamTimer ==
    /\ pc = "idle" /\ c.timer
    /\ ProcessDownstream(p, [c EXCEPT !.timer = FALSE, !.delayed = FALSE, !.timedout = ~c.delayed])

(* A thread has written the chain: ngx_http_upstream_thread_event_handler *)
ThreadDone ==
    /\ pc = "idle" /\ p.aio
    /\ ProcessDownstream([p EXCEPT !.aio = FALSE, !.file = Written(p, p.writing)], c)

Worker == \/ WriteTop \/ Send \/ ReadTop \/ Preread \/ StopReading \/ ReadUpstream \/ ReadBlocked
          \/ ReadEnd \/ Loop \/ ProcessRequest

(* The server and the client *)
ServerSends ==
    /\ s.closed = "open" /\ s.sent < conf.total
    /\ s' = [s EXCEPT !.sent = @ + 1, !.edge = TRUE]
    /\ UNCHANGED <<conf, p, c, pc, end>>

ServerCloses ==
    /\ s.closed = "open"
    /\ \E how \in {"eof"} \cup (IF conf.faults THEN {"reset"} ELSE {}) :
        s' = [s EXCEPT !.closed = how, !.edge = TRUE]
    /\ UNCHANGED <<conf, p, c, pc, end>>

ClientReads ==
    /\ c.room < Room /\ ~c.gone
    /\ c' = [c EXCEPT !.room = Room, !.edge = @ \/ ~c.ready]
    /\ UNCHANGED <<conf, p, s, pc, end>>

ClientGone ==
    /\ conf.faults /\ ~c.gone
    /\ c' = [c EXCEPT !.gone = TRUE, !.edge = TRUE]
    /\ UNCHANGED <<conf, p, s, pc, end>>

Environment == pc # "over" /\ (ServerSends \/ ServerCloses \/ ClientReads \/ ClientGone)

Events == UpstreamEvent \/ DownstreamEvent

Next == \/ Worker \/ Events \/ UpstreamTimer \/ DownstreamTimer \/ ThreadDone \/ Environment

Spec == Init /\ [][Next]_vars

(***************************************************************************)
(* The worker runs, events are reported, timers expire and threads finish; *)
(* nothing is assumed of the server and of the client.  The first conjunct *)
(* is the weak fairness of Worker, whose enabling condition is Running.    *)
(***************************************************************************)
Running == pc \notin {"idle", "over"}
Fairness ==
    /\ []<>~Running \/ []<><<Running>>_<<p, pc, c.ready>>
    /\ WF_vars(Events)
    /\ WF_vars(UpstreamTimer) /\ WF_vars(DownstreamTimer) /\ WF_vars(ThreadDone)

FairSpec == Spec /\ Fairness

-----------------------------------------------------------------------------
(***************************************************************************)
(* Properties                                                              *)
(***************************************************************************)
Chains == {"free", "in", "out", "busy", "writing"}
Flags == {"aio", "preread", "buf_to_file", "eof", "error", "done", "derror", "read", "blocked"}

TypeOK ==
    /\ conf \in Scenarios
    /\ p.allocated \in 0..Num
    /\ \A f \in Flags : p[f] \in BOOLEAN
    /\ \A b \in Bufs : 0 <= p.raw[b].pos /\ p.raw[b].pos <= p.raw[b].last /\ p.raw[b].last <= Size
    /\ \A ch \in Chains \ {"free"} : \A i \in 1..Len(p[ch]) :
        p[ch][i].b \in Bufs \cup {File} /\ Length(p[ch][i]) > 0
    /\ pc \in {"idle", "write", "send", "pipe", "read", "readend", "loop", "request", "over"}

(* A buffer is in one place, and none is lost while the server sends. *)
Places(b) ==
    Cardinality({<<ch, i>> \in {"in", "busy", "writing"} \X (1..(Num + 2)) :
                    i <= Len(p[ch]) /\ p[ch][i].b = b /\ p[ch][i] # Header})
    + Cardinality({i \in 1..Len(p.free) : p.free[i] = b})

OnePlace ==
    \A b \in Bufs : Places(b) =
        IF b \in 1..p.allocated \/ (b = 0 /\ ~p.preread) THEN 1 ELSE 0

(* The buffers the client may keep waiting are within busy_size, so that   *)
(* one is left to be written to the file when there is no free one.        *)
OneLeft == /\ BusyBytes(p) <= BusySize
           /\ pc = "read" /\ MayRead /\ NoBufs(p) => p.in # <<>>

(* The file stays within its limit. *)
FileBounded == ~conf.cacheable => Len(p.file) <= conf.maxtemp

(***************************************************************************)
(* Buffers are conserved and bounded, whatever the order in which the      *)
(* client, the server and the threads act: each is in one place, one of    *)
(* them can always be written out when all are in use (else                *)
(* ngx_event_pipe_write_chain_to_temp_file would follow a null pointer),   *)
(* and the file keeps its limit.                                           *)
(***************************************************************************)
BuffersConserved ==
    TypeOK /\ (~Finished(p) /\ pc # "over" => OnePlace /\ OneLeft) /\ FileBounded

(***************************************************************************)
(* The response, in order and complete: what the client has, then what is  *)
(* on its way in p->busy, p->out, a write to the file, p->in and the       *)
(* partly filled buffer is what was read from the server, however often    *)
(* buffers and file have taken turns; at the end nothing is missing.  A    *)
(* cached response is kept only if the file holds all of it.               *)
(***************************************************************************)
Count(n) == [i \in 1..n |-> i]
Expected == IF conf.length = -1 THEN s.sent ELSE conf.length
UpTo(n) == IF conf.length = -1 THEN n ELSE Min({n, conf.length})

Partial == IF p.free = <<>> \/ Finished(p) THEN <<>>
           ELSE UnitsOf(p, Link(Head(p.free), p.raw[Head(p.free)].pos, p.raw[Head(p.free)].last))
OnItsWay ==
    LET w == IF p.writing # <<>> /\ p.buf_to_file THEN Tail(p.writing) ELSE p.writing IN
    c.got \o Units(p, p.busy \o p.out \o w \o p.in) \o Partial

ResponseKept ==
    /\ c.got = Count(Len(c.got))
    /\ ~p.derror /\ ~p.error /\ pc # "readend" /\ end.rc # "error" =>
        SubSeq(OnItsWay, 1, UpTo(Len(OnItsWay))) = Count(UpTo(s.got))
    /\ end.rc = "ok" /\ ~p.derror => c.got \o Units(p, p.busy) = Count(Expected)
    /\ end.cache = "kept" => p.file = <<0>> \o Count(Expected)

(***************************************************************************)
(* The pipe never stalls: whatever the server and the client do, or no     *)
(* longer do, the request ends.  Whenever the worker waits, a timer is     *)
(* set, a thread is at work, or an event is to come.                       *)
(***************************************************************************)
PipeEnds == <>(pc = "over")

(***************************************************************************)
(* Both, for a reader who asks whether a pipe may lose or mix up data.     *)
(***************************************************************************)
PipeExact == BuffersConserved /\ ResponseKept
=============================================================================
