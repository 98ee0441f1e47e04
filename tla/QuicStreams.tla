---------------------------- MODULE QuicStreams ----------------------------
(***************************************************************************)
(* A QUIC connection after its handshake, and its streams: frames are put  *)
(* in packets, packets are lost, reordered and acknowledged late or not at *)
(* all, and what a lost packet carried is sent again until a copy of it is *)
(* acknowledged; flow control in both directions; the states of the two    *)
(* halves of a stream; the ways a stream or the connection ends.           *)
(*                                                                         *)
(* Data is counted in units; a frame is one unit and its data, a packet    *)
(* has Cap units.  A handler runs to its end: it is an operator from the   *)
(* state w of the connection to the next one.  Posted events run in any    *)
(* order.  The client is correct but for the budgets of a scenario; a      *)
(* packet of it comes whole, and one it sends again comes again.           *)
(***************************************************************************)
EXTENDS Integers, Sequences, FiniteSets, FiniteSetsExt, SequencesExt

CONSTANTS
    NStreams,       \* streams the client may open, in this order
    Cap,            \* what a packet holds (path->mtu)
    MaxPackets,     \* bound: datagrams of one call of ngx_quic_output
    SendBuffer,     \* stream_buffer_size
    PktThr,         \* QUIC_PKT_THR
    MaxAckGap,      \* QUIC_MAX_ACK_GAP
    LeastWindow,    \* the congestion window after a loss, in packets
    Scenarios       \* what is asked, the windows, what may go wrong: records conf

ASSUME QuicAssumption ==
    /\ {NStreams, MaxPackets, SendBuffer, PktThr, MaxAckGap} \subseteq Nat \ {0}
    /\ Cap \in Nat /\ Cap >= 2 /\ LeastWindow \in Nat \ {0}

VARIABLES w, cl, bud, conf
vars == <<w, cl, bud, conf>>

Sids == 1 .. NStreams
May(s) == s <= cl.ms /\ s <= conf.use     \* the client may use stream s, and does
Unset == -1          \* a final size, a packet number that is not known
None == 0            \* no stream

(***************************************************************************)
(* Stream s: body, the units the client sends; read, whether the           *)
(* application reads them before it answers; size, the units of the        *)
(* answer; slow, when it cannot be ended at once (an operation in a        *)
(* thread); giveup, when it may end before it is done.                     *)
(***************************************************************************)
Ask(s) == conf.ask[s]

\* ngx_quic_create_stream
NewStream(s) ==
    [st |-> "open", conn |-> TRUE, app |-> "init", post |-> {"init"}, todo |-> Ask(s).size,
     ss |-> "ready", smax |-> conf.sdata, soff |-> 0, sent |-> 0, acked |-> 0,
     units |-> {}, finAcked |-> FALSE, fsz |-> Unset, wready |-> TRUE, werr |-> FALSE,
     rs |-> "recv", rmax |-> conf.rwin, roff |-> 0, rlast |-> 0, rfsz |-> Unset,
     have |-> {}, rerr |-> FALSE]

Absent(s, how) == [NewStream(s) EXCEPT !.st = how, !.conn = FALSE, !.app = "none", !.post = {}]

Init ==
    /\ conf \in Scenarios
    /\ bud = conf.bud
    /\ w = [c |-> [pn |-> 0, lack |-> Unset, infl |-> 0, win |-> conf.win, push |-> FALSE,
                   ptimer |-> FALSE, pto |-> "none", sack |-> 0,
                   smax |-> 0, soff |-> 0, rmax |-> conf.crwin, roff |-> 0, rlast |-> 0,
                   ms |-> conf.ms, ns |-> 0, shut |-> FALSE, closing |-> FALSE,
                   cpost |-> FALSE, ctimer |-> FALSE, dead |-> FALSE, why |-> "open", leak |-> 0],
            frames |-> <<>>, sent |-> <<>>, net |-> {}, rc |-> "ok",
            st |-> [s \in Sids |-> Absent(s, "none")]]
    /\ cl = [pns |-> {}, due |-> FALSE, max |-> conf.crwin, ms |-> conf.ms, grant |-> conf.data,
             st |-> [s \in Sids |->
                       [got |-> {}, fin |-> FALSE, rst |-> FALSE, stop |-> FALSE,
                        max |-> conf.rwin, grant |-> conf.sdata,
                        out |-> {}, end |-> "no"]]]

-----------------------------------------------------------------------------
(* Frames.  val is the value of a MAX_* frame and the offset of data; pl is *)
(* 1 on the frame that stands for its packet in the congestion window.      *)

Frame(t, s, val, len, fin) ==
    [t |-> t, s |-> s, val |-> val, len |-> len, fin |-> fin, pn |-> 0, pl |-> 0]
Ctl(t, s, val) == Frame(t, s, val, 0, FALSE)

QueueFrame(x, f) ==
    [x EXCEPT !.frames = Append(@, f), !.c.push = @ \/ ~x.c.closing]

\* ngx_quic_set_event: the event is posted once the stream has its handlers
SetEvent(x, s, e) ==
    [x EXCEPT !.st[s].wready = @ \/ e = "write",
              !.st[s].post = IF x.st[s].app = "init" THEN @ ELSE @ \cup {e}]

Open(x, s) == x.st[s].st = "open"

\* a bug: a closing connection is not told that its stream has ended
CloseStreamSilent(x, s) ==
    LET y == [x EXCEPT !.st[s] = Absent(s, "gone")]
        done == x.st[s].rs # "recv" /\ x.st[s].ss \in {"datarecvd", "resetrecvd"}
    IN  IF x.c.closing THEN y
        ELSE IF ~done THEN x
        ELSE QueueFrame([y EXCEPT !.c.ms = @ + 1, !.c.leak = @ + x.st[s].rlast - x.st[s].roff],
                        Ctl("maxs", None, x.c.ms + 1))

\* a bug: a stream is forgotten once all of it was sent
CloseStreamSent(x, s) ==
    LET t == x.st[s]
    IN  IF x.c.closing \/ (t.rs # "recv" /\ t.ss \in {"datasent", "datarecvd", "resetrecvd"})
        THEN QueueFrame([x EXCEPT !.st[s] = Absent(s, "gone"), !.c.ms = @ + 1],
                        Ctl("maxs", None, x.c.ms + 1))
        ELSE x

(* The end of a stream. *)
CloseStream(x, s) ==
    LET t == x.st[s]
        done == t.rs # "recv" /\ t.ss \in {"datarecvd", "resetrecvd"}
        y == [x EXCEPT !.st[s] = Absent(s, "gone"), !.c.leak = @ + t.rlast - t.roff]
        last == \A r \in Sids : ~Open(y, r)
    IN  IF ~x.c.closing /\ ~done THEN x
        ELSE IF x.c.closing THEN [y EXCEPT !.c.cpost = TRUE]
        ELSE IF x.c.shut THEN [y EXCEPT !.c.cpost = @ \/ last]
        ELSE QueueFrame([y EXCEPT !.c.ms = @ + 1], Ctl("maxs", None, x.c.ms + 1))

CloseIfLeft(x, s) == IF x.st[s].conn THEN x ELSE CloseStream(x, s)

-----------------------------------------------------------------------------
(* Sending.                                                                 *)

\* what is buffered and within both windows becomes a frame
StreamFlush(x, s) ==
    LET t == x.st[s]
        y == [x EXCEPT !.c.smax = IF @ = 0 THEN conf.data ELSE @]
        len == Min({y.c.smax - y.c.soff, t.smax - t.soff, t.sent - t.soff})
        last == t.fsz = t.soff + len
        z == QueueFrame(y, Frame("stream", s, t.soff, len, last))
    IN  IF t.ss # "send" THEN x
        ELSE IF len = 0 /\ ~last THEN y
        ELSE CloseIfLeft([z EXCEPT !.st[s].ss = IF last THEN "datasent" ELSE @,
                                   !.st[s].soff = @ + len, !.c.soff = @ + len], s)

\* ngx_quic_stream_send_chain: the application has n units
SendChain(x, s, n) ==
    LET t == x.st[s]
        flow == t.acked + SendBuffer - t.sent
        k == Min({flow, n})
        y == [x EXCEPT !.st[s].ss = "send"]
    IN  IF t.ss \notin {"ready", "send"} THEN [x EXCEPT !.st[s].werr = TRUE]
        ELSE IF flow = 0 THEN [y EXCEPT !.st[s].wready = FALSE]
        ELSE StreamFlush([y EXCEPT !.st[s].sent = @ + k, !.st[s].todo = @ - k,
                                   !.st[s].wready = @ /\ flow # k], s)

\* ngx_quic_do_reset_stream
ResetStream(x, s) ==
    LET t == x.st[s]
    IN  IF t.ss \in {"datarecvd", "resetsent", "resetrecvd"} THEN x
        ELSE QueueFrame([x EXCEPT !.st[s].ss = "resetsent", !.st[s].fsz = t.soff,
                                  !.st[s].werr = @ \/ t.conn],
                        Ctl("reset", s, t.soff))

ShutdownSend(x, s) ==
    IF x.st[s].ss \notin {"ready", "send"} THEN x
    ELSE StreamFlush([x EXCEPT !.st[s].ss = "send", !.st[s].fsz = x.st[s].sent], s)

ShutdownRecv(x, s) ==
    IF x.st[s].rs \notin {"recv", "sizeknown"} THEN x ELSE QueueFrame(x, Ctl("stop", s, 0))

\* ngx_quic_stream_cleanup_handler: the connection of the stream is destroyed
Cleanup(x, s) ==
    LET Left(y) == [y EXCEPT !.st[s].conn = FALSE, !.st[s].app = "none", !.st[s].post = {}]
    IN  CloseStream(Left(ShutdownRecv(ShutdownSend(x, s), s)), s)

\* ngx_quic_handle_stream_ack
HandleStreamAck(x, f) ==
    LET t == x.st[f.s]
        acked == t.acked + f.len
        fin == t.finAcked \/ f.fin
        y == [x EXCEPT !.st[f.s].acked = acked, !.st[f.s].finAcked = fin,
                       !.st[f.s].units = @ \cup (f.val .. f.val + f.len - 1),
                       !.st[f.s].ss = IF @ = "datasent" /\ acked = t.sent /\ fin
                                      THEN "datarecvd" ELSE @]
        z == IF t.conn /\ t.sent - t.acked = SendBuffer /\ f.len > 0
             THEN SetEvent(y, f.s, "write") ELSE y
    IN  IF f.t \notin {"stream", "reset"} THEN x
        ELSE IF ~Open(x, f.s) THEN x
        ELSE CloseIfLeft(IF f.t = "stream" THEN z
                         ELSE [x EXCEPT !.st[f.s].ss = "resetrecvd"], f.s)

-----------------------------------------------------------------------------
(* Acknowledgments and losses.                                              *)

PnsOf(q) == {q[i].pn : i \in DOMAIN q}

\* a bug: an acknowledged packet does not hasten the loss of those before it
SetPtoOnly(x) == [x EXCEPT !.c.pto = IF x.sent = <<>> THEN "none" ELSE "pto"]

\* ngx_quic_set_lost_timer
SetLostTimer(x) ==
    [x EXCEPT !.c.pto = IF x.sent = <<>> THEN "none"
                        ELSE IF x.c.lack # Unset /\ x.sent[1].pn <= x.c.lack THEN "lost"
                        ELSE "pto"]

\* a bug: limits are not sent again
RequeueNoLimits(x, f) ==
    CASE f.t = "ack" -> [x EXCEPT !.c.sack = MaxAckGap]
      [] f.t \in {"ping", "maxd", "maxs", "maxsd"} -> x
      [] f.t = "stream" /\ x.st[f.s].ss \in {"resetsent", "resetrecvd"} -> x
      [] OTHER -> QueueFrame(x, [f EXCEPT !.pn = 0, !.pl = 0])

\* a bug: data is not sent again once its stream has nothing more to send
RequeueSending(x, f) ==
    CASE f.t = "ack" -> [x EXCEPT !.c.sack = MaxAckGap]
      [] f.t = "ping" -> x
      [] f.t = "stream" /\ x.st[f.s].ss # "send" -> x
      [] OTHER -> QueueFrame(x, [f EXCEPT !.pn = 0, !.pl = 0])

\* ngx_quic_resend_frames, for one frame of a lost packet
Requeue(x, f) ==
    LET Again(g) == QueueFrame(x, [g EXCEPT !.pn = 0, !.pl = 0])
    IN  CASE f.t = "ack" -> [x EXCEPT !.c.sack = MaxAckGap]
          [] f.t = "ping" -> x
          [] f.t = "maxd" -> Again([f EXCEPT !.val = x.c.rmax])
          [] f.t = "maxs" -> Again([f EXCEPT !.val = x.c.ms])
          [] f.t = "maxsd" -> IF Open(x, f.s) THEN Again([f EXCEPT !.val = x.st[f.s].rmax])
                              ELSE x
          [] f.t = "stream" -> IF Open(x, f.s) /\ x.st[f.s].ss \notin {"resetsent", "resetrecvd"}
                               THEN Again(f) ELSE x
          [] OTHER -> Again(f)

\* a packet leaves the flight, ngx_quic_congestion_ack and _lost: a push is
\* posted when the window opens by that
OutOfFlight(x, f, win) ==
    [x EXCEPT !.c.infl = @ - f.pl, !.c.win = win,
              !.c.push = @ \/ (f.pl > 0 /\ x.c.infl >= x.c.win /\ x.c.infl - f.pl < win)]

Lost(x, f) ==
    Requeue(OutOfFlight(x, f, IF f.pl > 0 THEN Min({x.c.win, LeastWindow}) ELSE x.c.win), f)

\* the packets that ngx_quic_detect_lost takes for lost: those before the
\* largest acknowledged one that are far behind it, and the old oldest ones
Missing(x, old) ==
    LET pns == PnsOf(x.sent)
        thr == Max({PktThr, (x.c.pn - x.sent[1].pn) \div 2})
    IN  {p \in pns : /\ p <= x.c.lack
                     /\ \/ x.c.lack - p >= thr
                        \/ Cardinality({q \in pns : q <= p}) <= old}

ResendFrames(x, pns) ==
    LET y == [x EXCEPT !.sent = SelectSeq(@, LAMBDA f : f.pn \notin pns)]
        z == FoldLeft(Lost, y, SelectSeq(x.sent, LAMBDA f : f.pn \in pns))
    IN  [z EXCEPT !.c.push = @ \/ (pns # {} /\ ~x.c.closing)]

DetectLost(x, old) ==
    SetLostTimer(IF x.c.lack = Unset \/ x.sent = <<>> THEN x
                 ELSE ResendFrames(x, Missing(x, old)))

\* ngx_quic_handle_ack_frame: packets acked are acknowledged
HandleAckFrame(x, acked) ==
    LET hit == SelectSeq(x.sent, LAMBDA f : f.pn \in acked)
        Acked(y, f) == HandleStreamAck(OutOfFlight(y, f, y.c.win), f)
        y == FoldLeft(Acked, [x EXCEPT !.sent = SelectSeq(@, LAMBDA f : f.pn \notin acked)], hit)
    IN  DetectLost([y EXCEPT !.c.lack = Max({@} \cup acked),
                             !.c.push = @ \/ (hit # <<>> /\ ~x.c.ptimer)], 0)

-----------------------------------------------------------------------------
(* Packets.                                                                 *)

Cost(f) == IF f.t = "stream" THEN 1 + f.len ELSE 1
Size(q) == FoldLeft(LAMBDA n, f : n + Cost(f), 0, q)

\* a bug: both parts are the end of the stream
SplitKeepsFin(f, k) == <<[f EXCEPT !.len = k], [f EXCEPT !.val = @ + k, !.len = @ - k]>>

\* ngx_quic_split_frame: the first k units of a frame, and the rest of it
SplitFrame(f, k) == <<[f EXCEPT !.len = k, !.fin = FALSE],
                      [f EXCEPT !.val = @ + k, !.len = @ - k]>>

\* the frames that fit, the last one of them may be cut for that
Cutting(fs, only) ==
    LET n == Max({k \in 0 .. Len(fs) : /\ Size(SubSeq(fs, 1, k)) <= Cap
                                       /\ only => \A i \in 1 .. k : fs[i].t = "ack"})
        room == Cap - Size(SubSeq(fs, 1, n))
        cut == ~only /\ n < Len(fs) /\ room >= 2 /\ fs[n + 1].t = "stream"
        two == SplitFrame(fs[n + 1], room - 1)
    IN  [n |-> IF cut THEN n + 1 ELSE n,
         fs |-> IF cut THEN SubSeq(fs, 1, n) \o two \o SubSeq(fs, n + 2, Len(fs)) ELSE fs]

\* ngx_quic_generate_ack; late: the delay of an acknowledgment has passed
GenerateAck(x, late) ==
    IF x.c.sack = 0 THEN x
    ELSE IF x.frames = <<>> /\ x.c.sack < MaxAckGap /\ ~late
    THEN [x EXCEPT !.c.ptimer = @ \/ ~x.c.closing]
    ELSE [x EXCEPT !.frames = <<Ctl("ack", None, 0)>> \o @, !.c.sack = 0]

\* a packet of the first n frames leaves, ngx_quic_output_packet and
\* ngx_quic_commit_send: it is kept until acknowledged if it needs to be
Commit(x, n) ==
    LET need == \E i \in 1 .. n : x.frames[i].t # "ack"
        fs == [i \in 1 .. n |-> [x.frames[i] EXCEPT !.pn = x.c.pn,
                                                   !.pl = IF need /\ i = 1 THEN 1 ELSE 0]]
        keep == need /\ ~x.c.closing
    IN  [x EXCEPT !.frames = SubSeq(@, n + 1, Len(@)),
                  !.sent = IF keep THEN @ \o fs ELSE @,
                  !.c.infl = IF keep THEN @ + 1 ELSE @, !.c.pn = @ + 1,
                  !.net = IF keep THEN @ \cup {fs} ELSE @]

(* ngx_quic_output: packets while there are frames and the congestion      *)
(* window is open; only acknowledgments when it is not.  The socket takes   *)
(* taken of them; the frames of one it does not take stay.                  *)
Output(x, late, taken) ==
    LET Datagram(a, k) ==
            LET Cut(y, r) ==
                    IF r.n = 0 THEN [a EXCEPT !.x = y, !.go = FALSE]
                    ELSE IF k > taken
                    THEN [x |-> [y EXCEPT !.frames = r.fs, !.c.ptimer = TRUE],
                          go |-> FALSE]
                    ELSE LET z == Commit([y EXCEPT !.frames = r.fs], r.n)
                         IN  [x |-> z, go |-> z.c.infl < z.c.win]
                Next1(y) == Cut(y, Cutting(y.frames, y.c.infl >= y.c.win))
            IN  IF a.go THEN Next1(GenerateAck(a.x, late)) ELSE a
        Timed(y) == IF y.c.infl = x.c.infl \/ x.c.closing THEN y ELSE SetLostTimer(y)
    IN  Timed(FoldLeft(Datagram, [x |-> x, go |-> TRUE], [k \in 1 .. MaxPackets |-> k]).x)

\* ngx_quic_frame_sendto, for a PING; taken: the socket takes it
SendPing(x, taken) ==
    LET f == [Ctl("ping", None, 0) EXCEPT !.pn = x.c.pn, !.pl = 1]
        y == [x EXCEPT !.c.pn = @ + 1]
    IN  IF ~taken \/ x.c.closing THEN y
        ELSE SetLostTimer([y EXCEPT !.sent = Append(@, f), !.c.infl = @ + 1,
                                    !.net = @ \cup {<<f>>}])

\* ngx_quic_pto_handler
PtoHandler(x, taken) ==
    LET behind == x.sent # <<>> /\ (x.c.lack = Unset \/ Last(x.sent).pn > x.c.lack)
    IN  SetLostTimer(IF behind THEN SendPing(SendPing(x, taken), taken) ELSE x)

-----------------------------------------------------------------------------
(* Receiving.                                                               *)

Failed(x) == [x EXCEPT !.rc = "error"]
Bind(x, Then(_)) == IF x.rc = "ok" THEN Then(x) ELSE x

UpdateMaxStreamData(x, s) ==
    LET max == x.st[s].roff + conf.rwin
    IN  IF x.st[s].rs # "recv" \/ x.st[s].rmax = max THEN x
        ELSE QueueFrame([x EXCEPT !.st[s].rmax = max], Ctl("maxsd", s, max))

UpdateMaxData(x) ==
    LET max == x.c.roff + conf.crwin
    IN  IF x.c.rmax = max THEN x
        ELSE QueueFrame([x EXCEPT !.c.rmax = max], Ctl("maxd", None, max))

\* ngx_quic_update_flow: data up to last was taken, the client may send more
UpdateFlow(x, s, last) ==
    LET t == x.st[s]
        len == last - t.roff
        y == [x EXCEPT !.st[s].roff = last]
        y1 == IF t.rmax <= last + conf.rwin \div 2 THEN UpdateMaxStreamData(y, s) ELSE y
        z == [y1 EXCEPT !.c.roff = @ + len]
    IN  IF len <= 0 THEN x
        ELSE IF z.c.rmax <= z.c.roff + conf.crwin \div 2 THEN UpdateMaxData(z) ELSE z

\* ngx_quic_control_flow: the client has used its windows up to last
ControlFlow(x, s, last) ==
    LET t == x.st[s]
        y == [x EXCEPT !.st[s].rlast = last]
        z == [y EXCEPT !.c.rlast = @ + last - t.rlast]
    IN  IF last <= t.rlast THEN x
        ELSE IF t.rs = "recv" /\ last > t.rmax THEN Failed(y)
        ELSE IF z.c.rlast > z.c.rmax THEN Failed(z) ELSE z

\* ngx_quic_get_stream: a new stream opens all before it; there may be no
\* connections for those in no, which are rejected
GetStream(x, s, no) ==
    LET Reject(y, r) == QueueFrame(QueueFrame(y, Ctl("reset", r, 0)), Ctl("stop", r, 0))
        Create(y, r) == IF r \in no THEN Reject([y EXCEPT !.st[r].st = "gone"], r)
                        ELSE [y EXCEPT !.st[r] = NewStream(r)]
    IN  IF Open(x, s) \/ x.c.shut \/ x.c.closing \/ s <= x.c.ns THEN x
        ELSE IF s > x.c.ms THEN Failed(x)
        ELSE FoldLeft(Create, [x EXCEPT !.c.ns = s], SetToSortSeq(x.c.ns + 1 .. s, <))

\* a frame for a stream that is gone is ignored
OnStream(x, s, no, Then(_)) ==
    LET Found(y) == IF y.rc = "ok" /\ Open(y, s) THEN Then(y) ELSE y
    IN  Found(GetStream(x, s, no))

HandleStreamFrame(x, s, off, len, fin) ==
    LET t == x.st[s]
        last == off + len
        Whole(y) == [y EXCEPT !.st[s].rs = IF @ = "sizeknown"
                                             /\ Cardinality(y.st[s].have) = y.st[s].rfsz
                                           THEN "datarecvd" ELSE @]
        Store(y) == Whole([y EXCEPT !.st[s].rfsz = IF fin THEN last ELSE @,
                                    !.st[s].rs = IF fin THEN "sizeknown" ELSE @,
                                    !.st[s].have = @ \cup (off .. last - 1)])
        Tell(y) == IF ~t.conn THEN CloseStream(y, s)
                   ELSE IF off <= t.roff THEN SetEvent(y, s, "read") ELSE y
    IN  IF t.rfsz # Unset /\ (t.rfsz < last \/ (t.rfsz > last /\ fin)) THEN Failed(x)
        ELSE IF t.rlast > last /\ fin THEN Failed(x)
        ELSE IF t.rs \notin {"recv", "sizeknown"} THEN x
        ELSE Bind(ControlFlow(x, s, last),
                  LAMBDA y : IF last < t.roff THEN y ELSE Tell(Store(y)))

HandleResetStream(x, s, size) ==
    LET t == x.st[s]
        Ended(y) == [y EXCEPT !.st[s].rfsz = size, !.st[s].rs = "resetrecvd"]
        Tell(y) == IF ~t.conn THEN CloseStream(y, s)
                   ELSE SetEvent([y EXCEPT !.st[s].rerr = TRUE], s, "read")
    IN  IF (t.rfsz # Unset /\ t.rfsz # size) \/ t.rlast > size THEN Failed(x)
        ELSE IF t.rs \in {"resetrecvd", "resetread"} THEN x
        ELSE Bind(ControlFlow(x, s, size), LAMBDA y : Tell(UpdateFlow(Ended(y), s, size)))

HandleStopSending(x, s) ==
    LET y == ResetStream(x, s)
    IN  IF x.st[s].conn THEN SetEvent(y, s, "write") ELSE CloseStream(y, s)

\* a bug: the streams are not flushed
MaxDataNoFlush(x, max) == IF max <= x.c.smax THEN x ELSE [x EXCEPT !.c.smax = max]

HandleMaxData(x, max) ==
    LET y == [x EXCEPT !.c.smax = max]
        Flush(z, s) == IF Open(z, s) /\ z.c.soff < z.c.smax THEN StreamFlush(z, s) ELSE z
    IN  IF max <= x.c.smax THEN x
        ELSE IF x.c.soff < x.c.smax THEN y
        ELSE FoldLeft(Flush, y, [s \in Sids |-> s])

HandleMaxStreamData(x, s, max) ==
    LET t == x.st[s]
        y == [x EXCEPT !.st[s].smax = max]
    IN  IF max <= t.smax THEN x
        ELSE IF t.soff < t.smax THEN y ELSE StreamFlush(y, s)

\* ngx_quic_stream_recv: the units in order that were not read, at most n;
\* [x, r]: "error", "eof", "again" or "data"
StreamRecv(x, s, n) ==
    LET t == x.st[s]
        len == Max({k \in 0 .. n : t.roff .. t.roff + k - 1 \subseteq t.have})
        eof == t.rs = "dataread" \/ (t.rs = "datarecvd" /\ t.roff = t.rfsz)
    IN  IF t.rs \in {"resetrecvd", "resetread"}
        THEN [x |-> [x EXCEPT !.st[s].rs = "resetread"], r |-> "error"]
        ELSE IF len > 0 THEN [x |-> UpdateFlow(x, s, t.roff + len), r |-> "data"]
        ELSE IF eof THEN [x |-> [x EXCEPT !.st[s].rs = "dataread"], r |-> "eof"]
        ELSE [x |-> x, r |-> "again"]

-----------------------------------------------------------------------------
(* The end of the connection, ngx_quic_close_connection.  The streams are   *)
(* told; one whose application cannot end at once keeps the connection.     *)
CloseConnection(x, how) ==
    LET y == IF x.c.closing THEN x
             ELSE [x EXCEPT !.frames = <<>>, !.sent = <<>>, !.c.closing = TRUE,
                            !.c.why = how, !.c.ctimer = how = "ok"]
        z == [y EXCEPT !.c.ctimer = @ /\ how # "error", !.rc = "ok", !.net = {}]
        Reset(v, s) == [v EXCEPT !.st[s].rs = "resetrecvd", !.st[s].ss = "resetsent",
                                 !.st[s].rerr = v.st[s].conn, !.st[s].werr = v.st[s].conn]
        Told(v, s) == IF ~Open(v, s) THEN v
                      ELSE IF ~v.st[s].conn THEN CloseStream(Reset(v, s), s)
                      ELSE IF Ask(s).slow /\ v.st[s].app # "init" THEN Reset(v, s)
                      ELSE Cleanup(Reset(v, s), s)
        Rest(v) == IF \E s \in Sids : Open(v, s) THEN v
                   ELSE [v EXCEPT !.c.push = FALSE, !.c.ptimer = FALSE, !.c.pto = "none",
                                  !.c.cpost = @ /\ v.c.ctimer, !.c.dead = ~v.c.ctimer]
    IN  Rest(FoldLeft(Told, z, [s \in Sids |-> s]))

\* a packet of the client was handled: it is to be acknowledged, or ends all
HandleFrames(x) ==
    IF x.rc = "error" THEN CloseConnection(x, "error")
    ELSE [x EXCEPT !.c.sack = Min({@ + 1, MaxAckGap}), !.c.push = TRUE]

-----------------------------------------------------------------------------
(* The application: it reads the body if it does, answers and ends.         *)

\* writes what it can, and ends when all is written
Answer(x, s) ==
    LET Wrote(y) == IF y.st[s].todo = 0 \/ y.st[s].werr THEN Cleanup(y, s) ELSE y
    IN  Wrote(IF x.st[s].wready /\ x.st[s].todo > 0 THEN SendChain(x, s, x.st[s].todo) ELSE x)

\* reads until there is no more for now
ReadBody(x, s) ==
    LET Ended(r) == IF r.r = "error" THEN Cleanup(ResetStream(r.x, s), s)
                    ELSE IF r.r = "eof" THEN Answer([r.x EXCEPT !.st[s].app = "write"], s)
                    ELSE r.x
        More(r) == IF r.r = "data" THEN StreamRecv(r.x, s, Ask(s).body) ELSE r
    IN  Ended(More(StreamRecv(x, s, Ask(s).body + 1)))

\* an event of stream s: its first one (ngx_quic_init_stream_handler), or of
\* its halves; an application that is not interested in it ignores it
StreamEvent(x, s, e) ==
    LET y == [x EXCEPT !.st[s].post = @ \ {e}]
        app == x.st[s].app
        start == [y EXCEPT !.st[s].app = IF Ask(s).read THEN "read" ELSE "write"]
    IN  IF e = "init" THEN IF Ask(s).read THEN ReadBody(start, s) ELSE Answer(start, s)
        ELSE IF e = "read" /\ app = "read" THEN ReadBody(y, s)
        ELSE IF e = "read" /\ x.st[s].rerr THEN Cleanup(ResetStream(y, s), s)
        ELSE IF e = "write" /\ app = "write" THEN Answer(y, s)
        ELSE y

-----------------------------------------------------------------------------
(* The event loop.                                                          *)

Spend(what) == bud[what] > 0 /\ bud' = [bud EXCEPT ![what] = @ - 1]
Alive == ~w.c.dead /\ UNCHANGED conf
Server(x) == w' = x /\ UNCHANGED cl

\* how many datagrams the socket takes: all, but for a budget of failures
Taken(n) == \/ n = MaxPackets /\ UNCHANGED bud
            \/ n \in 0 .. 1 /\ Spend("again")

PushHandler ==
    /\ Alive /\ w.c.push
    /\ \E n \in 0 .. MaxPackets :
         Taken(n) /\ Server(Output([w EXCEPT !.c.push = FALSE], FALSE, n))

PushTimer ==
    /\ Alive /\ w.c.ptimer
    /\ \E n \in 0 .. MaxPackets :
         Taken(n) /\ Server(Output([w EXCEPT !.c.ptimer = FALSE], TRUE, n))

\* ngx_quic_lost_handler: at least the oldest packet is too old
LostTimer ==
    /\ Alive /\ w.c.pto = "lost" /\ UNCHANGED bud
    /\ \E old \in 1 .. Max({1, Cardinality(PnsOf(w.sent))}) :
         Server(DetectLost([w EXCEPT !.c.pto = "none"], old))

\* nothing is under way any more, or the answer takes its time
PtoTimer ==
    /\ Alive /\ w.c.pto = "pto"
    /\ IF w.net = {} /\ ~cl.due THEN UNCHANGED bud ELSE Spend("spurious")
    /\ Server(PtoHandler([w EXCEPT !.c.pto = "none"], TRUE))

\* the socket takes no probe either
PtoAgain ==
    /\ Alive /\ w.c.pto = "pto" /\ w.net = {} /\ ~cl.due /\ Spend("again")
    /\ Server(PtoHandler([w EXCEPT !.c.pto = "none"], FALSE))

CloseHandler ==
    /\ Alive /\ w.c.cpost /\ UNCHANGED bud
    /\ Server(CloseConnection([w EXCEPT !.c.cpost = FALSE], "ok"))

CloseTimer ==
    /\ Alive /\ w.c.ctimer /\ UNCHANGED bud
    /\ Server(CloseConnection([w EXCEPT !.c.ctimer = FALSE], "ok"))

RunStream(s) ==
    /\ Alive /\ Open(w, s) /\ UNCHANGED bud
    /\ ~(w.c.closing /\ Ask(s).slow)
    /\ \E e \in w.st[s].post : Server(StreamEvent(w, s, e))

\* the application fails, or could not end at once when it was told
GiveUp(s) ==
    /\ Alive /\ Open(w, s) /\ w.st[s].app \in {"read", "write"}
    /\ IF w.c.closing THEN UNCHANGED bud ELSE Spend("giveup")
    /\ Server(Cleanup(ResetStream(w, s), s))

\* ngx_quic_input_handler, c->close: the worker process exits
WorkerExits ==
    /\ Alive /\ ~w.c.closing /\ Spend("exit")
    /\ Server([w EXCEPT !.c.shut = TRUE,
                        !.c.cpost = @ \/ \A s \in Sids : ~Open(w, s)])

IdleTimeout ==
    /\ Alive /\ Spend("idle") /\ Server(CloseConnection(w, "done"))

-----------------------------------------------------------------------------
(* The network and the client.                                              *)

Learn(k, f) ==
    CASE f.t = "stream" -> [k EXCEPT !.st[f.s].got = @ \cup (f.val .. f.val + f.len - 1),
                                     !.st[f.s].fin = @ \/ f.fin]
      [] f.t = "reset" -> [k EXCEPT !.st[f.s].rst = TRUE]
      [] f.t = "stop" -> [k EXCEPT !.st[f.s].stop = TRUE]
      [] f.t = "maxd" -> [k EXCEPT !.max = Max({@, f.val})]
      [] f.t = "maxsd" -> [k EXCEPT !.st[f.s].max = Max({@, f.val})]
      [] f.t = "maxs" -> [k EXCEPT !.ms = Max({@, f.val})]
      [] OTHER -> k

Deliver(p) ==
    /\ Alive /\ p \in w.net /\ UNCHANGED bud
    /\ w' = [w EXCEPT !.net = @ \ {p}]
    /\ cl' = [FoldLeft(Learn, cl, p) EXCEPT !.pns = @ \cup {p[1].pn}, !.due = TRUE]

Lose(p) ==
    /\ Alive /\ p \in w.net /\ Spend("loss") /\ Server([w EXCEPT !.net = @ \ {p}])

LoseAck ==
    /\ Alive /\ cl.due /\ Spend("loss") /\ cl' = [cl EXCEPT !.due = FALSE] /\ UNCHANGED w

\* an ACK frame comes, for some of the packets: the others follow
AckArrives(acked) ==
    /\ Alive /\ cl.due /\ ~w.c.closing /\ UNCHANGED bud
    /\ w' = HandleAckFrame(w, acked)
    /\ cl' = [cl EXCEPT !.pns = @ \ acked, !.due = cl.pns # acked]

\* how far the client has used its windows
High(s) == Max({0} \cup {u + 1 : u \in cl.st[s].out})
MaySend(s, last) ==
    /\ May(s) /\ last <= cl.st[s].max
    /\ Max({High(s), last}) + MapThenSumSet(High, Sids \ {s}) <= cl.max

Client(x, k) == w' = HandleFrames(x) /\ cl' = k

\* a unit of the body, the last one with the end of the stream; no: there are
\* no connections for these streams
Unit(s, u, no) ==
    LET len == IF Ask(s).body = 0 THEN 0 ELSE 1
        fin == u + len = Ask(s).body
    IN  Client(OnStream(w, s, no, LAMBDA y : HandleStreamFrame(y, s, u, len, fin)),
               [cl EXCEPT !.st[s].out = IF len = 0 THEN @ ELSE @ \cup {u},
                          !.st[s].end = IF fin /\ @ = "no" THEN "fin" ELSE @])

Sendable(s, u) == Alive /\ ~w.c.closing /\ MaySend(s, Min({u + 1, Ask(s).body}))

ClientStream(s, u) ==
    LET again == IF Ask(s).body = 0 THEN cl.st[s].end # "no" ELSE u \in cl.st[s].out
    IN  /\ Sendable(s, u) /\ Unit(s, u, {})
        /\ IF again THEN Spend("dup") ELSE cl.st[s].end # "rst" /\ UNCHANGED bud

ClientRejected(s, u) ==
    /\ Sendable(s, u) /\ s > w.c.ns /\ Spend("reject") /\ Unit(s, u, {s})

\* the client gives up a stream, or is told to; some of what it sent may be
\* under way or lost, but for its size
ClientReset(s) ==
    /\ Alive /\ ~w.c.closing /\ May(s)
    /\ cl.st[s].end = "no" \/ (cl.st[s].end = "fin" /\ cl.st[s].out # 0 .. Ask(s).body - 1)
    /\ IF cl.st[s].stop THEN UNCHANGED bud ELSE Spend("reset")
    /\ \E size \in High(s) .. Ask(s).body :
         /\ MaySend(s, size)
         /\ Client(OnStream(w, s, {}, LAMBDA y : HandleResetStream(y, s, size)),
                   [cl EXCEPT !.st[s].end = "rst", !.st[s].out = 0 .. size - 1])

ClientStop(s) ==
    /\ Alive /\ ~w.c.closing /\ May(s) /\ Spend("stop")
    /\ Client(OnStream(w, s, {}, LAMBDA y : HandleStopSending(y, s)), cl)

\* a window is opened at any time, or by a lazy client when it is used up
ClientMaxData ==
    /\ conf.lazy => cl.grant = MapThenSumSet(LAMBDA s : Cardinality(cl.st[s].got), Sids)
    /\ Alive /\ ~w.c.closing /\ cl.grant < conf.most /\ UNCHANGED bud
    /\ Client(HandleMaxData(w, cl.grant + 1), [cl EXCEPT !.grant = @ + 1])

ClientMaxStreamData(s) ==
    /\ Alive /\ ~w.c.closing /\ May(s) /\ UNCHANGED bud
    /\ \E max \in cl.st[s].grant + 1 .. conf.smost :
         Client(OnStream(w, s, {}, LAMBDA y : HandleMaxStreamData(y, s, max)),
                [cl EXCEPT !.st[s].grant = max])

\* DATA_BLOCKED and STREAM_DATA_BLOCKED: a window is opened at once
ClientBlocked ==
    /\ Alive /\ ~w.c.closing /\ Spend("blocked") /\ Client(UpdateMaxData(w), cl)

ClientStreamBlocked(s) ==
    /\ Alive /\ ~w.c.closing /\ May(s) /\ Spend("blocked")
    /\ Client(OnStream(w, s, {}, LAMBDA y : UpdateMaxStreamData(y, s)), cl)

\* CONNECTION_CLOSE
ClientClose ==
    /\ Alive /\ ~w.c.closing /\ Spend("close")
    /\ Server([w EXCEPT !.c.cpost = TRUE])

\* more than the server allows
ClientBad(s) ==
    /\ Alive /\ ~w.c.closing /\ Open(w, s) /\ w.st[s].rs = "recv" /\ Spend("bad")
    /\ Client(HandleStreamFrame(w, s, w.st[s].rmax, 1, FALSE), cl)

-----------------------------------------------------------------------------
Serve ==
    \/ PushHandler \/ PushTimer \/ LostTimer \/ PtoTimer \/ PtoAgain
    \/ CloseHandler \/ CloseTimer \/ WorkerExits \/ IdleTimeout
    \/ \E s \in Sids : RunStream(s) \/ GiveUp(s)

Network ==
    \/ \E p \in w.net : Deliver(p) \/ Lose(p)
    \/ LoseAck
    \/ \E acked \in SUBSET cl.pns \ {{}} : AckArrives(acked)

Peer ==
    \/ ClientMaxData \/ ClientBlocked \/ ClientClose
    \/ \E s \in Sids : \/ ClientReset(s) \/ ClientStop(s) \/ ClientMaxStreamData(s)
                       \/ ClientStreamBlocked(s) \/ ClientBad(s)
    \/ \E s \in Sids : \E u \in 0 .. Max({0, Ask(s).body - 1}) :
         ClientStream(s, u) \/ ClientRejected(s, u)

Next == Serve \/ Network \/ Peer

Spec == Init /\ [][Next]_vars

(***************************************************************************)
(* Posted events run and timers fire; the network delivers what it does    *)
(* not lose; the client acknowledges, sends its bodies and opens windows;  *)
(* applications told to end do.  Losses, failures of the socket and what   *)
(* else a budget allows need not happen.  So steps that spend no budget    *)
(* are taken while there are any: this is WF_vars(Next /\ bud' = bud), for *)
(* no such step changes nothing.                                           *)
(***************************************************************************)
Busy ==
    /\ ~w.c.dead
    /\ \/ w.c.push \/ w.c.ptimer \/ w.c.cpost \/ w.c.ctimer \/ w.c.pto = "lost" \/ w.net # {}
       \/ w.c.pto = "pto" /\ ~cl.due
       \/ cl.due /\ cl.pns # {} /\ ~w.c.closing
       \/ \E s \in Sids :
            /\ Open(w, s)
            /\ IF w.c.closing THEN w.st[s].app \in {"read", "write"} ELSE w.st[s].post # {}
       \/ ENABLED (bud' = bud /\ Peer)

FairSpec == Spec /\ ([]<>~Busy \/ []<><<bud' = bud>>_vars)

-----------------------------------------------------------------------------
Queues == w.frames \o w.sent
Carries(s, u, q) == {i \in DOMAIN q : /\ q[i].t = "stream" /\ q[i].s = s
                                      /\ u \in q[i].val .. q[i].val + q[i].len - 1}
Kind(t, s) == {i \in DOMAIN Queues : Queues[i].t = t /\ Queues[i].s = s}
Fins(s) == {i \in Kind("stream", s) : Queues[i].fin}

\* what was taken from a stream that is not reset is in exactly one place: in
\* a frame that waits or is in flight, or acknowledged, and then the client
\* has it; so is its end
DataKept(s) ==
    LET t == w.st[s]
    IN  t.st = "open" /\ t.ss \in {"ready", "send", "datasent", "datarecvd"} =>
          /\ \A u \in 0 .. t.soff - 1 :
               Cardinality(Carries(s, u, Queues)) = IF u \in t.units THEN 0 ELSE 1
          /\ t.acked = Cardinality(t.units) /\ t.units \subseteq cl.st[s].got
          /\ Cardinality(Fins(s)) = IF t.ss \in {"datasent", "datarecvd"} /\ ~t.finAcked
                                    THEN 1 ELSE 0
          /\ t.ss = "datarecvd" => cl.st[s].got = 0 .. t.sent - 1 /\ cl.st[s].fin

\* a reset is under way until the client knows it
ResetKept(s) ==
    w.st[s].st = "open" =>
      /\ w.st[s].ss = "resetsent" => Cardinality(Kind("reset", s)) = 1
      /\ w.st[s].ss = "resetrecvd" => cl.st[s].rst

\* a stream that is forgotten has been received, whole or reset
GoneInPeace(s) ==
    w.st[s].st = "gone" => \/ cl.st[s].fin /\ cl.st[s].got = 0 .. Ask(s).size - 1
                           \/ cl.st[s].rst \/ Kind("reset", s) # {}

\* packets in flight are counted, in the order they were sent
FlightExact ==
    /\ w.c.infl = FoldLeft(LAMBDA n, f : n + f.pl, 0, w.sent)
    /\ w.c.infl = Cardinality(PnsOf(w.sent))
    /\ \A i, j \in DOMAIN w.sent : i < j => w.sent[i].pn <= w.sent[j].pn

\* under losses, reordering and late or missing acknowledgments, nothing that
\* was sent is lost, sent twice over, or taken for received when it was not
NothingLost ==
    w.c.closing \/ (FlightExact /\ \A s \in Sids : DataKept(s) /\ ResetKept(s) /\ GoneInPeace(s))

Told(known, t, s, val) ==
    known = val \/ (known < val /\ \E i \in Kind(t, s) : Queues[i].val = val)

\* the client knows the limits it has, or a frame with the last one is under
\* way; what it used and what was read are counted, in each stream and in all
WindowsKept ==
    /\ Told(cl.max, "maxd", None, w.c.rmax) /\ Told(cl.ms, "maxs", None, w.c.ms)
    /\ \A s \in Sids : w.st[s].st = "open" /\ w.st[s].rs = "recv" =>
                         Told(cl.st[s].max, "maxsd", s, w.st[s].rmax)
    /\ LET Unread(s) == w.st[s].rlast - w.st[s].roff
       IN  w.c.rlast - w.c.roff =
             w.c.leak + MapThenSumSet(Unread, {s \in Sids : Open(w, s)})
    /\ w.c.soff <= Max({w.c.smax, 0}) /\ w.c.smax <= cl.grant
    /\ \A s \in Sids : Open(w, s) => w.st[s].soff <= w.st[s].smax

\* a client that keeps to what it was told is never refused, and what it may
\* send it is told in the end
LimitsKept ==
    /\ w.c.why = "error" => bud.bad < conf.bud.bad
    /\ w.c.closing \/ WindowsKept

\* nobody waits for what will not happen: a packet in flight has a timer, that
\* of a loss if one after it was acknowledged; frames are sent when there is
\* room, data when a window is open; a writer waits for an acknowledgment
NoStall ==
    w.c.closing \/
      /\ w.sent # <<>> => w.c.pto # "none"
      /\ w.sent # <<>> /\ w.sent[1].pn <= w.c.lack => w.c.pto = "lost"
      /\ w.frames # <<>> /\ w.c.infl < w.c.win => w.c.push \/ w.c.ptimer
      /\ w.c.sack > 0 => w.c.push \/ w.c.ptimer
      /\ \A s \in Sids : Open(w, s) =>
           LET t == w.st[s]
           IN  /\ t.ss = "send" /\ t.soff < t.sent =>
                    t.soff = t.smax \/ w.c.soff = w.c.smax
               /\ t.app = "write" /\ t.ss = "send" /\ "write" \notin t.post =>
                    t.sent - t.acked = SendBuffer


\* flow control in both directions neither refuses what it allowed nor leaves
\* anyone waiting for nothing
FlowExact == LimitsKept /\ NoStall

\* every stream ends, and so does a connection that began to close: whatever
\* is lost, an answer arrives or the client is told that it does not
Completes == <>[](/\ \A s \in Sids : w.st[s].st # "open"
                  /\ w.c.closing => w.c.dead)
=============================================================================
