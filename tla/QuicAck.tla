------------------------------ MODULE QuicAck ------------------------------
(***************************************************************************)
(* Which packets of the client a server acknowledges: the ranges of packet *)
(* numbers of one packet number space, when an ACK frame is made, and what *)
(* is forgotten once the client has acknowledged such a frame.  Packets    *)
(* come in any order and more than once; those that carry only ACK frames  *)
(* need no acknowledgment themselves.                                      *)
(***************************************************************************)
EXTENDS Integers, Sequences, FiniteSets, FiniteSetsExt, SequencesExt

CONSTANTS
    Pns,            \* bound: packet numbers of the client
    NeedAck,        \* those of packets with other frames than ACK
    MaxPackets,     \* bound: packets that come
    MaxRanges,      \* QUIC_MAX_RANGES
    MaxAckGap,      \* QUIC_MAX_ACK_GAP
    MaxFrames       \* bound: ACK frames made

Unset == -1         \* QUIC_UNSET_PN

QuicAckAssumption == {MaxRanges, MaxAckGap} \subseteq Nat \ {0} /\ Pns \subseteq Nat /\ NeedAck \subseteq Pns

VARIABLES
    ctx,            \* largest_range, first_range, ranges, send_ack, pending_ack
    posted, timer,  \* qc->push is posted; its timer is set
    sent,           \* the largest number of each ACK frame in a packet in flight
    frames,         \* ACK frames made so far
    came,           \* packets that came so far
    untold,         \* packets that came, need an ACK and had none
    kept            \* the packets a set of ranges of this size would hold

ackVars == <<ctx, posted, timer, sent, frames, came, untold, kept>>

AckInit ==
    /\ ctx = [largest |-> Unset, first |-> 0, ranges |-> <<>>, ack |-> 0, pending |-> Unset]
    /\ posted = FALSE /\ timer = FALSE /\ sent = {} /\ frames = 0
    /\ came = 0 /\ untold = {} /\ kept = {}

-----------------------------------------------------------------------------
\* the first and the last packet of range i; range 0 is the first range
RECURSIVE Bounds(_, _)
Bounds(c, i) ==
    IF i = 0 THEN [lo |-> c.largest - c.first, hi |-> c.largest]
    ELSE LET hi == Bounds(c, i - 1).lo - c.ranges[i].gap - 2
         IN  [lo |-> hi - c.ranges[i].range, hi |-> hi]

Named(c) == IF c.largest = Unset THEN {}
            ELSE UNION {Bounds(c, i).lo .. Bounds(c, i).hi : i \in 0 .. Len(c.ranges)}

\* range i grows by k
Grow(c, i, k) == IF i = 0 THEN [c EXCEPT !.first = @ + k]
                 ELSE [c EXCEPT !.ranges[i].range = @ + k]

\* insert: a range at place i, the last one falls out when there are too many
Insert(c, i, gap, range) ==
    LET all == InsertAt(c.ranges, i, [gap |-> gap, range |-> range])
    IN  [c EXCEPT !.ranges = SubSeq(all, 1, Min({Len(all), MaxRanges}))]

\* a bug: a packet there is no place for is not acknowledged by itself, the
\* gap a packet closes is merged as if it were not there
PlacedUntold(c, pn, need, prev) ==
    LET n == Len(c.ranges)
    IN  [c |-> IF c.largest = Unset THEN [c EXCEPT !.largest = pn]
               ELSE IF pn = c.largest + 1 THEN [c EXCEPT !.first = @ + 1, !.largest = pn]
               ELSE IF pn > c.largest
               THEN Insert([c EXCEPT !.first = 0, !.largest = pn], 1, pn - c.largest - 2, c.first)
               ELSE IF pn \in Named(c) \/ n = MaxRanges \/ pn > Bounds(c, n).lo THEN c
               ELSE IF pn = Bounds(c, n).lo - 1 THEN Grow(c, n, 1)
               ELSE Insert(c, n + 1, Bounds(c, n).lo - 2 - pn, 0),
         flush |-> FALSE, one |-> FALSE]

\* what a new packet makes of the ranges, with the ranges that must be sent
\* first as there is no place; one: the packet is acknowledged by itself
Placed(c, pn, need, prev) ==
    LET ooo == [c EXCEPT !.ack = IF need THEN MaxAckGap ELSE @]
        full == Len(c.ranges) = MaxRanges
        Flushed(y) == IF full /\ (prev = c.pending \/ ~need)
                      THEN [y EXCEPT !.pending = Unset] ELSE y
        Plain(y) == [c |-> y, flush |-> FALSE, one |-> FALSE]
        Forced(y) == [c |-> Flushed(y), flush |-> full /\ prev # Unset, one |-> FALSE]
        within == {i \in 1 .. Len(c.ranges) :
                     pn \in Bounds(c, i).hi + 1 .. Bounds(c, i - 1).lo - 1}
        i == CHOOSE i \in within : TRUE
        gs == Bounds(c, i).hi + 1
        ge == Bounds(c, i - 1).lo - 1
        n == Len(c.ranges)
        low == Bounds(c, n).lo
    IN  IF c.largest = Unset THEN Plain([c EXCEPT !.largest = pn])
        ELSE IF pn = c.largest THEN Plain(c)
        ELSE IF pn = c.largest + 1 THEN Plain([c EXCEPT !.first = @ + 1, !.largest = pn])
        ELSE IF pn > c.largest
        THEN Forced(Insert([ooo EXCEPT !.first = 0, !.largest = pn],
                           1, pn - c.largest - 2, c.first))
        ELSE IF pn \in Named(c) THEN Plain(ooo)
        ELSE IF within # {} /\ gs = ge
        THEN Plain([Grow(ooo, i - 1, c.ranges[i].range + 2) EXCEPT !.ranges = RemoveAt(@, i)])
        ELSE IF within # {} /\ pn = gs
        THEN Plain([Grow(ooo, i, 1) EXCEPT !.ranges[i].gap = @ - 1])
        ELSE IF within # {} /\ pn = ge
        THEN Plain([Grow(ooo, i - 1, 1) EXCEPT !.ranges[i].gap = @ - 1])
        ELSE IF within # {}
        THEN Forced(Insert([ooo EXCEPT !.ranges[i].gap = pn - gs - 1], i, ge - pn - 1, 0))
        ELSE IF pn = low - 1 THEN Plain(Grow(ooo, n, 1))
        ELSE IF full THEN [c |-> ooo, flush |-> FALSE, one |-> need]
        ELSE Plain(Insert(ooo, n + 1, low - 2 - pn, 0))

\* a bug: a range that is left whole is cut by one
DropOneMore(c, pn) ==
    LET hit == {i \in 0 .. Len(c.ranges) : pn >= Bounds(c, i).lo}
        i == Min(hit)
    IN  IF c.largest = Unset \/ hit = {} THEN c
        ELSE IF i = 0 THEN [c EXCEPT !.first = Max({0, c.largest - pn - 1}), !.ranges = <<>>]
        ELSE [c EXCEPT !.ranges = SubSeq(@, 1, i - 1)]

\* ngx_quic_drop_ack_ranges: the client knows of the packets up to pn
DropAckRanges(c, pn) ==
    LET d == [c EXCEPT !.pending = IF @ # Unset /\ pn >= @ THEN Unset ELSE @]
        hit == {i \in 0 .. Len(c.ranges) : pn >= Bounds(c, i).lo}
        i == Min(hit)
        b == Bounds(c, i)
        Cut(y) == IF i = 0 THEN [y EXCEPT !.first = c.largest - pn - 1]
                  ELSE [y EXCEPT !.ranges[i].range = b.hi - pn - 1]
    IN  IF c.largest = Unset THEN c
        ELSE IF hit = {} THEN d
        ELSE IF pn < b.hi THEN [Cut(d) EXCEPT !.ranges = SubSeq(@, 1, i)]
        ELSE IF i = 0 THEN [d EXCEPT !.largest = Unset, !.first = 0, !.ranges = <<>>]
        ELSE [d EXCEPT !.ranges = SubSeq(@, 1, i - 1)]

\* the stretches of consecutive numbers of a set, by their first one
Runs(S) == {p \in S : p - 1 \notin S}

\* what remains when there is place for so many ranges and no more
Fitting(S) == IF Cardinality(Runs(S)) <= MaxRanges + 1 THEN S
              ELSE {p \in S : \E q \in Runs(S) : q > Min(S) /\ p >= q}

-----------------------------------------------------------------------------
(* ngx_quic_handle_frames: the frames of a packet are handled, an ACK frame *)
(* may acknowledge packets that carried our ACK frames; then it is noted.   *)
HandleFrames(pn, acked) ==
    LET need == pn \in NeedAck
        c0 == FoldLeft(DropAckRanges, ctx, SetToSortSeq(acked, <))
        c1 == [c0 EXCEPT !.ack = IF need /\ @ < MaxAckGap THEN @ + 1 ELSE @,
                         !.pending = IF need /\ @ < pn THEN pn ELSE @]
        r == Placed(c1, pn, need, c0.pending)
        made == (IF r.flush THEN Named(c1) ELSE {}) \cup (IF r.one THEN {pn} ELSE {})
        waits == untold \cap Named(c0)
    IN  /\ came < MaxPackets /\ came' = came + 1
        /\ ctx' = r.c
        /\ posted' = (posted \/ need)
        /\ frames' = frames + (IF made = {} THEN 0 ELSE 1)
        /\ sent' = (sent \ acked) \cup (IF made = {} THEN {} ELSE {Max(made)})
        /\ untold' = (waits \cup ({pn} \cap NeedAck)) \ made
        /\ kept' = Fitting({p \in kept : \A a \in acked : p > a} \cup {pn})
        /\ frames' <= MaxFrames
        /\ UNCHANGED timer

(* ngx_quic_generate_ack, on a push: by its timer the delay has passed.     *)
(* more is whether there are other frames to be sent.                       *)
GenerateAck(late, more) ==
    /\ IF late THEN timer ELSE posted
    /\ posted' = (posted /\ late)
    /\ IF ctx.ack = 0 \/ (ctx.ack < MaxAckGap /\ ~late /\ ~more)
       THEN /\ timer' = (ctx.ack > 0 \/ (timer /\ ~late))
            /\ UNCHANGED <<ctx, sent, frames, untold>>
       ELSE /\ frames < MaxFrames
            /\ ctx' = [ctx EXCEPT !.ack = 0]
            /\ sent' = sent \cup {ctx.largest}
            /\ frames' = frames + 1
            /\ untold' = untold \ Named(ctx)
            /\ timer' = (timer /\ ~late)
    /\ UNCHANGED <<came, kept>>

\* ngx_quic_resend_frames: a packet with an ACK frame is lost
AckLost(a) ==
    /\ a \in sent /\ sent' = sent \ {a}
    /\ ctx' = [ctx EXCEPT !.ack = MaxAckGap] /\ posted' = TRUE
    /\ UNCHANGED <<timer, frames, came, untold, kept>>

AckNext ==
    \/ \E pn \in Pns, acked \in SUBSET sent : HandleFrames(pn, acked)
    \/ \E late, more \in BOOLEAN : GenerateAck(late, more)
    \/ \E a \in sent : AckLost(a)

-----------------------------------------------------------------------------
\* the ranges name exactly the packets a set of that many ranges has place
\* for among those that came: whatever the order they came in, with numbers joined,
\* gaps split, the oldest range pushed out and a tail forgotten
RangesExact ==
    /\ Named(ctx) = kept
    /\ Len(ctx.ranges) <= MaxRanges
    /\ \A i \in DOMAIN ctx.ranges : ctx.ranges[i].gap >= 0 /\ ctx.ranges[i].range >= 0

\* an ACK frame is never made of no ranges at all
NeverUnset == (ctx.ack > 0 => ctx.largest # Unset) /\ Unset \notin sent

\* an ACK frame that is due will be sent: the push is posted or timed
AckDue == ctx.ack > 0 => posted \/ timer

\* a packet that needs an acknowledgment was acknowledged or is about to be:
\* having too many ranges does not lose one.  The exception is a packet that
\* comes out of order just before the client acknowledges an older ACK frame:
\* it is forgotten with those the frame named, and the client sends it again
NeedsAreTold == \A p \in untold : p \in kept /\ ctx.ack > 0

\* what is acknowledged is what came, and what must be is, in time
AcksExact == RangesExact /\ NeverUnset /\ AckDue /\ NeedsAreTold
=============================================================================
