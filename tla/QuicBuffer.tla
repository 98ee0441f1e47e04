---------------------------- MODULE QuicBuffer -----------------------------
(***************************************************************************)
(* The reassembly buffer of QUIC (ngx_quic_buffer_t): pieces of a stream   *)
(* arrive in any order, overlap and repeat, and are read in order.  The    *)
(* chain is a sequence of links of buffers, in which a stretch that has    *)
(* not arrived is a hole (b->sync); the place of the last write is cached  *)
(* (last_chain, last_offset).  A link has an identity, as the cache is a   *)
(* pointer.  The unit at offset u of the stream is the value u, so that a  *)
(* unit at a wrong place shows.                                            *)
(***************************************************************************)
EXTENDS Integers, Sequences, FiniteSets, SequencesExt

CONSTANTS
    Units,          \* the length of the stream
    BufferSize,     \* QUIC_BUFFER_SIZE, in units
    Writes          \* bound: pieces that arrive

VARIABLES
    qb,             \* the buffer: chain, off, last, lastOff, size
    ids,            \* links allocated so far, their identities
    stored, got,    \* units that were stored; units that were read, in order
    left            \* pieces that may still arrive

bufferVars == <<qb, ids, stored, got, left>>

QuicBufferAssumption == {Units, BufferSize, Writes} \subseteq Nat \ {0}

Unwritten == -1
Hole(id) == [id |-> id, hole |-> TRUE, data |-> [i \in 1 .. BufferSize |-> Unwritten]]

BufferInit ==
    /\ qb = [chain |-> <<>>, off |-> 0, last |-> 0, lastOff |-> 0, size |-> 0]
    /\ ids = 0 /\ stored = {} /\ got = <<>> /\ left = Writes

-----------------------------------------------------------------------------
(* The walks over the chain are written on [q, n]: the buffer and the       *)
(* number of links allocated.                                               *)

\* link i is cut after k units; both parts are a hole if it was one
SplitChain(x, i, k) ==
    LET l == x.q.chain[i]
        head == [l EXCEPT !.data = SubSeq(@, 1, k)]
        tail == [l EXCEPT !.id = x.n + 1, !.data = SubSeq(@, k + 1, Len(@))]
    IN  [q |-> [x.q EXCEPT !.chain = InsertAt([@ EXCEPT ![i] = head], i + 1, tail)],
         n |-> x.n + 1]

\* the cached link, 0 when it is not a link of the chain
Find(q, id) ==
    LET at == {i \in DOMAIN q.chain : q.chain[i].id = id}
    IN  IF at = {} THEN 0 ELSE CHOOSE i \in at : TRUE

\* a bug: the cached place is kept
UncacheNever(q) == q

\* the cache is dropped when what it points to has been read
Uncache(q) == IF q.off >= q.lastOff THEN [q EXCEPT !.last = 0] ELSE q

\* the body of the loop of ngx_quic_write_buffer: units off .. end - 1 remain,
\* and link i, if there is one, begins at base
RECURSIVE WriteLoop(_, _, _, _, _)
WriteLoop(x, i, base, off, end) ==
    LET l == x.q.chain[i]
        n == Len(l.data)
        p == off - base
        to == IF base + n < end THEN base + n ELSE end
        filled == [l EXCEPT !.data = [k \in 1 .. n |-> IF k > p /\ k <= to - base
                                                     THEN base + k - 1 ELSE @[k]]]
        Fill(y) == [y EXCEPT !.q.chain[i] = filled, !.q.size = @ + to - off]
        Full(y) == [y EXCEPT !.q.chain[i].hole = FALSE]
    IN  IF off >= end
        THEN [x EXCEPT !.q.lastOff = base,
                       !.q.last = IF i <= Len(x.q.chain) THEN l.id ELSE 0]
        ELSE IF off < base
        THEN WriteLoop(x, i, base, IF base < end THEN base ELSE end, end)
        ELSE IF i > Len(x.q.chain)
        THEN WriteLoop([q |-> [x.q EXCEPT !.chain = Append(@, Hole(x.n + 1))],
                        n |-> x.n + 1], i, base, off, end)
        ELSE IF base + n <= off THEN WriteLoop(x, i + 1, base + n, off, end)
        ELSE IF l.hole /\ p > 0 THEN WriteLoop(SplitChain(x, i, p), i, base, off, end)
        ELSE IF ~l.hole THEN WriteLoop(x, i, base, to, end)
        ELSE IF to = base + n THEN WriteLoop(Full(Fill(x)), i, base, to, end)
        ELSE WriteLoop(Full(SplitChain(Fill(x), i, to - base)), i, base, to, end)

\* the walk begins at the cached link when the piece begins after it
WriteBuffer(x, off, end) ==
    LET i == Find(x.q, x.q.last)
    IN  IF x.q.last # 0 /\ off >= x.q.lastOff
        THEN WriteLoop(x, i, x.q.lastOff, off, end)
        ELSE WriteLoop(x, 1, x.q.off, off, end)

\* links before the first hole leave, at most limit units of them
RECURSIVE ReadBuffer(_, _, _)
ReadBuffer(x, out, limit) ==
    LET l == x.q.chain[1]
        n == Len(l.data)
    IN  IF x.q.chain = <<>> \/ limit = 0
        THEN [x |-> [x EXCEPT !.q = Uncache(@)], out |-> out]
        ELSE IF l.hole THEN [x |-> [x EXCEPT !.q = Uncache(@)], out |-> out]
        ELSE IF n > limit THEN ReadBuffer(SplitChain(x, 1, limit), out, limit)
        ELSE ReadBuffer([x EXCEPT !.q.chain = Tail(@), !.q.off = @ + n],
                        out \o l.data, limit - n)

-----------------------------------------------------------------------------
\* a STREAM or CRYPTO frame
Piece(off, end) ==
    LET x == WriteBuffer([q |-> qb, n |-> ids], off, end)
    IN  /\ left > 0 /\ left' = left - 1
        /\ qb' = x.q /\ ids' = x.n
        /\ stored' = stored \cup {u \in off .. end - 1 : u >= qb.off}
        /\ UNCHANGED got

\* ngx_quic_stream_recv, ngx_quic_stream_flush
Read(limit) ==
    LET r == ReadBuffer([q |-> qb, n |-> ids], <<>>, limit)
    IN  /\ qb' = r.x.q /\ ids' = r.x.n /\ got' = got \o r.out
        /\ UNCHANGED <<stored, left>>

BufferNext ==
    \/ \E off \in 0 .. Units - 1, end \in 1 .. Units : off < end /\ Piece(off, end)
    \/ \E limit \in 1 .. Units : Read(limit)

-----------------------------------------------------------------------------
\* where link i begins
Begins(i) == FoldLeft(LAMBDA n, l : n + Len(l.data), qb.off, SubSeq(qb.chain, 1, i - 1))

\* every unit that was stored and not read is where it belongs, a hole is
\* where nothing was stored, and nothing else is in the buffer
UnitsInPlace ==
    /\ \A i \in DOMAIN qb.chain : \A k \in DOMAIN qb.chain[i].data :
         LET u == Begins(i) + k - 1
         IN  IF u \in stored THEN ~qb.chain[i].hole /\ qb.chain[i].data[k] = u
             ELSE qb.chain[i].hole
    /\ \A u \in stored : u < Begins(Len(qb.chain) + 1)

\* what was read is the stream in order, up to the offset
ReadInOrder == \A k \in DOMAIN got : got[k] = qb.off - Len(got) + k - 1

\* the cached link is a link of the chain and begins where the cache says, and
\* a link has one identity: a write through it goes into this stream
CacheFresh ==
    /\ qb.last # 0 => \E i \in DOMAIN qb.chain :
                        qb.chain[i].id = qb.last /\ Begins(i) = qb.lastOff
    /\ \A i, j \in DOMAIN qb.chain : qb.chain[i].id = qb.chain[j].id => i = j

\* the size counts every unit once, however often it came: a stream is whole
\* when it reaches the final size (ngx_quic_handle_stream_frame)
SizeExact == qb.size = Cardinality(stored)

\* pieces in any order, overlapping and repeated, read in parts, give the
\* stream exactly; the cached place is never that of a freed link
BufferExact == UnitsInPlace /\ ReadInOrder /\ CacheFresh /\ SizeExact
=============================================================================
