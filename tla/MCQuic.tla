------------------------------- MODULE MCQuic -------------------------------
(***************************************************************************)
(* A QUIC connection with its streams, the ranges of packets it            *)
(* acknowledges and the reassembly of a stream.  The three run by          *)
(* themselves: a behaviour is one of a part, and the others rest.          *)
(***************************************************************************)
EXTENDS QuicStreams

CONSTANTS Pns, NeedAck, MaxCame, MaxRanges, MaxFrames, Units, BufferSize, Writes

VARIABLES ctx, posted, timer, sent, frames, came, untold, kept
VARIABLES qb, ids, stored, got, left
VARIABLE part

ackVars == <<ctx, posted, timer, sent, frames, came, untold, kept>>
bufferVars == <<qb, ids, stored, got, left>>

Acks == INSTANCE QuicAck WITH MaxPackets <- MaxCame
Buffer == INSTANCE QuicBuffer

ASSUME PartsAssumption == Acks!QuicAckAssumption /\ Buffer!QuicBufferAssumption

Plain == [body |-> 0, read |-> TRUE, size |-> 3, slow |-> FALSE]
NoBud == [again |-> 0, spurious |-> 0, giveup |-> 0, exit |-> 0, idle |-> 0, loss |-> 0,
         dup |-> 0, reject |-> 0, reset |-> 0, stop |-> 0, blocked |-> 0, close |-> 0, bad |-> 0]
Base == [ask |-> <<Plain, Plain>>, bud |-> NoBud, use |-> 1, win |-> 2, ms |-> 1, lazy |-> FALSE, data |-> 4, most |-> 4,
         sdata |-> 4, smost |-> 4, rwin |-> 2, crwin |-> 2]
Two == [Base EXCEPT !.use = 2, !.ms = 2, !.ask[1].size = 0, !.ask[2].size = 0]
One == [Base EXCEPT !.ask[1].size = 1]
Up == [Base EXCEPT !.ask[1].size = 0, !.ask[1].body = 2, !.rwin = 1, !.crwin = 1]
MCScenarios ==
    { \* answers, with losses
      [One EXCEPT !.win = 1, !.bud.loss = 2],
      [Base EXCEPT !.ask[1].size = 4, !.win = 3, !.bud.loss = 1],
      [Base EXCEPT !.ask[1].size = 2, !.bud.again = 1, !.bud.loss = 1],
      [Base EXCEPT !.ask[1].size = 2, !.bud.spurious = 1],
      [Base EXCEPT !.ask[1].size = 2, !.bud.giveup = 1, !.bud.loss = 1],
      \* the windows of the client
      [Base EXCEPT !.data = 1, !.most = 3, !.sdata = 2, !.smost = 3],
      [Base EXCEPT !.sdata = 0, !.smost = 3],
      [Two EXCEPT !.ask[1].size = 1, !.ask[2].size = 1, !.win = 1, !.data = 1, !.most = 2, !.lazy = TRUE],
      \* bodies, and the windows of the server
      [Up EXCEPT !.bud.loss = 1],
      [Up EXCEPT !.bud.dup = 1, !.bud.blocked = 1, !.rwin = 2, !.crwin = 2],
      [Two EXCEPT !.ask[1].body = 1, !.ask[2].body = 1, !.rwin = 1, !.crwin = 1],
      [Base EXCEPT !.use = 2, !.ask[1].size = 0, !.ask[2].size = 0, !.bud.loss = 1],
      \* streams that end early
      [One EXCEPT !.ask[1].body = 2, !.rwin = 1, !.ask[1].read = FALSE],
      [One EXCEPT !.ask[1].body = 1, !.ask[1].read = FALSE, !.bud.loss = 1],
      [Base EXCEPT !.ask[1].size = 2, !.ask[1].body = 1, !.bud.stop = 1, !.bud.reset = 1],
      [Two EXCEPT !.bud.reject = 1],
      \* the end of the connection
      [Up EXCEPT !.ask[1].slow = TRUE, !.bud.close = 1],
      [Two EXCEPT !.bud.exit = 1],
      [Two EXCEPT !.bud.idle = 1],
      [Up EXCEPT !.bud.bad = 1, !.bud.reset = 1] }

MCInit ==
    /\ part \in {"streams", "acks", "buffer"}
    /\ Init /\ Acks!AckInit /\ Buffer!BufferInit
    /\ part # "streams" => conf = CHOOSE c \in Scenarios : TRUE

MCNext ==
    /\ UNCHANGED part
    /\ \/ part = "streams" /\ Next /\ UNCHANGED <<ackVars, bufferVars>>
       \/ part = "acks" /\ Acks!AckNext /\ UNCHANGED <<vars, bufferVars>>
       \/ part = "buffer" /\ Buffer!BufferNext /\ UNCHANGED <<vars, ackVars>>

MCSpec ==
    /\ MCInit
    /\ [][MCNext]_<<vars, ackVars, bufferVars, part>>
    /\ []<>~(part = "streams" /\ Busy) \/ []<><<bud' = bud>>_vars

\* what is acknowledged is what came, and what must be is, in time; and a
\* stream's bytes arrive whatever order and overlap its frames come in
ReceiptsExact == Acks!AcksExact /\ Buffer!BufferExact

\* every stream and every closing connection ends
StreamsEnd == part = "streams" => Completes
=============================================================================
