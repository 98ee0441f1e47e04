------------------------------ MODULE MCHttp2 ------------------------------
(***************************************************************************)
(* Scenarios of a connection: what two or three requests are, and how much *)
(* the client may do.                                                      *)
(***************************************************************************)
EXTENDS Http2

Get == [body |-> "none", up |-> FALSE, size |-> 3, goes |-> FALSE, sync |-> TRUE,
        trailers |-> FALSE, rate |-> FALSE, deaf |-> FALSE, late |-> FALSE]
Proxied == [Get EXCEPT !.sync = FALSE, !.goes = TRUE, !.size = 2]
Deaf == [Proxied EXCEPT !.deaf = TRUE]
Limited == [Get EXCEPT !.rate = TRUE, !.size = 2, !.trailers = TRUE]
Empty == [Get EXCEPT !.size = 0]
Put == [Get EXCEPT !.sync = FALSE, !.up = TRUE, !.body = "unbuf", !.size = 1]

None == [sends |-> 2, headers |-> 2, data |-> 0, rest |-> 0, rst |-> 0, window |-> 0,
         cwindow |-> 0, settings |-> 0, ack |-> 0, ping |-> 0, priority |-> 0,
         bad |-> 0, gone |-> 0, exit |-> 0]

Scn(asks, may) == [ask |-> asks, bud |-> may]

MCScenarios ==
    { \* the windows of two answers
      Scn(<<Get, Proxied, Get>>, [None EXCEPT !.window = 1, !.cwindow = 2, !.rst = 1]),
      Scn(<<Get, Get, Empty>>, [None EXCEPT !.settings = 2, !.cwindow = 1]),
      Scn(<<Limited, Get, Empty>>, [None EXCEPT !.cwindow = 2, !.priority = 1, !.sends = 3]),
      \* ends
      Scn(<<Deaf, Get, Empty>>, [None EXCEPT !.gone = 1, !.window = 1, !.ping = 1]),
      Scn(<<Proxied, Empty, Get>>, [None EXCEPT !.exit = 1, !.bad = 1, !.headers = 3, !.sends = 3]),
      \* bodies
      Scn(<<Put, Empty, Get>>, [None EXCEPT !.ack = 1, !.data = 3, !.rest = 1, !.headers = 1, !.sends = 3]),
      Scn(<<[Put EXCEPT !.late = TRUE], Empty, Get>>,
          [None EXCEPT !.ack = 1, !.data = 2, !.rest = 1, !.rst = 1, !.headers = 1, !.sends = 3]),
      Scn(<<[Put EXCEPT !.body = "buf"], Empty, Get>>,
          [None EXCEPT !.ack = 1, !.data = 3, !.rest = 1, !.headers = 1, !.sends = 3]),
      Scn(<<[Put EXCEPT !.body = "none"], Empty, Get>>,
          [None EXCEPT !.ack = 1, !.data = 2, !.rest = 1, !.exit = 1]) }
=============================================================================
