----------------------------- MODULE MCRequests -----------------------------
(* The instance of Requests for TLC: the main request has two buffers, so   *)
(* that a subrequest can come between them, the subrequests have one each.  *)
EXTENDS Requests

Chunks == [r \in Reqs |-> IF r = Main THEN 2 ELSE 1]
=============================================================================
