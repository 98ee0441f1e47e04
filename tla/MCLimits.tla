------------------------------ MODULE MCLimits ------------------------------
(***************************************************************************)
(* What workers share in zones for requests, for TLC: limits of            *)
(* connections, limits of rates, and the servers of an upstream.  The      *)
(* three run by themselves: a behaviour is one of a part, and the others   *)
(* rest.                                                                   *)
(***************************************************************************)
EXTENDS LimitReq, TLC

CONSTANTS r1, r2, r3, k1, k2, n1, n2, a1, a2, a3
CONSTANTS Requests, N, Limit, MaxLost, Seekers, Addrs, Memory
VARIABLES key, conn, pc, at, held, counted, lost
VARIABLES upstream, mem, list, config, rrp, seconds, orphans, probed, picked, deaths
VARIABLE part

connVars == <<key, conn, pc, at, held, counted, lost>>
peersVars == <<upstream, mem, list, config, rrp, seconds, orphans, probed, picked, deaths>>

TwoAndOne == <<2, 1>>

(* Three workers whose times lag charge one key. *)
Lagging ==
    [rate |-> <<3>>, burst |-> <<2>>, second |-> 2, minute |-> 2, workers |-> {r1, r2, r3},
     keys |-> {k1}, nodes |-> {n1}, time |-> 6, lag |-> 2, crashes |-> 0]
(* Two limits: how far the first one may be exceeded. *)
Several ==
    [rate |-> <<1, 1>>, burst |-> <<0, 1>>, second |-> 1, minute |-> 2, workers |-> {r1, r2},
     keys |-> {k1}, nodes |-> {n1}, time |-> 5, lag |-> 2, crashes |-> 0]
(* Two keys: nodes are forced out between the lookup and the charge. *)
Crowded ==
    [rate |-> <<1, 1>>, burst |-> <<0, 1>>, second |-> 1, minute |-> 1, workers |-> {r1, r2},
     keys |-> {k1, k2}, nodes |-> {n1}, time |-> 3, lag |-> 1, crashes |-> 1]
(* The same with memory for both keys, and time for one to grow old. *)
Roomy == [Crowded EXCEPT !.nodes = {n1, n2}, !.workers = {r1}, !.time = 4, !.crashes = 0]

RateLimits == {Lagging, Several, Crowded, Roomy}

Plain ==
    [weight |-> [a \in Addrs |-> 1], primary |-> <<a1, a2>>, backup |-> <<>>, maxconns |-> 0,
     maxfails |-> 1, timeout |-> 1, room |-> 3, down |-> {}, resolving |-> {}, answers |-> {},
     fails |-> TRUE, changes |-> 0, time |-> 0, crashes |-> 0]

(* A name becomes nothing, one or two servers, with memory for one more. *)
Zone == [Plain EXCEPT !.maxconns = 1, !.maxfails = 0, !.resolving = {1}, !.changes = 2,
                      !.answers = {<<>>, <<a1>>, <<a2>>, <<a1, a2>>, <<a2, a1>>}]
(* Two groups, both resolved, and a worker that dies. *)
Groups == [Plain EXCEPT !.primary = <<a1>>, !.backup = <<a3>>, !.maxconns = 1,
                        !.resolving = {1, 2}, !.answers = {<<>>, <<a2>>},
                        !.changes = 2, !.crashes = 1]
(* Servers of different weight that fail and recover. *)
Failing == [Plain EXCEPT !.weight = (a1 :> 2) @@ (a2 :> 1) @@ (a3 :> 1), !.time = 3]
(* Weights 3, 1 and 2, and no failures. *)
Rounds == [Plain EXCEPT !.weight = (a1 :> 3) @@ (a2 :> 1) @@ (a3 :> 2), !.fails = FALSE,
                        !.primary = <<a1, a2, a3>>]

Upstreams == {Zone, Groups, Failing, Rounds}

Conn == INSTANCE LimitConn
Peers == INSTANCE UpstreamPeers

ASSUME PartsAssumption == Conn!LimitConnAssumption /\ Peers!PeersAssumption

(* Requests, workers and the requests of the upstream are the same values: *)
(* few permutations serve all parts.                                       *)
Symmetry == Permutations({r1, r2}) \cup Permutations(Keys)

MCInit ==
    /\ part \in {"connections", "rates", "peers"}
    /\ Init /\ Conn!Init /\ Peers!Init
    /\ part # "rates" => limits = Lagging
    /\ part # "peers" => upstream = Rounds

MCNext ==
    /\ UNCHANGED part
    /\ \/ part = "connections" /\ Conn!Next /\ UNCHANGED <<vars, peersVars>>
       \/ part = "rates" /\ Next /\ UNCHANGED <<connVars, peersVars>>
       \/ part = "peers" /\ Peers!Next /\ UNCHANGED <<vars, connVars>>

MCSpec == MCInit /\ [][MCNext]_<<vars, connVars, peersVars, part>>

(* What is counted of a key of limit_conn is what requests hold, and never *)
(* more than the limit.                                                    *)
ConnLimitsExact == Conn!ConnLimitsExact

(* The shared servers of an upstream are counted exactly, kept while they  *)
(* are used, and chosen by their weights.                                  *)
PeersExact == Peers!PeersExact

(* A request does not go back to a server it tried, and one request at a   *)
(* time probes a server that failed.                                       *)
PicksSound == [][Peers!NoServerTwice /\ Peers!OneProbe]_peersVars
=============================================================================
