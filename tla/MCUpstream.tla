----------------------------- MODULE MCUpstream -----------------------------
(***************************************************************************)
(* Upstream for TLC: two requests, two servers, and configurations that    *)
(* each bring one part of the code into play.                              *)
(***************************************************************************)
EXTENDS Upstream

CONSTANTS r1, r2, a1, a2

Plain ==
    [reqs |-> {r1, r2}, inturn |-> TRUE, addrs |-> {a1, a2}, kinds |-> {"empty", "error"},
     next |-> {"error", "timeout", "http_500"}, nonid |-> FALSE, tries |-> 0, post |-> FALSE,
     unbuffered |-> FALSE, buffering |-> TRUE, cacheable |-> FALSE, ignoreabort |-> FALSE,
     resolve |-> FALSE, ssl |-> FALSE, keep |-> 1, uses |-> 3, faults |-> TRUE, early |-> FALSE,
     aborts |-> FALSE, quits |-> FALSE]

(* One server, two requests: the second may get the connection of the first. *)
Kept1 == [Plain EXCEPT !.inturn = FALSE, !.addrs = {a1}, !.kinds = {"whole", "empty"}, !.quits = TRUE, !.early = TRUE, !.next = {"error"}]
KeptPost == [Kept1 EXCEPT !.post = TRUE, !.inturn = TRUE, !.kinds = {"last", "empty"}]
(* Two servers, retries, a kept connection after 404. *)
Retries == [Plain EXCEPT !.reqs = {r1}, !.kinds = {"error", "missing", "bad", "whole"},
              !.next = Faults \ {"nolive"}, !.aborts = TRUE]
(* The body of the request is passed on as it comes. *)
Streams == [Plain EXCEPT !.reqs = {r1}, !.unbuffered = TRUE, !.buffering = FALSE, !.aborts = TRUE,
              !.kinds = {"whole", "untilclose"}, !.resolve = TRUE, !.ssl = TRUE]
(* Early answers; a client that leaves while its response is cached. *)
Cached == [Plain EXCEPT !.reqs = {r1}, !.cacheable = TRUE, !.aborts = TRUE, !.early = TRUE,
              !.kinds = {"last", "error"}, !.next = {"error"}]
Slow == [Plain EXCEPT !.addrs = {a1}, !.buffering = FALSE, !.kinds = {"whole"}, !.early = TRUE,
              !.next = {"error"}, !.ignoreabort = TRUE, !.aborts = TRUE, !.reqs = {r1}]
Tunnel == [Plain EXCEPT !.addrs = {a1}, !.kinds = {"upgrade"}, !.aborts = TRUE, !.uses = 2]

(* Timeouts are retried while a server answers early: see HeaderOnce. *)
Early == [Slow EXCEPT !.reqs = {r1, r2}, !.addrs = {a1, a2}, !.kinds = {"whole", "empty"},
            !.next = {"error", "timeout"}, !.aborts = FALSE]
EarlyAnswers == {Early}

Operation == {Kept1, KeptPost, Retries, Plain, Streams, Cached, Slow, Tunnel}
=============================================================================
