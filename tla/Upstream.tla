------------------------------ MODULE Upstream ------------------------------
(***************************************************************************)
(* One worker passes requests to the servers of an upstream: it connects,  *)
(* or takes a connection kept from an earlier request, sends the request,  *)
(* reads the response and passes it on, tries another server after a       *)
(* failure, and keeps the connection or closes it in the end.              *)
(*                                                                         *)
(* A function that ends by calling another one leaves the call in `run`;   *)
(* no other handler of the worker runs before it is made.  Servers and     *)
(* clients act at any time.  A server answers each request once, in parts, *)
(* and may close the connection whenever it likes; what it may not do is   *)
(* to send what nobody asked for.                                          *)
(***************************************************************************)
EXTENDS Integers, FiniteSets, FiniteSetsExt, Queues

CONSTANTS
    Requests,
    Addrs,       \* the servers of the upstream
    Conns,       \* the connections of the worker, numbered
    Scenarios    \* the configurations and surroundings a behaviour may have

Nil == 0
None == <<>>

(* What a server may answer: the parts that follow the header, -1 for a    *)
(* body that ends when the server closes.                                  *)
BodyOf == [empty |-> 0, whole |-> 2, last |-> 1, untilclose |-> -1, upgrade |-> -1,
           error |-> 0, missing |-> 0, bad |-> 0]
Kinds == DOMAIN BodyOf
(* "Connection: close" in the response *)
Closing == {"last", "untilclose", "upgrade"}
(* What ngx_http_upstream_next is called for: the bits FT_... of the code  *)
Faults == {"error", "timeout", "invalid_header", "http_500", "http_404", "nolive"}

(***************************************************************************)
(* A scenario: reqs (the requests that come), inturn (one after the end of *)
(* the other), addrs (the servers), kinds                                  *)
(* (of responses), next (proxy_next_upstream), nonid (its parameter        *)
(* non_idempotent), tries (proxy_next_upstream_tries, 0 for no limit),     *)
(* post (the requests are not idempotent), unbuffered (the request body is *)
(* passed on as it is read), buffering (of the response), cacheable,       *)
(* ignoreabort (proxy_ignore_client_abort), resolve (the name of the       *)
(* server is resolved first), ssl, keep (connections to keep), uses        *)
(* (keepalive_requests), faults (the servers may refuse or close), early   *)
(* (they may answer before they have the request), aborts (clients may go  *)
(* away), quits (the worker may be told to exit).                          *)
(***************************************************************************)
ASSUME UpstreamAssumption ==
    /\ Conns \subseteq Nat \ {0} /\ IsFiniteSet(Addrs) /\ IsFiniteSet(Requests)
    /\ Nil \notin Addrs
    /\ \A s \in Scenarios :
        /\ s.reqs \subseteq Requests /\ s.addrs \subseteq Addrs /\ s.addrs # {}
        /\ s.kinds \subseteq Kinds /\ s.next \subseteq Faults \ {"nolive"}
        /\ {s.tries, s.keep} \subseteq Nat /\ s.uses \in Nat \ {0}

VARIABLES
    conf,      \* the scenario of this behaviour
    u,         \* r->upstream of each request
    client,    \* each client: gone, error (c->error), body (its body has come)
    conn,      \* each connection, with what the server at its other end does
    cache,     \* the kept connections, the newest first
    conns,     \* conns[a]: the requests the balancer has sent to server a
    exiting,   \* ngx_exiting
    run        \* the call that the running handler makes next

vars == <<conf, u, client, conn, cache, conns, exiting, run>>

NewUpstream ==
    [st |-> "new", addr |-> Nil, c |-> Nil, cached |-> FALSE, tries |-> 0, tried |-> {},
     sent |-> FALSE, bodysent |-> FALSE, blocked |-> FALSE, received |-> FALSE,
     headersent |-> FALSE, keepalive |-> FALSE, length |-> 0, closing |-> FALSE,
     rh |-> "header", wh |-> "send", wt |-> FALSE, rt |-> FALSE, fromclient |-> FALSE,
     out |-> None, got |-> None, rc |-> "none",
     n |-> 0, fresh |-> 0, heads |-> 0]       \* the last line is for the properties

FreeConn ==
    [st |-> "free", addr |-> Nil, ssl |-> FALSE, uses |-> 0, cur |-> None, parts |-> 0,
     resp |-> "none", left |-> 0, inbox |-> None, eof |-> FALSE,
     full |-> FALSE]                          \* the server has to read before more can be written

Init ==
    /\ conf \in Scenarios
    /\ u = [r \in Requests |-> NewUpstream]
    /\ client = [r \in Requests |-> [gone |-> FALSE, error |-> FALSE, body |-> FALSE]]
    /\ conn = [c \in Conns |-> FreeConn]
    /\ cache = <<>> /\ exiting = FALSE /\ run = None
    /\ conns = [a \in Addrs |-> 0]

Call(f, r, arg) == run' = <<f, r, arg>>
Return == run' = None
Running(f, r) == run # None /\ run[1] = f /\ run[2] = r
Arg == run[3]
Active(r) == u[r].st = "active"
Idle == run = None

Pending(c) == conn[c].inbox # <<>> \/ conn[c].eof

-----------------------------------------------------------------------------
(***************************************************************************)
(* The balancer and the kept connections                                   *)
(***************************************************************************)
Single == Cardinality(conf.addrs) = 1

(* ngx_http_upstream_free_round_robin_peer, as to the tries of the request *)
FreeTries(r) == IF Single THEN 0 ELSE Max({0, u[r].tries - 1})

(* ngx_http_upstream_free_keepalive_peer: may the connection be kept? *)
KeepAnyway(r, failed) ==
    u[r].c # Nil /\ ~failed /\ conn[u[r].c].uses < conf.uses /\ u[r].keepalive /\ ~exiting
KeepWhenExiting(r, failed) ==
    u[r].c # Nil /\ ~failed /\ conn[u[r].c].uses < conf.uses /\ u[r].keepalive /\ u[r].bodysent
Keepable(r, failed) ==
    /\ u[r].c # Nil /\ ~failed
    /\ conn[u[r].c].uses < conf.uses
    /\ u[r].keepalive /\ u[r].bodysent
    /\ ~exiting

Closed(cs) == [c \in Conns |-> IF c \in cs THEN FreeConn ELSE conn[c]]

(***************************************************************************)
(* The peer is released: u->peer.free.  The connection goes to the head of *)
(* the cache, and the oldest one is closed if there is no room; what has   *)
(* come on the connection by then may be noticed, and closes it.  What is  *)
(* not kept stays with the request, which closes it in any case.           *)
(***************************************************************************)
FreeAsTaken(r, failed, v) ==
    LET c == u[r].c IN
    /\ conns' = [conns EXCEPT ![u[r].addr] = @ - 1]
    /\ cache' = IF Keepable(r, failed) THEN <<c>> \o cache ELSE cache
    /\ conn' = IF Keepable(r, failed) THEN conn ELSE Closed({c})
    /\ u' = [u EXCEPT ![r] = [v EXCEPT !.addr = Nil, !.c = Nil]]

FreePeer(r, failed, v) ==
    LET c == u[r].c
        full == Len(cache) = conf.keep
    IN  /\ conns' = [conns EXCEPT ![u[r].addr] = @ - 1]
        /\ u' = [u EXCEPT ![r] = [v EXCEPT !.addr = Nil, !.c = Nil]]
        /\ IF Keepable(r, failed) /\ conf.keep > 0
           THEN \/ /\ cache' = <<c>> \o (IF full THEN Front(cache) ELSE cache)
                   /\ conn' = IF full THEN Closed({Last(cache)}) ELSE conn
                \/ /\ Pending(c)               \* c->read->ready: close_handler
                   /\ cache' = IF full THEN Front(cache) ELSE cache
                   /\ conn' = Closed({c} \cup (IF full THEN {Last(cache)} ELSE {}))
           ELSE cache' = cache /\ conn' = Closed({c})

(* Without a peer there may still be a connection to close (none here:     *)
(* every connection was made for a peer).                                  *)
NoPeer(r, v) ==
    /\ u' = [u EXCEPT ![r] = [v EXCEPT !.c = Nil]]
    /\ UNCHANGED <<conns, cache>>
    /\ conn' = Closed({u[r].c})

(***************************************************************************)
(* ngx_http_upstream_keepalive_close_handler: the server closed or sent    *)
(* something, or the idle time is over.                                    *)
(***************************************************************************)
CloseKept(c) ==
    /\ Idle /\ c \in ToSet(cache)
    /\ cache' = Without(cache, c)
    /\ conn' = Closed({c})
    /\ UNCHANGED <<conf, u, client, conns, exiting, run>>

(* The worker is told to exit: ngx_close_idle_connections *)
Quit ==
    /\ Idle /\ conf.quits /\ ~exiting
    /\ exiting' = TRUE /\ cache' = <<>> /\ conn' = Closed(ToSet(cache))
    /\ UNCHANGED <<conf, u, client, conns, run>>

-----------------------------------------------------------------------------
(***************************************************************************)
(* ngx_http_upstream_init_request and ngx_http_upstream_resolve_handler    *)
(***************************************************************************)
Tries == LET n == Cardinality(conf.addrs) IN
         IF conf.tries > 0 THEN Min({n, conf.tries}) ELSE n

InitRequest(r) ==
    /\ Idle /\ r \in conf.reqs /\ u[r].st = "new" /\ ~exiting
    /\ conf.inturn => \A q \in Requests : u[q].st \in {"new", "done"}
    /\ IF conf.resolve
       THEN u' = [u EXCEPT ![r].st = "resolving"] /\ Return
       ELSE u' = [u EXCEPT ![r].st = "active", ![r].tries = Tries] /\ Call("connect", r, Nil)
    /\ UNCHANGED <<conf, client, conn, cache, conns, exiting>>

ResolveHandler(r) ==
    /\ Idle /\ u[r].st = "resolving"
    /\ \/ /\ u' = [u EXCEPT ![r].st = "active", ![r].tries = Tries] /\ Call("connect", r, Nil)
       \/ u' = [u EXCEPT ![r].st = "active"] /\ Call("finalize", r, "502")
    /\ UNCHANGED <<conf, client, conn, cache, conns, exiting>>

(***************************************************************************)
(* ngx_http_upstream_connect with ngx_event_connect_peer and               *)
(* ngx_http_upstream_get_keepalive_peer: the balancer names a server not   *)
(* tried yet; the newest kept connection to it is taken, or a new one made.*)
(* ngx_http_upstream_reinit clears what an earlier try has left.           *)
(***************************************************************************)
Kept(a) == {i \in DOMAIN cache : conn[cache[i]].addr = a}
FreeConns == {c \in Conns : conn[c].st = "free"}

ReinitKeeps(r) == u[r]
Reinit(r) == IF u[r].sent \/ u[r].received THEN [u[r] EXCEPT !.keepalive = FALSE] ELSE u[r]

Connected(r, a, c, cached) ==
    [Reinit(r) EXCEPT !.addr = a, !.c = c, !.cached = cached,
        !.tried = IF Single THEN {} ELSE @ \cup {a},
        !.sent = FALSE, !.bodysent = FALSE, !.blocked = FALSE, !.received = FALSE,
        !.rh = "header", !.wh = "send", !.wt = FALSE, !.rt = FALSE,
        !.n = @ + 1, !.fresh = IF cached THEN @ ELSE @ + 1]

ConnectPeer(r, a) ==
    /\ conns' = [conns EXCEPT ![a] = @ + 1]
    /\ IF Kept(a) # {}
       THEN LET c == cache[Min(Kept(a))] IN
            /\ cache' = Without(cache, c)
            /\ conn' = [conn EXCEPT ![c].uses = @ + 1]
            /\ u' = [u EXCEPT ![r] = Connected(r, a, c, TRUE)]
            /\ Call("send", r, Nil)
       ELSE /\ UNCHANGED cache
            /\ \/ /\ FreeConns # {}             \* NGX_AGAIN
                  /\ LET c == Min(FreeConns) IN
                     /\ conn' = [conn EXCEPT ![c] = [FreeConn EXCEPT !.st = "opening",
                                                       !.addr = a, !.uses = 1]]
                     /\ u' = [u EXCEPT ![r] = [Connected(r, a, c, FALSE) EXCEPT !.wt = TRUE]]
                  /\ Return
               \/ /\ conf.faults                \* refused at once: NGX_DECLINED
                  /\ u' = [u EXCEPT ![r].addr = a, ![r].c = Nil, ![r].cached = FALSE,
                                    ![r].tried = IF Single THEN {} ELSE @ \cup {a},
                                    ![r].fresh = @ + 1]
                  /\ Call("next", r, "error") /\ UNCHANGED conn
               \/ /\ FreeConns = {}             \* NGX_ERROR
                  /\ u' = [u EXCEPT ![r].addr = a, ![r].c = Nil, ![r].cached = FALSE]
                  /\ Call("finalize", r, "500") /\ UNCHANGED conn

Connect(r) ==
    /\ Running("connect", r)
    /\ \/ \E a \in conf.addrs \ u[r].tried : ConnectPeer(r, a)
       \/ /\ conf.addrs \subseteq u[r].tried \/ conf.faults     \* NGX_BUSY
          /\ u' = [u EXCEPT ![r].cached = FALSE]
          /\ Call("next", r, "nolive") /\ UNCHANGED <<conn, cache, conns>>
    /\ UNCHANGED <<conf, client, exiting>>

(* ngx_http_upstream_ssl_init_connection and ..._ssl_handshake *)
Handshake(r) ==
    /\ Running("ssl", r)
    /\ \/ /\ conn' = [conn EXCEPT ![u[r].c].ssl = TRUE]
          /\ u' = [u EXCEPT ![r].wt = FALSE, ![r].blocked = FALSE] /\ Call("send", r, Nil)
       \/ /\ conf.faults /\ Call("next", r, "error") /\ UNCHANGED <<u, conn>>
       \/ /\ ~u[r].blocked                     \* NGX_AGAIN
          /\ conn' = [conn EXCEPT ![u[r].c].full = TRUE]
          /\ u' = [u EXCEPT ![r].blocked = TRUE, ![r].wt = TRUE] /\ Return
    /\ UNCHANGED <<conf, client, cache, conns, exiting>>

-----------------------------------------------------------------------------
(***************************************************************************)
(* ngx_http_upstream_send_request and ..._send_request_body: the header of *)
(* the request is written, and its body if it is there; the socket may     *)
(* take only a part.                                                       *)
(***************************************************************************)
BodyThere(r) == ~conf.unbuffered \/ client[r].body

Written(r, p) ==
    [conn EXCEPT ![u[r].c] =
        IF @.eof THEN @
        ELSE IF u[r].sent THEN [@ EXCEPT !.parts = Max({conn[u[r].c].parts, p})]
        ELSE [@ EXCEPT !.cur = <<r, u[r].n>>, !.parts = p, !.resp = "none", !.left = 0]]

(* The time of the server to answer begins with the end of the request.    *)
HeaderTimerUnset(r) == u[r].rt
HeaderTimer(r) == u[r].rt \/ ~u[r].headersent

Sent(r) == [u[r] EXCEPT !.sent = TRUE, !.heads = IF u[r].sent THEN @ ELSE @ + 1]

SendRequest(r) ==
    /\ Running("send", r)
    /\ IF conf.ssl /\ ~conn[u[r].c].ssl /\ conn[u[r].c].st = "open"
       THEN Call("ssl", r, Nil) /\ UNCHANGED <<u, conn>>
       ELSE IF ~u[r].sent /\ conn[u[r].c].st = "refused"    \* ngx_http_upstream_test_connect
       THEN Call("next", r, "error") /\ UNCHANGED <<u, conn>>
       ELSE \/ /\ BodyThere(r)                              \* NGX_OK
               /\ conn' = Written(r, 2)
               /\ u' = [u EXCEPT ![r] = [Sent(r) EXCEPT !.bodysent = TRUE, !.blocked = FALSE,
                                            !.wt = FALSE, !.wh = "dummy",
                                            !.rt = HeaderTimer(r)]]
               /\ Return
            \/ /\ ~u[r].blocked                             \* NGX_AGAIN: the socket is full
               /\ conn' = [Written(r, 1) EXCEPT ![u[r].c].full = TRUE]
               /\ u' = [u EXCEPT ![r] = [Sent(r) EXCEPT !.blocked = TRUE, !.wt = TRUE]]
               /\ Return
            \/ /\ ~BodyThere(r) /\ ~client[r].gone         \* ... the client has to send more
               /\ conn' = Written(r, 1)
               /\ u' = [u EXCEPT ![r] = [Sent(r) EXCEPT !.blocked = FALSE, !.wt = FALSE]]
               /\ Return
            \/ /\ conn[u[r].c].eof /\ u' = [u EXCEPT ![r] = Sent(r)]
               /\ Call("next", r, "error") /\ UNCHANGED conn
            \/ /\ ~BodyThere(r) /\ client[r].gone           \* the body cannot be read
               /\ conn' = Written(r, 1) /\ u' = [u EXCEPT ![r] = Sent(r)]
               /\ Call("finalize", r, "400")
    /\ UNCHANGED <<conf, client, cache, conns, exiting>>

(* ngx_http_upstream_send_request_handler: connected, or writable again.   *)
SendRequestHandler(r) ==
    /\ Idle /\ Active(r) /\ u[r].c # Nil /\ u[r].wh = "send"
    /\ conn[u[r].c].st # "opening" /\ ~conn[u[r].c].full /\ (~u[r].sent \/ u[r].blocked)
    /\ IF u[r].headersent
       THEN u' = [u EXCEPT ![r].wh = "dummy"] /\ Return
       ELSE Call("send", r, Nil) /\ UNCHANGED u
    /\ UNCHANGED <<conf, client, conn, cache, conns, exiting>>

(* ... and its time is over, which is looked at before anything else.      *)
WriteTimeout(r) ==
    /\ Idle /\ Active(r) /\ u[r].c # Nil /\ u[r].wt
    /\ u' = [u EXCEPT ![r].wt = FALSE]
    /\ CASE u[r].wh = "send" -> Call("next", r, "timeout")
         [] u[r].wh = "upgraded" -> Call("finalize", r, "504")
         [] OTHER -> Return
    /\ UNCHANGED <<conf, client, conn, cache, conns, exiting>>

(* ngx_http_upstream_read_request_handler: more of the body, or too late.  *)
ReadRequestHandler(r) ==
    /\ Idle /\ Active(r) /\ u[r].c # Nil /\ conf.unbuffered /\ u[r].sent /\ ~u[r].bodysent
    /\ \/ /\ client[r].body \/ client[r].gone
          /\ u[r].wh = "send" /\ ~u[r].blocked /\ Call("send", r, Nil)
       \/ ~client[r].body /\ Call("finalize", r, "408")
    /\ UNCHANGED <<conf, u, client, conn, cache, conns, exiting>>

-----------------------------------------------------------------------------
(***************************************************************************)
(* ngx_http_upstream_process_header: the header is read from the           *)
(* connection; the protocol module says what it is                         *)
(* (ngx_http_proxy_process_header), and keeps a connection whose response  *)
(* has no body.                                                            *)
(***************************************************************************)
NotAsked(r) == u[r].sent /\ u[r].received /\ conf.post /\ ~conf.nonid
NonIdempotent(r) == u[r].sent /\ conf.post /\ ~conf.nonid
MayRetry(r, ft) == ft \in conf.next /\ ~NonIdempotent(r) /\ ~(u[r].sent /\ conf.unbuffered)
RetryOf(k) == IF k = "error" THEN "http_500" ELSE IF k = "missing" THEN "http_404" ELSE "none"

KeepAtHeader(r, k) ==
    IF BodyOf[k] = 0 THEN k \notin Closing ELSE k # "upgrade" /\ u[r].keepalive

ProcessHeader(r) ==
    /\ Idle /\ Active(r) /\ u[r].c # Nil /\ u[r].rh = "header"
    /\ LET c == u[r].c
           h == Head(conn[c].inbox)
           v == [u[r] EXCEPT !.received = TRUE]
       IN  /\ conn[c].st = "refused" \/ Pending(c)
           /\ IF conn[c].inbox = <<>> \/ (conf.ssl /\ ~conn[c].ssl)
              THEN Call("next", r, "error") /\ UNCHANGED <<u, conn>>
              ELSE /\ conn' = [conn EXCEPT ![c].inbox = Tail(@)]
                   /\ IF h.i # 0 \/ h.kind = "bad"
                      THEN u' = [u EXCEPT ![r] = v] /\ Call("next", r, "invalid_header")
                      ELSE /\ u' = [u EXCEPT ![r] = [v EXCEPT !.keepalive = KeepAtHeader(r, h.kind),
                                                                !.closing = h.kind \in Closing]]
                           /\ IF u[r].tries > 1 /\ MayRetry(r, RetryOf(h.kind))
                              THEN Call("next", r, RetryOf(h.kind))       \* ..._test_next
                              ELSE Call("response", r, h)
    /\ UNCHANGED <<conf, client, cache, conns, exiting>>

(* ... its time is over. *)
ReadTimeout(r) ==
    /\ Idle /\ Active(r) /\ u[r].c # Nil /\ u[r].rt
    /\ u' = [u EXCEPT ![r].rt = FALSE]
    /\ CASE u[r].rh = "header" -> Call("next", r, "timeout")
         [] u[r].rh = "pass" /\ conf.buffering -> Call("finalize", r, "502")
         [] OTHER -> Call("finalize", r, "504")
    /\ UNCHANGED <<conf, client, conn, cache, conns, exiting>>

(***************************************************************************)
(* ngx_http_upstream_send_response: the header goes to the client; then    *)
(* ..._upgrade, or the input filter is set up for the body.                *)
(* ngx_http_send_header refuses a second header.                           *)
(***************************************************************************)
SendResponse(r) ==
    /\ Running("response", r)
    /\ LET h == Arg
           v == [u[r] EXCEPT !.headersent = TRUE, !.got = <<h>>, !.length = BodyOf[h.kind]]
       IN  \/ /\ u[r].headersent \/ client[r].gone
              /\ Call("finalize", r, "error") /\ UNCHANGED u
           \/ /\ ~u[r].headersent /\ h.kind = "upgrade"
              /\ u' = [u EXCEPT ![r] = [v EXCEPT !.rh = "upgraded", !.wh = "upgraded", !.rt = TRUE]]
              /\ Return
           \/ /\ ~u[r].headersent /\ h.kind # "upgrade"
              /\ u' = [u EXCEPT ![r] = [v EXCEPT !.rh = "pass"]] /\ Call("pass", r, Nil)
    /\ UNCHANGED <<conf, client, conn, cache, conns, exiting>>

(***************************************************************************)
(* The input filter of the proxy module: parts of the body are counted,    *)
(* and with the last one the connection may be kept.                       *)
(***************************************************************************)
FilterEarly(v, n) == [v EXCEPT !.length = IF @ = -1 THEN -1 ELSE @ - n, !.keepalive = ~v.closing]
InputFilter(v, n) ==
    [v EXCEPT !.length = IF @ = -1 THEN -1 ELSE @ - n,
              !.keepalive = IF n > 0 /\ v.length = n THEN ~v.closing ELSE @]

(* The response is over: it is complete, or ends as the server closes.     *)
OverAtEof(length, eof) == length = 0 \/ eof
Over(length, eof) == length = 0 \/ (eof /\ length = -1)

(***************************************************************************)
(* ngx_http_upstream_process_upstream and ..._process_request: the event   *)
(* pipe (the module EventPipe) takes all that has come; the response is    *)
(* over when it is complete, or when the server closes.                    *)
(***************************************************************************)
ProcessBuffered(r, c) ==
    LET n == Len(conn[c].inbox)
        v == InputFilter([u[r] EXCEPT !.got = @ \o conn[c].inbox], n)
    IN  /\ conn' = [conn EXCEPT ![c].inbox = <<>>]
        /\ IF client[r].gone /\ ~conf.cacheable
           THEN u' = [u EXCEPT ![r] = v] /\ Call("finalize", r, "error")
           ELSE IF Over(v.length, conn[c].eof)
           THEN u' = [u EXCEPT ![r] = v] /\ Call("finalize", r, "0")
           ELSE IF conn[c].eof
           THEN u' = [u EXCEPT ![r] = v] /\ Call("finalize", r, "502")
           ELSE u' = [u EXCEPT ![r] = [v EXCEPT !.rt = TRUE]] /\ Return

(***************************************************************************)
(* ngx_http_upstream_process_non_buffered_request: a part is read when the *)
(* one before has gone to the client.                                      *)
(***************************************************************************)
ProcessNonBuffered(r, c) ==
    IF u[r].out # None
    THEN Return /\ UNCHANGED <<u, conn>>
    ELSE IF Over(u[r].length, conn[c].inbox = <<>> /\ conn[c].eof)
    THEN Call("finalize", r, "0") /\ UNCHANGED <<u, conn>>
    ELSE IF conn[c].inbox = <<>> /\ conn[c].eof
    THEN Call("finalize", r, "502") /\ UNCHANGED <<u, conn>>
    ELSE IF conn[c].inbox = <<>>
    THEN u' = [u EXCEPT ![r].rt = TRUE] /\ Return /\ UNCHANGED conn
    ELSE LET p == Head(conn[c].inbox)
             v == InputFilter([u[r] EXCEPT !.rt = FALSE], 1)
         IN  /\ conn' = [conn EXCEPT ![c].inbox = Tail(@)]
             /\ \/ client[r].gone /\ u' = [u EXCEPT ![r] = v] /\ Call("finalize", r, "error")
                \/ u' = [u EXCEPT ![r] = [v EXCEPT !.got = Append(@, p)]] /\ Call("pass", r, Nil)
                \/ u' = [u EXCEPT ![r] = [v EXCEPT !.out = <<p>>]] /\ Return

Pass(r) ==
    /\ \/ Running("pass", r)
       \/ Idle /\ Active(r) /\ u[r].c # Nil /\ u[r].rh = "pass" /\ Pending(u[r].c)
    /\ IF conf.buffering THEN ProcessBuffered(r, u[r].c) ELSE ProcessNonBuffered(r, u[r].c)
    /\ UNCHANGED <<conf, client, cache, conns, exiting>>

(* ngx_http_upstream_process_non_buffered_downstream: the client takes     *)
(* what waited, or its time is over.                                       *)
PassDownstream(r) ==
    /\ Idle /\ Active(r) /\ u[r].out # None
    /\ \/ /\ ~client[r].gone
          /\ u' = [u EXCEPT ![r].got = @ \o u[r].out, ![r].out = None] /\ Call("pass", r, Nil)
       \/ Call("finalize", r, "408") /\ UNCHANGED u
    /\ UNCHANGED <<conf, client, conn, cache, conns, exiting>>

(***************************************************************************)
(* ngx_http_upstream_process_upgraded, from the server and from the client *)
(* (whose data the server may be slow to take).                            *)
(***************************************************************************)
Upgraded(r) ==
    /\ Idle /\ Active(r) /\ u[r].c # Nil /\ u[r].rh = "upgraded"
    /\ LET c == u[r].c
           v == [u[r] EXCEPT !.got = @ \o conn[c].inbox]
       IN  /\ conn' = [conn EXCEPT ![c].inbox = <<>>]
           /\ \E b \in BOOLEAN :       \* is something of the client's still to be written?
               /\ u' = [u EXCEPT ![r] = [v EXCEPT !.fromclient = b, !.wt = b, !.rt = TRUE]]
               /\ Pending(c) \/ client[r].gone \/ b # u[r].fromclient
               /\ b => u[r].fromclient \/ (~client[r].body /\ ~client[r].gone)
               /\ client' = [client EXCEPT ![r].body = @ \/ b]
               /\ IF conn[c].eof \/ (client[r].gone /\ ~b)
                  THEN Call("finalize", r, "0") ELSE Return
    /\ UNCHANGED <<conf, cache, conns, exiting>>

-----------------------------------------------------------------------------
(***************************************************************************)
(* ngx_http_upstream_next: the peer is released as failed (or not, after   *)
(* 403 and 404); an error on a kept connection does not cost a try.        *)
(***************************************************************************)
Status(ft) ==
    CASE ft = "timeout" -> "504" [] ft = "http_500" -> "500" [] ft = "http_404" -> "404" [] OTHER -> "502"

NextTriesAlways(r, ft) ==
    (IF u[r].addr # Nil THEN FreeTries(r) ELSE u[r].tries) + (IF ft = "error" THEN 1 ELSE 0)
NextTries(r, ft) ==
    (IF u[r].addr # Nil THEN FreeTries(r) ELSE u[r].tries)
        + (IF u[r].cached /\ ft = "error" THEN 1 ELSE 0)

UpstreamNext(r) ==
    /\ Running("next", r)
    /\ LET ft == Arg
           tries == NextTries(r, ft)
           v == [u[r] EXCEPT !.tries = tries, !.wt = FALSE, !.rt = FALSE]
       IN  /\ IF u[r].addr # Nil THEN FreePeer(r, ft # "http_404", v) ELSE NoPeer(r, v)
           /\ IF client[r].error THEN Call("finalize", r, "499")
              ELSE IF tries = 0 \/ ~MayRetry(r, ft) THEN Call("finalize", r, Status(ft))
              ELSE Call("connect", r, Nil)
    /\ UNCHANGED <<conf, client, exiting>>

(***************************************************************************)
(* ngx_http_upstream_finalize_request: whatever the request holds is given *)
(* back, once.                                                             *)
(***************************************************************************)
Finalize(r) ==
    /\ Running("finalize", r)
    /\ LET v == [u[r] EXCEPT !.st = "done", !.wt = FALSE, !.rt = FALSE, !.out = None, !.rc = Arg,
                             !.tries = IF u[r].addr # Nil THEN FreeTries(r) ELSE @]
       IN  IF u[r].addr # Nil THEN FreePeer(r, FALSE, v) ELSE NoPeer(r, v)
    /\ Return /\ UNCHANGED <<conf, client, exiting>>

(* The request is ended by others: ngx_http_upstream_cleanup *)
Cleanup(r) ==
    /\ Idle /\ u[r].st \in {"resolving", "active"} /\ conf.aborts
    /\ Call("finalize", r, "terminated")
    /\ UNCHANGED <<conf, u, client, conn, cache, conns, exiting>>

(***************************************************************************)
(* ngx_http_upstream_check_broken_connection                               *)
(***************************************************************************)
CheckBroken(r) ==
    /\ Idle /\ u[r].st \in {"resolving", "active"} /\ ~conf.ignoreabort
    /\ client[r].gone /\ ~client[r].error
    /\ u[r].rh # "upgraded" /\ ~(conf.unbuffered /\ u[r].sent /\ ~u[r].bodysent)
    /\ client' = [client EXCEPT ![r].error = TRUE]
    /\ IF ~conf.cacheable \/ u[r].c = Nil THEN Call("finalize", r, "499") ELSE Return
    /\ UNCHANGED <<conf, u, conn, cache, conns, exiting>>

-----------------------------------------------------------------------------
(***************************************************************************)
(* The clients and the servers                                             *)
(***************************************************************************)
ClientBody(r) ==
    /\ conf.unbuffered /\ u[r].st # "new" /\ ~client[r].body /\ ~client[r].gone
    /\ client' = [client EXCEPT ![r].body = TRUE]
    /\ UNCHANGED <<conf, u, conn, cache, conns, exiting, run>>

ClientGone(r) ==
    /\ conf.aborts /\ u[r].st \in {"resolving", "active"} /\ ~client[r].gone
    /\ client' = [client EXCEPT ![r].gone = TRUE]
    /\ UNCHANGED <<conf, u, conn, cache, conns, exiting, run>>

Serve(c, new) ==
    /\ conn' = [conn EXCEPT ![c] = new]
    /\ UNCHANGED <<conf, u, client, cache, conns, exiting, run>>

ServerAccept(c) ==
    /\ conn[c].st = "opening"
    /\ \/ Serve(c, [conn[c] EXCEPT !.st = "open"])
       \/ conf.faults /\ Serve(c, [conn[c] EXCEPT !.st = "refused"])

Part(c, i, k) == [r |-> conn[c].cur[1], n |-> conn[c].cur[2], i |-> i, kind |-> k]

(* A server may be `early` and answer before the request is complete. *)
ServerHeader(c) ==
    /\ conn[c].st = "open" /\ ~conn[c].eof /\ conn[c].resp = "none"
    /\ conn[c].parts = 2 \/ (conf.early /\ conn[c].parts = 1)
    /\ \E k \in conf.kinds :
        Serve(c, [conn[c] EXCEPT !.resp = k, !.left = IF BodyOf[k] = -1 THEN 1 ELSE BodyOf[k],
                                 !.inbox = Append(@, Part(c, 0, k))])

ServerBody(c) ==
    /\ conn[c].st = "open" /\ ~conn[c].eof /\ conn[c].left > 0
    /\ LET k == conn[c].resp
           i == (IF BodyOf[k] = -1 THEN 1 ELSE BodyOf[k]) - conn[c].left + 1
       IN Serve(c, [conn[c] EXCEPT !.left = @ - 1, !.inbox = Append(@, Part(c, i, k))])

ServerReads(c) == conn[c].full /\ Serve(c, [conn[c] EXCEPT !.full = FALSE])

ServerClose(c) ==
    /\ conn[c].st = "open" /\ ~conn[c].eof
    /\ conf.faults \/ (conn[c].resp \in Closing /\ conn[c].left = 0)
    /\ Serve(c, [conn[c] EXCEPT !.eof = TRUE])

-----------------------------------------------------------------------------
Handlers(r) ==
    \/ InitRequest(r) \/ ResolveHandler(r) \/ Connect(r) \/ Handshake(r)
    \/ SendRequest(r) \/ SendRequestHandler(r) \/ ReadRequestHandler(r)
    \/ ProcessHeader(r) \/ SendResponse(r) \/ Pass(r) \/ PassDownstream(r) \/ Upgraded(r)
    \/ UpstreamNext(r) \/ Finalize(r) \/ CheckBroken(r)

Timers(r) == WriteTimeout(r) \/ ReadTimeout(r)

Next ==
    \/ \E r \in Requests : Handlers(r) \/ Timers(r) \/ Cleanup(r) \/ ClientBody(r) \/ ClientGone(r)
    \/ \E c \in Conns : CloseKept(c) \/ ServerAccept(c) \/ ServerReads(c) \/ ServerHeader(c)
                        \/ ServerBody(c) \/ ServerClose(c)
    \/ Quit

Spec == Init /\ [][Next]_vars

(* Handlers run when their event comes, and timers expire.  Nothing is     *)
(* asked of clients and servers.                                           *)
FairSpec == Spec /\ WF_vars(\E r \in Requests : Handlers(r) \/ Timers(r))

-----------------------------------------------------------------------------
TypeOK ==
    /\ conf \in Scenarios /\ exiting \in BOOLEAN
    /\ \A r \in Requests : u[r].addr \in Addrs \cup {Nil} /\ u[r].c \in Conns \cup {Nil}
    /\ \A c \in Conns : conn[c].st \in {"free", "opening", "refused", "open"}
    /\ ToSet(cache) \subseteq Conns

(* Every connection that is open belongs to one request or is kept once,   *)
(* so nothing leaks and nothing is used by two; a request that is over has *)
(* none.                                                                   *)
ConnectionsOwned ==
    /\ IsInjective(cache) /\ Len(cache) <= conf.keep
    /\ \A c \in Conns :
        Cardinality({r \in Requests : u[r].c = c}) + (IF c \in ToSet(cache) THEN 1 ELSE 0)
            = (IF conn[c].st = "free" THEN 0 ELSE 1)
    /\ \A r \in Requests : u[r].st = "done" => u[r].c = Nil /\ u[r].addr = Nil

(* The balancer is told once of the end of each request it has sent to a   *)
(* server, whatever way the request ends there.                            *)
PeersReleased ==
    \A a \in Addrs : conns[a] = Cardinality({r \in Requests : u[r].addr = a})

(* A kept connection is at rest: the whole request and the whole response  *)
(* have passed, and none is kept once the worker exits.                    *)
KeptAtRest ==
    /\ \A c \in ToSet(cache) :
        /\ conn[c].parts = 2 \/ conn[c].eof
        /\ conn[c].resp # "none" /\ conn[c].left = 0
        /\ conn[c].inbox = <<>> /\ conn[c].resp \notin Closing
    /\ exiting => cache = <<>>

(***************************************************************************)
(* Connections and peers are accounted for at every moment: each is given  *)
(* back exactly once on every way out of a request (errors, timeouts,      *)
(* retries, a client that leaves, a cleanup), and what is kept for another *)
(* request carries nothing of the last one.                                *)
(***************************************************************************)
ConnectionsKept == TypeOK /\ ConnectionsOwned /\ PeersReleased /\ KeptAtRest

(***************************************************************************)
(* What a client is sent is a prefix of one response to its own request:   *)
(* never parts of the answers of two servers, nor of another request whose *)
(* connection was kept; and it is all of it when the request ends well.    *)
(***************************************************************************)
ResponseIntact ==
    \A r \in Requests :
        LET g == u[r].got IN
        /\ \A i \in DOMAIN g : g[i].r = r /\ g[i].n = g[1].n /\ g[i].i = i - 1 /\ g[i].kind = g[1].kind
        /\ u[r].rc = "0" /\ BodyOf[g[1].kind] # -1 => Len(g) = 1 + BodyOf[g[1].kind]

(***************************************************************************)
(* A request that is not idempotent, or whose body is passed on unread, is *)
(* sent to one server at most, even when a kept connection turns out to be *)
(* dead; and new connections are bounded by the tries, although an error   *)
(* on a kept connection gives its try back.                                *)
(***************************************************************************)
SentOnce ==
    \A r \in Requests :
        /\ (conf.post /\ ~conf.nonid) \/ conf.unbuffered => u[r].heads <= 1
        /\ u[r].fresh <= Tries


(***************************************************************************)
(* What a client asked reaches one server where it must not reach two, and *)
(* what that server answered reaches the client whole.                     *)
(***************************************************************************)
ExchangeSound == ResponseIntact /\ SentOnce

(***************************************************************************)
(* A request never hangs: whatever servers and clients do or leave undone, *)
(* some event or timer ends it.                                            *)
(***************************************************************************)
RequestsEnd == \A r \in Requests : []<>(u[r].st \in {"new", "done"})

(***************************************************************************)
(* A request is not passed to another server once the header of a response *)
(* has gone to the client: ngx_http_send_header reports "header already    *)
(* sent" as an alert.                                                      *)
(***************************************************************************)
HeaderOnce == run # None /\ run[1] = "response" => ~u[run[2]].headersent
=============================================================================
