--------------------------- MODULE UpstreamPeers ---------------------------
(***************************************************************************)
(* The servers of an HTTP upstream in a shared zone: the smooth weighted   *)
(* round robin, failure accounting, max_conns, backup servers, the tries   *)
(* of a request, and the resolving of names at run time, which adds and    *)
(* removes servers while requests use them.                                *)
(*                                                                         *)
(* A section under the write lock of a group, or under its read lock and   *)
(* the lock of one peer, is one step (the module Rwlock is about the       *)
(* locks).  Time is counted in seconds.                                    *)
(***************************************************************************)
EXTENDS Integers, Sequences, FiniteSets, FiniteSetsExt, SequencesExt, Functions

CONSTANTS
    Seekers,
    Addrs,        \* addresses of servers
    Memory,       \* the places for a peer in the zone
    Upstreams     \* the configurations and surroundings a behaviour may have

(***************************************************************************)
(* A scenario has the configuration of the upstream: weight (of the server *)
(* at each address), primary and backup (the addresses of the servers of   *)
(* each group at the start), maxconns (max_conns, 0 for no limit),         *)
(* maxfails (max_fails, 0 for no accounting), timeout (fail_timeout), room *)
(* (peers that fit in the zone), down (servers marked down), resolving     *)
(* (the groups, 1 primary and 2 backup, whose names are resolved), answers *)
(* (what a name may be resolved to: sequences of addresses); and what may  *)
(* happen: fails (servers may fail), changes (bound on the changes to the  *)
(* configuration), time (bound on the seconds) and crashes (bound on       *)
(* requests lost with their worker).                                       *)
(***************************************************************************)
Null == 0

PeersAssumption ==
    /\ Memory \subseteq Nat \ {0} /\ Null \notin Addrs
    /\ IsFiniteSet(Seekers) /\ IsFiniteSet(Addrs)
    /\ \A s \in Upstreams :
        /\ s.weight \in [Addrs -> Nat \ {0}]
        /\ {s.primary, s.backup} \cup s.answers \subseteq Seq(Addrs)
        /\ IsInjective(s.primary) /\ IsInjective(s.backup) /\ \A q \in s.answers : IsInjective(q)
        /\ {s.maxconns, s.maxfails, s.timeout, s.room, s.changes, s.time, s.crashes} \subseteq Nat
        /\ 1 .. s.room \subseteq Memory /\ s.room >= Len(s.primary) + Len(s.backup)
        /\ s.down \subseteq Addrs \ UNION {ToSet(ans) : ans \in s.answers}
        /\ s.resolving \subseteq {1, 2} /\ s.fails \in BOOLEAN

VARIABLES
    upstream,     \* the scenario of this behaviour
    mem,      \* the memory of the zone: a peer, or FreeMemory
    list,     \* list[g]: the peers of group g in order
    config,   \* *peers->config, one for both groups
    rrp,      \* the peer data of each request
    seconds,
    orphans,   \* references that died with a worker (ghost)
    probed,   \* when a disabled peer was chosen last (ghost)
    picked,   \* choices of each address in this round of the weights (ghost)
    deaths

vars == <<upstream, mem, list, config, rrp, seconds, orphans, probed, picked, deaths>>
ghosts == <<orphans, probed, picked, deaths>>

Room == 1 .. upstream.room
FreeMemory == [addr |-> Null]

NewPeer(a) ==
    [addr |-> a, cw |-> 0, ew |-> upstream.weight[a], conns |-> 0, refs |-> 0, fails |-> 0,
     accessed |-> 0, checked |-> 0, zombie |-> FALSE]

NewRequest ==
    [pc |-> "init", config |-> 0, group |-> 1, current |-> Null, addr |-> Null,
     tried |-> {}, tries |-> 0, used |-> {}]

(* ngx_http_upstream_init_round_robin and ngx_http_upstream_init_zone *)
Init ==
    /\ upstream \in Upstreams
    /\ list = <<[i \in DOMAIN upstream.primary |-> i],
                [i \in DOMAIN upstream.backup |-> Len(upstream.primary) + i]>>
    /\ mem = [p \in Memory |-> IF p <= Len(upstream.primary \o upstream.backup)
                               THEN NewPeer((upstream.primary \o upstream.backup)[p])
                               ELSE FreeMemory]
    /\ config = 0 /\ seconds = 0
    /\ rrp = [r \in Seekers |-> NewRequest]
    /\ orphans = [p \in Memory |-> 0] /\ probed = [p \in Memory |-> -1]
    /\ picked = [a \in Addrs |-> 0] /\ deaths = 0

Allocated == {p \in Memory : mem[p].addr # Null}
Down(p) == mem[p].addr \in upstream.down
Tries(g) == Cardinality({i \in DOMAIN list[g] : ~Down(list[g][i])})
Single(g) == g = 1 /\ Len(list[1]) = 1 /\ list[2] = <<>>

-----------------------------------------------------------------------------
(* ngx_http_upstream_init_round_robin_peer *)
InitPeer(r) ==
    /\ rrp[r].pc = "init"
    /\ rrp' = [rrp EXCEPT ![r] = [NewRequest EXCEPT !.pc = "get", !.config = config,
                                    !.tries = Tries(1) + Tries(2)]]
    /\ UNCHANGED <<mem, list, config, seconds>> /\ UNCHANGED ghosts

(* Failed and too busy servers, and those already tried, are left out.     *)
Disabled(p) == upstream.maxfails > 0 /\ mem[p].fails >= upstream.maxfails
Resting(p) == Disabled(p) /\ seconds - mem[p].checked <= upstream.timeout
Full(p) == upstream.maxconns > 0 /\ mem[p].conns >= upstream.maxconns

Eligible(r) ==
    LET l == list[rrp[r].group] IN
    {i \in DOMAIN l : i \notin rrp[r].tried /\ ~Down(l[i]) /\ ~Resting(l[i]) /\ ~Full(l[i])}

ConfigIgnored(r) == FALSE
ConfigChanged(r) == rrp[r].config # config

(* Round robin takes the first of the greatest current weights.            *)
BestByWeight(r) ==
    LET l == list[rrp[r].group] IN
    Min({i \in Eligible(r) : \A j \in Eligible(r) : mem[l[j]].ew <= mem[l[i]].ew})

Best(r) ==
    LET l == list[rrp[r].group]
        gain(i) == mem[l[i]].cw + mem[l[i]].ew
    IN Min({i \in Eligible(r) : \A j \in Eligible(r) : gain(j) <= gain(i)})

Total(r) == SumFunction([i \in Eligible(r) |-> mem[list[rrp[r].group][i]].ew])

(* One turn of the weights in ngx_http_upstream_get_peer: each eligible    *)
(* peer gains its effective weight, which grows back to the weight; the    *)
(* best one pays for all.                                                  *)
PaysItsOwn(r) == mem[list[rrp[r].group][Best(r)]].ew
Pays(r) == Total(r)

Weighed(r) ==
    LET l == list[rrp[r].group]
        gains == {l[i] : i \in Eligible(r)}
        best == l[Best(r)]
    IN [p \in Memory |-> IF p \notin gains THEN mem[p] ELSE
          [mem[p] EXCEPT
             !.cw = @ + mem[p].ew - (IF p = best THEN Pays(r) ELSE 0),
             !.ew = IF @ < upstream.weight[mem[p].addr] THEN @ + 1 ELSE @]]

CheckedNever(m) == m.checked
Checked(m) == IF seconds - m.checked > upstream.timeout THEN seconds ELSE m.checked

HoldUncounted(m) == [m EXCEPT !.refs = @ + 1]
Hold(m) == [m EXCEPT !.refs = @ + 1, !.conns = @ + 1]

(* picked starts over when the weights have gone round; it is kept only    *)
(* where no server fails, is full, marked down or resolved anew.           *)
Steady ==
    /\ ~upstream.fails /\ upstream.maxconns = 0 /\ upstream.down = {} /\ upstream.resolving = {}
    /\ ToSet(upstream.primary) = Addrs

Count(a) ==
    LET n == [picked EXCEPT ![a] = @ + 1]
        round == SumFunction(n) = SumFunction(upstream.weight)
    IN picked' = CASE ~Steady -> picked
                   [] Steady /\ round -> [b \in Addrs |-> n[b] - upstream.weight[b]]
                   [] OTHER -> n

(* ngx_http_upstream_get_round_robin_peer with several peers *)
GetPeer(r) ==
    /\ rrp[r].pc = "get" /\ ~ConfigChanged(r) /\ ~Single(rrp[r].group) /\ Eligible(r) # {}
    /\ LET i == Best(r)
           p == list[rrp[r].group][i]
           w == Weighed(r)
       IN /\ mem' = [w EXCEPT ![p] = [Hold(w[p]) EXCEPT !.checked = Checked(w[p])]]
          /\ rrp' = [rrp EXCEPT ![r].pc = "connected", ![r].current = p,
                                ![r].addr = mem[p].addr, ![r].tried = @ \cup {i},
                                ![r].used = @ \cup {mem[p].addr}]
          /\ probed' = IF Disabled(p) THEN [probed EXCEPT ![p] = seconds] ELSE probed
          /\ Count(mem[p].addr)
    /\ UNCHANGED <<list, config, seconds, orphans, deaths>>

(* ... and with a single one, which is used whether it has failed or not   *)
GetSingle(r) ==
    /\ rrp[r].pc = "get" /\ ~ConfigChanged(r) /\ Single(rrp[r].group)
    /\ LET p == list[1][1] IN
        /\ ~Down(p) /\ ~Full(p)
        /\ mem' = [mem EXCEPT ![p] = Hold(@)]
        /\ rrp' = [rrp EXCEPT ![r].pc = "connected", ![r].current = p,
                              ![r].addr = mem[p].addr, ![r].used = @ \cup {mem[p].addr}]
    /\ UNCHANGED <<list, config, seconds>> /\ UNCHANGED ghosts

NonePossible(r) ==
    IF Single(rrp[r].group) THEN Down(list[1][1]) \/ Full(list[1][1]) ELSE Eligible(r) = {}

GetBackup(r) ==
    /\ rrp[r].pc = "get" /\ ~ConfigChanged(r) /\ rrp[r].group = 1 /\ NonePossible(r)
    /\ rrp' = [rrp EXCEPT ![r].group = 2, ![r].tried = {}, ![r].used = {}]
    /\ UNCHANGED <<mem, list, config, seconds>> /\ UNCHANGED ghosts

(* No live upstreams: ngx_http_upstream_next ends the request.             *)
GetBusy(r) ==
    /\ rrp[r].pc = "get" /\ (ConfigChanged(r) \/ (rrp[r].group = 2 /\ NonePossible(r)))
    /\ rrp' = [rrp EXCEPT ![r].pc = "done"]
    /\ UNCHANGED <<mem, list, config, seconds>> /\ UNCHANGED ghosts

-----------------------------------------------------------------------------
(* ngx_http_upstream_free_round_robin_peer_locked *)

(* What a failure or a success does to a peer of several.                  *)
FailedBelowZero(m) ==
    [m EXCEPT !.fails = @ + 1, !.accessed = seconds, !.checked = seconds,
              !.ew = IF upstream.maxfails > 0 THEN @ - upstream.weight[m.addr] \div upstream.maxfails
                     ELSE @]

Failed(m) ==
    [m EXCEPT !.fails = @ + 1, !.accessed = seconds, !.checked = seconds,
              !.ew = IF upstream.maxfails > 0
                       THEN Max({0, @ - upstream.weight[m.addr] \div upstream.maxfails}) ELSE @]

Succeeded(m) == [m EXCEPT !.fails = IF m.accessed < m.checked THEN 0 ELSE @]

(* The last reference to a peer that has been removed frees it.            *)
Unref(m) == IF m.refs = 0 /\ m.zombie THEN FreeMemory ELSE m

Free(r, failed) ==
    LET p == rrp[r].current
        m == IF Single(rrp[r].group) THEN [mem[p] EXCEPT !.fails = 0]
             ELSE IF failed THEN Failed(mem[p]) ELSE Succeeded(mem[p])
    IN mem' = [mem EXCEPT ![p] = Unref([m EXCEPT !.refs = @ - 1, !.conns = @ - 1])]

TriesLeft(r) == IF Single(rrp[r].group) THEN 0 ELSE Max({0, rrp[r].tries - 1})

(* The response has come; so has the end of a request that was given up.   *)
Finish(r) ==
    /\ rrp[r].pc = "connected"
    /\ Free(r, FALSE)
    /\ rrp' = [rrp EXCEPT ![r] = [NewRequest EXCEPT !.pc = "done"]]
    /\ UNCHANGED <<list, config, seconds>> /\ UNCHANGED ghosts

(* ngx_http_upstream_next after an error, or after a 403 or 404, which the *)
(* server is not blamed for.  The request may end here although tries are  *)
(* left: its time is up, or it may not be sent again (pc = "done").        *)
NextUpstream(r, failed, pc) ==
    /\ upstream.fails /\ rrp[r].pc = "connected"
    /\ failed => mem[rrp[r].current].fails <= upstream.maxfails  \* bound
    /\ Free(r, failed)
    /\ rrp' = [rrp EXCEPT ![r].current = Null, ![r].addr = Null, ![r].tries = TriesLeft(r),
                          ![r].pc = IF TriesLeft(r) = 0 THEN "done" ELSE pc]
    /\ UNCHANGED <<list, config, seconds>> /\ UNCHANGED ghosts

Again(r) ==
    /\ rrp[r].pc = "done"
    /\ rrp' = [rrp EXCEPT ![r] = NewRequest]
    /\ UNCHANGED <<mem, list, config, seconds>> /\ UNCHANGED ghosts

(* The worker dies: its references stay.                                   *)
Crash(r) ==
    /\ deaths < upstream.crashes /\ rrp[r].pc = "connected"
    /\ deaths' = deaths + 1
    /\ orphans' = [orphans EXCEPT ![rrp[r].current] = @ + 1]
    /\ rrp' = [rrp EXCEPT ![r] = [NewRequest EXCEPT !.pc = "done"]]
    /\ UNCHANGED <<mem, list, config, seconds, probed, picked>>

-----------------------------------------------------------------------------
(* ngx_http_upstream_zone_resolve_handler: the names of group g now stand  *)
(* for the addresses of ans.  Servers that are gone are removed, but their *)
(* memory is kept while requests use it; new servers are added while there *)
(* is memory.                                                              *)

(* The servers a name stands for; the others are configured by address.    *)
Named == UNION {ToSet(ans) : ans \in upstream.answers}

(* What q has of T, in its order.                                          *)
Among(q, T) ==
    LET K == {i \in DOMAIN q : q[i] \in T} IN
    [n \in 1 .. Cardinality(K) |-> q[CHOOSE i \in K : Cardinality({j \in K : j <= i}) = n]]

RemovedAtOnce(m) == FreeMemory
Removed(m) == IF m.refs > 0 THEN [m EXCEPT !.zombie = TRUE] ELSE FreeMemory

Resolve(g, ans) ==
    LET S == ToSet(ans)
        known == {mem[p].addr : p \in ToSet(list[g])} \cap Named
        kept == Among(list[g], {p \in Allocated : mem[p].addr \in S \cup (Addrs \ Named)})
        gone == ToSet(list[g]) \ ToSet(kept)
        left == [p \in Memory |-> IF p \in gone THEN Removed(mem[p]) ELSE mem[p]]
        room == Among([p \in Room |-> p], {p \in Room : left[p].addr = Null})
        new == Among(ans, Addrs \ known)
        added == SubSeq(room, 1, Min({Len(room), Len(new)}))
    IN /\ S # known
       /\ list' = [list EXCEPT ![g] = kept \o added]
       /\ mem' = [p \in Memory |-> IF p \in ToSet(added)
                     THEN NewPeer(new[CHOOSE i \in DOMAIN added : added[i] = p]) ELSE left[p]]
       /\ config' = config + Cardinality(gone) + Len(added)
       /\ config' <= upstream.changes
       /\ probed' = [p \in Memory |-> IF p \in ToSet(added) THEN -1 ELSE probed[p]]
       /\ UNCHANGED <<rrp, seconds, orphans, picked, deaths>>

Tick ==
    /\ seconds < upstream.time /\ seconds' = seconds + 1
    /\ UNCHANGED <<mem, list, config, rrp>> /\ UNCHANGED ghosts

Step(r) ==
    InitPeer(r) \/ GetPeer(r) \/ GetSingle(r) \/ GetBackup(r) \/ GetBusy(r) \/ Finish(r)

Next ==
    /\ \/ \E r \in Seekers :
           \/ Step(r) \/ Again(r) \/ Crash(r)
           \/ \E f \in BOOLEAN, pc \in {"get", "done"} : NextUpstream(r, f, pc)
       \/ \E g \in upstream.resolving, ans \in upstream.answers : Resolve(g, ans)
       \/ Tick
    /\ UNCHANGED upstream

Spec == Init /\ [][Next]_vars
-----------------------------------------------------------------------------
(* Properties.                                                             *)

Holders(p) == {r \in Seekers : rrp[r].current = p}

(* Every variable has its type; no count is negative, and the effective    *)
(* weight stays between 0 and the weight.                                  *)
TypeOK ==
    /\ \A p \in Allocated :
        /\ {mem[p].conns, mem[p].refs, mem[p].fails} \subseteq Nat
        /\ mem[p].ew \in 0 .. upstream.weight[mem[p].addr] /\ mem[p].cw \in Int
        /\ mem[p].accessed <= seconds /\ mem[p].checked <= seconds
    /\ \A g \in 1 .. 2 : ToSet(list[g]) \subseteq Allocated /\ IsInjective(list[g])
    /\ config \in 0 .. upstream.changes /\ seconds \in 0 .. upstream.time
    /\ \A r \in Seekers :
        /\ rrp[r].pc \in {"init", "get", "connected", "done"} /\ rrp[r].tries \in Nat
        /\ rrp[r].pc = "connected" <=> rrp[r].current # Null

(* A server that was removed from the upstream while a request uses it     *)
(* stays in memory until the request lets it go, and is freed then: memory *)
(* holds the servers of the lists and those in use, no other.              *)
PeersOutliveRequests ==
    /\ \A r \in Seekers : rrp[r].current # Null => mem[rrp[r].current].addr = rrp[r].addr
    /\ \A p \in Allocated \ (ToSet(list[1]) \cup ToSet(list[2])) :
        mem[p].zombie /\ Cardinality(Holders(p)) + orphans[p] > 0

(* Both counts of a server are the requests that use it (and those that    *)
(* died with their worker), through removals, changes between one and      *)
(* several servers, and failures; max_conns is never exceeded.             *)
ConnsExact ==
    \A p \in Allocated :
        /\ mem[p].refs = Cardinality(Holders(p)) + orphans[p] /\ mem[p].conns = mem[p].refs
        /\ upstream.maxconns > 0 => mem[p].conns <= upstream.maxconns

(* A request does not go back to a server of the group it has tried,       *)
(* although it remembers positions in a list that changes.                 *)
NoServerTwice ==
    \A r \in Seekers :
        rrp[r].pc = "get" /\ rrp'[r].pc = "connected" => rrp'[r].addr \notin rrp[r].used

(* A server that has failed max_fails times is tried by one request, not   *)
(* by more, each time fail_timeout has passed.                             *)
OneProbe ==
    \A p \in Memory :
        probed'[p] # probed[p] /\ probed[p] >= 0 /\ probed'[p] >= 0
            => probed'[p] - probed[p] > upstream.timeout

(* What a choice of a server may never do.                                 *)
PicksSound == [][NoServerTwice /\ OneProbe]_vars

(* The current weights of a group whose names are not resolved add up to   *)
(* zero, whichever servers have failed, were full or were left out of a    *)
(* turn: no server runs up a credit or a debt against the others.          *)
WeightsBalanced ==
    \A g \in {1, 2} \ upstream.resolving :
        SumFunction([i \in DOMAIN list[g] |-> mem[list[g][i]].cw]) = 0

(* Where every server always takes part (Steady), every round of as many   *)
(* choices as the weights add up to gives each server as many choices as   *)
(* its weight.                                                             *)
RoundsFair == \A a \in Addrs : picked[a] <= upstream.weight[a]

(* The shared servers are kept exactly: counted for each request that uses *)
(* them, and in memory while one does.                                     *)
PeersKept == TypeOK /\ PeersOutliveRequests /\ ConnsExact

(* The weighted choice is fair: no credit is made or lost in a turn, and a *)
(* round without failures follows the weights.                             *)
WeightsFair == WeightsBalanced /\ RoundsFair

(* Both: the shared servers are counted exactly and chosen by weight.      *)
PeersExact == PeersKept /\ WeightsFair
=============================================================================
