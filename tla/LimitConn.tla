----------------------------- MODULE LimitConn -----------------------------
(***************************************************************************)
(* limit_conn: requests counted by key in several shared zones.  A request *)
(* visits its limits one after the other, each under the mutex of the zone *)
(* only; a refusal gives the counts already taken back one by one, and so  *)
(* does the pool of a request when it ends.                                *)
(*                                                                         *)
(* A request holds a pointer to a node of a zone, which other requests     *)
(* share, and which is freed with the last of them.                        *)
(***************************************************************************)
EXTENDS Integers, FiniteSets

CONSTANTS
    Requests,
    Keys,
    Nodes,    \* memory for nodes in each zone
    N,        \* number of limits, each with a zone of its own
    Limit,    \* Limit[z]: the connections allowed
    Nil,
    MaxLost   \* bound: counts lost with a worker or without a cleanup

Zones == 1 .. N

LimitConnAssumption ==
    /\ N \in Nat \ {0} /\ Limit \in [Zones -> Nat \ {0}] /\ MaxLost \in Nat
    /\ IsFiniteSet(Requests)
    /\ Nil \notin Keys /\ Nil \notin Nodes

VARIABLES
    key,      \* key[z][n]: the key of a node, Nil for free memory
    conn,     \* conn[z][n]: its count
    pc,       \* "passed" also when the request fails for another reason
    at,       \* at[r]: the limit the handler looks at
    held,     \* held[r][z]: the node in the cleanup of r for z, or Nil
    counted,  \* counted[r][z]: the key r was counted under (ghost)
    lost      \* lost[z][n]: counts that nobody will give back (ghost)

vars == <<key, conn, pc, at, held, counted, lost>>

Nothing == [z \in Zones |-> Nil]

Init ==
    /\ key = [z \in Zones |-> [n \in Nodes |-> Nil]]
    /\ conn = [z \in Zones |-> [n \in Nodes |-> 0]]
    /\ pc = [r \in Requests |-> "limits"] /\ at = [r \in Requests |-> 1]
    /\ held = [r \in Requests |-> Nothing] /\ counted = [r \in Requests |-> Nothing]
    /\ lost = [z \in Zones |-> [n \in Nodes |-> 0]]

Lookup(z, k) == {n \in Nodes : key[z][n] = k}
Free(z) == {n \in Nodes : key[z][n] = Nil}
-----------------------------------------------------------------------------
(* ngx_http_limit_conn_handler *)

(* The next limit, or the end of the handler.                              *)
Advance(r) ==
    /\ at' = [at EXCEPT ![r] = IF @ = N THEN 1 ELSE @ + 1]
    /\ pc' = [pc EXCEPT ![r] = IF at[r] = N THEN "passed" ELSE "limits"]

(* An empty key, or one that is too long, is not limited.                  *)
Skip(r) ==
    /\ pc[r] = "limits"
    /\ Advance(r)
    /\ UNCHANGED <<key, conn, held, counted, lost>>

(* The key cannot be computed: the request fails, its counts go with it.   *)
KeyFails(r) ==
    /\ pc[r] = "limits"
    /\ pc' = [pc EXCEPT ![r] = "passed"] /\ at' = [at EXCEPT ![r] = 1]
    /\ UNCHANGED <<key, conn, held, counted, lost>>

(* The cleanup that gives the count back.                                  *)
AddCleanup(r, z, k, n) ==
    /\ held' = [held EXCEPT ![r][z] = n] /\ counted' = [counted EXCEPT ![r][z] = k]
    /\ Advance(r)
    /\ UNCHANGED lost

(* No memory for the cleanup: the request fails with the count taken.      *)
AddCleanupFails(r, z, n) ==
    /\ lost[z][n] < MaxLost /\ lost' = [lost EXCEPT ![z][n] = @ + 1]
    /\ pc' = [pc EXCEPT ![r] = "passed"] /\ at' = [at EXCEPT ![r] = 1]
    /\ UNCHANGED <<held, counted>>

Create(r, k, n) ==
    /\ pc[r] = "limits" /\ Lookup(at[r], k) = {} /\ n \in Free(at[r])
    /\ key' = [key EXCEPT ![at[r]][n] = k] /\ conn' = [conn EXCEPT ![at[r]][n] = 1]
    /\ AddCleanup(r, at[r], k, n) \/ AddCleanupFails(r, at[r], n)

AtLimitLate(z, n) == conn[z][n] > Limit[z]
AtLimit(z, n) == conn[z][n] >= Limit[z]

Count(r, k, n) ==
    /\ pc[r] = "limits" /\ n \in Lookup(at[r], k) /\ ~AtLimit(at[r], n)
    /\ conn' = [conn EXCEPT ![at[r]][n] = @ + 1]
    /\ AddCleanup(r, at[r], k, n) \/ AddCleanupFails(r, at[r], n)
    /\ UNCHANGED key

(* Refused: too many connections, or no memory for a node.                 *)
Reject(r, k) ==
    /\ pc[r] = "limits"
    /\ \/ \E n \in Lookup(at[r], k) : AtLimit(at[r], n)
       \/ Lookup(at[r], k) = {} /\ Free(at[r]) = {}
    /\ pc' = [pc EXCEPT ![r] = "cleanup"] /\ at' = [at EXCEPT ![r] = 1]
    /\ UNCHANGED <<key, conn, held, counted, lost>>

-----------------------------------------------------------------------------
Newest(r, z) == held[r][z] # Nil /\ \A y \in Zones : y > z => held[r][y] = Nil

(* ngx_http_limit_conn_cleanup, called from the newest cleanup to the      *)
(* oldest: by ngx_http_limit_conn_cleanup_all after a refusal, and by the  *)
(* destruction of the pool.                                                *)
CleanupKeepsNode(z, n) ==
    /\ conn' = [conn EXCEPT ![z][n] = @ - 1]
    /\ UNCHANGED key

CleanupNode(z, n) ==
    /\ conn' = [conn EXCEPT ![z][n] = @ - 1]
    /\ key' = [key EXCEPT ![z][n] = IF conn[z][n] = 1 THEN Nil ELSE @]

Cleanup(r, z) ==
    /\ pc[r] \in {"cleanup", "closing"} /\ Newest(r, z)
    /\ CleanupNode(z, held[r][z])
    /\ held' = [held EXCEPT ![r][z] = Nil] /\ counted' = [counted EXCEPT ![r][z] = Nil]
    /\ UNCHANGED <<pc, at, lost>>

(* The request goes on when its location has limit_conn_dry_run.           *)
CleanupDone(r, after) ==
    /\ pc[r] = "cleanup" /\ held[r] = Nothing
    /\ pc' = [pc EXCEPT ![r] = after]
    /\ UNCHANGED <<key, conn, at, held, counted, lost>>

(* The request ends: its pool is destroyed.                                *)
Close(r) ==
    /\ pc[r] \in {"passed", "rejected"}
    /\ pc' = [pc EXCEPT ![r] = "closing"]
    /\ UNCHANGED <<key, conn, at, held, counted, lost>>

(* Another request.                                                        *)
Closed(r) ==
    /\ pc[r] = "closing" /\ held[r] = Nothing
    /\ pc' = [pc EXCEPT ![r] = "limits"]
    /\ UNCHANGED <<key, conn, at, held, counted, lost>>

(* The worker of a request dies; nobody gives its counts back.             *)
Crash(r) ==
    /\ held[r] # Nothing
    /\ \A z \in Zones : held[r][z] # Nil => lost[z][held[r][z]] < MaxLost
    /\ lost' = [z \in Zones |-> [n \in Nodes |->
                  IF held[r][z] = n THEN lost[z][n] + 1 ELSE lost[z][n]]]
    /\ held' = [held EXCEPT ![r] = Nothing] /\ counted' = [counted EXCEPT ![r] = Nothing]
    /\ pc' = [pc EXCEPT ![r] = "closing"] /\ at' = [at EXCEPT ![r] = 1]
    /\ UNCHANGED <<key, conn>>

Handler(r) ==
    \/ Skip(r) \/ KeyFails(r)
    \/ \E k \in Keys : Reject(r, k) \/ \E n \in Nodes : Create(r, k, n) \/ Count(r, k, n)

Release(r) ==
    \/ \E after \in {"passed", "rejected"} : CleanupDone(r, after)
    \/ Closed(r)
    \/ \E z \in Zones : Cleanup(r, z)

Next == \E r \in Requests : Handler(r) \/ Release(r) \/ Close(r) \/ Crash(r)

Spec == Init /\ [][Next]_vars
-----------------------------------------------------------------------------
Holders(h, z, n) == {r \in Requests : h[r][z] = n}

(* Every variable has its type: in particular no count is negative, and    *)
(* the handler stays within its limits.                                    *)
TypeOK ==
    /\ key \in [Zones -> [Nodes -> Keys \cup {Nil}]]
    /\ conn \in [Zones -> [Nodes -> Nat]] /\ lost \in [Zones -> [Nodes -> Nat]]
    /\ pc \in [Requests -> {"limits", "passed", "cleanup", "rejected", "closing"}]
    /\ at \in [Requests -> Zones]
    /\ held \in [Requests -> [Zones -> Nodes \cup {Nil}]]
    /\ counted \in [Requests -> [Zones -> Keys \cup {Nil}]]

(* The count of a node is the number of the requests that will give one    *)
(* back (and of the counts that were lost): it is never negative, and the  *)
(* node is freed with the last of them and not before.                     *)
CountsHolders ==
    \A z \in Zones, n \in Nodes :
        /\ conn[z][n] = Cardinality(Holders(held, z, n)) + lost[z][n]
        /\ conn[z][n] = 0 <=> key[z][n] = Nil

(* A request gives its count back to the node of its own key, although     *)
(* nodes are freed and their memory is used again.                         *)
CountsItsKey ==
    \A r \in Requests, z \in Zones :
        held[r][z] # Nil => key[z][held[r][z]] = counted[r][z]

(* No more requests than the limit are counted under one key of a zone.    *)
LimitKept ==
    \A z \in Zones, k \in Keys :
        Cardinality({r \in Requests : counted[r][z] = k}) <= Limit[z]

(* Both, for a reader who asks whether connections are limited: what is    *)
(* counted is what is held, and never more than the limit.                 *)
ConnLimitsExact == CountsHolders /\ LimitKept
=============================================================================
