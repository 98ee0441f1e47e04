----------------------------- MODULE MCResolver -----------------------------
(***************************************************************************)
(* The instance of Resolver for TLC: one or two names, one or two requests.*)
(***************************************************************************)
EXTENDS Resolver

CONSTANTS a, b, c1, c2, A, AAAA, i1, i2

(* Two names that may be aliases of each other; both requests are for one. *)
Aliases == [names |-> {a, b}, wanted |-> {a}, invalid |-> {}, types |-> {A}, ctxs |-> {c1, c2},
            idents |-> {i1}]
(* Both types of address, and answers to older questions. *)
BothTypes == [names |-> {a}, wanted |-> {a}, invalid |-> {}, types |-> {A, AAAA}, ctxs |-> {c1},
              idents |-> {i1, i2}]
(* A name that cannot be asked for. *)
BadName == [names |-> {a, b}, wanted |-> {a, b}, invalid |-> {b}, types |-> {A}, ctxs |-> {c1},
            idents |-> {i1}]

Operation == {Aliases, BothTypes, BadName}
=============================================================================
