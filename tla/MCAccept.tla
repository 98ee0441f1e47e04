------------------------------ MODULE MCAccept ------------------------------
(***************************************************************************)
(* How connections are taken, for TLC: the connection table and event loop *)
(* of one worker, and the workers that share a listening socket.  A        *)
(* behaviour is one of a part, and the other one rests.                    *)
(***************************************************************************)
EXTENDS Connections, Integers

CONSTANTS Workers, ConnN, AcceptShare, MaxClients, MaxErrors, MaxCrashes, MaxQuits
VARIABLES mutex, multi, owner, pc, held, disabled, enabled, use, timer, timedout, posting, capped,
          free, backlog, clients, errors, crashes, quits
VARIABLE part

acceptVars == <<mutex, multi, owner, pc, held, disabled, enabled, use, timer, timedout, posting,
                capped, free, backlog, clients, errors, crashes, quits>>

Calls == {{"reusable", "write"}, {"write", "quit"}, {"post"}, {"timer", "emfile"}, {"emfile", "quit"}}

Acc == INSTANCE AcceptMutex

ASSUME PartsAssumption ==
    ConnectionsAssumption /\ Acc!SizesAssumption /\ Acc!NoneAssumption

MCInit ==
    /\ part \in {"accept", "table"}
    /\ Init /\ Acc!Init
    /\ part = "accept" => calls = {"post"}
    /\ part = "table" => mutex /\ multi

(* What rests has no step: the fairness of a worker's turn is asked of the *)
(* part that runs.                                                         *)
Accepting(A) == part = "accept" /\ A /\ UNCHANGED <<mutex, multi, vars, part>>

MCNext ==
    \/ Accepting(Acc!Next)
    \/ part = "table" /\ Next /\ UNCHANGED <<acceptVars, part>>

MCSpec ==
    /\ MCInit /\ [][MCNext]_<<vars, acceptVars, part>>
    /\ \A w \in Workers : WF_<<vars, acceptVars, part>>(Accepting(Acc!Turn(w)))

(* What the flags of a worker say about the accept mutex and about the     *)
(* accept events is true whenever the worker acts on them.                 *)
FlagsExact == Acc!FlagsExact

(* A client in the backlog is accepted, or refused, as long as there is a  *)
(* worker to do it.                                                        *)
BacklogDrains == Acc!BacklogDrains
=============================================================================
