------------------------------- MODULE Queues -------------------------------
(***************************************************************************)
(* The doubly linked lists of the code (ngx_queue_t), as sequences from    *)
(* head to tail.  An element is linked into a list at one place, and is    *)
(* removed there without a search.                                         *)
(***************************************************************************)
EXTENDS Sequences, SequencesExt

(* ngx_queue_remove *)
PlaceOf(q, n) == CHOOSE i \in DOMAIN q : q[i] = n
Without(q, n) == IF n \in ToSet(q) THEN RemoveAt(q, PlaceOf(q, n)) ELSE q
=============================================================================
