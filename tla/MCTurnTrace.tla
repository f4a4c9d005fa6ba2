---------------------------- MODULE MCTurnTrace ----------------------------
(* A turn of two attempts, and two events at most, so that the capture      *)
(* limit cuts off the last events of a long one; two traces, two workers, and *)
(* a queue of one, so that the second trace, a requeued one too, can be       *)
(* trimmed. No symmetry: liveness properties are checked.                    *)
EXTENDS TurnTrace

=============================================================================
