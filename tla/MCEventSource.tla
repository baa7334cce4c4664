---------------------------- MODULE MCEventSource ----------------------------
(* Small instances of EventSource for TLC. *)
EXTENDS EventSource, TLC

CONSTANTS jobs, dead

Standard == [fifo |-> FALSE, dlq |-> NoName, max |-> 0]
WithDlq  == [fifo |-> FALSE, dlq |-> dead, max |-> 1]

(* A data directory with a work queue and its dead-letter queue.           *)
WorkQueues == (jobs :> WithDlq) @@ (dead :> Standard)

(* What the admin creates.                                                *)
AdminConfigs == {WithDlq}

HandleSymmetry == Permutations(Handles)
=============================================================================
