------------------------------- MODULE MCSQS -------------------------------
(* Small instances of SQS for TLC. *)
EXTENDS SQS, TLC

CONSTANTS jobs, dead, h1, h2, h3, h4

Standard == [fifo |-> FALSE, dlq |-> NoName, max |-> 0]
WithDlq  == [fifo |-> FALSE, dlq |-> dead, max |-> 1]
Fifo     == [fifo |-> TRUE, dlq |-> dead, max |-> 2]

(* Data directories with a work queue and its dead-letter queue.           *)
SlowQueues == (jobs :> [WithDlq EXCEPT !.max = 2]) @@ (dead :> Standard)
FifoQueues == (jobs :> Fifo) @@ (dead :> Standard)

ThreadSymmetry == Permutations(Handles) \cup Permutations(Receivers)
=============================================================================
