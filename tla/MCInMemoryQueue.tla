--------------------------- MODULE MCInMemoryQueue ---------------------------
(* InMemoryQueue with a work queue and its dead letter queue. *)
EXTENDS InMemoryQueue

CONSTANTS work, failed

MCQueues == {work, failed}
MCDeadLetterQueue == [q \in MCQueues |-> IF q = work THEN failed ELSE NoQueue]

=============================================================================
