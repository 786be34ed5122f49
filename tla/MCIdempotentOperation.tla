------------------------ MODULE MCIdempotentOperation ------------------------
(* Instances of IdempotentOperation for TLC: the configurations name the       *)
(* attempts, which of them may crash, and the number of operations.            *)
EXTENDS IdempotentOperation
=============================================================================
