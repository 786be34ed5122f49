------------------------------ MODULE MCPacing -------------------------------
(* Pacing on small instances.                                               *)
EXTENDS Pacing
CONSTANTS p1, p2

\* The shortest delays that the schema of the API allows.
ShortPolicies ==
  {[strategy |-> "fixed", initial |-> 1, max |-> 1, multiplier |-> 1, jitter |-> TRUE],
   [strategy |-> "exponential", initial |-> 1, max |-> 3, multiplier |-> 2, jitter |-> FALSE]}
=============================================================================
