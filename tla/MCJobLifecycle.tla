--------------------------- MODULE MCJobLifecycle ---------------------------
(* Instances of JobLifecycle for TLC. *)
EXTENDS JobLifecycle, TLC

CONSTANTS j1, j2

\* j2 is the child of j1.
ChainParent == j1 :> NoJob @@ j2 :> j1
\* Every job is a root.
NoParent == [j \in Jobs |-> NoJob]

OneRetry == [j \in Jobs |-> 1]
TwoRetries == [j \in Jobs |-> 2]

Symmetric == Permutations(Tokens) \cup Permutations(Workers) \cup Permutations(Reapers)
=============================================================================
