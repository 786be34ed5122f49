------------------------ MODULE MCBatchOrchestration -------------------------
(* BatchOrchestration on small instances.                                   *)
EXTENDS BatchOrchestration
CONSTANTS k1, k2

\* Two keys in opposite orders, and a key with a job without one.
Orders == {<<k1, k2>>, <<k2, k1>>, <<k2, NoKey>>}
=============================================================================
