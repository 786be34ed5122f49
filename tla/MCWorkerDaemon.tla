--------------------------- MODULE MCWorkerDaemon ----------------------------
(* WorkerDaemon on small instances.                                         *)
EXTENDS WorkerDaemon
=============================================================================
