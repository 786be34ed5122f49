---------------------------- MODULE MCQueueClaim ----------------------------
(* Instances of QueueClaim for TLC. *)
EXTENDS QueueClaim

CONSTANTS qa, qb, j1, j2, j3, j4, c2

\* j1 and j2 are jobs of qa, j3 and j4 are jobs of qb.
TwoQueues == [j \in Jobs |-> IF j \in {j1, j2} THEN qa ELSE qb]

Row(limit, priority, limited) ==
  [exists |-> TRUE, paused |-> FALSE, limit |-> limit, priority |-> priority,
   limited |-> limited]
\* qa runs two jobs, is claimed from before qb, and is rate limited; qb is
\* paused until an operator resumes it.
Rows == [q \in Queues |-> IF q = qa THEN Row(2, 2, TRUE)
                          ELSE [Row(1, 1, FALSE) EXCEPT !.paused = TRUE]]

FirstOlder == {<<qa, qb>>}
\* c2 is a daemon that was started for qa only.
OneForQa == [c \in Claimers |-> IF c = c2 THEN {qa} ELSE {}]

\* Two cron sweeps over both queues, in opposite orders.
Sweeps == {<<j1, j3>>, <<j4, j2>>}
=============================================================================
