--------------------------- MODULE MCCronDispatch ----------------------------
(* Instances of CronDispatch for TLC. *)
EXTENDS CronDispatch

CONSTANTS minutely, every2

\* Every unit of time, and every second one; a few occurrences past the clock.
Periods == [e \in Expressions |-> IF e = minutely THEN 1..(MaxTime + 2)
                                  ELSE {2 * n : n \in 1..MaxTime}]
=============================================================================
