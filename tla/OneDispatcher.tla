---------------------------- MODULE OneDispatcher ----------------------------
(***************************************************************************)
(* What the cron dispatcher promises (planner.md:349, "regardless of how   *)
(* many scheduler replicas run concurrently"), without replicas, locks,    *)
(* transactions or requests under way: one dispatcher that takes schedules *)
(* as they are, and in one step makes the job of each, counts it and moves *)
(* the schedule to the occurrence that follows.                            *)
(***************************************************************************)
EXTENDS Naturals

CONSTANTS
  Schedules,
  Fires      (* the times at which each expression fires                   *)

VARIABLES
  now,
  plan,      (* of every schedule: may it run, when, by which expression,  *)
             (* and how often it did                                       *)
  made       (* the occurrences of every schedule a job was made for       *)

dispatchVars == <<now, plan, made>>

DispatchInit ==
  /\ now = 0
  /\ \A s \in Schedules : ~plan[s].ready /\ plan[s].runs = 0 /\ made[s] = {}

Following(e, t) ==
  CHOOSE u \in Fires[e] : u > t /\ \A v \in Fires[e] : v > t => u <= v

\* The schedules of S are due: each gets its job, unless it has it, and moves on.
Dispatch(S) ==
  /\ \A s \in S : plan[s].ready /\ plan[s].next <= now
  /\ made' = [s \in Schedules |-> IF s \in S THEN made[s] \cup {plan[s].next} ELSE made[s]]
  /\ plan' = [s \in Schedules |->
       IF s \in S
       THEN [plan[s] EXCEPT !.next = Following(plan[s].expr, plan[s].next),
                            !.runs = IF plan[s].next \in made[s] THEN plan[s].runs ELSE plan[s].runs + 1]
       ELSE plan[s]]
  /\ UNCHANGED now

\* A request changes one schedule in any way, but makes no job and counts none.
Change(s) ==
  /\ \A z \in Schedules \ {s} : plan'[z] = plan[z]
  /\ plan'[s].runs = plan[s].runs
  /\ UNCHANGED <<now, made>>

Pass == now' = now + 1 /\ UNCHANGED <<plan, made>>

DispatchNext ==
  \/ \E S \in SUBSET Schedules : Dispatch(S)
  \/ \E s \in Schedules : Change(s)
  \/ Pass

DispatchSpec == DispatchInit /\ [][DispatchNext]_dispatchVars
=============================================================================
