---------------------------- MODULE CronDispatch -----------------------------
(***************************************************************************)
(* Recurring schedules (models/schedule.py): replicas of the dispatcher    *)
(* (cron.py) turn due occurrences into jobs while API requests             *)
(* (schedule_service.py) create, edit, pause, resume and delete schedules. *)
(*                                                                         *)
(* A sweep locks the due rows nobody else has locked, inserts one job per  *)
(* row under the key of the occurrence, advances the rows and commits.  A  *)
(* request reads a row without a lock and writes what it changed later.    *)
(***************************************************************************)
EXTENDS Naturals, FiniteSets

CONSTANTS
  Schedules, Replicas, Clients,
  Mortal,       (* replicas that may die                                   *)
  Expressions,  (* cron expressions                                        *)
  Fires,        (* the times at which each expression fires                *)
  MaxTime,      (* bound: the clock stops there                            *)
  MaxOps        (* bound: number of requests                               *)

Times == 0..MaxTime

\* There is a next occurrence after every time, as croniter presumes.
ASSUME CronAssumption ==
  /\ MaxTime \in Nat /\ MaxOps \in Nat /\ Mortal \subseteq Replicas
  /\ Expressions # {}
  /\ \A e \in Expressions :
       /\ \A u \in Fires[e] : u \in Nat
       /\ \A t \in Times : \E u \in Fires[e] :
            u > t /\ \A v \in Fires[e] : v > t => u <= v

VARIABLES
  now,    (* the time                                                      *)
  row,    (* the table scheduled_jobs                                      *)
  jobs,   (* the occurrences of every schedule a job was inserted for      *)
  up,     (* replicas that are running                                     *)
  sweep,  (* the rows each replica has locked, as it read them             *)
  req,    (* the request of every client                                   *)
  ops     (* number of requests                                            *)

vars == <<now, row, jobs, up, sweep, req, ops>>

\* "since" is the next_run_at at which the present expression began to count
\* (not in the code).
Row == [state: {"absent", "present", "deleted"},
        active: BOOLEAN,
        expr: Expressions,
        next: Nat,     (* next_run_at                                      *)
        runs: Nat,     (* total_runs_count                                 *)
        since: Nat]
\* The rows one sweep holds.
IsSweep(f) == \E due \in SUBSET Schedules : f \in [due -> Row]

\* A request leaves the row it read as "ask".
Request == [op: {"insert", "update", "delete"}, on: Schedules, read: Row, ask: Row]
Done == [op |-> "none"]

\* The smallest occurrence after base.
NextRun(e, base) ==
  CHOOSE u \in Fires[e] : u > base /\ \A v \in Fires[e] : v > base => u <= v

Init ==
  /\ now = 0 /\ ops = 0
  /\ \E e \in Expressions :
       row = [s \in Schedules |-> [state |-> "absent", active |-> TRUE, expr |-> e,
                                   next |-> 0, runs |-> 0, since |-> 0]]
  /\ jobs = [s \in Schedules |-> {}]
  /\ up = Replicas
  /\ sweep = [r \in Replicas |-> [s \in {} |-> row[s]]]
  /\ req = [c \in Clients |-> Done]

Tick ==
  /\ now < MaxTime /\ now' = now + 1
  /\ UNCHANGED <<row, jobs, up, sweep, req, ops>>

-----------------------------------------------------------------------------
(* The dispatcher.                                                         *)

Present(s) == row[s].state = "present"
Due(s) == Present(s) /\ row[s].active /\ row[s].next <= now
Locked(s) == \E r \in Replicas : s \in DOMAIN sweep[r]

\* FOR UPDATE SKIP LOCKED: the due rows that no other sweep holds.
SweepRead(r) ==
  LET due == {s \in Schedules : Due(s) /\ ~Locked(s)} IN
  /\ r \in up /\ DOMAIN sweep[r] = {} /\ due # {}
  /\ sweep' = [sweep EXCEPT ![r] = [s \in due |-> row[s]]]
  /\ UNCHANGED <<now, row, jobs, up, req, ops>>

\* Variant: an occurrence that was suppressed is counted all the same.
CountedTwice(s, read) == read.runs + 1
\* ON CONFLICT DO NOTHING: only an inserted occurrence is counted.
Counted(s, read) == IF read.next \in jobs[s] THEN read.runs ELSE read.runs + 1

\* Variant: what was missed while no dispatcher ran is skipped.
AdvancedFromNow(read) == NextRun(read.expr, now)
\* The next run follows the occurrence, not the clock.
Advanced(read) == NextRun(read.expr, read.next)

\* The job of every locked row and its next run are committed together.
SweepCommit(r) ==
  LET due == DOMAIN sweep[r] IN
  /\ r \in up /\ due # {}
  /\ jobs' = [s \in Schedules |->
                IF s \in due THEN jobs[s] \cup {sweep[r][s].next} ELSE jobs[s]]
  /\ row' = [s \in Schedules |->
               IF s \in due THEN [row[s] EXCEPT !.next = Advanced(sweep[r][s]),
                                                !.runs = Counted(s, sweep[r][s])]
                            ELSE row[s]]
  /\ sweep' = [sweep EXCEPT ![r] = [s \in {} |-> row[s]]]
  /\ UNCHANGED <<now, up, req, ops>>

\* A statement or the commit fails: the loop closes the session, which rolls the whole
\* sweep back, and tries again five seconds later.
SweepFails(r) ==
  /\ r \in up /\ DOMAIN sweep[r] # {}
  /\ sweep' = [sweep EXCEPT ![r] = [s \in {} |-> row[s]]]
  /\ UNCHANGED <<now, row, jobs, up, req, ops>>

\* Variant: the transaction of the dead replica stays open.
DieHolding(r) ==
  /\ r \in Mortal \cap up
  /\ up' = up \ {r}
  /\ UNCHANGED <<now, row, jobs, sweep, req, ops>>
\* The shutdown of a scheduler process cancels its loops, or the process dies: the
\* database rolls its whole sweep back.
Die(r) ==
  /\ r \in Mortal \cap up
  /\ up' = up \ {r}
  /\ sweep' = [sweep EXCEPT ![r] = [s \in {} |-> row[s]]]
  /\ UNCHANGED <<now, row, jobs, req, ops>>

-----------------------------------------------------------------------------
(* The requests.                                                           *)

Asks(c, op, s, ask) ==
  /\ req[c] = Done /\ ops < MaxOps
  /\ req' = [req EXCEPT ![c] = [op |-> op, on |-> s, read |-> row[s], ask |-> ask]]
  /\ ops' = ops + 1
  /\ UNCHANGED <<now, row, jobs, up, sweep>>

\* A new schedule has a new id.
CreateRead(c, s, e) ==
  /\ row[s].state = "absent"
  /\ \A d \in Clients : req[d].op = "insert" => req[d].on # s
  /\ Asks(c, "insert", s, [state |-> "present", active |-> TRUE, expr |-> e,
                           next |-> NextRun(e, now), runs |-> 0, since |-> NextRun(e, now)])

\* Pause, resume, or any update without an expression: the next run stays.
PauseRead(c, s, active) ==
  /\ Present(s)
  /\ Asks(c, "update", s, [row[s] EXCEPT !.active = active])

\* An update with an expression: the next run is computed from the clock.
EditRead(c, s, e, active) ==
  /\ Present(s)
  /\ Asks(c, "update", s, [row[s] EXCEPT !.active = active, !.expr = e,
                                         !.next = NextRun(e, now)])

DeleteRead(c, s) ==
  /\ Present(s)
  /\ Asks(c, "delete", s, [row[s] EXCEPT !.state = "deleted"])

\* The ORM writes the columns whose value is not the one that was read.
Written(s, read, ask) ==
  LET next == IF ask.next # read.next THEN ask.next ELSE row[s].next IN
  [row[s] EXCEPT
     !.active = IF ask.active # read.active THEN ask.active ELSE row[s].active,
     !.expr = IF ask.expr # read.expr THEN ask.expr ELSE row[s].expr,
     !.next = next,
     !.since = IF ask.expr # read.expr \/ ask.next # read.next THEN next ELSE row[s].since]

\* A row that was deleted in between is not updated (StaleDataError).
After(c) ==
  LET s == req[c].on IN
  IF req[c].op = "insert" THEN req[c].ask
  ELSE IF ~Present(s) THEN row[s]
  ELSE IF req[c].op = "delete" THEN [row[s] EXCEPT !.state = "deleted"]
  ELSE Written(s, req[c].read, req[c].ask)

\* Variant: requests do not wait for the dispatcher.
BlockedNever(s) == FALSE
\* An UPDATE or DELETE waits for the sweep that locked the row.
Blocked(s) == Locked(s)

RequestCommit(c) ==
  /\ req[c] # Done /\ ~Blocked(req[c].on)
  /\ row' = [row EXCEPT ![req[c].on] = After(c)]
  /\ req' = [req EXCEPT ![c] = Done]
  /\ UNCHANGED <<now, jobs, up, sweep, ops>>

-----------------------------------------------------------------------------
Next ==
  \/ Tick
  \/ \E r \in Replicas : SweepRead(r) \/ SweepCommit(r) \/ SweepFails(r) \/ Die(r)
  \/ \E c \in Clients : RequestCommit(c)
  \/ \E c \in Clients, s \in Schedules :
       \/ \E e \in Expressions : CreateRead(c, s, e)
       \/ \E b \in BOOLEAN : PauseRead(c, s, b)
       \/ \E e \in Expressions, b \in BOOLEAN : EditRead(c, s, e, b)
       \/ DeleteRead(c, s)

Spec == Init /\ [][Next]_vars

\* A replica that lives sweeps every five seconds, and not all its sweeps fail.
Fairness == \A r \in Replicas \ Mortal : WF_vars(SweepRead(r)) /\ SF_vars(SweepCommit(r))

\* Nor do those of a mortal one, unless it dies; its locks go either way.
Releases == \A r \in Mortal : SF_vars(SweepCommit(r) \/ Die(r))

FairSpec == Spec /\ Fairness /\ Releases

-----------------------------------------------------------------------------
(* Correctness.                                                            *)

\* The values of the tables and transactions; a dead replica holds no lock.
TypeOK ==
  /\ now \in Times
  /\ row \in [Schedules -> Row]
  /\ jobs \in [Schedules -> SUBSET Nat]
  /\ up \in SUBSET Replicas
  /\ DOMAIN sweep = Replicas /\ \A r \in Replicas : IsSweep(sweep[r])
  /\ \A r \in Replicas \ up : DOMAIN sweep[r] = {}
  /\ req \in [Clients -> Request \cup {Done}]
  /\ ops \in 0..MaxOps

\* "Guarantees exactly one job is created for each scheduled interval, regardless
\* of how many scheduler replicas run concurrently" (planner.md:349).  None is
\* missing: every occurrence between the first of the present expression and the
\* next run has its job, through downtime, death of replicas and pauses.
NoOccurrenceMissed ==
  \A s \in Schedules : Present(s) =>
    \A t \in Fires[row[s].expr] :
      row[s].since <= t /\ t < row[s].next => t \in jobs[s]

\* ... and none comes twice: the run counter is the number of jobs, although an
\* edit that was overtaken by a sweep sets the next run back.
RunsCounted ==
  \A s \in Schedules : Present(s) => row[s].runs = Cardinality(jobs[s])

\* What is visible of a schedule.
Plan ==
  [s \in Schedules |-> [ready |-> Present(s) /\ row[s].active, next |-> row[s].next,
                        expr |-> row[s].expr, runs |-> row[s].runs]]
One == INSTANCE OneDispatcher WITH plan <- Plan, made <- jobs

\* However many replicas sweep, fail and die, and whatever requests overtake them, it is as if
\* one dispatcher took the schedules as they are, only due ones that are neither paused
\* nor deleted, and made, counted and advanced them in one step (cron.py:41-126).
ImplementsOneDispatcher == One!DispatchSpec

\* A due schedule is served until it is up to date, paused or deleted.
DueServed == \A s \in Schedules : Due(s) ~> ~Due(s)
=============================================================================
