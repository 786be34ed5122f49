------------------------------- MODULE Pacing --------------------------------
(***************************************************************************)
(* When a job of one queue may start: the token bucket that a worker       *)
(* process asks before it keeps a claim (rate_limiter.py, claimer.py) and  *)
(* the delay of a retry (retry.py, runner.py, promoter.py), while the      *)
(* operator changes the limit and the retry policy (queue_service.py).     *)
(*                                                                         *)
(* A claim locks the row of the queue, so one process claims at a time and *)
(* an update of the queue waits.  Every process has its own bucket, made   *)
(* at its first limited claim with the rate it read then.  Time is counted *)
(* in ticks, and a token in Second units, so that a bucket of rate n gains *)
(* n units a tick.                                                         *)
(***************************************************************************)
EXTENDS Naturals

CONSTANTS
  Jobs,       (* jobs of the queue                                         *)
  Processes,  (* worker processes                                          *)
  Second,     (* ticks of a second                                         *)
  Rates,      (* values of rate_limit_rps; NoLimit stands for NULL         *)
  Policies,   (* rows of retry_policies, NoPolicy where there is none      *)
  MaxRetries, (* max_retries of every job                                  *)
  MaxOps,     (* bound: updates of the queue and retries by an operator    *)
  MaxFaults,  (* bound: lost claims, lost answers and restarts             *)
  Window,     (* length of the longest window over which starts are counted*)
  NoLimit, NoPolicy, NoJob

\* A row of retry_policies.  The multiplier is a float between 1 and 10 in the code.
Policy == [strategy: {"fixed", "linear", "exponential"}, initial: Nat \ {0}, max: Nat \ {0},
           multiplier: Nat \ {0}, jitter: BOOLEAN]

ASSUME PacingAssumption ==
  /\ Second \in Nat \ {0} /\ Window \in Nat
  /\ Policies \subseteq Policy \cup {NoPolicy} /\ NoPolicy \notin Policy
  /\ Rates \subseteq (Nat \ {0}) \cup {NoLimit} /\ NoLimit \notin Nat
  /\ MaxRetries \in Nat /\ MaxOps \in Nat /\ MaxFaults \in Nat
  /\ NoJob \notin Jobs /\ "none" \notin Processes

VARIABLES
  queue,   (* rate and retry policy of the queue                           *)
  job,     (* rows: status, attempt_count, ticks left until run_at         *)
  claim,   (* the open claim transaction                                   *)
  bucket,  (* the bucket of every process                                  *)
  recent,  (* how often a bucket gave a token within the last w ticks      *)
  runs,    (* how often a job was started                                  *)
  rest,    (* ticks since the last failure of a job, at most Second        *)
  lost,    (* how often a job was claimed and its worker never heard of it *)
  forced,  (* how often an operator retried a job                          *)
  ordered, (* retried by an operator, and not started since                *)
  ops, faults

vars == <<queue, job, claim, bucket, recent, runs, rest, lost, forced, ordered, ops, faults>>

Least(a, b) == IF a <= b THEN a ELSE b
Most(a, b) == IF a >= b THEN a ELSE b

\* An "orphaned" row is "running" in the table, and nobody works on it.
JobRow == [status: {"queued", "running", "orphaned", "scheduled", "ended"},
           attempts: Nat, wait: Nat]
Bucket == [made: BOOLEAN, rate: Nat, tokens: Nat, since: 0..Second]
NoBucket == [made |-> FALSE, rate |-> 0, tokens |-> 0, since |-> 0]
\* What create_queue, or a queue inserted without a policy, starts with.
NewQueues == [rate: Rates, policy: Policies]
NoClaim == [by |-> "none", job |-> NoJob, rate |-> NoLimit, granted |-> FALSE]

Init ==
  /\ queue \in NewQueues
  /\ job = [j \in Jobs |-> [status |-> "queued", attempts |-> 0, wait |-> 0]]
  /\ claim = NoClaim
  /\ bucket = [p \in Processes |-> NoBucket]
  /\ recent = [p \in Processes |-> [w \in 0..Window |-> 0]]
  /\ runs = [j \in Jobs |-> 0] /\ rest = [j \in Jobs |-> 0]
  /\ lost = [j \in Jobs |-> 0] /\ forced = [j \in Jobs |-> 0]
  /\ ordered = [j \in Jobs |-> FALSE]
  /\ ops = 0 /\ faults = 0

-----------------------------------------------------------------------------
(* The delay of a retry.                                                   *)

PolicyOf(policy) ==
  IF policy = NoPolicy
  THEN [strategy |-> "exponential", initial |-> 5, max |-> 3600, multiplier |-> 2, jitter |-> TRUE]
  ELSE policy

\* Seconds before the cap, after the attempt of number n.
RawDelay(policy, n) ==
  CASE policy.strategy = "linear" -> policy.initial * n
    [] policy.strategy = "exponential" -> policy.initial * policy.multiplier ^ (n - 1)
    [] OTHER -> policy.initial

\* What min() and the jitter leave of it: the least and the most ticks.
MostTicks(policy, n) == Second * Least(policy.max, RawDelay(policy, n))
LeastTicks(policy, n) ==
  IF policy.jitter THEN (MostTicks(policy, n) + 1) \div 2 ELSE MostTicks(policy, n)

\* Variant: the floor of a second is missing.
DelaysNoFloor(policy, n) ==
  {d \in 0 .. Second * policy.max : LeastTicks(policy, n) <= d /\ d <= MostTicks(policy, n)}
\* calculate_delay, in ticks: a second at least, whatever is drawn.
Delays(policy, n) ==
  {d \in Second .. Second * policy.max : LeastTicks(policy, n) <= d /\ d <= MostTicks(policy, n)}

-----------------------------------------------------------------------------
(* The token bucket.                                                       *)

Made(rate) ==
  [made |-> TRUE, rate |-> Most(1, rate), tokens |-> Second * Most(1, rate), since |-> 0]

\* The bucket of p when it is asked under a limit.
BucketFor(p, rate) == IF bucket[p].made THEN bucket[p] ELSE Made(rate)

Refill(b) == Least(Second * b.rate, b.tokens + b.since * b.rate)

Grants(b) == Refill(b) >= Second

\* Variant: a grant does not note the time of the refill.
AfterGrantUntimed(b) == [b EXCEPT !.tokens = Refill(b) - Second]
AfterGrant(b) == [b EXCEPT !.tokens = Refill(b) - Second, !.since = 0]
\* Variant: a refusal notes the time and forgets what was refilled.
AfterRefusalForgetful(b) == [b EXCEPT !.since = 0]
AfterRefusal(b) == [b EXCEPT !.tokens = Refill(b), !.since = 0]

-----------------------------------------------------------------------------
(* Claims.                                                                 *)

\* The lock of the queue, its row, and the claim statement.
PickJob(p, j) ==
  /\ claim = NoClaim
  /\ job[j].status = "queued" /\ job[j].wait = 0
  /\ claim' = [by |-> p, job |-> j, rate |-> queue.rate, granted |-> queue.rate = NoLimit]
  /\ UNCHANGED <<queue, job, bucket, recent, runs, rest, lost, forced, ordered, ops, faults>>

Asks(p) == claim.by = p /\ ~claim.granted

Granted(p) ==
  LET b == BucketFor(p, claim.rate)
  IN  /\ Asks(p) /\ Grants(b)
      /\ bucket' = [bucket EXCEPT ![p] = AfterGrant(b)]
      /\ recent' = [recent EXCEPT ![p] = [w \in 0..Window |-> recent[p][w] + 1]]
      /\ claim' = [claim EXCEPT !.granted = TRUE]
      /\ UNCHANGED <<queue, job, runs, rest, lost, forced, ordered, ops, faults>>

\* Variant: the refused claim keeps its attempt.
AttemptsAfterRefusalKept(n) == n
\* The claim statement has counted an attempt, the refusal takes it back.
AttemptsAfterRefusal(n) == IF n > 0 THEN n - 1 ELSE 0

Refused(p) ==
  LET b == BucketFor(p, claim.rate)
  IN  /\ Asks(p) /\ ~Grants(b)
      /\ bucket' = [bucket EXCEPT ![p] = AfterRefusal(b)]
      /\ job' = [job EXCEPT ![claim.job].attempts = AttemptsAfterRefusal(job[claim.job].attempts + 1)]
      /\ claim' = NoClaim
      /\ UNCHANGED <<queue, recent, runs, rest, lost, forced, ordered, ops, faults>>

CommitClaim(p) ==
  LET j == claim.job
  IN  /\ claim.by = p /\ claim.granted
      /\ job' = [job EXCEPT ![j] =
           [status |-> "running", attempts |-> job[j].attempts + 1, wait |-> 0]]
      /\ runs' = [runs EXCEPT ![j] = runs[j] + 1]
      /\ ordered' = [ordered EXCEPT ![j] = FALSE]
      /\ claim' = NoClaim
      /\ UNCHANGED <<queue, bucket, recent, rest, lost, forced, ops, faults>>

\* The claim commits and its answer is lost: the loop goes on without the job.
ReplyLost(p) ==
  LET j == claim.job
  IN  /\ claim.by = p /\ claim.granted /\ faults < MaxFaults
      /\ job' = [job EXCEPT ![j] =
           [status |-> "orphaned", attempts |-> job[j].attempts + 1, wait |-> 0]]
      /\ lost' = [lost EXCEPT ![j] = lost[j] + 1]
      /\ claim' = NoClaim /\ faults' = faults + 1
      /\ UNCHANGED <<queue, bucket, recent, runs, rest, forced, ordered, ops>>

\* A statement or the commit fails; the token is spent.
ClaimLost(p) ==
  /\ claim.by = p /\ faults < MaxFaults
  /\ claim' = NoClaim /\ faults' = faults + 1
  /\ UNCHANGED <<queue, job, bucket, recent, runs, rest, lost, forced, ordered, ops>>

\* A new process: its bucket is full, its open claim is rolled back.
Restart(p) ==
  /\ faults < MaxFaults /\ faults' = faults + 1
  /\ bucket' = [bucket EXCEPT ![p] = NoBucket]
  /\ recent' = [recent EXCEPT ![p] = [w \in 0..Window |-> 0]]
  /\ claim' = IF claim.by = p THEN NoClaim ELSE claim
  /\ UNCHANGED <<queue, job, runs, rest, lost, forced, ordered, ops>>

-----------------------------------------------------------------------------
(* Runs and retries.                                                       *)

Succeed(j) ==
  /\ job[j].status = "running"
  /\ job' = [job EXCEPT ![j].status = "ended"]
  /\ UNCHANGED <<queue, claim, bucket, recent, runs, rest, lost, forced, ordered, ops, faults>>

\* The runner schedules a retry, or buries the job.
Fail(j) ==
  /\ job[j].status = "running"
  /\ IF job[j].attempts < MaxRetries
     THEN \E d \in Delays(PolicyOf(queue.policy), Most(1, job[j].attempts)) :
            job' = [job EXCEPT ![j].status = "scheduled", ![j].wait = d]
     ELSE job' = [job EXCEPT ![j].status = "ended"]
  /\ rest' = [rest EXCEPT ![j] = 0]
  /\ UNCHANGED <<queue, claim, bucket, recent, runs, lost, forced, ordered, ops, faults>>

\* The lease of an orphaned row has expired: the sweep re-queues it, due at once, or buries it.
Reclaim(j) ==
  /\ job[j].status = "orphaned"
  /\ job' = [job EXCEPT ![j].status = IF job[j].attempts < MaxRetries THEN "queued" ELSE "ended"]
  /\ UNCHANGED <<queue, claim, bucket, recent, runs, rest, lost, forced, ordered, ops, faults>>

\* retry_job re-queues the job at once, whatever became of it.  (One that is running is
\* retried in JobLifecycle.)
OperatorRetries(j) ==
  /\ job[j].status \in {"scheduled", "ended"} /\ ops < MaxOps /\ ops' = ops + 1
  /\ job' = [job EXCEPT ![j] = [status |-> "queued", attempts |-> job[j].attempts, wait |-> 0]]
  /\ forced' = [forced EXCEPT ![j] = forced[j] + 1]
  /\ ordered' = [ordered EXCEPT ![j] = TRUE]
  /\ UNCHANGED <<queue, claim, bucket, recent, runs, rest, lost, faults>>

Promote(j) ==
  /\ job[j].status = "scheduled" /\ job[j].wait = 0
  /\ job' = [job EXCEPT ![j].status = "queued"]
  /\ UNCHANGED <<queue, claim, bucket, recent, runs, rest, lost, forced, ordered, ops, faults>>

UpdateQueue ==
  /\ claim = NoClaim /\ ops < MaxOps /\ ops' = ops + 1
  /\ \/ \E rate \in Rates \ {NoLimit} : queue' = [queue EXCEPT !.rate = rate]
     \/ \E policy \in Policies \ {NoPolicy} : queue' = [queue EXCEPT !.policy = policy]
  /\ UNCHANGED <<job, claim, bucket, recent, runs, rest, lost, forced, ordered, faults>>

Tick ==
  /\ job' = [j \in Jobs |-> [job[j] EXCEPT !.wait = IF job[j].wait = 0 THEN 0 ELSE job[j].wait - 1]]
  /\ bucket' = [p \in Processes |-> [bucket[p] EXCEPT !.since =
                  IF bucket[p].made THEN Least(Second, bucket[p].since + 1) ELSE 0]]
  /\ recent' = [p \in Processes |-> [w \in 0..Window |-> IF w = 0 THEN 0 ELSE recent[p][w - 1]]]
  /\ rest' = [j \in Jobs |-> Least(Second, rest[j] + 1)]
  /\ UNCHANGED <<queue, claim, runs, lost, forced, ordered, ops, faults>>

-----------------------------------------------------------------------------
Claims(p) == (\E j \in Jobs : PickJob(p, j)) \/ Granted(p) \/ Refused(p) \/ CommitClaim(p)
EndRun(j) == Succeed(j) \/ Fail(j)

Next ==
  \/ \E p \in Processes : Claims(p) \/ ReplyLost(p) \/ ClaimLost(p) \/ Restart(p)
  \/ \E j \in Jobs : EndRun(j) \/ Promote(j) \/ Reclaim(j) \/ OperatorRetries(j)
  \/ UpdateQueue \/ Tick

Spec == Init /\ [][Next]_vars

\* Time passes, processes poll, handlers return, promoter and reaper sweep.
FairSpec ==
  /\ Spec /\ WF_vars(Tick)
  /\ \A p \in Processes : WF_vars(Claims(p))
  /\ \A j \in Jobs : WF_vars(EndRun(j)) /\ WF_vars(Promote(j)) /\ WF_vars(Reclaim(j))

-----------------------------------------------------------------------------
(* Correctness.                                                            *)

\* The types, and a bucket never holds more than a second's worth of tokens.
TypeOK ==
  /\ queue \in NewQueues /\ job \in [Jobs -> JobRow]
  /\ claim \in [by: Processes, job: Jobs, rate: Rates, granted: BOOLEAN] \cup {NoClaim}
  /\ bucket \in [Processes -> Bucket]
  /\ \A p \in Processes : bucket[p].tokens <= Second * bucket[p].rate
  /\ recent \in [Processes -> [0..Window -> Nat]]
  /\ runs \in [Jobs -> Nat] /\ rest \in [Jobs -> 0..Second]
  /\ lost \in [Jobs -> Nat] /\ forced \in [Jobs -> Nat] /\ ordered \in [Jobs -> BOOLEAN]
  /\ ops \in 0..MaxOps /\ faults \in 0..MaxFaults

\* However a process polls, and whatever the rate is set to meanwhile, its bucket gives
\* at most rate * w tokens within w seconds on top of a full bucket, for the rate the
\* bucket was made with (rate_limiter.py:17-29).
WindowBounded ==
  \A p \in Processes : \A w \in 0..Window :
    recent[p][w] * Second <= bucket[p].rate * Second + bucket[p].rate * w

\* A claim that is refused or rolled back costs no attempt, one that commits without its
\* worker hearing of it costs one: a job is started as often as it counts other attempts,
\* and not more often than its retries and the operator's allow (claimer.py:152-161).
AttemptsAreRuns ==
  \A j \in Jobs : /\ job[j].attempts = runs[j] + lost[j]
                  /\ job[j].attempts <= Most(1, MaxRetries) + forced[j]

\* A job that failed is not started again within a second, whatever its policy says or
\* is changed to and whatever claims of it are lost, unless an operator orders it
\* (retry.py:42-64, runner.py:189-206).  The full jitter of docs/architecture.md:86-89, from
\* zero up, would not wait that long: calculate_delay draws between half of the delay
\* and all of it, and never less than a second.
BackoffHolds ==
  [][\A j \in Jobs : runs'[j] # runs[j] /\ runs[j] > 0 /\ ~ordered[j] => rest[j] = Second]_vars

\* Every job comes to an end, also when it is retried by an operator, although claims are
\* refused at any rate of polling, rolled back, lost and retried.
JobsEnd == \A j \in Jobs : []<>(job[j].status = "ended")
=============================================================================
