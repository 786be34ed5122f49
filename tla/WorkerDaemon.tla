---------------------------- MODULE WorkerDaemon -----------------------------
(***************************************************************************)
(* One worker process (daemon.py, main.py, heartbeat.py) from registration *)
(* to its end: the polling loop and its semaphore, the tasks of the jobs   *)
(* it claimed, the heartbeat, and the stop() tasks its signals start.      *)
(* Around it: its row in the table workers, which operators and the reaper *)
(* write too, and the rows of the jobs, which other workers claim.         *)
(*                                                                         *)
(* The process is one asyncio event loop: what lies between two awaits is  *)
(* one step.  The life of a job beyond its holder is in JobLifecycle.      *)
(***************************************************************************)
EXTENDS Integers, FiniteSets

CONSTANTS
  Jobs,
  Claims,       (* names for the claims of this worker; a name is used     *)
                (* again once neither a task nor a row has it              *)
  Concurrency,  (* concurrency limit of the worker                         *)
  Signals,      (* the SIGINTs and SIGTERMs it may receive                 *)
  NoJob, NoClaim, Foreign

ASSUME DaemonAssumption ==
  /\ Concurrency \in Nat
  /\ IsFiniteSet(Claims)
  /\ NoJob \notin Jobs
  /\ NoClaim \notin Claims /\ Foreign \notin Claims

VARIABLES
  proc,     (* the process                                                 *)
  running,  (* is_running                                                  *)
  loop,     (* where start() is                                            *)
  permits,  (* value of the semaphore                                      *)
  task,     (* the claim's task and job                                    *)
  active,   (* active_job_ids                                              *)
  heart,    (* the heartbeat task exists                                   *)
  stop,     (* where the stop() task of a signal is                        *)
  waits,    (* tasks a stop() still waits for                              *)
  worker,   (* the row of this worker in the table workers: its status     *)
  job       (* the table jobs: whose claim holds a row                     *)

daemon == <<proc, running, loop, permits, task, active, heart, stop, waits>>
vars == <<daemon, worker, job>>

LoopAt == {"register", "registered", "top", "waiting", "claiming", "claimed",
           "sleeping", "ended"}
StopAt == {"none", "drain", "beat", "gather", "close", "last", "done", "failed"}
NoTask == [at |-> "free", job |-> NoJob]
Task == [at: {"won", "created", "running"}, job: Jobs] \cup {NoTask}
WorkerStatus == {"absent", "alive", "draining", "dead"}
JobRow == [status: {"queued", "running", "done"},
           by: Claims \cup {NoClaim, Foreign}, live: BOOLEAN]

Released(status) == [status |-> status, by |-> NoClaim, live |-> FALSE]

Init ==
  /\ proc = "up" /\ running = FALSE /\ loop = "register"
  /\ permits = Concurrency
  /\ task = [c \in Claims |-> NoTask] /\ active = {}
  /\ heart = FALSE
  /\ stop = [s \in Signals |-> "none"] /\ waits = [s \in Signals |-> {}]
  /\ worker = "absent"
  /\ job = [j \in Jobs |-> Released("queued")]

-----------------------------------------------------------------------------
(* The polling loop.                                                       *)

GoesTo(from, to) == proc = "up" /\ loop = from /\ loop' = to

\* register(): its commit comes before start() goes on.
Register ==
  /\ GoesTo("register", "registered")
  /\ worker' = "alive"
  /\ UNCHANGED <<proc, running, permits, task, active, heart, stop, waits, job>>

\* start() sets is_running, also when a signal cleared it during register().
Begin ==
  /\ GoesTo("registered", "top")
  /\ running' = TRUE /\ heart' = TRUE
  /\ UNCHANGED <<proc, permits, task, active, stop, waits, worker, job>>

\* is_running is tested before and after the wait for a permit.
MayPoll == loop \in {"top", "waiting"} /\ running

Poll ==
  /\ proc = "up" /\ MayPoll /\ permits > 0
  /\ permits' = permits - 1 /\ loop' = "claiming"
  /\ UNCHANGED <<proc, running, task, active, heart, stop, waits, worker, job>>

WaitForPermit ==
  /\ running /\ permits = 0 /\ GoesTo("top", "waiting")
  /\ UNCHANGED <<proc, running, permits, task, active, heart, stop, waits, worker, job>>

\* The loop ends; a permit it was waiting for is taken and released again.
LeaveLoop ==
  /\ ~running
  /\ \/ GoesTo("top", "ended")
     \/ permits > 0 /\ GoesTo("waiting", "ended")
  /\ UNCHANGED <<proc, running, permits, task, active, heart, stop, waits, worker, job>>

Unused(c) == task[c].at = "free" /\ \A j \in Jobs : job[j].by # c

\* claim_next_job commits ...
ClaimCommit(c, j) ==
  /\ Unused(c) /\ job[j].status = "queued"
  /\ GoesTo("claiming", "claimed")
  /\ job' = [job EXCEPT ![j] = [status |-> "running", by |-> c, live |-> TRUE]]
  /\ task' = [task EXCEPT ![c] = [at |-> "won", job |-> j]]
  /\ UNCHANGED <<proc, running, permits, active, heart, stop, waits, worker>>

\* ... and its task is created,
Launch(c) ==
  /\ task[c].at = "won"
  /\ GoesTo("claimed", "top")
  /\ task' = [task EXCEPT ![c] = [at |-> "created", job |-> task[c].job]]
  /\ UNCHANGED <<proc, running, permits, active, heart, stop, waits, worker, job>>

\* Variant: an exception in the loop keeps the permit.
AfterLostReplyKept == permits
AfterLostReply == permits + 1

\* or the answer of the commit is lost: the row is claimed, and no task knows.
ReplyLost(c) ==
  /\ task[c].at = "won"
  /\ GoesTo("claimed", "sleeping")
  /\ permits' = AfterLostReply
  /\ task' = [task EXCEPT ![c] = NoTask]
  /\ UNCHANGED <<proc, running, active, heart, stop, waits, worker, job>>

\* Nothing to claim, a refusal of the rate limiter, or an error.
ClaimNothing ==
  /\ GoesTo("claiming", "sleeping")
  /\ permits' = permits + 1
  /\ UNCHANGED <<proc, running, task, active, heart, stop, waits, worker, job>>

Wake ==
  /\ GoesTo("sleeping", "top")
  /\ UNCHANGED <<proc, running, permits, task, active, heart, stop, waits, worker, job>>

-----------------------------------------------------------------------------
(* The tasks.                                                              *)

BeginTask(c) ==
  /\ proc = "up" /\ task[c].at = "created"
  /\ task' = [task EXCEPT ![c] = [at |-> "running", job |-> task[c].job]]
  /\ active' = active \cup {task[c].job}
  /\ UNCHANGED <<proc, running, loop, permits, heart, stop, waits, worker, job>>

Holds(c, j) == job[j].status = "running" /\ job[j].by = c

\* Variant: the cleanup is skipped when the finalization raised.
EndedOnSuccess(c, kept) == IF kept THEN active ELSE active \ {task[c].job}
Ended(c, kept) == active \ {task[c].job}

\* The fenced finalization completes, buries or re-queues the row; a task whose
\* row was taken back, or whose transaction fails, changes nothing ("kept").
\* The id leaves the set whatever happened, and the permit is released.
EndTask(c) ==
  LET j == task[c].job IN
  /\ proc = "up" /\ task[c].at = "running"
  /\ \E outcome \in {"done", "queued", "kept"} :
       /\ outcome = "kept" \/ Holds(c, j)
       /\ job' = IF outcome = "kept" THEN job ELSE [job EXCEPT ![j] = Released(outcome)]
       /\ active' = Ended(c, outcome = "kept")
  /\ task' = [task EXCEPT ![c] = NoTask]
  /\ permits' = permits + 1
  /\ waits' = [s \in Signals |-> waits[s] \ {c}]
  /\ UNCHANGED <<proc, running, loop, heart, stop, worker>>

-----------------------------------------------------------------------------
(* The heartbeat.                                                          *)

Renewed(j) == j \in active /\ job[j].status = "running" /\ job[j].by \in Claims

\* _record_heartbeat: liveness and leases in one transaction.  It never writes
\* the status, and fails on its foreign key once the row was deregistered.
Beat ==
  /\ worker # "absent"
  /\ job' = [j \in Jobs |-> IF Renewed(j) THEN [job[j] EXCEPT !.live = TRUE] ELSE job[j]]

Heartbeat == proc = "up" /\ heart /\ Beat /\ UNCHANGED <<daemon, worker>>

-----------------------------------------------------------------------------
(* stop().                                                                 *)

StopGoes(s, from, to) ==
  proc = "up" /\ stop[s] = from /\ stop' = [stop EXCEPT ![s] = to]

Signal(s) ==
  /\ StopGoes(s, "none", "drain")
  /\ running' = FALSE
  /\ UNCHANGED <<proc, loop, permits, task, active, heart, waits, worker, job>>

\* A row that was deregistered stays absent.
Marked(status) ==
  worker' = IF worker = "absent" THEN worker ELSE status

MarkDraining(s) ==
  /\ StopGoes(s, "drain", "beat") /\ Marked("draining")
  /\ UNCHANGED <<proc, running, loop, permits, task, active, heart, waits, job>>

\* The heartbeat may fail; the tasks to wait for are those of this moment.
DrainBeat(s) ==
  /\ StopGoes(s, "beat", "gather")
  /\ waits' = [waits EXCEPT ![s] = {c \in Claims : task[c].at \in {"created", "running"}}]
  /\ Beat \/ UNCHANGED job
  /\ UNCHANGED <<proc, running, loop, permits, task, active, heart, worker>>

Gathered(s) ==
  /\ waits[s] = {}
  /\ StopGoes(s, "gather", "close")
  /\ UNCHANGED <<proc, running, loop, permits, task, active, heart, waits, worker, job>>

StopHeart(s) ==
  /\ StopGoes(s, "close", "last")
  /\ heart' = FALSE
  /\ UNCHANGED <<proc, running, loop, permits, task, active, waits, worker, job>>

MarkDead(s) ==
  /\ StopGoes(s, "last", "done") /\ Marked("dead")
  /\ UNCHANGED <<proc, running, loop, permits, task, active, heart, waits, job>>

\* A database error in stop() is caught by nobody.
StopFails(s) ==
  /\ (StopGoes(s, "drain", "failed") \/ StopGoes(s, "last", "failed"))
  /\ UNCHANGED <<proc, running, loop, permits, task, active, heart, waits, worker, job>>

\* Nothing of the process is left; cancelled tasks roll back.
Gone(how) ==
  /\ proc = "up" /\ proc' = how
  /\ running' = FALSE /\ loop' = "ended" /\ permits' = Concurrency
  /\ task' = [c \in Claims |-> NoTask] /\ active' = {} /\ heart' = FALSE
  /\ stop' = [s \in Signals |-> "done"] /\ waits' = [s \in Signals |-> {}]
  /\ UNCHANGED <<worker, job>>

\* main() returns when start() does, and asyncio.run cancels what is left: the
\* tasks, the heartbeat and stop() itself.
Exit == loop = "ended" /\ Gone("exited")
Crash == Gone("crashed")

-----------------------------------------------------------------------------
(* The others.                                                             *)

\* drain_worker and delete_worker; the daemon reads neither.
OperatorDrains ==
  /\ worker # "absent" /\ worker' = "draining" /\ UNCHANGED <<daemon, job>>
Deregister ==
  /\ worker # "absent" /\ worker' = "absent" /\ UNCHANGED <<daemon, job>>

\* The reaper, after 30 seconds without a heartbeat, which may pass at any time.
MarkSilentDead ==
  /\ worker = "alive" /\ worker' = "dead" /\ UNCHANGED <<daemon, job>>

LeaseExpires(j) ==
  /\ job[j].live /\ job' = [job EXCEPT ![j].live = FALSE]
  /\ UNCHANGED <<daemon, worker>>
Reap(j) ==
  /\ job[j].status = "running" /\ ~job[j].live
  /\ \E status \in {"queued", "done"} : job' = [job EXCEPT ![j] = Released(status)]
  /\ UNCHANGED <<daemon, worker>>

\* A job of another worker; it is counted as held until that one is done with it.
ForeignClaim(j) ==
  /\ job[j].status = "queued"
  /\ job' = [job EXCEPT ![j] = [status |-> "running", by |-> Foreign, live |-> TRUE]]
  /\ UNCHANGED <<daemon, worker>>
ForeignEnd(j) ==
  /\ Holds(Foreign, j)
  /\ \E status \in {"queued", "done"} : job' = [job EXCEPT ![j] = Released(status)]
  /\ UNCHANGED <<daemon, worker>>

-----------------------------------------------------------------------------
LoopStep ==
  \/ Register \/ Begin \/ Poll \/ WaitForPermit \/ LeaveLoop
  \/ \E c \in Claims : Launch(c) \/ ReplyLost(c) \/ (\E j \in Jobs : ClaimCommit(c, j))
  \/ ClaimNothing \/ Wake

StopStep(s) ==
  \/ Signal(s) \/ MarkDraining(s) \/ DrainBeat(s) \/ Gathered(s)
  \/ StopHeart(s) \/ MarkDead(s) \/ StopFails(s)

Others ==
  \/ OperatorDrains \/ Deregister \/ MarkSilentDead
  \/ \E j \in Jobs : LeaseExpires(j) \/ Reap(j) \/ ForeignClaim(j) \/ ForeignEnd(j)

Next ==
  \/ LoopStep
  \/ \E c \in Claims : BeginTask(c) \/ EndTask(c)
  \/ Heartbeat
  \/ \E s \in Signals : StopStep(s)
  \/ Exit \/ Crash
  \/ Others

Spec == Init /\ [][Next]_vars

\* The event loop of a living process goes on, handlers return, and a poll that
\* finds a job again and again does not fail every time.
ProcessFairness ==
  /\ WF_vars(LoopStep) /\ WF_vars(Exit)
  /\ \A c \in Claims : WF_vars(BeginTask(c)) /\ WF_vars(EndTask(c))
  /\ \A j \in Jobs : SF_vars(\E c \in Claims : ClaimCommit(c, j))

\* The scheduler process sweeps for ever, and time passes.
SweepFairness == \A j \in Jobs : WF_vars(LeaseExpires(j)) /\ WF_vars(Reap(j))

FairSpec == Spec /\ ProcessFairness /\ SweepFairness

-----------------------------------------------------------------------------
(* Correctness.                                                            *)

\* The values of the process and of the rows.
TypeOK ==
  /\ proc \in {"up", "exited", "crashed"} /\ running \in BOOLEAN /\ heart \in BOOLEAN
  /\ loop \in LoopAt
  /\ permits \in 0..Concurrency
  /\ task \in [Claims -> Task] /\ active \in SUBSET Jobs
  /\ stop \in [Signals -> StopAt] /\ waits \in [Signals -> SUBSET Claims]
  /\ worker \in WorkerStatus /\ job \in [Jobs -> JobRow]

\* Every permit is with the semaphore, with the poll in progress, or with exactly
\* one task: none is lost or released twice by an error, a claim whose answer was
\* lost, or two tasks of one job (daemon.py:133).
InFlight == {c \in Claims : task[c].at # "free"}
PollHolds == IF loop = "claiming" THEN 1 ELSE 0
PermitsAccounted == permits + PollHolds + Cardinality(InFlight) = Concurrency

\* The heartbeat renews no job that no task of this process is working on; such a
\* row would look alive for ever and no reaper would take it back (daemon.py:122).
RenewsOnlyTasks ==
  \A j \in active : \E c \in Claims : task[c].at = "running" /\ task[c].job = j

\* A queued job is claimed by someone while this worker polls: no path through the
\* loop or a task uses the permits up.
Polling == proc = "up" /\ running /\ loop \notin {"register", "registered"}
QueuedIsClaimed ==
  \A j \in Jobs : Polling /\ job[j].status = "queued" ~> ~Polling \/ job[j].status # "queued"

\* A signal that arrives after start() began polling ends the process, also when
\* stop() fails or waits for a full set of tasks.
Stopping == proc = "up" /\ ~running /\ loop \notin {"register", "registered"}
SignalEndsProcess == Stopping ~> proc # "up"

\* A row this worker claimed but has no task for (a lost answer, a failed
\* finalization, a task that was cancelled by the exit or died) is taken back.
AbandonedIsReaped ==
  \A c \in Claims, j \in Jobs : Holds(c, j) /\ task[c].at = "free" ~> ~Holds(c, j)

\* "Jobs currently being processed are guaranteed to finish before the process
\* terminates" (docs/design-decisions.md:292): what the code does not do.
ExitIsDrained ==
  [][proc' = "exited" /\ proc = "up" => \A c \in Claims : task[c].at # "running"]_vars
=============================================================================
