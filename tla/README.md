# Formal verification of the distributed job scheduler

TLA+ models of the job scheduler in `src/`, their TLC configurations, and TLAPS
proofs. The code is Python: a FastAPI backend (`backend/app`), a worker daemon
and a scheduler process (`worker/app`), all of which meet in one PostgreSQL
database. No process talks to another directly. What has to be right is
therefore what the processes read and write in the database, in which order,
and what happens between a read and the write that is based on it.

## 1. The system

| Component | State it keeps | Operations | Where |
|---|---|---|---|
| job table | one row per job: status, attempts, lease token, owner, lease expiry, `run_at`, parent | written by everything below | `models/job.py` |
| dead letter queue | one entry per job (unique), `is_replayed` | replay, replay all, purge | `models/job.py`, `services/dlq_service.py` |
| claimer | row lock on a queue, running count | `claim_next_job` | `engine/claimer.py` |
| runner | lease token and attempt count held in memory | `execute_job`: handler, fenced UPDATE, children, retry, burial | `engine/runner.py` |
| daemon | semaphore, tasks, `active_job_ids` | `start`, `_execute_with_semaphore`, `stop` | `engine/daemon.py`, `main.py` |
| heartbeat | none of its own | renews leases of `active_job_ids` | `heartbeat.py` |
| reaper | rows read by a sweep | `reap_expired_leases` | `reaper.py` |
| promoter | none | `promote_due_jobs` | `promoter.py` |
| cron dispatcher | `next_run_at` of every schedule | `dispatch_due_schedules`, schedule CRUD | `cron.py`, `schedule_service.py` |
| rate limiter | token bucket per queue and process | `allow_claim` | `engine/rate_limiter.py` |
| retry policy | none | `calculate_delay` | `engine/retry.py` |
| side effects | `idempotency_records` | `execute_idempotent_operation` | `engine/context.py` |
| job service | rows read by a request | create (immediate, delayed, child, keyed, bulk), cancel, retry | `services/job_service.py` |
| batch service | counters of a batch | create, cancel, retry, read | `services/batch_service.py` |
| queue service | pause, limit, rate, priority | create, update, pause, resume | `services/queue_service.py` |
| live feed | list of websockets, broadcasts in progress; the socket, timers and fetches of a tab | connect, broadcast, disconnect; login, reconnect, fetch, logout | `core/ws_manager.py`, `api/v1/ws.py`, `frontend/src/App.jsx` |
| worker table | status of a worker | register, heartbeat, drain, deregister, declare dead | `models/worker.py`, `api/v1/workers.py` |
| the rest | accounts, projects, telemetry, other views | CRUD, read-only | listed in `PROJECT.json` |

**Interactions.** A client creates a row; a worker claims it (status `running`,
fresh lease token, expiry); the worker's heartbeat renews the expiry; the runner
finalizes with an UPDATE that matches only the token it was given (fencing); if
the worker dies the reaper re-queues or buries the row once its lease expired;
the promoter queues rows whose backoff or delay is over; a finished parent
queues or cancels its children; an operator cancels, retries, replays, purges.

**What is hard.** Everything runs at READ COMMITTED. A single SQL statement
with a WHERE clause is safe by itself. Most handlers, however, SELECT ORM
objects without a lock, decide, and commit later; the unit of work then writes
*by primary key* and only the columns whose value differs from the one *read*.
Leases time out while their holder lives; zombies finish after their successor;
a process may die between any two steps; an operator may act at any of them.
The complete list of hazards, each at its line with the properties that watch
it, is in `PROJECT.json` under `hazards`.

**What correct means, per component.** Claiming and finalizing: one holder per
job, only a holder's outcome is applied, once. Reaper: takes expired rows only;
nobody's crash leaves a row running for ever. Retry: no more runs than
`max_retries`. Dead letters: an exhausted job can be replayed. Parent and child:
a child runs after its parent completed, is released by its completion and
cancelled by its death. Queue: never more running jobs than its limit, nothing
claimed while paused. Cron and keyed submission: one job per occurrence or key.
Side effects: performed once per job and operation. Daemon: every permit is given
back once, only tasks are renewed, a signal ends the process. Batches: there as a
whole or not at all, and reported final only when no job may still run. Rate and
retries: no start above the rate or before its delay, no attempt for a claim that was
undone. Live feed: every open socket is served, and a tab that was told of a change
shows it.

## 2. Modules

| Module | What it is |
|---|---|
| `FencedLease` | abstract specification of lease fencing: `holder` of every job, `fate` of every token; `Grant`, `Revoke`, `Apply` |
| `JobLifecycle` | rows and entries with every process that writes them; implements `FencedLease` |
| `QueueClaim` | which queue and job a claim takes: row locks, running count, pause, limit, priority, deadlocks |
| `IdempotentOperation` | the side effects of a job whose attempts fail, overlap and crash |
| `OneDispatcher` | abstract specification of dispatching: one dispatcher that takes, counts and advances due schedules in one step |
| `CronDispatch` | schedules, dispatcher replicas and schedule requests; implements `OneDispatcher` |
| `WorkerDaemon` | one worker process: loop, semaphore, tasks, heartbeat, `stop()`, its row |
| `BatchOrchestration` | keyed, bulk and batch creation, cancel and retry of a batch beside workers |
| `Pacing` | when a job may start: token buckets and retry delays of one queue |
| `LiveFeed` | websockets, broadcasts and the tabs that follow them |
| `...Proofs` | the TLAPS proofs about each of these but the abstract specifications |
| `MC...` | their instances for TLC |

The modules share the job table and cut it at different columns. `JobLifecycle` lets any
due queued row be claimed; `QueueClaim` says which rows those are, and there a job is
only `queued`, `running` or gone. `IdempotentOperation` follows one job and takes its claim,
loss of lease and fenced finalization from `JobLifecycle` as single steps. `CronDispatch` ends
where a job row is inserted; the locks such an insert takes on the queue are in `QueueClaim`.
`WorkerDaemon` takes the claim and the finalization as single steps and looks at the process
around them; `Pacing` does the same and adds the bucket the claim asks and the delay a failure
leads to. `BatchOrchestration` has the requests that touch many rows or a key; creation
without a key, and the child that a bulk request inserts, are in `JobLifecycle`.

### How `JobLifecycle` corresponds to the code

*State.* `rows` and `dlq` are the two tables, restricted to the columns that
decide something. `attempt[t]` is the claim that drew lease token `t` with what
`execute_job` holds in local variables: the count it read at its start, the
handler's outcome, and, between the fenced UPDATE and the commit, the children
it read. `session[s]` is an open transaction of an API request or of the reaper
with the ORM objects it read. `active` is `active_job_ids` of every worker, `up` the
live workers, `ops` a counter that bounds operator requests.

*Steps.* One SQL statement is one step. Claiming is one step: the statements between the queue lock and the
commit hold the candidate row locked. `execute_job` is three: `StartAttempt`, then `FinalizeUpdate` (the
fenced UPDATE matched, which locks the row, and the waiting children are read) or `FinalizeFenced` (no row
matched), then `FinalizeCommit`, where the children, the reschedule or the dead letter entry become visible.
Cancel, retry, replay, replay-all and the reaper are a read (`CancelRead`, ..., `ReapRead`, with
`ReapLookup` for the entries the reaper looks up in its loop) and one common `Flush`; `OrmColumn` says which
columns a commit writes. `RollBack` is the end of such a transaction that does not commit: the request
raised, the sweep failed or was cancelled (`database.py:34-46`). Creating a child alone is `CreateRead` (the
parent) and `CreateInsert`; bulk and batch creation are `CreateMany`, one transaction that inserts any set
of jobs, in which a child only needs its parent to exist and is queued whatever that parent does. The
promoter and the heartbeat are single statements.

*Time.* An expiry is `none`, `live` or `expired`; a `run_at` is `due`, `later` or
`never` (9999-12-31, which `create_job` gives a waiting child). `LeaseExpires` and
`TimePasses` may happen at any moment, so every timing is covered.

*`Overtaking`.* With `TRUE` any process may act between the read and the commit
of another one's transaction. With `FALSE` an open transaction is finished before
anything new begins: this separates what is wrong only under such races from what
is wrong, or right, without them. Neither value restricts crashes.

*Abstractions.* Names, payloads, results, traces, logs, priorities and execution
records are left out: nothing in this module decides on them. Worker ids and tokens are
never reused: both contain fresh random parts.

### How `QueueClaim` corresponds to the code

*State.* `queue[q]` has the columns the claimer reads (paused, limit, priority), `job[j]` a
status and whether its lease has lapsed. `poll[c]` is the transaction of a claimer: the
candidates it has left in the order of its first SELECT, the queue it is at, the
locks it holds. `insert[i]` is a transaction that inserts jobs (a cron sweep, a bulk
creation) and takes a share lock on the queue of each; `request[o]` an operator's edit.

*Steps.* `StartPoll` is the SELECT of the candidate queues; `LockQueue` the `FOR UPDATE` that waits
for its lock and re-reads the row; `CountRunning` and `PickJob` the count and the `SKIP LOCKED`
pick; `CommitClaim`, `RefuseClaim` and `EndPoll` the three ends. A queue that is passed over
keeps its lock until the poll ends, as in the code. `ClaimerVictim` and `InserterVictim` are
PostgreSQL aborting one transaction of a cycle of waits.

### How `IdempotentOperation` corresponds to the code

`attempt[a]` is one claim of the job: the operation its handler is at, the effects it performed,
the records it flushed. `Check`, `Call` and `Flush` are the three parts of
`execute_idempotent_operation`. A flushed record is visible to its own transaction; its key
blocks another insert of the key (`Blocked`) and, through its foreign key, hides the job
from `FOR UPDATE SKIP LOCKED` (`RowShared`). `Finalize` commits them with the outcome, also when
the attempt failed or was fenced. A handler performs its operations in one order. `func()` may raise,
before its effect or after it (`CallRaises`); the handler lets the exception through or catches it and
goes on. `done` are the operations whose `func()` returned, `lost` those that took effect and raised.

### How `CronDispatch` corresponds to the code

`row` is `scheduled_jobs`, `jobs[s]` the occurrences with a job under their key, `sweep[r]` the rows
a replica has locked as it read them, `req[c]` the row a request read and the row it means
to leave. `SweepRead` is the `SKIP LOCKED` SELECT, `SweepCommit` the inserts and the new `next_run_at`
(one step: the rows are locked, and nobody else inserts these keys), `SweepFails` the sweep that
raises, is rolled back and tried again, `RequestCommit` writes
the columns that differ from those read (`Written`). A cron expression is the set of times
it fires at. Resuming a schedule leaves `next_run_at`: the occurrences of the pause are
dispatched afterwards, one per sweep. An edit whose new next run equals the one it
read does not write the column, so a sweep that moved on meanwhile leaves the next run of
the old expression; no documentation speaks of it.

`OneDispatcher` knows neither replicas nor open transactions: a `plan` for every schedule (may it run,
when, by which expression, how often it did) and the occurrences `made`. Under `Plan`, which is the row
as a query sees it, a sweep that commits is a `Dispatch` of the rows it locked and a request that commits
a `Change` of its row; reading, dying and waiting are stutters. The refinement says that what a sweep
read is still what it writes from, however long its transaction was open: it dispatches only schedules
that are due and neither paused nor deleted at its commit, and counts and advances each with its job.

### How `WorkerDaemon` corresponds to the code

*State.* `loop` is where `start()` is, `permits` the value of the semaphore, `task[c]` the asyncio task of
a claim and the job it runs, `active` the ids in `active_job_ids`, `heart` whether the heartbeat task
exists, `stop[s]` where the `stop()` task of a signal is and `waits[s]` the tasks it gathers. `worker` and `job`
are the rows other processes write as well. A claim's name is used again when neither a
task nor a row has it.

*Steps.* The process is one event loop, so a step is what lies between two awaits. `Poll` and
`WaitForPermit` take the permit; `ClaimCommit`, then `Launch` (a task was created) or `ReplyLost` (the
commit succeeded and its answer did not arrive); `ClaimNothing` and `Wake` are the sleep of an empty or
failed poll. `BeginTask` and `EndTask` are the two halves of `_execute_with_semaphore`, whose finalization
may succeed, find itself fenced, or fail. `MarkDraining`, `DrainBeat`, `Gathered`, `StopHeart` and
`MarkDead` are the parts of `stop()`, `StopFails` an exception in any of those that talk to the database.
`Exit` is the return of `main()`, which cancels every task that is left. `OperatorDrains` and `Deregister`
are the API, `MarkSilentDead` and `Reap` the reaper, `ForeignClaim` and `ForeignEnd` other workers.

### How `BatchOrchestration` corresponds to the code

*State.* `row` and `batch` are the committed tables. `req[r]` is an open request: an insertion with the keys
it brings, the ids it has resolved so far and the rows it inserted itself (invisible to others
until its commit, but their keys make others wait); a re-read after a lost answer or a unique
violation; or an update of a batch with the status it read and the rows it locked. `told` are
the answers given so far.

*Steps.* One statement is one step: look-up and insert of each key, the commit, the abort
by a deadlock or a taken key, the lost answer, the read, the UPDATE by status and the commit of
a cancellation or retry. A statement sees what is committed when it starts. `get_batch` reads
the row of the batch and then counts its jobs: `Report` derives the status it answers from a status read
earlier and the counts of now. The stored counters are not kept, because only listings
show them.

### How `Pacing` corresponds to the code

Time is counted in ticks, `Second` of them to a second, and tokens in units of a `Second`th, so that a
bucket of rate *n* gains *n* units a tick and no fraction is rounded. `bucket[p]` is the bucket of a
process with the rate it was made with (`_get_bucket` never changes it); `recent[p]` counts
what it gave in every window. `claim` is the open claim: it holds the row lock of the queue, which
is why one is enough. A claim whose answer is lost (`ReplyLost`) leaves an `orphaned` row, which the
reaper takes back (`Reclaim`); `OperatorRetries` is `retry_job`, and `ordered` marks the jobs it re-queued
until they start. `Delays` is the set of delays `calculate_delay` may return under a policy. The
run takes an integer multiplier; the code's is a float from 1 to 10. A delay counts from the end of
the attempt, as `run_at` does.

### How `LiveFeed` corresponds to the code

`conns` is `active_connections`, `cast[c]` a broadcast with its position in that list: `for connection in
self.active_connections` walks the list itself, so whatever connects or disconnects while a send is awaited
shifts it. `sock` has the socket's handler, `inbox` the messages on their way, `tab` the session, `wsRef`
and the reconnection timers of a browser tab, `fetch` its open `refreshData` calls. `version` numbers the
committed changes; `WorkerCommits` changes the table without a message, since a worker's own list of
connections is empty. `owed` is the change a tab was told of and has not shown: it is what `TabsCatchUp`
speaks of. `Without` is a recursive function over the places of a list (`Kept`) and not `SelectSeq`, which
the provers cannot expand.

## 3. Runs

| Run | Question | Instance |
|---|---|---|
| `fencing` | do the tokens keep the promise of `FencedLease`, with every race open? | parent and child, 2 workers, 3 claims, 1 request, 1 reaper |
| `calm` | budget, dead letter entries, parent before a child that waits or is created alone, ended stays ended, running is leased, when no transaction is overtaken | same, 2 retries, 2 requests |
| `recovery` | is a job orphaned by a crash or a failed commit taken back, and does a queued job end while a worker is up, through retries, promotion and re-queuing by the reaper? | 1 job, 2 retries, 2 workers, 3 claims, 1 request, fair |
| `claiming` | no claim from a paused queue, none beyond the limit counted under the lock, and is a queue with ready jobs and room served, through deadlocks? | 2 queues, 2 claimers (one assigned to one queue), 4 jobs, 2 sweeps over both queues, 1 operator request, fair |
| `side_effects` | is a recorded effect never repeated, one that returned kept once and on record, and does every attempt end, though `func()` may raise after its effect? | 3 attempts, 2 operations, 2 attempts that may crash, fair |
| `cron` | one job per occurrence, replicas that act as one dispatcher, what is due is dispatched? | 2 schedules, 2 replicas whose sweeps may fail (one may die), 2 clients, 2 expressions, clock 0..3, 3 requests, fair |
| `daemon` | permits and renewals match the tasks; does the loop go on claiming, a signal end the process, an abandoned row leave it? | 1 job, 2 claims, limit 2, 1 signal, fair |
| `batches` | one job per key for everyone, whole batches, true reports, and do requests end? | 4 jobs, 2 keys in both orders, 1 batch, 2 open requests, 3 in all, fair |
| `pacing` | is the rate kept in every window, an undone claim free, a lost one counted, a retry never early, and does every job end? | 2 jobs, 2 retries, 2 processes, 2 policies, rate 1 or none, a second of 2 ticks, 1 update or operator's retry, 1 fault, fair |
| `live_feed` | is every open socket listed, who may a broadcast pass over, do feeds balance, does a told tab catch up? | 1 tab, 3 sockets, 2 broadcasts, 2 changes, 2 logins, 1 close, fair |
| `second_burial` | "the commit of a finalization succeeds" | violated, see section 4 |
| `graceful_stop` | "jobs in flight finish before the process terminates" | violated, see section 4 |

**Bounds.** `Tokens` and `Attempts` bound the number of claims, `MaxOps` the requests, `MaxFaults` lost
claims, lost answers and restarts, `MaxTime` the clock of `CronDispatch`, `MaxVersion`, `MaxLogins` and
`MaxCloses` the live feed; they only stop further claims, requests or ticks and never change one. Two claims
of one job are what a zombie and its successor need, the third lets the other job, or a third owner, take
part. One parent and one child exercise both roles; siblings would only repeat the child. In `recovery` two
claims use up the retries of the job, by a failure and its promotion or a lapse and its sweep, and the third
is the one an operator's retry adds. Two queues of two jobs are what a cycle of waits needs: a job in each
that a claimer saw, and one in each that a sweep inserts. Three requests let a schedule be created and then
edited by two overlapping requests, and three ticks leave a backlog of several occurrences. In `daemon` two
permits and one job are enough for a zombie beside its successor in the same process, and names of claims
are used again, so the process never runs out of them. In `batches` two keys in opposite orders give the
deadlock, a key and a job without one the mixed batch, and three requests a creation with an overlapping
cancellation and retry. In `pacing` a window of a second sees a full bucket emptied, refilled and emptied
again; two attempts show a retry, a burial and a redriven job, and how a delay grows with the number of the
attempt is left to the proofs; the linear strategy and the default policy have a delay of their own, are
covered by the proofs and left out of the instance. In `live_feed` three sockets are what two logins and one
close can use (a reconnection needs an unused one), one fetch slot makes overlapping fetches wait for each
other, and a logout counts as a close. Deadlock of the model is not checked: a bounded instance stops when
its tokens, requests and ticks are used up, and the real system idles when there is nothing to do (deadlocks
of the database are states of `QueueClaim` and `BatchOrchestration`). Symmetry is used only in runs without
liveness.

**Fairness.** `JobLifecycle` (run `recovery`): the loops of the scheduler process run for ever
(`reaper.py:143`, `promoter.py`), so their sweeps are weakly fair. A sweep may be rolled back, and then the
next one begins; its look-ups and its commit are strongly fair, which says that not every sweep is. An open
request commits or is rolled back; a worker that is up polls for ever (`daemon.py:132`), so a due queued job
is eventually claimed; handlers return, and their finalization commits; time passes. Nothing is assumed of
crashes, heartbeats, refusals or operators. In `recovery` nothing is overtaken: a sweep that overtakes a
completion re-queues the job (section 4) and the claims of a bounded instance would run out. `QueueClaim`
(`claiming`): claimers go on, transactions end, the database breaks deadlocks, a bucket that refused
refills, and of the jobs that run under an unexpired lease some job ends; nothing is assumed of a job whose
lease has expired, nor of the reaper. `IdempotentOperation`: a living worker goes on. `CronDispatch`: a
replica that lives sweeps, and not every sweep of it fails (`cron.py:150` tries again for ever); the
transaction of one that may die ends in either way; clients may stop at any point. `WorkerDaemon`: the event
loop runs what is ready, so the loop, the tasks and the exit are weakly fair; a claim of a queued job is
strongly fair, because it may lose the row to others now and then; the reaper sweeps and leases expire.
Nothing is assumed of signals, heartbeats, `stop()` or operators. `BatchOrchestration`: a request goes on to
its end, the database breaks deadlocks; workers owe nothing. `Pacing`: time passes, processes poll for ever,
handlers return, promoter and reaper sweep. `LiveFeed`: the event loops of the API and of the tabs run what
is ready, timers fire, answers arrive or fail; a fetch that fails counts as having been tried, since the
code then waits for the next message.

## 4. What the code does against its documentation

Two are `violation` runs with one property each, and a finding that quotes the line:

* `second_burial`: a redriven job that exhausts its retries again violates the unique
  entry and its finalization is rolled back (`runner.py:275`).
* `graceful_stop`: the process ends with its polling loop and cancels the tasks `stop()` still waits for
  (`main.py:35`; docs/design-decisions.md:292 promises "zero aborted tasks").

The others have no run of their own: reading the code settles them, or a property above covers
the weaker promise that does hold. The models contain these steps unless a bullet says otherwise.

*Leases and rows.*

* A sweep that is overtaken takes a job whose lease was just renewed or that was completed, because
  its commit is by primary key (`reaper.py:51`). `fencing` shows that the old holder is fenced off even then.
* Overtaken retries leave a running row without owner and expiry, which no heartbeat renews and no sweep
  selects (`job_service.py:411`, `reaper.py:55`): the first restores the status of a row that was claimed
  meanwhile and leaves its expiry, the second reads that and clears it after the next claim. `calm` checks
  `RunningIsLeased` for transactions that are not overtaken.
* The end of a fenced attempt removes the id under which the same worker's newer attempt is renewed
  (`daemon.py:122`). `RenewsOnlyTasks` is the other direction, which holds.
* The running count leaves out expired leases, and a heartbeat that comes after the expiry renews
  them all the same: the queue then runs more than its limit (`claimer.py:89`).
* A manual retry re-queues a running or completed job (`job_service.py:409`, docstring at 393).
* The reaper buries a job without cancelling its waiting children (`reaper.py:80`; compare
  docs/architecture.md:95); they stay scheduled for the year 9999.
* A child inserted while its parent completes is never released (`job_service.py:62`): `calm` checks
  `CompletedParentReleases` for transactions that are not overtaken.
* Bulk requests and batches do not look at the parent at all: the child is queued at once
  (`job_service.py:190`, `batch_service.py:78`), where docs/architecture.md:93 has dependent children "wait
  in `SCHEDULED` status until the parent succeeds". `JobLifecycle` contains this (`CreateMany`), and
  `ChildAfterParent` speaks of the children that wait or that `create_job` inserts.
* A child that failed and is scheduled for a retry waits for its parent like a new one, and for ever if the
  parent never completes (`promoter.py:48`): `QueuedJobEnds` is about jobs without a parent.
* Passing over a queue keeps its row lock, so claimers, and claimers and cron sweeps, can
  deadlock (`claimer.py:94`; planner.md:597 asks for "zero deadlocks"). `claiming` has these deadlocks and
  shows that service goes on.
* An effect is performed before anything is recorded, and the record commits with the attempt:
  a crash after the call, or a zombie beside its successor, repeats the effect
  (`context.py:71`, `context.py:86`; compare planner.md:335). What holds is what `side_effects` checks.
* A `func()` that has its effect and then raises leaves no record, while the failed attempt commits
  (`context.py:71`, `runner.py:103`): the retry repeats the effect without a crash or a zombie, where
  docs/architecture.md:109 promises "zero duplicate external side-effects across retry attempts". `KeptOnce` and
  `EffectsRecorded` say that this is the only exception among the attempts that commit.
* Delays are not AWS Full Jitter, as docs/architecture.md:86-89, docs/design-decisions.md:51-53 and the
  docstring at `retry.py:11` have it: they would be drawn from zero up. `calculate_delay` draws between half
  of the delay and all of it and never returns less than a second (`retry.py:57-64`). `BackoffHolds` is
  about the code, and would not hold of the documented formula. An operator's retry starts a job at once.

*Workers.*

* A signal handled while `register()` still awaits the database is forgotten: `start()` sets `is_running`
  afterwards (`daemon.py:130`). `SignalEndsProcess` is about later signals.
* Draining a worker through the API writes its row, which the daemon never reads: it polls on
  (`workers.py:110`).
* A deregistered worker keeps claiming, and its heartbeats fail on their foreign key, so its leases expire
  under it (`heartbeat.py:86`). A `stop()` that fails in between leaves the row draining or alive
  (`daemon.py:176`).
* The diagnosis of a failure is a synchronous HTTP call inside the finalization: no lease of the
  worker is renewed while it lasts (`ai_diagnostics.py:59`); handlers have no timeout. In the models a lease may
  expire at any time.

*Rate, batches and dashboard.*

* A bucket keeps the rate of its first use, and every worker process has its own: N workers run N times the
  rate, and any bucket gives up to twice its rate in a second after a pause (`rate_limiter.py:44`;
  docs/architecture.md:97-99 speaks of strict throughput caps). `WindowBounded` is the bound per process.
* A refused claim returns at once: while a queue of high priority has no tokens nothing is claimed
  from the others (`claimer.py:161`).
* A retry of a batch that read `processing` does not write the status, and leaves the `cancelled` of an
  overlapping cancellation while the jobs run (`batch_service.py:246`); `ReportIsTrue` leaves cancelled
  batches out.
* Creating a batch with a key that is taken fails as a whole; listings show counters that only `get_batch`
  refreshes (`batches.py:53`).
* A broadcast goes "to all connected clients" (`ws_manager.py:29`), but passes over a connected one when the
  list shifts under it (`ws_manager.py:36`). `SkipsBounded` says how many it may pass over.
* Broadcasts of workers, reaper and promoter go to the empty list of their own process: no dashboard
  hears of a job that started or ended (`runner.py:81`; README.md:204).
* A closed socket reconnects also when the tab closed it, so a logged-out tab keeps its feed
  (`App.jsx:90`). Its handlers are closures of the render that connected and fetch for the selection of
  that moment (`App.jsx:84`); overlapping fetches may be shown in the wrong order (`App.jsx:144`). The last
  two are not in `LiveFeed`.

## 5. Proofs

`JobLifecycleProofs` proves, for every value of the constants that satisfies
`LifecycleAssumption` (any number of jobs, workers, tokens, clients and reapers, any
forest of parents, races on or off):

* `TypeCorrect`: `Spec => []TypeOK`;
* `FinalizersHold`, the invariant of run `fencing`, and `RunningClaimed`: a running row belongs to a claim that
  is worked on, crashed or rolled back;
* `ZombiesStayFenced`: `LeaseNeverRegained`, an action property;
* `LifecycleFencesLeases`: `Spec => ImplementsLease`, the refinement of `FencedLease`.

*Argument.* `TypeOK` is not inductive by itself: an attempt's job has to exist before its
row can be read, hence `AttemptNamed`. The fencing invariants rest on `FenceInv`, which
adds: a token left on a row names that row's job (`TokenNamesJob`; a cancelled row may
keep its token); the rows a sweep read were running (`SessionsPresent`: otherwise an
unchanged status with a cleared token could be written); a row that a client is about to
insert does not exist yet and nobody else inserts it (`CreatesAbsent`); entries and
awaited children belong to rows that exist (`EntryHasRow`, `KidsPresent`). The key lemma is
`LosesNext`: every step except a claim only *loses* leases (`Loses`). From it follow the
preservation of `FenceInv`, `LeaseNeverRegained` and the refinement: a claim is a `Grant`, a
step in which an outcome is applied is an `Apply`, any other step a `Revoke` of the jobs that
lost their holder (possibly none). None of the proofs uses `Quiet`, so they hold
whatever transactions overlap.

Its second part proves the six properties of run `calm` under `~Overtaking`: `AttemptBudget`,
`DeadLetterIsPending`, `CompletedParentReleases`, `RunningIsLeased`, `EndedStaysEnded` and
`ChildAfterParent`. Crashes, lapses and failures stay as they are; only requests, sweeps and finalizations
do not overlap. `CalmInv` adds to `FenceInv` that at most one transaction is open (`Exclusive`) and that
what it read is still what the tables hold: the rows and entries of a request or sweep (`ReadsCurrent`), the
children of a finalization (`KidsCurrent`), the parent of a row about to be inserted (`CreateCurrent`; a
bulk creation reads nothing, and `ManyInserted` says that what it inserts were no rows before), the count of
an attempt that holds its job (`CountCurrent`). `AttemptBudget` is strengthened to `Budget`: a job that may
be claimed again has a run left, since a request adds one run *before* its transaction re-queues the job.
`RunningIsLeased` follows from `LeasesNext`: what is written from a current read never leaves a row running,
so a row that runs was claimed by the step or kept its lease. The hypothesis is needed: section 4 tells what
an overtaken sweep, insertion or retry does to a completed job, a waiting child and a running one.

`QueueClaimProofs` proves `TypeOK` of `QueueClaim`, and the two promises of a claim: `ClaimsFit` (the
jobs that run after a claim commits are within the limit, among those whose lease has not
lapsed) and `PausedQueuesRest`. The invariant `ClaimInv` says what a claimer knows under its lock: the
row it re-read is current, the lock is exclusive, the count it took can only have
shrunk.

`IdempotentOperationProofs` proves the type invariant and the three invariants of run `side_effects`. Its `Inv`
relates, for every attempt, what it performed to what it flushed and to the records it found
(`Consistent`), and says that open transactions hold disjoint keys (`FreshApart`) and that no two attempts that
committed have a returned operation in common (`DoneApart`); what raised after its effect is kept
apart in `lost`, of which nothing is promised. Every step changes one
attempt, which is `StepOfOne`.

`CronDispatchProofs` proves the type invariant, both invariants and the refinement of `CronDispatch`, for
any set of expressions that always have a next occurrence. `LockInv`: a locked row is as it was read, due
and locked once; `InsertInv`: a schedule about to be inserted does not exist; `JobInv`: jobs belong to
schedules that exist and are finitely many. `ReplicasActAsOne` is `Spec => ImplementsOneDispatcher`, in one
lemma per kind of step: `SweepDispatches`, where `LockInv` makes what was read what is there,
`RequestChanges`, which needs that the row of a schedule that was never created counts no runs (`NewRows`),
and the rest, failing sweeps among them.

`WorkerDaemonProofs` proves the type invariant and both invariants of run `daemon`, for any limit and any number
of jobs, claims and signals. `PermitsAccounted` counts permits, the poll in progress and the
tasks; the proof rests on the finiteness of `Claims` and on each step moving one permit.

`PacingProofs` proves `TypeOK`, `WindowBounded`, `AttemptsAreRuns` and `BackoffHolds`, for every rate,
policy, window and number of processes. `PacingInv` adds to the types `Limited` (only a claim under a rate
asks a bucket), `Paced` (what a bucket gave in a window and still has fits the burst and the refill),
`Claiming` (a claim in progress is of a due row), `Counted` (attempts are runs and lost claims, and a row
that waits has one left in its budget) and `Rested` (what a failed job has waited and will wait make a
second, through promotion, loss and re-queuing, unless an operator ordered it).

`BatchOrchestrationProofs` proves the type invariant, `AnswersAgree`, `BatchIsWhole`, `ReportIsTrue` and
`WorkersEndJobs`, for any set of keys, bulk lists and requests. `BatchOrchestrationInv` is `Typed`,
`EachSound` (what an open insertion has resolved is committed or its own), `KeyInv` (a key names one row,
committed or about to be), `LocksApart` (no two updates hold a row) and `BatchInv` (the rows of a batch are
those it counts). `ReportIsTrue` is about a batch that was read as `processing`, whatever its row says when
its jobs are counted. The steps fall into those that change one status, those of one request, and the commit
that publishes its rows: `StatusStep`, `RequestStep`, `PublishStep`.

`LiveFeedProofs` proves all four invariants of `LiveFeed`, for any number of tabs, sockets and broadcasts.
`FeedInv` adds to the types that a broadcast stands at a place and is about a committed change
(`CastsSound`), whose socket is whose (`TabsOwn`), that every open connection is listed once and a broadcast
only purges connections that are gone (`Listing`), that a tab has finitely many feeds (`FeedsCounted`), and
`Walked`: what a broadcast was pushed past, that is, the connections of its start it neither sent to nor has
still ahead (`Missed`), is at any moment no more than what left the list since. At the end of the list
nothing is ahead, and this is `SkipsBounded`. The step that matters is a removal (`Skipped`): of the places
ahead it takes away at most one more for every connection it takes from the list. A list without some of its
elements is computed by a recursive function; what that preserves (`WithoutSound`) is shown along the
function with an induction over a *set* of numbers (`UpTo`, from `LeastElement`), since the library's
induction takes an operator.

The type invariants are proved, so no run repeats them.

*Only model-checked* is liveness, which is beyond the prover: `OrphansRecovered`, `QueuedJobEnds`,
`QueueServed`, `AttemptEnds`, `DueServed`, `QueuedIsClaimed`, `SignalEndsProcess`, `AbandonedIsReaped`,
`RequestsEnd`, `JobsEnd` and `TabsCatchUp`.

## 6. What is left

A larger instance of `Pacing`: a rate above one, and windows of several seconds.

**Not modelled.** Accounts, projects and access control: single-row writes under a role check. Telemetry and
the listings: they change nothing. Handlers and diagnosis: external code that returns or raises,
which the models choose freely. Schemas, migrations and application wiring: they fix the types
and constraints that the models take over (unique keys, foreign keys). The views of the frontend other than
the live feed: forms over the API. Scripts and deployment: seeding and images.
