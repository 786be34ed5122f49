---------------------------- MODULE JobLifecycle ----------------------------
(***************************************************************************)
(* The life of a job: the rows of the tables jobs and dead_letter_queue,   *)
(* and every process that writes them.                                     *)
(*                                                                         *)
(*   workers    claim a row (claimer.py), run its handler and finalize it  *)
(*              under the lease token they hold (runner.py), renew leases  *)
(*              (heartbeat.py), crash;                                     *)
(*   reapers    take back rows whose lease expired (reaper.py);            *)
(*   promoter   queues scheduled rows that are due (promoter.py);          *)
(*   clients    create, cancel, retry, replay and purge over the REST API  *)
(*              (job_service.py, dlq_service.py).                          *)
(*                                                                         *)
(* The database runs at READ COMMITTED.  One SQL statement with a WHERE    *)
(* clause is one atomic step; a handler that SELECTs ORM objects and later *)
(* commits is two, because nothing locks the rows in between, and what the *)
(* commit writes is decided by what was read (see OrmColumn).              *)
(*                                                                         *)
(* Time is abstract: lock_expires_at is "none" (NULL), "live" or           *)
(* "expired", run_at is "due", "later" or "never" (the year 9999 of a      *)
(* waiting child), and LeaseExpires and TimePasses let time overtake them. *)
(* Which queue a claim comes from (pause, limit, rate, priority) is not    *)
(* restricted here: any due queued row may be the one a claim selects.     *)
(*                                                                         *)
(* Definitions marked "Variant:" are deliberately wrong forms of the       *)
(* definition that follows; PROJECT.json says which property sees each.    *)
(***************************************************************************)
EXTENDS Naturals, FiniteSets

CONSTANTS
  Jobs,        (* ids of the job rows                                      *)
  Workers,     (* ids of the worker processes; an id is never reused       *)
  Tokens,      (* the lease tokens (uuid4); a finite set bounds the claims *)
  Clients,     (* API requests that may be open at the same time           *)
  Reapers,     (* reaper loops, one per scheduler replica                  *)
  Parent,      (* parent_job_id of every job, or NoJob                     *)
  MaxRetries,  (* max_retries of every job                                 *)
  MaxOps,      (* bound: cancel, retry, replay and purge requests issued   *)
  Overtaking,  (* TRUE: other processes may write between the read and the *)
               (* commit of an open transaction; FALSE: they never do      *)
  NoJob, NoToken, NoWorker

ASSUME LifecycleAssumption ==
  /\ NoJob \notin Jobs /\ NoToken \notin Tokens /\ NoWorker \notin Workers
  /\ Parent \in [Jobs -> Jobs \cup {NoJob}]
  /\ MaxRetries \in [Jobs -> Nat]
  /\ MaxOps \in Nat
  /\ Overtaking \in BOOLEAN
  /\ Clients \cap Reapers = {}

VARIABLES
  rows,     (* table jobs                                                  *)
  dlq,      (* table dead_letter_queue, unique per job                     *)
  attempt,  (* what became of the claim that drew each token               *)
  up,       (* worker processes that are alive                             *)
  active,   (* active_job_ids of every worker process                      *)
  session,  (* open ORM transactions: what they read                       *)
  ops       (* requests issued so far                                      *)

vars == <<rows, dlq, attempt, up, active, session, ops>>

Sessions == Clients \cup Reapers

Status == {"absent", "scheduled", "queued", "running",
           "completed", "dead_letter", "cancelled"}
Row == [status: Status, attempts: Nat, token: Tokens \cup {NoToken},
        owner: Workers \cup {NoWorker}, lease: {"none", "live", "expired"},
        runAt: {"due", "later", "never"}]

\* "purged" is a row that was deleted; the code cannot tell it from "none".
Entry == {"none", "pending", "replayed", "purged"}
HasEntry(e) == e \in {"pending", "replayed"}

Busy == {"claimed", "running", "finalizing"}
Applied == {"completed", "rescheduled", "dead"}
Phase == {"unissued"} \cup Busy \cup Applied \cup {"fenced", "aborted", "crashed"}
Attempt == [phase: Phase, job: Jobs \cup {NoJob}, worker: Workers \cup {NoWorker},
            count: Nat, ok: BOOLEAN, kids: SUBSET Jobs]

Op == {"idle", "create", "cancel", "retry", "replay", "sweep", "reap"}
Session == [op: Op, touched: SUBSET Jobs, rows: [Jobs -> Row], entries: [Jobs -> Entry]]

Absent == [status |-> "absent", attempts |-> 0, token |-> NoToken,
           owner |-> NoWorker, lease |-> "none", runAt |-> "due"]
Unissued == [phase |-> "unissued", job |-> NoJob, worker |-> NoWorker,
             count |-> 0, ok |-> FALSE, kids |-> {}]
Idle == [op |-> "idle", touched |-> {}, rows |-> [j \in Jobs |-> Absent],
         entries |-> [j \in Jobs |-> "none"]]

Init ==
  /\ rows = [j \in Jobs |-> Absent]
  /\ dlq = [j \in Jobs |-> "none"]
  /\ attempt = [t \in Tokens |-> Unissued]
  /\ up = Workers
  /\ active = [w \in Workers |-> {}]
  /\ session = [s \in Sessions |-> Idle]
  /\ ops = 0

-----------------------------------------------------------------------------
(* Rows, leases and locks.                                                 *)

Running(j) == rows[j].status = "running"
\* Variant: rows without retries left are never swept.
ExpiredRetryable(j) ==
  Running(j) /\ rows[j].lease = "expired" /\ rows[j].attempts < MaxRetries[j]
Expired(j) == Running(j) /\ rows[j].lease = "expired"

\* Variant: the fence compares the token and forgets the status.
HoldsAnyStatus(t) ==
  LET j == attempt[t].job
  IN  j \in Jobs /\ rows[j].token = t
\* Variant: the fence checks the status and forgets the token.
HoldsAnyToken(t) ==
  LET j == attempt[t].job
  IN  j \in Jobs /\ Running(j)
\* The claim that drew t still owns its job.
Holds(t) ==
  LET j == attempt[t].job
  IN  j \in Jobs /\ Running(j) /\ rows[j].token = t

\* The row with the lock columns that a finalization and a reap clear.
Released(r, status) ==
  [r EXCEPT !.status = status, !.token = NoToken, !.owner = NoWorker, !.lease = "none"]

\* Variant: the row is not locked while the finalization is open.
LockedNever(j) == FALSE
\* A fenced UPDATE locks the row until its transaction ends; every other
\* writer of that row waits.
Locked(j) == \E t \in Tokens : attempt[t].phase = "finalizing" /\ attempt[t].job = j

\* The attempt t ends in the given phase; only its job and worker are remembered.
Closed(t, phase) ==
  [attempt[t] EXCEPT !.phase = phase, !.count = 0, !.ok = FALSE, !.kids = {}]

\* Unless Overtaking, nothing else begins while a transaction is open.
OpenTransaction ==
  \/ \E s \in Sessions : session[s].op # "idle"
  \/ \E t \in Tokens : attempt[t].phase = "finalizing"

Quiet == OpenTransaction => Overtaking

-----------------------------------------------------------------------------
(* Workers.                                                                *)

\* Variant: a token left on the row is kept, COALESCE(lease_token, :lease_token).
ClaimKeepsToken(w, j, t) ==
  /\ Quiet
  /\ w \in up
  /\ rows[j].status = "queued" /\ rows[j].runAt = "due"
  /\ attempt[t].phase = "unissued"
  /\ rows' = [rows EXCEPT ![j] = [rows[j] EXCEPT !.status = "running", !.owner = w, !.lease = "live",
                                  !.token = IF rows[j].token = NoToken THEN t ELSE rows[j].token, !.attempts = rows[j].attempts + 1]]
  /\ attempt' = [attempt EXCEPT ![t] =
                   [Unissued EXCEPT !.phase = "claimed", !.job = j, !.worker = w]]
  /\ UNCHANGED <<dlq, up, active, session, ops>>

\* claim_next_job: the claim statement and its commit.
Claim(w, j, t) ==
  /\ Quiet
  /\ w \in up
  /\ rows[j].status = "queued" /\ rows[j].runAt = "due"
  /\ attempt[t].phase = "unissued"
  /\ rows' = [rows EXCEPT ![j] = [rows[j] EXCEPT !.status = "running", !.token = t,
                                  !.owner = w, !.lease = "live",
                                  !.attempts = rows[j].attempts + 1]]
  /\ attempt' = [attempt EXCEPT ![t] =
                   [Unissued EXCEPT !.phase = "claimed", !.job = j, !.worker = w]]
  /\ UNCHANGED <<dlq, up, active, session, ops>>

\* claim_next_job when the token bucket is empty: the claim is undone in the
\* same transaction, which also wipes a token an earlier claim left behind.
ClaimRefused(w, j) ==
  /\ Quiet
  /\ w \in up
  /\ rows[j].status = "queued" /\ rows[j].runAt = "due"
  /\ rows' = [rows EXCEPT ![j] = Released(rows[j], "queued")]
  /\ UNCHANGED <<dlq, attempt, up, active, session, ops>>

\* The task of a claimed job starts: its id becomes active, execute_job reads
\* attempt_count, and the handler runs.
StartAttempt(t) ==
  LET j == attempt[t].job
  IN  /\ Quiet
      /\ attempt[t].phase = "claimed"
      /\ attempt' = [attempt EXCEPT ![t] =
                       [attempt[t] EXCEPT !.phase = "running", !.count = rows[j].attempts]]
      /\ active' = [active EXCEPT ![attempt[t].worker] = @ \cup {j}]
      /\ UNCHANGED <<rows, dlq, up, session, ops>>

\* Variant: one retry too many.
MayRetryOnceMore(t) == attempt[t].count <= MaxRetries[attempt[t].job]
\* Whether a failed attempt may be retried, decided by the count read at its start.
MayRetry(t) == attempt[t].count < MaxRetries[attempt[t].job]

\* Variant: only children that are due are unlocked.
WaitingKidsDue(t, ok) ==
  {c \in Jobs : /\ Parent[c] = attempt[t].job
                /\ rows[c].status = "scheduled" /\ rows[c].runAt = "due"
                /\ ok \/ ~MayRetry(t)}
\* The children a finalization reads: those still waiting, unless it retries.
WaitingKids(t, ok) ==
  {c \in Jobs : /\ Parent[c] = attempt[t].job
                /\ rows[c].status = "scheduled"
                /\ ok \/ ~MayRetry(t)}

\* The handler returned (ok) or raised; the fenced UPDATE matches the row and
\* the children are read.  Nothing is committed yet.
FinalizeUpdate(t, ok) ==
  /\ Quiet
  /\ attempt[t].phase = "running"
  /\ ~Locked(attempt[t].job)
  /\ Holds(t)
  /\ attempt' = [attempt EXCEPT ![t] =
                   [attempt[t] EXCEPT !.phase = "finalizing", !.ok = ok,
                                      !.kids = WaitingKids(t, ok)]]
  /\ UNCHANGED <<rows, dlq, up, active, session, ops>>

\* The fenced UPDATE matches no row: the execution is KILLED.
FinalizeFenced(t) ==
  /\ Quiet
  /\ attempt[t].phase = "running"
  /\ ~Locked(attempt[t].job)
  /\ ~Holds(t)
  /\ attempt' = [attempt EXCEPT ![t] = Closed(t, "fenced")]
  /\ active' = [active EXCEPT ![attempt[t].worker] = @ \ {attempt[t].job}]
  /\ UNCHANGED <<rows, dlq, up, session, ops>>

\* rows after the job itself becomes r and the children that were read become
\* what kid says: the columns assigned to a child always differ from those read.
WithKids(t, r, kid) ==
  [j \in Jobs |-> IF j = attempt[t].job THEN r
                  ELSE IF j \in attempt[t].kids THEN kid[j] ELSE rows[j]]

Complete(t) ==
  LET unlocked == [c \in Jobs |-> [rows[c] EXCEPT !.status = "queued", !.runAt = "due"]]
  IN  /\ rows' = WithKids(t, Released(rows[attempt[t].job], "completed"), unlocked)
      /\ attempt' = [attempt EXCEPT ![t] = Closed(t, "completed")]
      /\ UNCHANGED dlq

\* calculate_delay never returns less than a second: always SCHEDULED.
Reschedule(t) ==
  LET j == attempt[t].job
  IN  /\ rows' = [rows EXCEPT ![j] = [Released(rows[j], "scheduled") EXCEPT !.runAt = "later"]]
      /\ attempt' = [attempt EXCEPT ![t] = Closed(t, "rescheduled")]
      /\ UNCHANGED dlq

\* The new dead_letter_queue row violates its unique job_id if the job has an
\* entry already: the whole transaction is rolled back.
Bury(t) ==
  LET j == attempt[t].job
      cancelled == [c \in Jobs |-> [rows[c] EXCEPT !.status = "cancelled"]]
  IN  IF HasEntry(dlq[j])
      THEN /\ attempt' = [attempt EXCEPT ![t] = Closed(t, "aborted")]
           /\ UNCHANGED <<rows, dlq>>
      ELSE /\ rows' = WithKids(t, Released(rows[j], "dead_letter"), cancelled)
           /\ dlq' = [dlq EXCEPT ![j] = "pending"]
           /\ attempt' = [attempt EXCEPT ![t] = Closed(t, "dead")]

\* The commit that ends execute_job, and the discard of the active id.
FinalizeCommit(t) ==
  /\ attempt[t].phase = "finalizing"
  /\ \A c \in attempt[t].kids : ~Locked(c)
  /\ \/ attempt[t].ok /\ Complete(t)
     \/ ~attempt[t].ok /\ MayRetry(t) /\ Reschedule(t)
     \/ ~attempt[t].ok /\ ~MayRetry(t) /\ Bury(t)
  /\ active' = [active EXCEPT ![attempt[t].worker] = @ \ {attempt[t].job}]
  /\ UNCHANGED <<up, session, ops>>

\* Variant: every running job of the worker, in flight or not.
RenewedAll(w) == {j \in Jobs : Running(j) /\ rows[j].owner = w}
\* _record_heartbeat: by worker id and job id, whether or not the lease has
\* already expired.
Renewed(w) == {j \in active[w] : Running(j) /\ rows[j].owner = w}

Heartbeat(w) ==
  /\ Quiet
  /\ w \in up
  /\ \A j \in Renewed(w) : ~Locked(j)
  /\ rows' = [j \in Jobs |-> IF j \in Renewed(w)
                             THEN [rows[j] EXCEPT !.lease = "live"] ELSE rows[j]]
  /\ UNCHANGED <<dlq, attempt, up, active, session, ops>>

\* The process dies; its open transactions are rolled back.
Crash(w) ==
  /\ w \in up
  /\ up' = up \ {w}
  /\ active' = [active EXCEPT ![w] = {}]
  /\ attempt' = [t \in Tokens |-> IF attempt[t].worker = w /\ attempt[t].phase \in Busy
                                  THEN Closed(t, "crashed") ELSE attempt[t]]
  /\ UNCHANGED <<rows, dlq, session, ops>>

-----------------------------------------------------------------------------
(* Transactions that read ORM objects, assign to them, and commit later.   *)

\* The unit of work puts into the UPDATE only the columns whose assigned value
\* differs from the value that was read; the others keep what the row has now.
OrmColumn(now, read, assigned) == IF assigned = read THEN now ELSE assigned

OrmWrite(now, read, assigned) ==
  [now EXCEPT !.status = OrmColumn(@, read.status, assigned.status),
              !.token  = OrmColumn(@, read.token, assigned.token),
              !.owner  = OrmColumn(@, read.owner, assigned.owner),
              !.lease  = OrmColumn(@, read.lease, assigned.lease)]

Requeues(op, j, r) == \/ op \in {"retry", "replay"}
                      \/ op = "reap" /\ r.attempts < MaxRetries[j]
Buries(op, j, r) == op = "reap" /\ ~Requeues(op, j, r)

\* Variant: a running job is only told, and stays running until its worker ends it.
AssignedTold(op, j, r) ==
  LET status == IF op = "cancel" THEN (IF r.status = "running" THEN "running" ELSE "cancelled")
                ELSE IF Requeues(op, j, r) THEN "queued" ELSE "dead_letter"
  IN  [r EXCEPT !.status = status, !.owner = NoWorker, !.lease = "none",
                !.token = IF op = "reap" THEN NoToken ELSE @]

\* What cancel_job, retry_job, replay_dlq_entry and reap_expired_leases assign
\* to a row they read as r.  Only the reaper clears the token.
Assigned(op, j, r) ==
  LET status == IF op = "cancel" THEN "cancelled"
                ELSE IF Requeues(op, j, r) THEN "queued" ELSE "dead_letter"
  IN  [r EXCEPT !.status = status, !.owner = NoWorker, !.lease = "none",
                !.token = IF op = "reap" THEN NoToken ELSE @]

\* run_at := now always differs from what was read.
Written(op, j, read) ==
  LET r == OrmWrite(rows[j], read, Assigned(op, j, read))
  IN  IF Requeues(op, j, read) THEN [r EXCEPT !.runAt = "due"] ELSE r

\* Whether the transaction inserts or updates the entry of j, and what is_replayed becomes.
WritesEntry(s, j) == session[s].op = "replay" \/ Buries(session[s].op, j, session[s].rows[j])
\* Variant: an entry that exists is left as it is.
EntryAfterKept(s, j) ==
  IF session[s].op = "reap" /\ HasEntry(dlq[j]) THEN dlq[j]
  ELSE IF session[s].op = "replay" THEN "replayed" ELSE "pending"
EntryAfter(s, j) ==
  LET read == session[s].entries[j]
      new  == IF session[s].op = "replay" THEN "replayed" ELSE "pending"
  IN  IF read = "none" THEN new ELSE OrmColumn(dlq[j], read, new)

\* INSERT hits the unique job_id, or UPDATE finds its row purged (even if
\* another entry was inserted for the job since).
EntryConflict(s, j) ==
  /\ WritesEntry(s, j)
  /\ \/ session[s].entries[j] = "purged"
     \/ session[s].entries[j] = "none" /\ HasEntry(dlq[j])

ReadEntry(j) == IF HasEntry(dlq[j]) THEN dlq[j] ELSE "none"

Open(s, op, S) ==
  session' = [session EXCEPT ![s] =
    [op |-> op, touched |-> S,
     rows    |-> [j \in Jobs |-> IF j \in S THEN rows[j] ELSE Absent],
     entries |-> [j \in Jobs |-> IF j \in S THEN ReadEntry(j) ELSE "none"]]]

Request(c) ==
  /\ Quiet
  /\ session[c] = Idle
  /\ ops < MaxOps
  /\ ops' = ops + 1
  /\ UNCHANGED <<rows, dlq, attempt, up, active>>

CancelRead(c, j) ==
  /\ rows[j].status \notin {"absent", "completed", "cancelled"}
  /\ Request(c)
  /\ Open(c, "cancel", {j})

\* retry_job checks nothing but that the job exists.
RetryRead(c, j) ==
  /\ rows[j].status # "absent"
  /\ Request(c)
  /\ Open(c, "retry", {j})

\* replay_dlq_entry: any entry, replayed or not, whatever its job does now.
ReplayRead(c, j) ==
  /\ HasEntry(dlq[j])
  /\ Request(c)
  /\ Open(c, "replay", {j})

ReplayAllRead(c) ==
  LET pending == {j \in Jobs : dlq[j] = "pending"}
  IN  /\ pending # {}
      /\ Request(c)
      /\ Open(c, "replay", pending)

\* reap_expired_leases: the SELECT of the expired rows takes no row lock ...
ReapRead(r) ==
  LET expired == {j \in Jobs : Expired(j)}
  IN  /\ Quiet
      /\ session[r] = Idle
      /\ expired # {}
      /\ Open(r, "sweep", expired)
      /\ UNCHANGED <<rows, dlq, attempt, up, active, ops>>

\* ... and the entries of the jobs to bury are looked up in the loop over them.
ReapLookup(r) ==
  /\ session[r].op = "sweep"
  /\ session' = [session EXCEPT ![r].op = "reap",
       ![r].entries = [j \in Jobs |-> IF j \in session[r].touched THEN ReadEntry(j) ELSE "none"]]
  /\ UNCHANGED <<rows, dlq, attempt, up, active, ops>>

\* The single commit of such a transaction: all of its rows or none.
Flush(s) ==
  LET touched == session[s].touched
  IN  /\ session[s].op \in {"cancel", "retry", "replay", "reap"}
      /\ \A j \in touched : ~Locked(j)
      /\ IF \E j \in touched : EntryConflict(s, j)
         THEN UNCHANGED <<rows, dlq>>
         ELSE /\ rows' = [j \in Jobs |-> IF j \in touched
                                         THEN Written(session[s].op, j, session[s].rows[j])
                                         ELSE rows[j]]
              /\ dlq' = [j \in Jobs |-> IF j \in touched /\ WritesEntry(s, j)
                                        THEN EntryAfter(s, j) ELSE dlq[j]]
      /\ session' = [session EXCEPT ![s] = Idle]
      /\ UNCHANGED <<attempt, up, active, ops>>

\* The request raises or loses its connection (get_db), the sweep raises, or the
\* scheduler's shutdown cancels it: nothing that was assigned is written.
RollBack(s) ==
  /\ session[s].op # "idle"
  /\ session' = [session EXCEPT ![s] = Idle]
  /\ UNCHANGED <<rows, dlq, attempt, up, active, ops>>

-----------------------------------------------------------------------------
(* The other requests, the promoter, and time.                             *)

New(status, runAt) == [Absent EXCEPT !.status = status, !.runAt = runAt]

\* create_job without a parent: immediate or delayed.
CreateRoot(j) ==
  /\ Quiet
  /\ rows[j].status = "absent" /\ Parent[j] = NoJob
  /\ \E r \in {New("queued", "due"), New("scheduled", "later")} :
       rows' = [rows EXCEPT ![j] = r]
  /\ UNCHANGED <<dlq, attempt, up, active, session, ops>>

\* A create_job that has read the parent of j is about to insert j.
Requested(j) == \E s \in Sessions : session[s].op = "create" /\ j \in session[s].touched

\* create_jobs_batch and create_batch: one transaction inserts all of S.  A parent
\* must exist (foreign key), and nobody looks at it: its child does not wait.  A
\* bulk job that is due within two seconds is queued before it is due.
CreateMany(S) ==
  /\ Quiet
  /\ S # {}
  /\ \A j \in S : /\ rows[j].status = "absent" /\ ~Requested(j)
                  /\ Parent[j] # NoJob => rows[Parent[j]].status # "absent"
  /\ \E new \in [S -> {New("queued", "due"), New("queued", "later"), New("scheduled", "later")}] :
       rows' = [j \in Jobs |-> IF j \in S THEN new[j] ELSE rows[j]]
  /\ UNCHANGED <<dlq, attempt, up, active, session, ops>>

\* create_job with a parent: the parent is read (404 and 400 end the request),
\* which fixes the row that a later statement inserts.
CreateRead(c, j) ==
  LET p == Parent[j]
      child == IF rows[p].status = "completed"
               THEN New("queued", "due") ELSE New("scheduled", "never")
  IN  /\ Quiet
      /\ p \in Jobs
      /\ session[c] = Idle
      /\ rows[j].status = "absent" /\ ~Requested(j)
      /\ rows[p].status \notin {"absent", "dead_letter", "cancelled"}
      /\ session' = [session EXCEPT ![c] = [Idle EXCEPT !.op = "create",
                                           !.touched = {j}, !.rows[j] = child]]
      /\ UNCHANGED <<rows, dlq, attempt, up, active, ops>>

CreateInsert(c) ==
  /\ session[c].op = "create"
  /\ rows' = [j \in Jobs |-> IF j \in session[c].touched
                             THEN session[c].rows[j] ELSE rows[j]]
  /\ session' = [session EXCEPT ![c] = Idle]
  /\ UNCHANGED <<dlq, attempt, up, active, ops>>

\* purge_dlq_entry deletes the entry; the job keeps its status.
Purge(j) ==
  /\ Quiet
  /\ HasEntry(dlq[j])
  /\ ops < MaxOps
  /\ ops' = ops + 1
  /\ dlq' = [dlq EXCEPT ![j] = "purged"]
  /\ session' = [s \in Sessions |->
       IF HasEntry(session[s].entries[j])
       THEN [session[s] EXCEPT !.entries[j] = "purged"] ELSE session[s]]
  /\ UNCHANGED <<rows, attempt, up, active>>

\* Variant: the parent is not looked at.
PromotableAlone(j) == rows[j].status = "scheduled" /\ rows[j].runAt = "due"

\* promote_due_jobs: one statement over every due row (the batch size of 100
\* is never reached here).
Promotable(j) ==
  /\ rows[j].status = "scheduled" /\ rows[j].runAt = "due"
  /\ Parent[j] # NoJob => rows[Parent[j]].status = "completed"

Promote ==
  /\ Quiet
  /\ \E j \in Jobs : Promotable(j)
  /\ rows' = [j \in Jobs |-> IF Promotable(j)
                             THEN [rows[j] EXCEPT !.status = "queued"] ELSE rows[j]]
  /\ UNCHANGED <<dlq, attempt, up, active, session, ops>>

\* lock_expires_at passes; on a row that is not running nobody looks.
LeaseExpires(j) ==
  /\ Quiet
  /\ Running(j) /\ rows[j].lease = "live"
  /\ rows' = [rows EXCEPT ![j] = [rows[j] EXCEPT !.lease = "expired"]]
  /\ UNCHANGED <<dlq, attempt, up, active, session, ops>>

\* run_at passes.
TimePasses(j) ==
  /\ Quiet
  /\ rows[j].status \in {"scheduled", "queued"} /\ rows[j].runAt = "later"
  /\ rows' = [rows EXCEPT ![j] = [rows[j] EXCEPT !.runAt = "due"]]
  /\ UNCHANGED <<dlq, attempt, up, active, session, ops>>

-----------------------------------------------------------------------------
WorkerBegins ==
  \/ \E w \in Workers, j \in Jobs, t \in Tokens : Claim(w, j, t)
  \/ \E w \in Workers, j \in Jobs : ClaimRefused(w, j)
  \/ \E t \in Tokens : StartAttempt(t)
  \/ \E t \in Tokens, ok \in BOOLEAN : FinalizeUpdate(t, ok)
  \/ \E t \in Tokens : FinalizeFenced(t)
  \/ \E w \in Workers : Heartbeat(w)

ClientBegins ==
  \/ \E j \in Jobs : CreateRoot(j) \/ Purge(j)
  \/ \E S \in SUBSET Jobs : CreateMany(S)
  \/ \E c \in Clients, j \in Jobs :
       CreateRead(c, j) \/ CancelRead(c, j) \/ RetryRead(c, j) \/ ReplayRead(c, j)
  \/ \E c \in Clients : ReplayAllRead(c)

\* What begins a transaction, or is one.
Begins ==
  \/ WorkerBegins
  \/ ClientBegins
  \/ \E r \in Reapers : ReapRead(r)
  \/ Promote
  \/ \E j \in Jobs : LeaseExpires(j) \/ TimePasses(j)

\* What goes on with one that is open.
Continues ==
  \/ \E t \in Tokens : FinalizeCommit(t)
  \/ \E r \in Reapers : ReapLookup(r)
  \/ \E s \in Sessions : Flush(s) \/ RollBack(s)
  \/ \E c \in Clients : CreateInsert(c)
  \/ \E w \in Workers : Crash(w)

Next == Continues \/ Begins

Spec == Init /\ [][Next]_vars

\* The reaper sweeps for ever, and not every sweep is rolled back.
ReaperRuns ==
  \A r \in Reapers : WF_vars(ReapRead(r)) /\ SF_vars(ReapLookup(r)) /\ SF_vars(Flush(r))

PromoterRuns == WF_vars(Promote)

\* The loops of the scheduler process go on, open transactions end, handlers
\* return, and workers that are up keep polling; time passes.
Fairness ==
  /\ ReaperRuns
  /\ PromoterRuns
  /\ \A c \in Clients : WF_vars(Flush(c) \/ CreateInsert(c))
  /\ \A j \in Jobs : WF_vars(\E w \in Workers, t \in Tokens : Claim(w, j, t))
  /\ \A t \in Tokens : WF_vars(StartAttempt(t))
  /\ \A t \in Tokens : WF_vars(FinalizeFenced(t) \/ \E ok \in BOOLEAN : FinalizeUpdate(t, ok))
  /\ \A t \in Tokens : WF_vars(FinalizeCommit(t))
  /\ \A j \in Jobs : WF_vars(LeaseExpires(j)) /\ WF_vars(TimePasses(j))

FairSpec == Spec /\ Fairness

-----------------------------------------------------------------------------
(* Correctness.                                                            *)

\* The values each table and each process may hold.
TypeOK ==
  /\ rows \in [Jobs -> Row]
  /\ dlq \in [Jobs -> Entry]
  /\ attempt \in [Tokens -> Attempt]
  /\ up \in SUBSET Workers
  /\ active \in [Workers -> SUBSET Jobs]
  /\ session \in [Sessions -> Session]
  /\ ops \in 0..MaxOps

\* Between the fenced UPDATE of a finalization and its commit nothing takes the
\* job away: what the runner decides from rowcount (runner.py:151, 215, 255) is
\* still true when it commits the children, the entry and the execution.
FinalizerHolds == \A t \in Tokens : attempt[t].phase = "finalizing" => Holds(t)

\* A running row belongs to a claim that is being worked on, whose worker died,
\* or whose transaction failed; never to one whose outcome was already applied
\* or rejected (design-decisions.md section 8).
RunningHasClaim ==
  \A j \in Jobs : Running(j) =>
    /\ rows[j].token \in Tokens
    /\ attempt[rows[j].token].job = j
    /\ attempt[rows[j].token].phase \in Busy \cup {"aborted", "crashed"}

\* A claim that lost its job never gets it back, whatever the reaper, a
\* cancellation, a retry or a later claim do to the row: a zombie that wakes up
\* at any time finds itself fenced off.
LeaseNeverRegained ==
  [][\A t \in Tokens :
       attempt[t].phase # "unissued" /\ ~Holds(t) => ~Holds(t)']_vars

\* A step that takes j out of its status on behalf of a retry or a replay.
Redriven(j) ==
  \E c \in Clients : /\ session[c].op \in {"retry", "replay"}
                    /\ j \in session[c].touched
                    /\ session'[c] = Idle

\* A job that completed, was cancelled or was dead-lettered stays so until an
\* operator redrives it (or cancels the dead one): no late worker, reaper or
\* promoter revives it.
EndedStaysEnded ==
  [][\A j \in Jobs :
       rows[j].status \in {"completed", "cancelled", "dead_letter"} =>
         \/ rows'[j].status = rows[j].status
         \/ rows[j].status = "dead_letter" /\ rows'[j].status = "cancelled"
         \/ Redriven(j)]_vars

\* No job is run more often than max_retries allows (at least once), except
\* once more per request of an operator.
AttemptBudget ==
  \A j \in Jobs :
    rows[j].attempts <= (IF MaxRetries[j] = 0 THEN 1 ELSE MaxRetries[j]) + ops

\* A dead-lettered job can be replayed: its entry is pending, unless an operator
\* purged it.  Replayed jobs that die again included (reaper.py:93-99).
DeadLetterIsPending ==
  \A j \in Jobs : rows[j].status = "dead_letter" => dlq[j] \in {"pending", "purged"}

\* A child that waits, for its parent or for its own retry, becomes ready only when
\* its parent is completed, even if the parent was redriven meanwhile
\* (promoter.py:48); and create_job makes it ready at once only in that case.  A
\* child of a bulk request or of a batch is ready whatever its parent does
\* (job_service.py:190), against docs/architecture.md:93 (README section 4).
ChildAfterParent ==
  [][\A j \in Jobs :
       /\ Parent[j] # NoJob /\ rows'[j].status = "queued"
       /\ rows[j].status = "scheduled" \/ (rows[j].status = "absent" /\ Requested(j))
       => rows'[Parent[j]].status = "completed" \/ Redriven(j)]_vars

\* A child that waits for its parent (run_at in the year 9999, which the promoter
\* never reaches) is not left waiting once the parent completed.
CompletedParentReleases ==
  \A j \in Jobs :
    /\ Parent[j] # NoJob
    /\ rows[j].status = "scheduled" /\ rows[j].runAt = "never"
    => rows[Parent[j]].status # "completed"

\* A running row names the worker of its claim and carries an expiry: otherwise no
\* heartbeat would renew it and no sweep ever take it (heartbeat.py:101, reaper.py:55).
RunningIsLeased ==
  \A j \in Jobs : Running(j) =>
    /\ rows[j].lease # "none"
    /\ rows[j].owner = attempt[rows[j].token].worker

\* "Exhausted jobs escalate to the DLQ with captured stack traces": a finalization
\* that holds its lease is not thrown away.
NothingAborted == \A t \in Tokens : attempt[t].phase # "aborted"

\* A job whose worker died, or whose finalization failed, does not stay running.
Orphaned(j) == Running(j) /\ attempt[rows[j].token].phase \in {"crashed", "aborted"}
OrphansRecovered == \A j \in Jobs : Orphaned(j) ~> ~Orphaned(j)

\* A queued job that has no parent is brought to an end as long as a worker is up:
\* completed, dead or cancelled, through every crash, failure, backoff and reclaim.
\* (The retry of a child waits for its parent, which may never complete.)
Ended(j) == rows[j].status \in {"completed", "dead_letter", "cancelled"}
QueuedJobEnds ==
  \A j \in Jobs :
    Parent[j] = NoJob => (rows[j].status = "queued" ~> Ended(j) \/ up = {})

-----------------------------------------------------------------------------
(* The promise of the fencing tokens.  A running row is held by its token; *)
(* what a token was granted is decided by how its attempt went.            *)

Holder == [j \in Jobs |-> IF Running(j) THEN rows[j].token ELSE NoToken]

Fate == [t \in Tokens |->
  IF attempt[t].phase = "unissued" THEN "fresh"
  ELSE IF attempt[t].phase \in Applied THEN "applied"
  ELSE IF Holds(t) THEN "granted" ELSE "revoked"]

Lease == INSTANCE FencedLease WITH holder <- Holder, fate <- Fate

\* The job table with its workers, reapers and clients implements FencedLease.
ImplementsLease == Lease!LeaseSpec
=============================================================================
