----------------------------- MODULE QueueClaim -----------------------------
(***************************************************************************)
(* Which queue a worker may claim from: claim_next_job (claimer.py) with   *)
(* its row locks on queues, against the transactions that touch the same   *)
(* rows.                                                                   *)
(*                                                                         *)
(*   claimers    poll: read the candidate queues, then per queue lock its  *)
(*               row (FOR UPDATE), count its running jobs, claim one;      *)
(*   inserters   insert jobs: the foreign key of each takes FOR KEY SHARE  *)
(*               on its queue row (create_job, the cron dispatcher);       *)
(*   operators   pause, resume, update and delete queues                   *)
(*               (queue_service.py), each with the row it read before;     *)
(*   runners, heartbeats and the reaper end, renew and take back jobs.     *)
(*                                                                         *)
(* A lock is kept until the transaction ends: the claimer that passes over *)
(* a queue still holds its row.  PostgreSQL aborts a transaction that      *)
(* waits in a cycle.  Within a queue any ready job may be picked, and the  *)
(* token bucket of a limited queue may refuse at any time.                 *)
(***************************************************************************)
EXTENDS Naturals, Sequences, FiniteSets

CONSTANTS
  Queues, Jobs,
  QueueOf,       (* queue_id of every job                                  *)
  InitialQueue,  (* the row of every queue at the start                    *)
  Older,         (* created_at: pairs of queues, the older one first       *)
  Claimers,      (* polling loops of the worker daemons                    *)
  Assigned,      (* assigned_queues of every daemon, {} meaning any        *)
  Inserters,     (* transactions that insert jobs                          *)
  Batches,       (* the sequences of jobs that one of them may insert      *)
  Operators,     (* requests to the queue service                          *)
  Limits, Priorities,  (* the values an update may set                     *)
  MaxOps,        (* bound: queue requests issued                           *)
  NoQueue, NoJob

QueueRow == [exists: BOOLEAN, paused: BOOLEAN, limit: Nat, priority: Nat,
             limited: BOOLEAN]

ASSUME ClaimAssumption ==
  /\ IsFiniteSet(Jobs) /\ IsFiniteSet(Queues)
  /\ NoQueue \notin Queues /\ NoJob \notin Jobs
  /\ QueueOf \in [Jobs -> Queues]
  /\ InitialQueue \in [Queues -> QueueRow]
  /\ Assigned \in [Claimers -> SUBSET Queues]
  /\ Batches \subseteq Seq(Jobs)
  /\ Limits \subseteq Nat /\ Priorities \subseteq Nat /\ MaxOps \in Nat
  /\ Claimers \cap Inserters = {}

VARIABLES
  queue,   (* table queues                                                 *)
  job,     (* table jobs: status and lease                                 *)
  poll,    (* the open transaction of every claimer                        *)
  insert,  (* the open transaction of every inserter                       *)
  request, (* what every operator request read and assigned                *)
  ops      (* queue requests issued so far                                 *)

vars == <<queue, job, poll, insert, request, ops>>

\* "revived" is a lease that was renewed after it had expired; the code
\* cannot tell it from "live".
JobRow == [status: {"absent", "queued", "running", "gone"},
           lease: {"none", "live", "expired", "revived"}]
Poll == [pc: {"idle", "scan", "count", "pick", "claimed", "down"}, todo: Seq(Queues),
         cur: Queues \cup {NoQueue}, row: QueueRow, held: SUBSET Queues,
         job: Jobs \cup {NoJob}]
Insert == [open: BOOLEAN, todo: Seq(Jobs), new: SUBSET Jobs]
Request == [queue: Queues \cup {NoQueue}, read: QueueRow, assigned: QueueRow]

NoRow == [exists |-> FALSE, paused |-> FALSE, limit |-> 0, priority |-> 0,
          limited |-> FALSE]
NotPolling == [pc |-> "idle", todo |-> <<>>, cur |-> NoQueue, row |-> NoRow,
               held |-> {}, job |-> NoJob]
NotInserting == [open |-> FALSE, todo |-> <<>>, new |-> {}]
NotRequested == [queue |-> NoQueue, read |-> NoRow, assigned |-> NoRow]

Init ==
  /\ queue = InitialQueue
  /\ job = [j \in Jobs |-> [status |-> "absent", lease |-> "none"]]
  /\ poll = [c \in Claimers |-> NotPolling]
  /\ insert = [i \in Inserters |-> NotInserting]
  /\ request = [o \in Operators |-> NotRequested]
  /\ ops = 0

-----------------------------------------------------------------------------
(* Row locks on queues.                                                    *)

\* FOR UPDATE, held by a claimer.
HeldBy(q, c) == q \in poll[c].held
\* FOR KEY SHARE, held by an inserter.
SharedBy(q, i) == \E j \in insert[i].new : QueueOf[j] = q

\* Variant: the queue row is read without FOR UPDATE.
GrantableAlways(c, q) == TRUE
\* FOR UPDATE conflicts with every other lock.
Grantable(c, q) ==
  /\ \A d \in Claimers \ {c} : ~HeldBy(q, d)
  /\ \A i \in Inserters : ~SharedBy(q, i)

Wants(c, q) == poll[c].pc = "scan" /\ poll[c].todo # <<>> /\ Head(poll[c].todo) = q
Needs(i, q) == insert[i].todo # <<>> /\ QueueOf[Head(insert[i].todo)] = q

\* x waits for a lock that y holds.
WaitsFor(x, y) ==
  \E q \in Queues :
    \/ /\ x \in Claimers /\ Wants(x, q)
       /\ \/ y \in Claimers \ {x} /\ HeldBy(q, y)
          \/ y \in Inserters /\ SharedBy(q, y)
    \/ /\ x \in Inserters /\ Needs(x, q)
       /\ y \in Claimers /\ HeldBy(q, y)

\* x waits in a cycle.
Deadlocked(x) ==
  \E S \in SUBSET (Claimers \cup Inserters) :
    /\ x \in S
    /\ \A y \in S : \E z \in S : WaitsFor(y, z)
    /\ \A z \in S : \E y \in S : WaitsFor(y, z)

-----------------------------------------------------------------------------
(* Claimers.                                                               *)

Ready(q) == {j \in Jobs : QueueOf[j] = q /\ job[j].status = "queued"}

\* Without assigned queues a daemon polls them all.
Polls(c, q) == Assigned[c] = {} \/ q \in Assigned[c]

\* The first query of claim_next_job.
Candidates(c) ==
  {q \in Queues : /\ queue[q].exists /\ ~queue[q].paused
                  /\ Polls(c, q)
                  /\ Ready(q) # {}}

\* ORDER BY priority DESC, created_at ASC.
Before(p, q) ==
  \/ queue[p].priority > queue[q].priority
  \/ queue[p].priority = queue[q].priority /\ <<p, q>> \in Older
Ordered(S) ==
  {s \in [1..Cardinality(S) -> S] :
     \A m, n \in 1..Cardinality(S) : m < n => Before(s[m], s[n])}

StartPoll(c) ==
  /\ poll[c].pc = "idle"
  /\ Candidates(c) # {}
  /\ \E todo \in Ordered(Candidates(c)) :
       poll' = [poll EXCEPT ![c] = [NotPolling EXCEPT !.pc = "scan", !.todo = todo]]
  /\ UNCHANGED <<queue, job, insert, request, ops>>

\* Variant: is_paused is not looked at again under the lock.
EligibleOnceRead(r) == r.exists
Eligible(r) == r.exists /\ ~r.paused

\* SELECT ... FOR UPDATE of the next queue; the lock is kept in any case.
LockQueue(c) ==
  LET q == Head(poll[c].todo)
      locked == [poll[c] EXCEPT !.todo = Tail(poll[c].todo),
                                !.held = IF queue[q].exists THEN poll[c].held \cup {q}
                                         ELSE poll[c].held]
  IN  /\ poll[c].pc = "scan" /\ poll[c].todo # <<>>
      /\ Grantable(c, q)
      /\ poll' = [poll EXCEPT ![c] =
           IF Eligible(queue[q])
           THEN [locked EXCEPT !.pc = "count", !.cur = q, !.row = queue[q]]
           ELSE locked]
      /\ UNCHANGED <<queue, job, insert, request, ops>>

Passed(c) == [poll[c] EXCEPT !.pc = "scan", !.cur = NoQueue, !.row = NoRow]

Running(q) == {j \in Jobs : QueueOf[j] = q /\ job[j].status = "running"}
\* The running count leaves out expired leases.
Counted(q) == {j \in Running(q) : job[j].lease # "expired"}

\* Variant: the running count takes expired leases in.
FullWithExpired(c) == Cardinality(Running(poll[c].cur)) >= poll[c].row.limit
Full(c) == Cardinality(Counted(poll[c].cur)) >= poll[c].row.limit

CountRunning(c) ==
  /\ poll[c].pc = "count"
  /\ poll' = [poll EXCEPT ![c] = IF Full(c) THEN Passed(c)
                                 ELSE [poll[c] EXCEPT !.pc = "pick"]]
  /\ UNCHANGED <<queue, job, insert, request, ops>>

\* A row that another claimer has claimed but not committed is skipped.
Skipped(j) == \E d \in Claimers : poll[d].job = j

\* The claim statement, not committed yet.
PickJob(c) ==
  LET ready == {j \in Ready(poll[c].cur) : ~Skipped(j)}
  IN  /\ poll[c].pc = "pick"
      /\ \/ /\ ready = {}
            /\ poll' = [poll EXCEPT ![c] = Passed(c)]
         \/ \E j \in ready :
              poll' = [poll EXCEPT ![c] = [poll[c] EXCEPT !.pc = "claimed", !.job = j]]
      /\ UNCHANGED <<queue, job, insert, request, ops>>

\* The commit publishes the claim and releases every lock.
CommitClaim(c) ==
  /\ poll[c].pc = "claimed"
  /\ job' = [job EXCEPT ![poll[c].job] = [status |-> "running", lease |-> "live"]]
  /\ poll' = [poll EXCEPT ![c] = NotPolling]
  /\ UNCHANGED <<queue, insert, request, ops>>

\* The bucket is empty: the claim is undone and the poll ends, without a look
\* at the queues that follow.
RefuseClaim(c) ==
  /\ poll[c].pc = "claimed" /\ poll[c].row.limited
  /\ poll' = [poll EXCEPT ![c] = NotPolling]
  /\ UNCHANGED <<queue, job, insert, request, ops>>

EndPoll(c) ==
  /\ poll[c].pc = "scan" /\ poll[c].todo = <<>>
  /\ poll' = [poll EXCEPT ![c] = NotPolling]
  /\ UNCHANGED <<queue, job, insert, request, ops>>

\* The daemon dies for good: its transaction is rolled back.
CrashClaimer(c) ==
  /\ poll[c].pc # "down"
  /\ poll' = [poll EXCEPT ![c] = [NotPolling EXCEPT !.pc = "down"]]
  /\ UNCHANGED <<queue, job, insert, request, ops>>

\* The database aborts one transaction of a cycle; the polling loop logs the
\* error and goes on.
ClaimerVictim(c) ==
  /\ Deadlocked(c)
  /\ poll' = [poll EXCEPT ![c] = NotPolling]
  /\ UNCHANGED <<queue, job, insert, request, ops>>

-----------------------------------------------------------------------------
(* Inserters.                                                              *)

StartInsert(i, b) ==
  /\ ~insert[i].open
  /\ \A n \in DOMAIN b :
       /\ job[b[n]].status = "absent"
       /\ \A k \in Inserters : b[n] \notin insert[k].new
       /\ \A k \in Inserters : \A m \in DOMAIN insert[k].todo : insert[k].todo[m] # b[n]
  /\ insert' = [insert EXCEPT ![i] = [open |-> TRUE, todo |-> b, new |-> {}]]
  /\ UNCHANGED <<queue, job, poll, request, ops>>

\* The foreign key check waits for a claimer that holds the queue row, and
\* fails if the queue was deleted.
InsertJob(i) ==
  LET j == Head(insert[i].todo)
  IN  /\ insert[i].todo # <<>>
      /\ \A c \in Claimers : ~HeldBy(QueueOf[j], c)
      /\ insert' = [insert EXCEPT ![i] =
           IF queue[QueueOf[j]].exists
           THEN [insert[i] EXCEPT !.todo = Tail(insert[i].todo), !.new = insert[i].new \cup {j}]
           ELSE NotInserting]
      /\ UNCHANGED <<queue, job, poll, request, ops>>

CommitInsert(i) ==
  /\ insert[i].open /\ insert[i].todo = <<>>
  /\ job' = [j \in Jobs |-> IF j \in insert[i].new
                            THEN [status |-> "queued", lease |-> "none"] ELSE job[j]]
  /\ insert' = [insert EXCEPT ![i] = NotInserting]
  /\ UNCHANGED <<queue, poll, request, ops>>

InserterVictim(i) ==
  /\ Deadlocked(i)
  /\ insert' = [insert EXCEPT ![i] = NotInserting]
  /\ UNCHANGED <<queue, job, poll, request, ops>>

-----------------------------------------------------------------------------
(* Operators.  get_queue reads the row, the commit writes the columns whose *)
(* assigned value differs from what was read.                              *)

\* pause_queue, resume_queue, update_queue and delete_queue.
Changes(r) ==
  {[r EXCEPT !.paused = b] : b \in BOOLEAN}
  \cup {[r EXCEPT !.limit = n] : n \in Limits}
  \cup {[r EXCEPT !.priority = n] : n \in Priorities}
  \cup {[r EXCEPT !.limited = TRUE], NoRow}

ReadQueue(o, q) ==
  /\ request[o] = NotRequested
  /\ ops < MaxOps
  /\ queue[q].exists
  /\ ops' = ops + 1
  /\ \E a \in Changes(queue[q]) :
       request' = [request EXCEPT ![o] = [queue |-> q, read |-> queue[q], assigned |-> a]]
  /\ UNCHANGED <<queue, job, poll, insert>>

Column(now, read, assigned) == IF assigned = read THEN now ELSE assigned
Written(now, read, a) ==
  [exists |-> now.exists,
   paused |-> Column(now.paused, read.paused, a.paused),
   limit |-> Column(now.limit, read.limit, a.limit),
   priority |-> Column(now.priority, read.priority, a.priority),
   limited |-> Column(now.limited, read.limited, a.limited)]

Deletes(o) == request[o].assigned = NoRow
Writes(o) == request[o].assigned # request[o].read

\* An UPDATE waits for the claimer that holds the row, a DELETE for inserters
\* too; nothing is written of an unchanged row, or of one deleted since.
\* Deleting a queue deletes its jobs.
WriteQueue(o) ==
  LET q == request[o].queue
  IN  /\ q # NoQueue
      /\ Writes(o) => \A c \in Claimers : ~HeldBy(q, c)
      /\ Deletes(o) => \A i \in Inserters : ~SharedBy(q, i)
      /\ queue' = [queue EXCEPT ![q] =
           IF Deletes(o) \/ ~queue[q].exists THEN NoRow
           ELSE Written(queue[q], request[o].read, request[o].assigned)]
      /\ job' = [j \in Jobs |->
           IF Deletes(o) /\ QueueOf[j] = q /\ job[j].status # "absent"
           THEN [status |-> "gone", lease |-> "none"] ELSE job[j]]
      /\ request' = [request EXCEPT ![o] = NotRequested]
      /\ UNCHANGED <<poll, insert, ops>>

-----------------------------------------------------------------------------
(* What happens to running jobs elsewhere.                                 *)

\* The runner's finalization, or a cancellation, takes the job out of running.
Finish(j) ==
  /\ job[j].status = "running"
  /\ job' = [job EXCEPT ![j] = [status |-> "gone", lease |-> "none"]]
  /\ UNCHANGED <<queue, poll, insert, request, ops>>

LeaseExpires(j) ==
  /\ job[j].lease \in {"live", "revived"}
  /\ job' = [job EXCEPT ![j].lease = "expired"]
  /\ UNCHANGED <<queue, poll, insert, request, ops>>

\* _record_heartbeat renews by id, owner and status, expired or not.
Renew(j) ==
  /\ job[j].lease = "expired"
  /\ job' = [job EXCEPT ![j].lease = "revived"]
  /\ UNCHANGED <<queue, poll, insert, request, ops>>

\* The reaper re-queues an expired job.
Reap(j) ==
  /\ job[j].lease = "expired"
  /\ job' = [job EXCEPT ![j] = [status |-> "queued", lease |-> "none"]]
  /\ UNCHANGED <<queue, poll, insert, request, ops>>

-----------------------------------------------------------------------------
ClaimerStep(c) ==
  \/ StartPoll(c) \/ LockQueue(c) \/ CountRunning(c) \/ PickJob(c)
  \/ CommitClaim(c) \/ RefuseClaim(c) \/ EndPoll(c)
  \/ CrashClaimer(c) \/ ClaimerVictim(c)

InserterStep(i) ==
  \/ \E b \in Batches : StartInsert(i, b)
  \/ InsertJob(i) \/ CommitInsert(i) \/ InserterVictim(i)

OperatorStep(o) == WriteQueue(o) \/ \E q \in Queues : ReadQueue(o, q)

JobStep(j) == Finish(j) \/ LeaseExpires(j) \/ Renew(j) \/ Reap(j)

Next ==
  \/ \E c \in Claimers : ClaimerStep(c)
  \/ \E i \in Inserters : InserterStep(i)
  \/ \E o \in Operators : OperatorStep(o)
  \/ \E j \in Jobs : JobStep(j)

Spec == Init /\ [][Next]_vars

\* Daemons poll for ever and their statements return; a row lock is granted in
\* the order of its waiters (hence strong fairness), a deadlock is detected, the
\* bucket refills, and of jobs that run over and over under a lease some job
\* ends (attempts are bounded).  A job whose lease has expired may be left by a
\* dead runner, so nothing is assumed of it.
Fairness ==
  /\ \A c \in Claimers :
       /\ WF_vars(StartPoll(c) \/ CountRunning(c) \/ PickJob(c) \/ EndPoll(c) \/ ClaimerVictim(c))
       /\ SF_vars(LockQueue(c))
       /\ SF_vars(CommitClaim(c))
  /\ \A i \in Inserters :
       SF_vars(InsertJob(i)) /\ WF_vars(CommitInsert(i) \/ InserterVictim(i))
  /\ SF_vars(\E j \in Jobs : job[j].lease # "expired" /\ Finish(j))

FairSpec == Spec /\ Fairness

-----------------------------------------------------------------------------
(* Correctness.                                                            *)

\* The values the tables and the transactions may hold; a claimer beyond the
\* queue lock has a queue, and one beyond the claim statement a job.
TypeOK ==
  /\ queue \in [Queues -> QueueRow]
  /\ job \in [Jobs -> JobRow]
  /\ poll \in [Claimers -> Poll]
  /\ \A c \in Claimers :
       /\ poll[c].pc \in {"count", "pick", "claimed"} => poll[c].cur \in Queues
       /\ poll[c].pc = "claimed" => poll[c].job \in Jobs
  /\ insert \in [Inserters -> Insert]
  /\ request \in [Operators -> Request]
  /\ ops \in 0..MaxOps

Commits(c) == poll[c].pc = "claimed" /\ job'[poll[c].job].status = "running"

\* "Temporarily pause queue (workers stop claiming)" (planner.md:395): no claim
\* is committed from a queue that is paused or deleted at that moment, whenever
\* the claimer read the list of queues.
PausedNeverClaims ==
  [][\A c \in Claimers : Commits(c) =>
       queue[poll[c].cur].exists /\ ~queue[poll[c].cur].paused]_vars

\* Running jobs whose lease never expired since they were claimed.
Unlapsed(q) == {j \in Running(q) : job[j].lease = "live"}

\* A committed claim keeps the queue within the limit it has at that moment
\* (claimer.py:83-96), counting the jobs whose lease never expired: neither
\* another claimer nor an update of the limit gets between count and commit.
ClaimWithinLimit ==
  [][\A c \in Claimers, q \in Queues :
       Commits(c) /\ poll[c].cur = q =>
         Cardinality(Unlapsed(q)') <= queue[q].limit]_vars

\* A queue with ready jobs is served: some job leaves its "queued" state, or the
\* queue is paused, deleted or full, as long as a daemon that polls it is
\* up; waits and deadlocks end.
Served(q) ==
  \/ Ready(q) = {}
  \/ queue[q].paused \/ ~queue[q].exists
  \/ Cardinality(Counted(q)) >= queue[q].limit
  \/ \A c \in Claimers : Polls(c, q) => poll[c].pc = "down"
QueueServed == \A q \in Queues : ~Served(q) ~> Served(q)
=============================================================================
