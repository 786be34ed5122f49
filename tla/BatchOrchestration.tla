------------------------- MODULE BatchOrchestration --------------------------
(***************************************************************************)
(* The requests that concern many rows of the table jobs at once, or one   *)
(* row under an idempotency key, beside the workers that run those rows:   *)
(*                                                                         *)
(*   create_job with a key, create_jobs_batch   (job_service.py)           *)
(*   create_batch, get_batch, cancel_batch, retry_batch (batch_service.py) *)
(*                                                                         *)
(* Every statement is one step and sees what is committed when it starts   *)
(* (READ COMMITTED).  An insert waits for an open transaction that has     *)
(* inserted the same key, an update for one that has updated the same row. *)
(* "queued" stands for queued and scheduled, which these requests treat    *)
(* alike; what a claim and a finalization do is in JobLifecycle.           *)
(***************************************************************************)
EXTENDS Naturals, FiniteSets, Sequences

CONSTANTS
  Jobs,      (* ids of job rows                                            *)
  Keys,      (* idempotency keys of one queue                              *)
  Batches,   (* ids of batch rows                                          *)
  Requests,  (* API requests that may be open at the same time             *)
  Bulks,     (* the lists of keys that a bulk request or a batch may bring *)
  MaxOps,    (* bound: number of requests                                  *)
  NoKey, NoBatch

ASSUME BatchAssumption ==
  /\ NoKey \notin Keys /\ NoBatch \notin Batches
  /\ Bulks \subseteq Seq(Keys \cup {NoKey}) /\ <<>> \notin Bulks
  /\ MaxOps \in Nat

VARIABLES
  row,    (* committed rows of the table jobs                              *)
  batch,  (* committed rows of the table job_batches                       *)
  req,    (* the open request of every client                              *)
  told,   (* answers so far: which job a client was given for which key    *)
  ops     (* number of requests                                            *)

vars == <<row, batch, req, told, ops>>

Ended == {"completed", "dead", "cancelled"}
Row == [status: {"absent", "queued", "running"} \cup Ended,
        key: Keys \cup {NoKey}, batch: Batches \cup {NoBatch}]
BatchRow == [status: {"absent", "processing", "cancelled"}, total: Nat]

\* An insertion has resolved the first Len(ids) of its keys; the rows "new" are its own.
Insertion == [op: {"single", "bulk", "batch"}, keys: Seq(Keys \cup {NoKey}),
              ids: Seq(Jobs), new: SUBSET Jobs, on: Batches \cup {NoBatch}]
Reread == [op: {"reread"}, key: Keys]
\* An update of a batch: the status it read, and the rows it has updated and locked.
Update == [op: {"cancel", "retry"}, on: Batches, read: {"processing", "cancelled"},
           done: BOOLEAN, rows: SUBSET Jobs]
None == [op |-> "none"]

Init ==
  /\ row = [j \in Jobs |-> [status |-> "absent", key |-> NoKey, batch |-> NoBatch]]
  /\ batch = [b \in Batches |-> [status |-> "absent", total |-> 0]]
  /\ req = [r \in Requests |-> None]
  /\ told = {} /\ ops = 0

-----------------------------------------------------------------------------
(* Creating rows.                                                          *)

Present(j) == row[j].status # "absent"
Owns(j, k) == k # NoKey /\ Present(j) /\ row[j].key = k

Inserting(r) == req[r].op \in {"single", "bulk", "batch"}
Next1(r) == Len(req[r].ids) + 1
Unfinished(r) == Inserting(r) /\ Next1(r) <= Len(req[r].keys)
KeyOf(r) == req[r].keys[Next1(r)]
\* The rows r inserted and has not committed.
Inserted(r, j, k) ==
  /\ Inserting(r) /\ j \in req[r].new
  /\ \E i \in DOMAIN req[r].ids : req[r].ids[i] = j /\ req[r].keys[i] = k

WaitsFor(r, q) ==
  /\ q # r /\ Unfinished(r) /\ KeyOf(r) # NoKey
  /\ \E j \in Jobs : Inserted(q, j, KeyOf(r))
Waits(r) == \E q \in Requests : WaitsFor(r, q)

Opens(r, request) ==
  /\ req[r] = None /\ ops < MaxOps
  /\ req' = [req EXCEPT ![r] = request]
  /\ ops' = ops + 1
Becomes(r, request) == req' = [req EXCEPT ![r] = request] /\ ops' = ops
Creation(op, keys, b) == [op |-> op, keys |-> keys, ids |-> <<>>, new |-> {}, on |-> b]

\* create_job: the fast path answers with a row that has the key already.
CreateJob(r, k) ==
  /\ IF \E j \in Jobs : Owns(j, k)
     THEN /\ req[r] = None /\ ops < MaxOps /\ ops' = ops + 1
          /\ told' = told \cup {<<k, j>> : j \in {i \in Jobs : Owns(i, k)}}
          /\ UNCHANGED req
     ELSE Opens(r, Creation("single", <<k>>, NoBatch)) /\ UNCHANGED told
  /\ UNCHANGED <<row, batch>>

CreateJobsBatch(r, keys) ==
  /\ Opens(r, Creation("bulk", keys, NoBatch))
  /\ UNCHANGED <<row, batch, told>>

CreateBatch(r, keys, b) ==
  /\ batch[b].status = "absent" /\ \A q \in Requests : Inserting(q) => req[q].on # b
  /\ Opens(r, Creation("batch", keys, b))
  /\ UNCHANGED <<row, batch, told>>

\* A fresh uuid; which one is drawn makes no difference.
Fresh(j) == ~Present(j) /\ \A q \in Requests : Inserting(q) => j \notin req[q].new
Uuid == CHOOSE j \in Jobs : Fresh(j)

Resolved(r, j, new) == [req[r] EXCEPT !.ids = Append(req[r].ids, j), !.new = new]

\* The row, committed or its own, that an insert of r runs into.
Conflicts(r, j) ==
  /\ Unfinished(r) /\ ~Waits(r) /\ KeyOf(r) # NoKey
  /\ Owns(j, KeyOf(r)) \/ Inserted(r, j, KeyOf(r))

InsertNew(r) ==
  /\ Unfinished(r) /\ ~Waits(r)
  /\ \A j \in Jobs : ~Conflicts(r, j)
  /\ \E j \in Jobs : Fresh(j)
  /\ Becomes(r, Resolved(r, Uuid, req[r].new \cup {Uuid}))
  /\ UNCHANGED <<row, batch, told>>

\* Variant: the bulk request answers with the id it had drawn itself.
BulkResolvesOwn(j) == CHOOSE i \in Jobs : i # j
BulkResolves(j) == j

\* ON CONFLICT DO NOTHING: a single creation rolls back and reads again, a bulk
\* request takes the existing id; a batch has no such clause and fails.
InsertConflict(r, j) ==
  /\ Conflicts(r, j)
  /\ Becomes(r, CASE req[r].op = "single" -> [op |-> "reread", key |-> KeyOf(r)]
                  [] req[r].op = "bulk" -> Resolved(r, BulkResolves(j), req[r].new)
                  [] OTHER -> None)
  /\ UNCHANGED <<row, batch, told>>

\* The rows as they are once r has committed, and the answers it stands for.
RowsOf(r) ==
  [j \in Jobs |->
     IF j \in req[r].new
     THEN LET i == CHOOSE n \in DOMAIN req[r].ids : req[r].ids[n] = j
          IN  [status |-> "queued", key |-> req[r].keys[i], batch |-> req[r].on]
     ELSE row[j]]
BatchesOf(r) ==
  [b \in Batches |->
     IF b = req[r].on THEN [status |-> "processing", total |-> Len(req[r].keys)] ELSE batch[b]]
Answers(r) ==
  {<<req[r].keys[i], req[r].ids[i]>> : i \in {n \in DOMAIN req[r].ids : req[r].keys[n] # NoKey}}

Ready(r) == Inserting(r) /\ ~Unfinished(r)

\* Variant: the flushed batch row is committed before its jobs.
MayCommitEarly(r) == Inserting(r) /\ Len(req[r].ids) > 0
MayCommit(r) == Ready(r)

\* Variant: the answer is sent and the transaction stays open.
AfterCommitOpen(r) == req[r]
AfterCommit(r) == None

Commit(r) ==
  /\ MayCommit(r)
  /\ row' = RowsOf(r) /\ batch' = BatchesOf(r)
  /\ told' = told \cup Answers(r)
  /\ Becomes(r, AfterCommit(r))

\* The rows are committed, but the answer does not reach the request.
CommitUnanswered(r) ==
  /\ Ready(r)
  /\ row' = RowsOf(r) /\ batch' = BatchesOf(r)
  /\ Becomes(r, IF req[r].op = "single" THEN [op |-> "reread", key |-> req[r].keys[1]] ELSE None)
  /\ UNCHANGED told

\* A statement fails, or the database aborts the transaction to end a deadlock.
Aborts(r) ==
  /\ Inserting(r)
  /\ Becomes(r, IF req[r].op = "single" THEN [op |-> "reread", key |-> req[r].keys[1]] ELSE None)
  /\ UNCHANGED <<row, batch, told>>

\* create_job reads the row of its key again; if there is none it answers 500.
ReadAgain(r) ==
  /\ req[r].op = "reread"
  /\ told' = told \cup {<<req[r].key, j>> : j \in {i \in Jobs : Owns(i, req[r].key)}}
  /\ Becomes(r, None)
  /\ UNCHANGED <<row, batch>>

-----------------------------------------------------------------------------
(* Batches.                                                                *)

Of(b, statuses) == {j \in Jobs : row[j].batch = b /\ row[j].status \in statuses}
Count(b, status) == Cardinality(Of(b, {status}))

\* Variant: a batch is complete once nothing of it failed.
VerdictHasty(total, completed, dead, cancelled) ==
  IF completed + dead + cancelled < total THEN IF completed > 0 /\ dead = 0 /\ cancelled = 0 THEN "completed" ELSE "processing"
  ELSE IF dead = 0 /\ cancelled = 0 THEN "completed"
  ELSE IF completed > 0 THEN "partially_failed"
  ELSE IF cancelled = total THEN "cancelled" ELSE "failed"
\* get_batch: the status it derives from the counters.
Verdict(total, completed, dead, cancelled) ==
  IF completed + dead + cancelled < total THEN "processing"
  ELSE IF dead = 0 /\ cancelled = 0 THEN "completed"
  ELSE IF completed > 0 THEN "partially_failed"
  ELSE IF cancelled = total THEN "cancelled" ELSE "failed"

\* What GET /batches/{id} answers; nothing of it is committed.  "read" is the status that
\* its first SELECT found; the counters are those of its second one, which is this step.
Report(b, read) ==
  IF read = "cancelled" THEN "cancelled"
  ELSE Verdict(batch[b].total, Count(b, "completed"), Count(b, "dead"), Count(b, "cancelled"))

\* cancel_batch and retry_batch read the batch first.
ReadBatch(r, op, b) ==
  /\ batch[b].status # "absent"
  /\ Opens(r, [op |-> op, on |-> b, read |-> batch[b].status, done |-> FALSE, rows |-> {}])
  /\ UNCHANGED <<row, batch, told>>

Locked(j) == \E r \in Requests : req[r].op \in {"cancel", "retry"} /\ j \in req[r].rows

\* Variant: what is not over yet can be cancelled.
AffectedLoosely(r) ==
  IF req[r].op = "cancel" THEN Of(req[r].on, {"queued", "running"})
  ELSE Of(req[r].on, {"dead", "cancelled"})
\* The WHERE clause, evaluated when the statement gets the rows.
Affected(r) ==
  IF req[r].op = "cancel" THEN Of(req[r].on, {"queued"})
  ELSE Of(req[r].on, {"dead", "cancelled"})

UpdateRows(r) ==
  /\ req[r].op \in {"cancel", "retry"} /\ ~req[r].done
  /\ \A j \in Affected(r) : ~Locked(j)
  /\ Becomes(r, [req[r] EXCEPT !.done = TRUE, !.rows = Affected(r)])
  /\ UNCHANGED <<row, batch, told>>

\* The ORM writes the status of the batch only if it differs from the one read.
CommitUpdate(r) ==
  LET b == req[r].on
      to == IF req[r].op = "cancel" THEN [row |-> "cancelled", batch |-> "cancelled"]
                                    ELSE [row |-> "queued", batch |-> "processing"]
  IN
  /\ req[r].op \in {"cancel", "retry"} /\ req[r].done
  /\ row' = [j \in Jobs |-> IF j \in req[r].rows THEN [row[j] EXCEPT !.status = to.row] ELSE row[j]]
  /\ batch' = IF req[r].read = to.batch THEN batch ELSE [batch EXCEPT ![b].status = to.batch]
  /\ Becomes(r, None)
  /\ UNCHANGED told

UpdateAborts(r) ==
  /\ req[r].op \in {"cancel", "retry"}
  /\ Becomes(r, None)
  /\ UNCHANGED <<row, batch, told>>

-----------------------------------------------------------------------------
(* Workers.  A claim skips locked rows, a finalization waits for them.     *)

Moves(j, from, to) ==
  /\ row[j].status = from /\ ~Locked(j)
  /\ row' = [row EXCEPT ![j].status = to]
  /\ UNCHANGED <<batch, req, told, ops>>

Claim(j) == Moves(j, "queued", "running")
Finalize(j) == \E to \in {"completed", "dead", "queued"} : Moves(j, "running", to)

-----------------------------------------------------------------------------
Creates(r) ==
  \/ \E k \in Keys : CreateJob(r, k)
  \/ \E keys \in Bulks : CreateJobsBatch(r, keys) \/ (\E b \in Batches : CreateBatch(r, keys, b))
  \/ \E b \in Batches, op \in {"cancel", "retry"} : ReadBatch(r, op, b)

\* A request goes on; it may also fail.
Proceeds(r) ==
  \/ InsertNew(r) \/ \E j \in Jobs : InsertConflict(r, j)
  \/ Commit(r) \/ CommitUnanswered(r) \/ ReadAgain(r)
  \/ UpdateRows(r) \/ CommitUpdate(r)

Next ==
  \/ \E r \in Requests : Creates(r) \/ Proceeds(r) \/ Aborts(r) \/ UpdateAborts(r)
  \/ \E j \in Jobs : Claim(j) \/ Finalize(j)

Spec == Init /\ [][Next]_vars

\* Every request waits for another one.
Deadlocked(r) ==
  \E D \in SUBSET Requests : r \in D /\ \A p \in D : \E q \in D : WaitsFor(p, q)

\* A request goes on, unless it waits; the database ends a deadlock by aborting one
\* of its transactions.
FairSpec ==
  /\ Spec
  /\ \A r \in Requests : WF_vars(Proceeds(r)) /\ WF_vars(Deadlocked(r) /\ Aborts(r))

-----------------------------------------------------------------------------
(* Correctness.                                                            *)

\* The values of the tables and of the open transactions.
TypeOK ==
  /\ row \in [Jobs -> Row] /\ batch \in [Batches -> BatchRow]
  /\ req \in [Requests -> Insertion \cup Reread \cup Update \cup {None}]
  /\ told \subseteq Keys \X Jobs /\ ops \in 0..MaxOps

\* All answers for a key name the same job, and it is there: no two clients, and no
\* retry of a client whose first answer was lost, are given different jobs, or one
\* that was rolled back (job_service.py:39-133, 183-228).
AnswersAgree ==
  \A a, b \in told : a[1] = b[1] => a[2] = b[2] /\ Owns(a[2], a[1])

\* A batch is there with all its jobs or not at all: conflicts, failures and deadlocks
\* on the way leave nothing behind (batch_service.py:58-98).
BatchIsWhole ==
  \A b \in Batches :
    Cardinality({j \in Jobs : row[j].batch = b}) =
      IF batch[b].status = "absent" THEN 0 ELSE batch[b].total

\* A batch that is reported as completed has only completed jobs when they are counted;
\* one reported as finished otherwise has no job that may still run, unless it was read as
\* cancelled.  The status read before may have changed since: every batch has been
\* "processing", whatever it is now (batch_service.py:108-150).
ReportIsTrue ==
  \A b \in Batches : batch[b].status # "absent" =>
    LET answer == Report(b, "processing") IN
    /\ answer = "completed" => Of(b, {"completed"}) = Of(b, {"queued", "running"} \cup Ended)
    /\ answer # "processing" => Of(b, {"queued", "running"}) = {}

\* A job that runs is ended by its worker only, and a completed one stays so, whatever
\* is cancelled or retried around it at the same time (batch_service.py:212, 238).
WorkersEndJobs ==
  [][\A j \in Jobs : /\ row[j].status = "running" => row'[j].status # "cancelled"
                     /\ row[j].status = "completed" => row'[j].status = "completed"]_vars

\* Every request ends, although two may insert the same keys in opposite orders.
RequestsEnd == \A r \in Requests : req[r] # None ~> req[r] = None
=============================================================================
