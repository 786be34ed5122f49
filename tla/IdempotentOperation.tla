------------------------- MODULE IdempotentOperation -------------------------
(***************************************************************************)
(* Side effects of a job that is attempted more than once:                 *)
(* execute_idempotent_operation (context.py) looks a record up, performs   *)
(* the effect, and flushes a record into the transaction of the attempt,   *)
(* which commits only when execute_job finalizes (runner.py).              *)
(*                                                                         *)
(* One job, whose handler performs the operations 1..LastOp in this order. *)
(* Attempts overlap when a lease expires under a living worker.  A flushed *)
(* record locks the job row (FOR KEY SHARE, its foreign key) and its key   *)
(* (unique): the claim skips a locked row, and a second insert of the key  *)
(* waits for the first to commit.  A job that was buried is not replayed    *)
(* here (JobLifecycle has the replay).                                     *)
(***************************************************************************)
EXTENDS Naturals, FiniteSets

CONSTANTS
  Attempts,    (* attempt numbers of the job; a finite set bounds them     *)
  LastOp,      (* number of operations of the handler                      *)
  MaxRetries,  (* max_retries of the job                                   *)
  Crashes,     (* the attempts whose worker may die                        *)
  NoAttempt

ASSUME OperationAssumption ==
  /\ Attempts \subseteq Nat /\ NoAttempt \notin Attempts
  /\ LastOp \in Nat /\ MaxRetries \in Nat
  /\ Crashes \subseteq Attempts

VARIABLES
  status,   (* status of the job                                           *)
  holder,   (* the attempt whose lease token is on the row                 *)
  count,    (* attempt_count                                               *)
  records,  (* operations with a committed row in idempotency_records      *)
  attempt   (* what every attempt has done                                 *)

vars == <<status, holder, count, records, attempt>>

Ops == 1..LastOp

\* "committed" is an attempt that was finalized, or fenced: both commit.
Open == {"ready", "call", "flush", "finalize"}
Attempt == [pc: {"unused", "committed", "aborted", "crashed"} \cup Open,
            at: 1..(LastOp + 1),  (* the next operation                    *)
            fresh: SUBSET Ops,    (* records flushed, not committed        *)
            known: SUBSET Ops,    (* records when claimed (not in the code), *)
            done: SUBSET Ops,     (* effects whose func() returned,        *)
            lost: SUBSET Ops]     (* and whose func() raised (neither in the code) *)

Unused == [pc |-> "unused", at |-> 1, fresh |-> {}, known |-> {}, done |-> {}, lost |-> {}]

Init ==
  /\ status = "queued" /\ holder = NoAttempt /\ count = 0
  /\ records = {}
  /\ attempt = [a \in Attempts |-> Unused]

IsOpen(a) == attempt[a].pc \in Open
Becomes(a, r) == attempt' = [attempt EXCEPT ![a] = r]
At(a, pc) == [attempt[a] EXCEPT !.pc = pc]
\* The transaction of a ends; what it flushed is committed or lost elsewhere.
Ended(a, pc) == [attempt[a] EXCEPT !.pc = pc, !.at = 1, !.fresh = {}]

-----------------------------------------------------------------------------
\* FOR KEY SHARE by a flushed record.
RowShared == \E a \in Attempts : IsOpen(a) /\ attempt[a].fresh # {}

\* FOR UPDATE SKIP LOCKED passes over a row that is share locked.  attempt_count
\* becomes the number of the attempt.
Claim(a) ==
  /\ status = "queued" /\ ~RowShared
  /\ a = count + 1 /\ attempt[a].pc = "unused"
  /\ status' = "running" /\ holder' = a /\ count' = count + 1
  /\ Becomes(a, [Unused EXCEPT !.pc = "ready", !.known = records])
  /\ UNCHANGED records

\* The lease expires and the reaper takes the job from its holder, which may
\* go on all the same.
LeaseLost ==
  /\ status = "running"
  /\ status' = IF count < MaxRetries THEN "queued" ELSE "dead_letter"
  /\ holder' = NoAttempt
  /\ UNCHANGED <<count, records, attempt>>

\* Variant: the key names the attempt too, so that no other record is found.
FoundOwn(a, op) == op \in attempt[a].fresh
\* The SELECT sees committed records and those of its own transaction.
Found(a, op) == op \in records \/ op \in attempt[a].fresh

\* The handler comes to its next operation: it is skipped, or to be performed.
Check(a) ==
  /\ attempt[a].pc = "ready" /\ attempt[a].at <= LastOp
  /\ Becomes(a, IF Found(a, attempt[a].at)
                THEN [attempt[a] EXCEPT !.at = attempt[a].at + 1] ELSE At(a, "call"))
  /\ UNCHANGED <<status, holder, count, records>>

\* func() raises, before its effect or after it (the answer to a charge times
\* out): nothing is recorded.  The handler lets the exception through, and fails,
\* or goes on with its next operation.
CallRaises(a) ==
  /\ attempt[a].pc = "call"
  /\ \E effect \in {{}, {attempt[a].at}}, caught \in BOOLEAN :
       Becomes(a, [attempt[a] EXCEPT !.lost = attempt[a].lost \cup effect,
                                     !.pc = IF caught THEN "ready" ELSE "finalize",
                                     !.at = IF caught THEN attempt[a].at + 1 ELSE attempt[a].at])
  /\ UNCHANGED <<status, holder, count, records>>

\* func() performs the effect and returns ...
Call(a) ==
  /\ attempt[a].pc = "call"
  /\ Becomes(a, [attempt[a] EXCEPT !.pc = "flush", !.done = attempt[a].done \cup {attempt[a].at}])
  /\ UNCHANGED <<status, holder, count, records>>

\* Variant: a second attempt finds its key taken and overwrites the record.
ConflictsNever(a) == FALSE
\* The key was inserted and committed by another attempt since the check.
Conflicts(a) == attempt[a].at \in records

\* Another transaction has inserted the key and is still open.
Blocked(a) ==
  \E b \in Attempts \ {a} : IsOpen(b) /\ attempt[a].at \in attempt[b].fresh

\* Variant: the failed transaction of a conflict stays open.
FlushKeeps(a) ==
  /\ attempt[a].pc = "flush" /\ ~Blocked(a) /\ ~Conflicts(a)
  /\ Becomes(a, [attempt[a] EXCEPT !.pc = "ready", !.at = attempt[a].at + 1,
                                   !.fresh = attempt[a].fresh \cup {attempt[a].at}])
  /\ UNCHANGED <<status, holder, count, records>>
\* ... and its record is flushed.  An IntegrityError rolls the transaction back,
\* and execute_job, which goes on with the session, fails too.
Flush(a) ==
  /\ attempt[a].pc = "flush" /\ ~Blocked(a)
  /\ Becomes(a, IF Conflicts(a) THEN Ended(a, "aborted")
                ELSE [attempt[a] EXCEPT !.pc = "ready", !.at = attempt[a].at + 1,
                                        !.fresh = attempt[a].fresh \cup {attempt[a].at}])
  /\ UNCHANGED <<status, holder, count, records>>

\* The handler returns after its last operation, or raises before it or between
\* two of them.
HandlerEnds(a) ==
  /\ attempt[a].pc = "ready"
  /\ Becomes(a, At(a, "finalize"))
  /\ UNCHANGED <<status, holder, count, records>>

\* Completed: only a handler that came to its end returned normally.
Succeeds(a) == attempt[a].at > LastOp

\* Variant: the records of a failed attempt are rolled back with its work.
KeptOnSuccess(a) == IF Succeeds(a) THEN attempt[a].fresh ELSE {}
\* Whatever the outcome, the transaction with the records commits.
Kept(a) == attempt[a].fresh

\* The fenced UPDATE and the commit of execute_job; a fenced attempt commits its
\* execution, and with it the records.  A handler may also raise at its end.
Finalize(a) ==
  /\ attempt[a].pc = "finalize"
  /\ IF status = "running" /\ holder = a
     THEN /\ \/ Succeeds(a) /\ status' = "completed"
             \/ count < MaxRetries /\ status' = "queued"
             \/ count >= MaxRetries /\ status' = "dead_letter"
          /\ holder' = NoAttempt
     ELSE UNCHANGED <<status, holder>>
  /\ records' = records \cup Kept(a)
  /\ Becomes(a, Ended(a, "committed"))
  /\ UNCHANGED count

Crash(a) ==
  /\ a \in Crashes /\ IsOpen(a)
  /\ Becomes(a, Ended(a, "crashed"))
  /\ UNCHANGED <<status, holder, count, records>>

-----------------------------------------------------------------------------
Next ==
  \/ LeaseLost
  \/ \E a \in Attempts :
       \/ Claim(a) \/ Check(a) \/ Call(a) \/ CallRaises(a) \/ Flush(a)
       \/ HandlerEnds(a) \/ Finalize(a) \/ Crash(a)

Spec == Init /\ [][Next]_vars

\* A living worker goes on: handlers return and statements end.
Fairness ==
  \A a \in Attempts :
    WF_vars(Check(a) \/ Call(a) \/ CallRaises(a) \/ Flush(a) \/ HandlerEnds(a) \/ Finalize(a))

FairSpec == Spec /\ Fairness

-----------------------------------------------------------------------------
(* Correctness.                                                            *)

\* The values of the tables and the attempts; a running job has a holder.
TypeOK ==
  /\ status \in {"queued", "running", "completed", "dead_letter"}
  /\ holder \in Attempts \cup {NoAttempt}
  /\ status = "running" <=> holder # NoAttempt
  /\ count \in Nat
  /\ records \in SUBSET Ops
  /\ attempt \in [Attempts -> Attempt]

\* The effects that a performed, whatever became of its func().
Performed(a) == attempt[a].done \cup attempt[a].lost

\* "If already completed (from a prior attempt before a lease timeout/crash), skip
\* calling func()" (context.py:47-48): what was on record when an attempt was
\* claimed is never performed by it, whether the earlier attempt succeeded,
\* failed or was fenced.
RecordedNeverRepeated ==
  \A a \in Attempts : Performed(a) \cap attempt[a].known = {}

\* When two attempts that committed, zombies included, both performed an operation,
\* its func() raised in one of them: two that overlap may both perform one, but if
\* func() returned in both, one of them is rolled back as a whole.  An effect
\* whose func() raised after it is repeated, against the "zero duplicate external
\* side-effects" of docs/architecture.md:109 (README section 4).
KeptOnce ==
  \A a, b \in Attempts :
    a # b /\ attempt[a].pc = "committed" /\ attempt[b].pc = "committed"
    => Performed(a) \cap Performed(b) \subseteq attempt[a].lost \cup attempt[b].lost

\* Every effect of a committed attempt, completed, failed or fenced, is on record
\* for those that follow, unless its func() raised.
EffectsRecorded ==
  \A a \in Attempts :
    attempt[a].pc = "committed" => Performed(a) \ attempt[a].lost \subseteq records

\* Attempts that wait for each other's keys end nevertheless.
AttemptEnds == \A a \in Attempts : IsOpen(a) ~> ~IsOpen(a)
=============================================================================
