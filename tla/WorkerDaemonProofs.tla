------------------------- MODULE WorkerDaemonProofs --------------------------
(***************************************************************************)
(* What WorkerDaemon keeps for every concurrency limit and any numbers of  *)
(* jobs, claims and signals: its types, the account of its permits and the *)
(* link between active_job_ids and the tasks.                              *)
(***************************************************************************)
EXTENDS WorkerDaemon, FiniteSetTheorems, TLAPS

\* The type invariant, with the upper bound of the permits left to the account.
Typed ==
  /\ proc \in {"up", "exited", "crashed"} /\ running \in BOOLEAN /\ heart \in BOOLEAN
  /\ loop \in LoopAt
  /\ permits \in Nat
  /\ task \in [Claims -> Task] /\ active \in SUBSET Jobs
  /\ stop \in [Signals -> StopAt] /\ waits \in [Signals -> SUBSET Claims]
  /\ worker \in WorkerStatus /\ job \in [Jobs -> JobRow]

-----------------------------------------------------------------------------
(* Types.                                                                  *)

\* The initial state has its types.
LEMMA InitTyped == Init => Typed
<1> SUFFICES ASSUME Init PROVE Typed
  OBVIOUS
<1>1. NoTask \in Task /\ Released("queued") \in JobRow
  BY DEF NoTask, Task, Released, JobRow
<1>2. task \in [Claims -> Task] /\ job \in [Jobs -> JobRow]
  BY <1>1 DEF Init
<1>3. stop \in [Signals -> StopAt] /\ waits \in [Signals -> SUBSET Claims]
  BY DEF Init, StopAt
<1> QED BY <1>2, <1>3, DaemonAssumption DEF Init, Typed, LoopAt, WorkerStatus

\* A row without its owner is a row.
LEMMA ReleasedIsRow == \A status \in {"queued", "done"} : Released(status) \in JobRow
BY DEF Released, JobRow

\* Every step writes only values of the types.
LEMMA NextTyped == Typed /\ [Next]_vars => Typed'
<1> SUFFICES ASSUME Typed, [Next]_vars PROVE Typed'
  OBVIOUS
<1> USE DaemonAssumption
<1>1. CASE Register \/ Begin \/ WaitForPermit \/ LeaveLoop \/ Wake
  BY <1>1 DEF Typed, LoopAt, WorkerStatus, Register, Begin, WaitForPermit, LeaveLoop, Wake, GoesTo
<1>2. CASE Poll \/ ClaimNothing
  BY <1>2 DEF Typed, LoopAt, Poll, ClaimNothing, MayPoll, GoesTo
<1>3. ASSUME NEW c \in Claims, NEW j \in Jobs, ClaimCommit(c, j) PROVE Typed'
  <2>1. [status |-> "running", by |-> c, live |-> TRUE] \in JobRow
    BY DEF JobRow
  <2>2. [at |-> "won", job |-> j] \in Task
    BY DEF Task
  <2> QED BY <1>3, <2>1, <2>2 DEF Typed, LoopAt, ClaimCommit, GoesTo
<1>4. ASSUME NEW c \in Claims, Launch(c) \/ ReplyLost(c) \/ BeginTask(c) PROVE Typed'
  <2>0. task[c].job \in Jobs /\ NoTask \in Task
    BY <1>4 DEF Typed, Task, NoTask, Launch, ReplyLost, BeginTask
  <2>1. CASE Launch(c)
    <3>1. [at |-> "created", job |-> task[c].job] \in Task
      BY <2>0 DEF Task
    <3> QED BY <2>1, <3>1 DEF Typed, LoopAt, Launch, GoesTo
  <2>2. CASE ReplyLost(c)
    BY <2>0, <2>2 DEF Typed, LoopAt, ReplyLost, AfterLostReply, GoesTo
  <2>3. CASE BeginTask(c)
    <3>1. [at |-> "running", job |-> task[c].job] \in Task
      BY <2>0 DEF Task
    <3>2. task' \in [Claims -> Task]
      BY <2>3, <3>1 DEF Typed, BeginTask
    <3>3. active' \in SUBSET Jobs
      BY <2>0, <2>3 DEF Typed, BeginTask
    <3> QED BY <2>3, <3>2, <3>3 DEF Typed, BeginTask
  <2> QED BY <1>4, <2>1, <2>2, <2>3
<1>5. ASSUME NEW c \in Claims, EndTask(c) PROVE Typed'
  <2>1. job' \in [Jobs -> JobRow] /\ active' \in SUBSET Jobs
    <3>1. PICK outcome \in {"done", "queued", "kept"} :
            /\ job' = IF outcome = "kept" THEN job
                      ELSE [job EXCEPT ![task[c].job] = Released(outcome)]
            /\ active' = Ended(c, outcome = "kept")
      BY <1>5 DEF EndTask
    <3>2. active' \in SUBSET Jobs
      BY <3>1 DEF Typed, Ended
    <3>3. CASE outcome = "kept"
      BY <3>1, <3>2, <3>3 DEF Typed
    <3>4. CASE outcome \in {"done", "queued"}
      <4>1. Released(outcome) \in JobRow
        BY <3>4, ReleasedIsRow
      <4>2. job' = [job EXCEPT ![task[c].job] = Released(outcome)]
        BY <3>1, <3>4
      <4> QED BY <3>2, <4>1, <4>2 DEF Typed
    <3> QED BY <3>3, <3>4
  <2>2. NoTask \in Task
    BY DEF Task, NoTask
  <2> QED BY <1>5, <2>1, <2>2 DEF Typed, EndTask
<1>6. ASSUME Beat PROVE job' \in [Jobs -> JobRow]
  <2>1. ASSUME NEW j \in Jobs PROVE [job[j] EXCEPT !.live = TRUE] \in JobRow
    BY DEF Typed, JobRow
  <2> QED BY <1>6, <2>1 DEF Beat, Typed
<1>7. CASE Heartbeat
  BY <1>6, <1>7 DEF Typed, Heartbeat, daemon
<1>8. ASSUME NEW s \in Signals, StopStep(s) PROVE Typed'
  <2>1. CASE Signal(s) \/ Gathered(s) \/ StopHeart(s) \/ StopFails(s)
    BY <2>1 DEF Typed, StopAt, Signal, Gathered, StopHeart, StopFails, StopGoes
  <2>2. CASE MarkDraining(s) \/ MarkDead(s)
    BY <2>2 DEF Typed, StopAt, WorkerStatus, MarkDraining, MarkDead, StopGoes, Marked
  <2>3. CASE DrainBeat(s)
    <3>1. job' \in [Jobs -> JobRow]
      BY <1>6, <2>3 DEF Typed, DrainBeat
    <3> QED BY <2>3, <3>1 DEF Typed, StopAt, DrainBeat, StopGoes
  <2> QED BY <1>8, <2>1, <2>2, <2>3 DEF StopStep
<1>9. CASE Exit \/ Crash
  <2>1. PICK how \in {"exited", "crashed"} : Gone(how)
    BY <1>9 DEF Exit, Crash
  <2>2. task' \in [Claims -> Task] /\ active' \in SUBSET Jobs
    BY <2>1 DEF Gone, Task
  <2>3. stop' \in [Signals -> StopAt] /\ waits' \in [Signals -> SUBSET Claims]
    BY <2>1 DEF Gone, StopAt
  <2> QED BY <2>1, <2>2, <2>3 DEF Typed, LoopAt, Gone
<1>10. CASE OperatorDrains \/ Deregister \/ MarkSilentDead
  BY <1>10 DEF Typed, WorkerStatus, OperatorDrains, Deregister, MarkSilentDead, daemon
<1>11. ASSUME NEW j \in Jobs, LeaseExpires(j) \/ Reap(j) \/ ForeignClaim(j) \/ ForeignEnd(j)
       PROVE Typed'
  <2>1. /\ [job[j] EXCEPT !.live = FALSE] \in JobRow
        /\ [status |-> "running", by |-> Foreign, live |-> TRUE] \in JobRow
    BY DEF Typed, JobRow
  <2>2. job' \in [Jobs -> JobRow]
    <3>1. CASE LeaseExpires(j)
      BY <3>1, <2>1 DEF Typed, LeaseExpires
    <3>2. CASE Reap(j)
      BY <3>2, ReleasedIsRow DEF Typed, Reap
    <3>3. CASE ForeignClaim(j)
      BY <3>3, <2>1 DEF Typed, ForeignClaim
    <3>4. CASE ForeignEnd(j)
      BY <3>4, ReleasedIsRow DEF Typed, ForeignEnd
    <3> QED BY <1>11, <3>1, <3>2, <3>3, <3>4
  <2>3. UNCHANGED <<daemon, worker>>
    BY <1>11 DEF LeaseExpires, Reap, ForeignClaim, ForeignEnd
  <2> QED BY <2>2, <2>3 DEF Typed, daemon
<1>12. CASE UNCHANGED vars
  BY <1>12 DEF Typed, vars, daemon
<1> QED BY <1>1, <1>2, <1>3, <1>4, <1>5, <1>7, <1>8, <1>9, <1>10, <1>11, <1>12
        DEF Next, LoopStep, Others

-----------------------------------------------------------------------------
(* Permits.                                                                *)

\* The claims that hold a permit are finitely many.
LEMMA InFlightFinite == InFlight \subseteq Claims /\ IsFiniteSet(InFlight)
<1>1. InFlight \subseteq Claims
  BY DEF InFlight
<1> QED BY <1>1, FS_Subset, DaemonAssumption

\* A claim that leaves the set in flight, and one that enters it.
LEMMA Leaves == ASSUME NEW c \in InFlight, InFlight' = InFlight \ {c}
                PROVE Cardinality(InFlight') = Cardinality(InFlight) - 1
BY InFlightFinite, FS_RemoveElement

\* A claim that enters takes one permit.
LEMMA Enters == ASSUME NEW c \in Claims \ InFlight, InFlight' = InFlight \cup {c}
                PROVE Cardinality(InFlight') = Cardinality(InFlight) + 1
BY InFlightFinite, FS_AddElement

\* At the start every permit is free.
LEMMA InitAccounted == Init => PermitsAccounted
<1> SUFFICES ASSUME Init PROVE PermitsAccounted
  OBVIOUS
<1>1. InFlight = {} /\ PollHolds = 0
  BY DEF Init, InFlight, NoTask, PollHolds
<1>2. Cardinality({}) = 0
  BY FS_EmptySet
<1> QED BY <1>1, <1>2, DaemonAssumption DEF Init, PermitsAccounted

\* A step that touches neither permits nor tasks nor the poll keeps the account.
LEMMA Untouched ==
  ASSUME PermitsAccounted, permits' = permits, InFlight' = InFlight, PollHolds' = PollHolds
  PROVE  PermitsAccounted'
BY DEF PermitsAccounted

\* Each permit that moves is given by one holder and taken by another.
LEMMA NextAccounted == Typed /\ PermitsAccounted /\ [Next]_vars => PermitsAccounted'
<1> SUFFICES ASSUME Typed, PermitsAccounted, [Next]_vars PROVE PermitsAccounted'
  OBVIOUS
<1> USE DaemonAssumption
<1>0. permits \in Nat /\ Cardinality(InFlight) \in Nat
  BY InFlightFinite, FS_CardinalityType DEF Typed
<1>1. CASE Register \/ Begin \/ WaitForPermit \/ LeaveLoop \/ Wake
  <2>1. permits' = permits /\ task' = task /\ loop # "claiming" /\ loop' # "claiming"
    BY <1>1 DEF Register, Begin, WaitForPermit, LeaveLoop, Wake, GoesTo
  <2>2. InFlight' = InFlight /\ PollHolds' = PollHolds
    BY <2>1 DEF InFlight, PollHolds
  <2> QED BY <2>1, <2>2, Untouched
<1>2. CASE Poll
  <2>1. InFlight' = InFlight /\ PollHolds = 0 /\ PollHolds' = 1 /\ permits' = permits - 1
    BY <1>2 DEF Poll, MayPoll, InFlight, PollHolds
  <2> QED BY <1>0, <2>1 DEF PermitsAccounted
<1>3. CASE ClaimNothing
  <2>1. InFlight' = InFlight /\ PollHolds = 1 /\ PollHolds' = 0 /\ permits' = permits + 1
    BY <1>3 DEF ClaimNothing, GoesTo, InFlight, PollHolds
  <2> QED BY <1>0, <2>1 DEF PermitsAccounted
<1>4. ASSUME NEW c \in Claims, NEW j \in Jobs, ClaimCommit(c, j) PROVE PermitsAccounted'
  <2>1. PollHolds = 1 /\ PollHolds' = 0 /\ permits' = permits
    BY <1>4 DEF ClaimCommit, GoesTo, PollHolds
  <2>2. c \in Claims \ InFlight /\ InFlight' = InFlight \cup {c}
    BY <1>4 DEF ClaimCommit, Unused, InFlight, Typed
  <2>3. Cardinality(InFlight') = Cardinality(InFlight) + 1
    BY <2>2, Enters
  <2> QED BY <1>0, <2>1, <2>3 DEF PermitsAccounted
<1>5. ASSUME NEW c \in Claims, Launch(c) \/ BeginTask(c) PROVE PermitsAccounted'
  <2>1. permits' = permits /\ PollHolds' = PollHolds
    BY <1>5 DEF Launch, BeginTask, GoesTo, PollHolds
  <2>2. InFlight' = InFlight
    BY <1>5 DEF Launch, BeginTask, InFlight, Typed
  <2> QED BY <2>1, <2>2, Untouched
<1>6. ASSUME NEW c \in Claims, ReplyLost(c) \/ EndTask(c) PROVE PermitsAccounted'
  <2>1. permits' = permits + 1 /\ PollHolds' = PollHolds
    BY <1>6 DEF ReplyLost, AfterLostReply, EndTask, GoesTo, PollHolds
  <2>2. c \in InFlight /\ InFlight' = InFlight \ {c}
    BY <1>6 DEF ReplyLost, EndTask, InFlight, Typed, NoTask
  <2>3. Cardinality(InFlight') = Cardinality(InFlight) - 1
    BY <2>2, Leaves
  <2>4. PollHolds \in Nat
    BY DEF PollHolds
  <2> QED BY <1>0, <2>1, <2>3, <2>4 DEF PermitsAccounted
<1>7. CASE Exit \/ Crash
  <2>1. permits' = Concurrency /\ PollHolds' = 0
    BY <1>7 DEF Exit, Crash, Gone, PollHolds
  <2>2. InFlight' = {}
    BY <1>7 DEF Exit, Crash, Gone, InFlight, NoTask
  <2>3. Cardinality({}) = 0
    BY FS_EmptySet
  <2> QED BY <2>1, <2>2, <2>3 DEF PermitsAccounted
<1>8. CASE UNCHANGED <<loop, permits, task>>
  <2>1. permits' = permits /\ InFlight' = InFlight /\ PollHolds' = PollHolds
    BY <1>8 DEF InFlight, PollHolds
  <2> QED BY <2>1, Untouched
<1>9. Heartbeat \/ (\E s \in Signals : StopStep(s)) \/ Others \/ UNCHANGED vars
        => UNCHANGED <<loop, permits, task>>
  BY DEF Heartbeat, StopStep, Signal, MarkDraining, DrainBeat, Gathered, StopHeart, MarkDead,
         StopFails, Others, OperatorDrains, Deregister, MarkSilentDead, LeaseExpires, Reap,
         ForeignClaim, ForeignEnd, vars, daemon
<1> QED BY <1>1, <1>2, <1>3, <1>4, <1>5, <1>6, <1>7, <1>8, <1>9 DEF Next, LoopStep

-----------------------------------------------------------------------------
(* active_job_ids.                                                         *)

\* At the start nothing is renewed.
LEMMA InitTracked == Init => RenewsOnlyTasks
BY DEF Init, RenewsOnlyTasks

\* An id enters with its task and leaves, at the latest, with the same task.
LEMMA NextTracked == Typed /\ RenewsOnlyTasks /\ [Next]_vars => RenewsOnlyTasks'
<1> SUFFICES ASSUME Typed, RenewsOnlyTasks, [Next]_vars, NEW j \in active'
             PROVE  \E c \in Claims : task'[c].at = "running" /\ task'[c].job = j
  BY DEF RenewsOnlyTasks
<1>1. ASSUME NEW c \in Claims, NEW i \in Jobs, ClaimCommit(c, i)
      PROVE  \E d \in Claims : task'[d].at = "running" /\ task'[d].job = j
  <2>1. PICK d \in Claims : task[d].at = "running" /\ task[d].job = j
    BY <1>1 DEF ClaimCommit, RenewsOnlyTasks
  <2>2. d # c
    BY <1>1, <2>1 DEF ClaimCommit, Unused
  <2> QED BY <1>1, <2>1, <2>2 DEF ClaimCommit, Typed
<1>2. ASSUME NEW c \in Claims, Launch(c) \/ ReplyLost(c)
      PROVE  \E d \in Claims : task'[d].at = "running" /\ task'[d].job = j
  <2>1. PICK d \in Claims : task[d].at = "running" /\ task[d].job = j
    BY <1>2 DEF Launch, ReplyLost, RenewsOnlyTasks
  <2>2. d # c
    BY <1>2, <2>1 DEF Launch, ReplyLost
  <2> QED BY <1>2, <2>1, <2>2 DEF Launch, ReplyLost, Typed
<1>3. ASSUME NEW c \in Claims, BeginTask(c)
      PROVE  \E d \in Claims : task'[d].at = "running" /\ task'[d].job = j
  <2>1. CASE j = task[c].job
    BY <1>3, <2>1 DEF BeginTask, Typed
  <2>2. CASE j # task[c].job
    <3>1. PICK d \in Claims : task[d].at = "running" /\ task[d].job = j
      BY <1>3, <2>2 DEF BeginTask, RenewsOnlyTasks
    <3> QED BY <1>3, <3>1 DEF BeginTask, Typed
  <2> QED BY <2>1, <2>2
<1>4. ASSUME NEW c \in Claims, EndTask(c)
      PROVE  \E d \in Claims : task'[d].at = "running" /\ task'[d].job = j
  <2>1. active' = active \ {task[c].job}
    BY <1>4 DEF EndTask, Ended
  <2>2. PICK d \in Claims : task[d].at = "running" /\ task[d].job = j
    BY <2>1 DEF RenewsOnlyTasks
  <2>3. d # c
    BY <2>1, <2>2
  <2> QED BY <1>4, <2>2, <2>3 DEF EndTask, Typed
<1>5. CASE Exit \/ Crash
  BY <1>5 DEF Exit, Crash, Gone
<1>6. CASE UNCHANGED <<task, active>>
  BY <1>6 DEF RenewsOnlyTasks
<1>7. ASSUME \/ Register \/ Begin \/ WaitForPermit \/ LeaveLoop \/ Wake \/ Poll \/ ClaimNothing
             \/ Heartbeat \/ (\E s \in Signals : StopStep(s)) \/ Others \/ UNCHANGED vars
      PROVE  UNCHANGED <<task, active>>
  BY <1>7 DEF Register, Begin, WaitForPermit, LeaveLoop, Wake, Poll, ClaimNothing,
         Heartbeat, StopStep, Signal, MarkDraining, DrainBeat, Gathered, StopHeart, MarkDead,
         StopFails, Others, OperatorDrains, Deregister, MarkSilentDead, LeaseExpires, Reap,
         ForeignClaim, ForeignEnd, vars, daemon
<1> QED BY <1>1, <1>2, <1>3, <1>4, <1>5, <1>6, <1>7 DEF Next, LoopStep

-----------------------------------------------------------------------------
(* Theorems.                                                               *)

\* Accounting bounds the permits that are left.
LEMMA Bounded == Typed /\ PermitsAccounted => TypeOK
<1> SUFFICES ASSUME Typed, PermitsAccounted PROVE TypeOK
  OBVIOUS
<1>1. Cardinality(InFlight) \in Nat /\ PollHolds \in Nat
  BY InFlightFinite, FS_CardinalityType DEF PollHolds
<1>2. permits \in 0..Concurrency
  BY <1>1, DaemonAssumption DEF Typed, PermitsAccounted
<1> QED BY <1>2 DEF Typed, TypeOK

\* The process and the rows hold only values of their types; the semaphore never
\* exceeds the concurrency limit (daemon.py:33, 123).
THEOREM DaemonTypeCorrect == Spec => []TypeOK
<1>1. Init => Typed /\ PermitsAccounted
  BY InitTyped, InitAccounted
<1>2. Typed /\ PermitsAccounted /\ [Next]_vars => (Typed /\ PermitsAccounted)'
  BY NextTyped, NextAccounted
<1> QED BY <1>1, <1>2, Bounded, PTL DEF Spec

\* No permit is ever lost or released twice, for any concurrency limit
\* (daemon.py:123, 133-161).
THEOREM PermitsBalance == Spec => []PermitsAccounted
<1>1. Init => Typed /\ PermitsAccounted
  BY InitTyped, InitAccounted
<1>2. Typed /\ PermitsAccounted /\ [Next]_vars => (Typed /\ PermitsAccounted)'
  BY NextTyped, NextAccounted
<1> QED BY <1>1, <1>2, PTL DEF Spec

\* Only jobs with a running task are renewed, whatever fails (daemon.py:112-123).
THEOREM OnlyTasksRenewed == Spec => []RenewsOnlyTasks
<1>1. Init => Typed /\ RenewsOnlyTasks
  BY InitTyped, InitTracked
<1>2. Typed /\ RenewsOnlyTasks /\ [Next]_vars => (Typed /\ RenewsOnlyTasks)'
  BY NextTyped, NextTracked
<1> QED BY <1>1, <1>2, PTL DEF Spec
=============================================================================
