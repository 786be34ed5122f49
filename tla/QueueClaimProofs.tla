-------------------------- MODULE QueueClaimProofs --------------------------
(***************************************************************************)
(* Theorems about QueueClaim, for every value of its constants: what a     *)
(* claimer decided under the row lock of a queue is still true when its    *)
(* claim is committed.                                                     *)
(***************************************************************************)
EXTENDS QueueClaim, FiniteSetTheorems, TLAPS

-----------------------------------------------------------------------------
(* Type correctness.                                                       *)

\* The part of TypeOK that is about one transaction.
PollOK(p) ==
  /\ p \in Poll
  /\ p.pc \in {"count", "pick", "claimed"} => p.cur \in Queues
  /\ p.pc = "claimed" => p.job \in Jobs

\* The row of a claimer that looks at no queue.
LEMMA NoRowType == NoRow \in QueueRow
  BY DEF NoRow, QueueRow

\* A claimer that does not poll, or is down, holds no lock.
LEMMA NotPollingOK ==
  /\ PollOK(NotPolling)
  /\ PollOK([NotPolling EXCEPT !.pc = "down"])
  /\ NotPolling.held = {} /\ NotPolling.pc = "idle"
  <1>1. NotPolling \in Poll
    <2>1. <<>> \in Seq(Queues)
      OBVIOUS
    <2> QED BY <2>1, NoRowType DEF NotPolling, Poll
  <1>2. [NotPolling EXCEPT !.pc = "down"] \in Poll
    BY <1>1 DEF Poll
  <1>3. NotPolling.pc = "idle" /\ NotPolling.held = {} /\ [NotPolling EXCEPT !.pc = "down"].pc = "down"
    BY DEF NotPolling
  <1> QED BY <1>1, <1>2, <1>3 DEF PollOK

\* The candidates of a poll are a list of queues.
LEMMA OrderedType ==
  ASSUME ClaimAssumption, NEW S \in SUBSET Queues, NEW s \in Ordered(S)
  PROVE  s \in Seq(Queues)
  <1>1. IsFiniteSet(S)
    BY FS_Subset DEF ClaimAssumption
  <1>2. Cardinality(S) \in Nat
    BY <1>1, FS_CardinalityType
  <1>3. s \in [1..Cardinality(S) -> Queues]
    BY DEF Ordered
  <1> QED BY <1>2, <1>3

\* What a step of c may make of its own transaction, whatever it is.
LEMMA PollStep ==
  ASSUME ClaimAssumption, TypeOK, NEW c \in Claimers, ClaimerStep(c)
  PROVE  /\ poll' = [poll EXCEPT ![c] = poll'[c]]
         /\ PollOK(poll'[c])
  <1>0. poll \in [Claimers -> Poll] /\ poll[c] \in Poll /\ queue \in [Queues -> QueueRow]
    BY DEF TypeOK
  <1>1. CASE StartPoll(c)
    <2>1. Candidates(c) \in SUBSET Queues
      BY DEF Candidates
    <2>2. PICK todo \in Ordered(Candidates(c)) :
            poll' = [poll EXCEPT ![c] = [NotPolling EXCEPT !.pc = "scan", !.todo = todo]]
      BY <1>1 DEF StartPoll
    <2>3. todo \in Seq(Queues)
      BY <2>1, OrderedType
    <2>4. PollOK([NotPolling EXCEPT !.pc = "scan", !.todo = todo])
      BY <2>3, NoRowType DEF PollOK, NotPolling, Poll
    <2> QED BY <1>0, <2>2, <2>4
  <1>2. CASE LockQueue(c)
    <2> DEFINE q == Head(poll[c].todo)
               held == IF queue[q].exists THEN poll[c].held \cup {q} ELSE poll[c].held
               locked == [poll[c] EXCEPT !.todo = Tail(poll[c].todo), !.held = held]
    <2>1. poll[c].todo \in Seq(Queues) /\ poll[c].todo # <<>> /\ poll[c].pc = "scan"
      BY <1>0, <1>2 DEF LockQueue, Poll
    <2>2. q \in Queues /\ Tail(poll[c].todo) \in Seq(Queues)
      BY <2>1
    <2>3. held \in SUBSET Queues
      BY <1>0, <2>2 DEF Poll
    <2>4. locked \in Poll /\ locked.pc = "scan"
      BY <1>0, <2>1, <2>2, <2>3 DEF Poll
    <2>5. PollOK(locked)
      BY <2>4 DEF PollOK
    <2>6. PollOK([locked EXCEPT !.pc = "count", !.cur = q, !.row = queue[q]])
      <3>1. queue[q] \in QueueRow
        BY <1>0, <2>2
      <3> HIDE DEF locked, q
      <3> QED BY <2>2, <2>4, <3>1 DEF PollOK, Poll
    <2>7. poll' = [poll EXCEPT ![c] =
             IF Eligible(queue[q])
             THEN [locked EXCEPT !.pc = "count", !.cur = q, !.row = queue[q]] ELSE locked]
      BY <1>2 DEF LockQueue
    <2> HIDE DEF locked, q
    <2> QED BY <1>0, <2>5, <2>6, <2>7
  <1>3. PollOK(Passed(c))
    BY <1>0, NoRowType DEF PollOK, Passed, Poll
  <1>4. CASE CountRunning(c)
    <2>1. PollOK([poll[c] EXCEPT !.pc = "pick"])
      BY <1>0, <1>4 DEF CountRunning, PollOK, Poll, TypeOK
    <2> QED BY <1>0, <1>3, <1>4, <2>1 DEF CountRunning
  <1>5. CASE PickJob(c)
    <2>1. ASSUME NEW j \in Jobs
          PROVE  PollOK([poll[c] EXCEPT !.pc = "claimed", !.job = j])
      BY <1>0, <1>5 DEF PickJob, PollOK, Poll, TypeOK
    <2> QED BY <1>0, <1>3, <1>5, <2>1 DEF PickJob, Ready
  <1> QED BY <1>0, <1>1, <1>2, <1>4, <1>5, NotPollingOK
          DEF ClaimerStep, CommitClaim, RefuseClaim, EndPoll, CrashClaimer, ClaimerVictim

\* The initial state has its types.
LEMMA ClaimTypeInit == ClaimAssumption /\ Init => TypeOK
  <1> SUFFICES ASSUME ClaimAssumption, Init PROVE TypeOK
    OBVIOUS
  <1>1. queue \in [Queues -> QueueRow] /\ ops \in 0..MaxOps
    BY DEF ClaimAssumption, Init
  <1>2. job \in [Jobs -> JobRow]
    BY DEF Init, JobRow
  <1>3. \A c \in Claimers : poll[c] = NotPolling
    BY DEF Init
  <1>4. poll \in [Claimers -> Poll]
    BY NotPollingOK DEF Init, PollOK
  <1>5. insert \in [Inserters -> Insert]
    BY DEF Init, NotInserting, Insert
  <1>6. request \in [Operators -> Request]
    BY NoRowType DEF Init, NotRequested, Request
  <1> QED BY <1>1, <1>2, <1>3, <1>4, <1>5, <1>6, NotPollingOK DEF TypeOK, PollOK

\* An edit leaves a row of a queue.
LEMMA ChangesType ==
  ASSUME ClaimAssumption, NEW r \in QueueRow, NEW a \in Changes(r)
  PROVE  a \in QueueRow
  <1>1. ASSUME NEW b \in BOOLEAN PROVE [r EXCEPT !.paused = b] \in QueueRow
    BY DEF QueueRow
  <1>2. ASSUME NEW n \in Nat PROVE [r EXCEPT !.limit = n] \in QueueRow
    BY DEF QueueRow
  <1>3. ASSUME NEW n \in Nat PROVE [r EXCEPT !.priority = n] \in QueueRow
    BY DEF QueueRow
  <1>4. [r EXCEPT !.limited = TRUE] \in QueueRow
    BY DEF QueueRow
  <1>5. Limits \subseteq Nat /\ Priorities \subseteq Nat
    BY DEF ClaimAssumption
  <1> QED BY <1>1, <1>2, <1>3, <1>4, <1>5, NoRowType DEF Changes

\* What a request writes is a row, and nothing changes if nothing was assigned.
LEMMA WrittenType ==
  ASSUME NEW now \in QueueRow, NEW read \in QueueRow, NEW a \in QueueRow
  PROVE  /\ Written(now, read, a) \in QueueRow
         /\ a = read => Written(now, read, a) = now
  BY DEF Written, Column, QueueRow

\* Every step keeps the types.
LEMMA ClaimTypeNext == ClaimAssumption /\ TypeOK /\ [Next]_vars => TypeOK'
  <1> SUFFICES ASSUME ClaimAssumption, TypeOK, [Next]_vars PROVE TypeOK'
    OBVIOUS
  <1>1. ASSUME NEW c \in Claimers, ClaimerStep(c)
        PROVE  TypeOK'
    <2>1. poll' = [poll EXCEPT ![c] = poll'[c]] /\ PollOK(poll'[c])
      BY <1>1, PollStep
    <2>2. /\ poll' \in [Claimers -> Poll]
          /\ \A d \in Claimers : PollOK(poll'[d])
      BY <2>1 DEF TypeOK, PollOK
    <2>3. job' \in [Jobs -> JobRow]
      <3>1. [status |-> "running", lease |-> "live"] \in JobRow
        BY DEF JobRow
      <3> QED BY <1>1, <3>1 DEF TypeOK, ClaimerStep, StartPoll, LockQueue, CountRunning, PickJob,
                  CommitClaim, RefuseClaim, EndPoll, CrashClaimer, ClaimerVictim
    <2>4. UNCHANGED <<queue, insert, request, ops>>
      BY <1>1 DEF ClaimerStep, StartPoll, LockQueue, CountRunning, PickJob,
                  CommitClaim, RefuseClaim, EndPoll, CrashClaimer, ClaimerVictim
    <2> QED BY <2>2, <2>3, <2>4 DEF TypeOK, PollOK
  <1>2. ASSUME NEW i \in Inserters, InserterStep(i)
        PROVE  TypeOK'
    <2>1. insert[i] \in Insert /\ NotInserting \in Insert
      BY DEF TypeOK, Insert, NotInserting
    <2>2. insert' \in [Inserters -> Insert]
      <3>1. ASSUME NEW b \in Batches, StartInsert(i, b)
            PROVE  insert' \in [Inserters -> Insert]
        <4>1. b \in Seq(Jobs)
          BY DEF ClaimAssumption
        <4>2. [open |-> TRUE, todo |-> b, new |-> {}] \in Insert
          BY <4>1 DEF Insert
        <4> QED BY <3>1, <4>2 DEF StartInsert, TypeOK
      <3>2. CASE InsertJob(i)
        <4> DEFINE j == Head(insert[i].todo)
        <4>1. insert[i].todo \in Seq(Jobs) /\ insert[i].todo # <<>>
          BY <2>1, <3>2 DEF InsertJob, Insert
        <4>2. j \in Jobs /\ Tail(insert[i].todo) \in Seq(Jobs)
          BY <4>1
        <4>3. insert[i].new \cup {j} \in SUBSET Jobs
          BY <2>1, <4>2 DEF Insert
        <4>4. [insert[i] EXCEPT !.todo = Tail(insert[i].todo), !.new = insert[i].new \cup {j}] \in Insert
          BY <2>1, <4>2, <4>3 DEF Insert
        <4> QED BY <2>1, <3>2, <4>4 DEF InsertJob, TypeOK
      <3> QED BY <1>2, <2>1, <3>1, <3>2 DEF InserterStep, CommitInsert, InserterVictim, TypeOK
    <2>3. job' \in [Jobs -> JobRow]
      <3>1. [status |-> "queued", lease |-> "none"] \in JobRow
        BY DEF JobRow
      <3> QED BY <1>2, <3>1 DEF TypeOK, InserterStep, StartInsert, InsertJob, CommitInsert, InserterVictim
    <2>4. UNCHANGED <<queue, poll, request, ops>>
      BY <1>2 DEF InserterStep, StartInsert, InsertJob, CommitInsert, InserterVictim
    <2> QED BY <2>2, <2>3, <2>4 DEF TypeOK
  <1>3. ASSUME NEW o \in Operators, NEW q \in Queues, ReadQueue(o, q)
        PROVE  TypeOK'
    <2>1. PICK a \in Changes(queue[q]) :
            request' = [request EXCEPT ![o] = [queue |-> q, read |-> queue[q], assigned |-> a]]
      BY <1>3 DEF ReadQueue
    <2>2. queue[q] \in QueueRow /\ a \in QueueRow
      BY ChangesType DEF TypeOK
    <2>3. [queue |-> q, read |-> queue[q], assigned |-> a] \in Request
      BY <2>2 DEF Request
    <2>4. ops' \in 0..MaxOps
      BY <1>3 DEF ReadQueue, TypeOK, ClaimAssumption
    <2> QED BY <1>3, <2>1, <2>3, <2>4 DEF ReadQueue, TypeOK
  <1>4. ASSUME NEW o \in Operators, WriteQueue(o)
        PROVE  TypeOK'
    <2> DEFINE q == request[o].queue
               row == IF Deletes(o) \/ ~queue[q].exists THEN NoRow
                      ELSE Written(queue[q], request[o].read, request[o].assigned)
    <2>1. q \in Queues /\ request[o].read \in QueueRow /\ request[o].assigned \in QueueRow
      BY <1>4 DEF WriteQueue, TypeOK, Request
    <2>2. row \in QueueRow
      BY <2>1, NoRowType, WrittenType DEF TypeOK
    <2>3. queue' = [queue EXCEPT ![q] = row]
      BY <1>4 DEF WriteQueue
    <2>4. [status |-> "gone", lease |-> "none"] \in JobRow
      BY DEF JobRow
    <2>5. job' \in [Jobs -> JobRow]
      BY <1>4, <2>4 DEF WriteQueue, TypeOK
    <2>6. request' \in [Operators -> Request]
      BY <1>4, NoRowType DEF WriteQueue, TypeOK, NotRequested, Request
    <2> HIDE DEF row
    <2>7. queue' \in [Queues -> QueueRow]
      BY <2>1, <2>2, <2>3 DEF TypeOK
    <2> QED BY <1>4, <2>5, <2>6, <2>7 DEF WriteQueue, TypeOK
  <1>5. ASSUME NEW j \in Jobs, JobStep(j)
        PROVE  TypeOK'
    <2>1. job[j] \in JobRow
      BY DEF TypeOK
    <2>2. job' \in [Jobs -> JobRow]
      BY <1>5, <2>1 DEF TypeOK, JobRow, JobStep, Finish, LeaseExpires, Renew, Reap
    <2> QED BY <1>5, <2>2 DEF TypeOK, JobStep, Finish, LeaseExpires, Renew, Reap
  <1>6. CASE UNCHANGED vars
    BY <1>6 DEF TypeOK, vars
  <1> QED BY <1>1, <1>2, <1>3, <1>4, <1>5, <1>6 DEF Next, OperatorStep

\* The tables and the transactions hold only what the code can put there, for
\* any number of queues, claimers, inserters and requests.
THEOREM ClaimTypeCorrect == Spec => []TypeOK
  BY ClaimAssumption, ClaimTypeInit, ClaimTypeNext, PTL DEF Spec
-----------------------------------------------------------------------------
(* What a claimer knows under the lock.                                    *)

Deciding(c) == poll[c].pc \in {"count", "pick", "claimed"}

\* A row lock has one holder.
OneHolder ==
  \A c \in Claimers, d \in Claimers : \A q \in Queues : HeldBy(q, c) /\ HeldBy(q, d) => c = d

\* The row that was read is still the row of the queue.
RowCurrent ==
  \A c \in Claimers : Deciding(c) =>
    /\ HeldBy(poll[c].cur, c)
    /\ poll[c].row = queue[poll[c].cur]
    /\ Eligible(poll[c].row)

\* The count that was taken still leaves room.
HasRoom ==
  \A c \in Claimers, q \in Queues :
    poll[c].pc \in {"pick", "claimed"} /\ poll[c].cur = q
    => Cardinality(Unlapsed(q)) < queue[q].limit

\* The job that was picked is one of the queue.
PickedHere ==
  \A c \in Claimers : poll[c].pc = "claimed" => QueueOf[poll[c].job] = poll[c].cur

\* A request read a row that existed.
ReadExisting ==
  \A o \in Operators : request[o].queue # NoQueue => request[o].read.exists

ClaimInv ==
  /\ TypeOK
  /\ OneHolder /\ RowCurrent /\ HasRoom /\ PickedHere
  /\ ReadExisting

\* Jobs are finitely many, and a count may include leases that lapsed since.
LEMMA CountsFinite ==
  ASSUME ClaimAssumption, NEW q \in Queues
  PROVE  /\ IsFiniteSet(Unlapsed(q)) /\ Cardinality(Unlapsed(q)) \in Nat
         /\ IsFiniteSet(Counted(q)) /\ Cardinality(Counted(q)) \in Nat
         /\ Cardinality(Unlapsed(q)) <= Cardinality(Counted(q))
  <1>1. IsFiniteSet(Jobs) /\ Counted(q) \in SUBSET Jobs
    BY DEF ClaimAssumption, Counted, Running
  <1>2. Unlapsed(q) \in SUBSET Counted(q)
    BY DEF Unlapsed, Counted
  <1>3. IsFiniteSet(Counted(q))
    BY <1>1, FS_Subset
  <1>4. IsFiniteSet(Unlapsed(q)) /\ Cardinality(Unlapsed(q)) <= Cardinality(Counted(q))
    BY <1>2, <1>3, FS_Subset
  <1> QED BY <1>3, <1>4, FS_CardinalityType

\* Nothing but the commit of a claim makes a running job whose lease never
\* expired.
LEMMA RoomKept ==
  ASSUME ClaimAssumption, TypeOK, NEW q \in Queues,
         \A j \in Jobs : /\ QueueOf[j] = q
                         /\ job'[j].status = "running" /\ job'[j].lease = "live"
                         => job[j].status = "running" /\ job[j].lease = "live"
  PROVE  Cardinality(Unlapsed(q))' <= Cardinality(Unlapsed(q))
  <1>1. Unlapsed(q)' \in SUBSET Unlapsed(q)
    BY DEF Unlapsed, Running
  <1>2. IsFiniteSet(Unlapsed(q))
    BY CountsFinite
  <1>3. Cardinality(Unlapsed(q)') <= Cardinality(Unlapsed(q))
    BY <1>1, <1>2, FS_Subset
  <1> QED BY <1>3

\* The initial state satisfies the invariant.
LEMMA ClaimInvInit == ClaimAssumption /\ Init => ClaimInv
  <1> SUFFICES ASSUME ClaimAssumption, Init PROVE ClaimInv
    OBVIOUS
  <1>1. \A c \in Claimers : poll[c].pc = "idle" /\ poll[c].held = {}
    BY NotPollingOK DEF Init
  <1>2. ReadExisting
    BY DEF Init, NotRequested, ReadExisting
  <1> QED BY <1>1, <1>2, ClaimTypeInit
          DEF ClaimInv, OneHolder, HeldBy, RowCurrent, Deciding, HasRoom, PickedHere

\* The step of one claimer.
LEMMA ClaimerKeepsInv ==
  ASSUME ClaimAssumption, ClaimInv, TypeOK', NEW c \in Claimers, ClaimerStep(c)
  PROVE  ClaimInv'
  <1>0. TypeOK /\ poll[c] \in Poll
    BY DEF ClaimInv, TypeOK
  <1>1. /\ poll' = [poll EXCEPT ![c] = poll'[c]] /\ PollOK(poll'[c])
        /\ UNCHANGED <<queue, insert, request, ops>>
    BY <1>0, PollStep DEF ClaimerStep, StartPoll, LockQueue, CountRunning, PickJob,
                CommitClaim, RefuseClaim, EndPoll, CrashClaimer, ClaimerVictim
  <1>2. \A d \in Claimers \ {c} : poll'[d] = poll[d]
    BY <1>0, <1>1 DEF TypeOK
  \* What the step makes of c, action by action.
  <1>3. \/ /\ poll'[c].held = {} /\ poll'[c].pc \in {"idle", "scan", "down"}
           /\ CommitClaim(c) \/ job' = job
        \/ LockQueue(c) \/ CountRunning(c) \/ PickJob(c)
    <2>1. CASE StartPoll(c)
      <3>1. PICK todo : poll' = [poll EXCEPT ![c] = [NotPolling EXCEPT !.pc = "scan", !.todo = todo]]
        BY <2>1 DEF StartPoll
      <3>2. poll'[c] = [NotPolling EXCEPT !.pc = "scan", !.todo = todo]
        BY <1>0, <3>1 DEF TypeOK
      <3> QED BY <2>1, <3>2 DEF StartPoll, NotPolling
    <2>2. CASE CommitClaim(c) \/ RefuseClaim(c) \/ EndPoll(c) \/ ClaimerVictim(c)
      BY <1>0, <2>2, NotPollingOK DEF CommitClaim, RefuseClaim, EndPoll, ClaimerVictim, TypeOK
    <2>3. CASE CrashClaimer(c)
      <3>1. poll'[c] = [NotPolling EXCEPT !.pc = "down"]
        BY <1>0, <2>3 DEF CrashClaimer, TypeOK
      <3> QED BY <2>3, <3>1 DEF CrashClaimer, NotPolling
    <2> QED BY <2>1, <2>2, <2>3 DEF ClaimerStep
  <1> DEFINE q == Head(poll[c].todo)
  <1>4. ASSUME LockQueue(c)
        PROVE  /\ q \in Queues /\ Grantable(c, q) /\ job' = job
               /\ poll'[c].held = IF queue[q].exists THEN poll[c].held \cup {q} ELSE poll[c].held
               /\ \/ poll'[c].pc = "scan"
                  \/ /\ poll'[c].pc = "count" /\ poll'[c].cur = q /\ poll'[c].row = queue[q]
                     /\ Eligible(queue[q])
    <2> DEFINE held == IF queue[q].exists THEN poll[c].held \cup {q} ELSE poll[c].held
               locked == [poll[c] EXCEPT !.todo = Tail(poll[c].todo), !.held = held]
    <2>1. poll[c].todo \in Seq(Queues) /\ poll[c].todo # <<>> /\ poll[c].pc = "scan"
      BY <1>0, <1>4 DEF LockQueue, Poll
    <2>2. /\ locked.held = held /\ locked.pc = "scan"
          /\ [locked EXCEPT !.pc = "count", !.cur = q, !.row = queue[q]].held = held
      BY <1>0, <2>1 DEF Poll
    <2>3. poll'[c] = IF Eligible(queue[q])
                     THEN [locked EXCEPT !.pc = "count", !.cur = q, !.row = queue[q]] ELSE locked
      BY <1>0, <1>4 DEF LockQueue, TypeOK
    <2>4. q \in Queues
      BY <2>1
    <2>5. Grantable(c, q) /\ job' = job
      BY <1>4 DEF LockQueue
    <2>6. CASE Eligible(queue[q])
      <3>1. poll'[c] = [locked EXCEPT !.pc = "count", !.cur = q, !.row = queue[q]]
        BY <2>3, <2>6
      <3>2. poll'[c].pc = "count" /\ poll'[c].cur = q /\ poll'[c].row = queue[q]
        BY <1>0, <3>1 DEF Poll
      <3>3. poll'[c].held = held
        BY <2>2, <3>1
      <3> QED BY <2>4, <2>5, <2>6, <3>2, <3>3
    <2>7. CASE ~Eligible(queue[q])
      <3>1. poll'[c] = locked
        BY <2>3, <2>7
      <3> QED BY <2>2, <2>4, <2>5, <3>1
    <2> QED BY <2>6, <2>7
  <1>5. ASSUME CountRunning(c)
        PROVE  /\ job' = job /\ poll'[c].held = poll[c].held /\ poll[c].pc = "count"
               /\ \/ poll'[c].pc = "scan"
                  \/ /\ poll'[c].pc = "pick" /\ poll'[c].cur = poll[c].cur
                     /\ poll'[c].row = poll[c].row /\ ~Full(c)
    BY <1>0, <1>5 DEF CountRunning, Passed, Poll, TypeOK
  <1>6. ASSUME PickJob(c)
        PROVE  /\ job' = job /\ poll'[c].held = poll[c].held /\ poll[c].pc = "pick"
               /\ \/ poll'[c].pc = "scan"
                  \/ /\ poll'[c].pc = "claimed" /\ poll'[c].cur = poll[c].cur
                     /\ poll'[c].row = poll[c].row
                     /\ QueueOf[poll'[c].job] = poll[c].cur
    <2>1. CASE poll' = [poll EXCEPT ![c] = Passed(c)]
      BY <1>0, <1>6, <2>1 DEF PickJob, Passed, Poll, TypeOK
    <2>2. ASSUME NEW j \in Ready(poll[c].cur),
                 poll' = [poll EXCEPT ![c] = [poll[c] EXCEPT !.pc = "claimed", !.job = j]]
          PROVE  /\ poll'[c].held = poll[c].held
                 /\ poll'[c].pc = "claimed" /\ poll'[c].cur = poll[c].cur
                 /\ poll'[c].row = poll[c].row
                 /\ QueueOf[poll'[c].job] = poll[c].cur
      BY <1>0, <2>2 DEF Ready, Poll, TypeOK
    <2> QED BY <1>6, <2>1, <2>2 DEF PickJob
  <1>7. OneHolder'
    <2>1. \A p \in Queues : p \in poll'[c].held =>
            p \in poll[c].held \/ \A d \in Claimers \ {c} : ~HeldBy(p, d)
      BY <1>3, <1>4, <1>5, <1>6 DEF Grantable
    <2> QED BY <1>2, <2>1 DEF ClaimInv, OneHolder, HeldBy
  <1>8. RowCurrent'
    <2>1. ASSUME NEW d \in Claimers \ {c}, Deciding(d)'
          PROVE  /\ HeldBy(poll[d].cur, d)'
                 /\ poll'[d].row = queue'[poll'[d].cur]
                 /\ Eligible(poll'[d].row)
      BY <1>1, <1>2, <2>1 DEF ClaimInv, RowCurrent, Deciding, HeldBy
    <2>2. ASSUME Deciding(c)'
          PROVE  /\ HeldBy(poll[c].cur, c)'
                 /\ poll'[c].row = queue'[poll'[c].cur]
                 /\ Eligible(poll'[c].row)
      <3>1. CASE LockQueue(c)
        BY <1>1, <1>4, <2>2, <3>1 DEF Deciding, HeldBy, Eligible
      <3>2. CASE CountRunning(c) \/ PickJob(c)
        BY <1>1, <1>5, <1>6, <2>2, <3>2 DEF ClaimInv, RowCurrent, Deciding, HeldBy
      <3> QED BY <1>3, <2>2, <3>1, <3>2 DEF Deciding
    <2> QED BY <2>1, <2>2 DEF RowCurrent, Eligible
  <1>9. HasRoom'
    <2> SUFFICES ASSUME NEW d \in Claimers, NEW p \in Queues,
                        poll'[d].pc \in {"pick", "claimed"}, poll'[d].cur = p
                 PROVE  Cardinality(Unlapsed(p))' < queue'[p].limit
      BY DEF HasRoom
    <2>1. CASE CountRunning(c) /\ d = c
      <3>1. /\ ~Full(c) /\ Deciding(c) /\ poll[c].cur = p /\ job' = job /\ queue' = queue
        BY <1>1, <1>5, <2>1 DEF Deciding
      <3>2. poll[c].row = queue[p]
        BY <3>1 DEF ClaimInv, RowCurrent
      <3>3. queue[p].limit \in Nat
        BY <1>0 DEF TypeOK, QueueRow
      <3>4. Cardinality(Unlapsed(p)) < queue[p].limit
        BY <3>1, <3>2, <3>3, CountsFinite DEF Full
      <3> QED BY <3>1, <3>4 DEF Unlapsed, Running
    <2>2. CASE ~(CountRunning(c) /\ d = c)
      <3>1. poll[d].pc \in {"pick", "claimed"} /\ poll[d].cur = p /\ Deciding(d)
            /\ ~(CommitClaim(c) /\ d = c)
        <4>1. CASE d # c
          BY <1>2, <4>1 DEF Deciding
        <4>2. CASE d = c
          <5>1. ~CountRunning(c)
            BY <2>2, <4>2
          <5>2. ~LockQueue(c) /\ ~(poll'[c].pc \in {"idle", "scan", "down"})
            BY <1>4, <4>2
          <5>3. PickJob(c)
            BY <1>3, <5>1, <5>2
          <5>4. poll[c].pc = "pick" /\ poll'[c].cur = poll[c].cur
            BY <1>6, <4>2, <5>3
          <5>5. ~CommitClaim(c)
            BY <5>4 DEF CommitClaim
          <5> QED BY <4>2, <5>4, <5>5 DEF Deciding
        <4> QED BY <4>1, <4>2
      <3>2. Cardinality(Unlapsed(p)) < queue[p].limit
        BY <3>1 DEF ClaimInv, HasRoom
      <3>3. \A j \in Jobs : /\ QueueOf[j] = p
                            /\ job'[j].status = "running" /\ job'[j].lease = "live"
                            => job[j].status = "running" /\ job[j].lease = "live"
        <4>1. CASE CommitClaim(c)
          <5>1. poll[c].pc = "claimed" /\ Deciding(c) /\ QueueOf[poll[c].job] = poll[c].cur
            BY <4>1 DEF CommitClaim, ClaimInv, PickedHere, Deciding
          <5>2. poll[c].cur # p
            BY <3>1, <4>1, <5>1 DEF ClaimInv, RowCurrent, OneHolder
          <5> QED BY <1>0, <4>1, <5>1, <5>2 DEF CommitClaim, TypeOK
        <4> QED BY <1>3, <1>4, <1>5, <1>6, <4>1
      <3>4. Cardinality(Unlapsed(p))' <= Cardinality(Unlapsed(p))
        BY <1>0, <3>3, RoomKept
      <3>5. /\ Cardinality(Unlapsed(p)) \in Nat /\ Cardinality(Unlapsed(p))' \in Nat
            /\ queue[p].limit \in Nat /\ queue' = queue
        <4>1. ASSUME ClaimAssumption PROVE Cardinality(Unlapsed(p))' \in Nat
          <5>1. IsFiniteSet(Unlapsed(p)')
            BY FS_Subset DEF ClaimAssumption, Unlapsed, Running
          <5>2. Cardinality(Unlapsed(p)') \in Nat
            BY <5>1, FS_CardinalityType
          <5> QED BY <5>2
        <4> QED BY <1>0, <1>1, <4>1, CountsFinite DEF TypeOK, QueueRow
      <3> QED BY <3>2, <3>4, <3>5
    <2> QED BY <2>1, <2>2
  <1>10. PickedHere'
    <2> SUFFICES ASSUME NEW d \in Claimers, poll'[d].pc = "claimed"
                 PROVE  QueueOf[poll'[d].job] = poll'[d].cur
      BY DEF PickedHere
    <2>1. CASE d # c
      BY <1>2, <2>1 DEF ClaimInv, PickedHere
    <2>2. CASE d = c
      BY <1>3, <1>4, <1>5, <1>6, <2>2
    <2> QED BY <2>1, <2>2
  <1>11. ReadExisting'
    BY <1>1 DEF ClaimInv, ReadExisting
  <1> QED BY <1>7, <1>8, <1>9, <1>10, <1>11 DEF ClaimInv

\* A step that leaves the claimers and the queue rows under their locks alone,
\* and that starts no job.
LEMMA OthersKeepInv ==
  ASSUME ClaimAssumption, ClaimInv, TypeOK', ReadExisting', poll' = poll,
         \A c \in Claimers : Deciding(c) => queue'[poll[c].cur] = queue[poll[c].cur],
         \A j \in Jobs : job'[j].status = "running" /\ job'[j].lease = "live"
                         => job[j].status = "running" /\ job[j].lease = "live"
  PROVE  ClaimInv'
  <1>0. TypeOK
    BY DEF ClaimInv
  <1>1. OneHolder' /\ RowCurrent' /\ PickedHere'
    BY DEF ClaimInv, OneHolder, RowCurrent, PickedHere, Deciding, HeldBy
  <1>2. ASSUME NEW d \in Claimers, NEW p \in Queues,
               poll'[d].pc \in {"pick", "claimed"}, poll'[d].cur = p
        PROVE  Cardinality(Unlapsed(p))' < queue'[p].limit
    <2>1. Cardinality(Unlapsed(p)) < queue[p].limit /\ queue'[p] = queue[p]
      BY <1>2 DEF ClaimInv, HasRoom, Deciding
    <2>2. Cardinality(Unlapsed(p))' <= Cardinality(Unlapsed(p))
      BY <1>0, RoomKept
    <2>3. IsFiniteSet(Unlapsed(p)')
      BY FS_Subset DEF ClaimAssumption, Unlapsed, Running
    <2>4. Cardinality(Unlapsed(p)') \in Nat
      BY <2>3, FS_CardinalityType
    <2>5. Cardinality(Unlapsed(p)) \in Nat /\ queue[p].limit \in Nat
      BY <1>0, CountsFinite DEF TypeOK, QueueRow
    <2> QED BY <2>1, <2>2, <2>4, <2>5
  <1> QED BY <1>1, <1>2 DEF ClaimInv, HasRoom

\* Every step keeps the invariant.
LEMMA ClaimInvNext == ClaimAssumption /\ ClaimInv /\ [Next]_vars => ClaimInv'
  <1> SUFFICES ASSUME ClaimAssumption, ClaimInv, [Next]_vars PROVE ClaimInv'
    OBVIOUS
  <1>0. TypeOK /\ TypeOK' /\ ReadExisting
    BY ClaimTypeNext DEF ClaimInv
  <1>1. ASSUME NEW c \in Claimers, ClaimerStep(c)
        PROVE  ClaimInv'
    BY <1>0, <1>1, ClaimerKeepsInv
  <1>2. ASSUME NEW i \in Inserters, InserterStep(i)
        PROVE  ClaimInv'
    <2>1. UNCHANGED <<queue, poll, request>>
      BY <1>2 DEF InserterStep, StartInsert, InsertJob, CommitInsert, InserterVictim
    <2>2. \A j \in Jobs : job'[j].status = "running" => job'[j] = job[j]
      BY <1>2 DEF InserterStep, StartInsert, InsertJob, CommitInsert, InserterVictim
    <2>3. ReadExisting'
      BY <1>0, <2>1 DEF ReadExisting
    <2> QED BY <1>0, <2>1, <2>2, <2>3, OthersKeepInv
  <1>3. ASSUME NEW o \in Operators, NEW q \in Queues, ReadQueue(o, q)
        PROVE  ClaimInv'
    <2>1. PICK a : request' = [request EXCEPT ![o] = [queue |-> q, read |-> queue[q], assigned |-> a]]
      BY <1>3 DEF ReadQueue
    <2>2. ReadExisting'
      BY <1>0, <1>3, <2>1 DEF ReadQueue, ReadExisting, TypeOK
    <2> QED BY <1>0, <1>3, <2>2, OthersKeepInv DEF ReadQueue
  <1>4. ASSUME NEW o \in Operators, WriteQueue(o)
        PROVE  ClaimInv'
    <2> DEFINE q == request[o].queue
               row == IF Deletes(o) \/ ~queue[q].exists THEN NoRow
                      ELSE Written(queue[q], request[o].read, request[o].assigned)
    <2>1. /\ q \in Queues
          /\ request[o].read \in QueueRow /\ request[o].assigned \in QueueRow
          /\ request[o].read.exists
      BY <1>0, <1>4 DEF WriteQueue, TypeOK, Request, ReadExisting
    <2>2. ReadExisting'
      BY <1>0, <1>4 DEF WriteQueue, ReadExisting, TypeOK, NotRequested
    <2>3. queue' = [queue EXCEPT ![q] = row] /\ poll' = poll
      BY <1>4 DEF WriteQueue
    <2>4. ASSUME NEW c \in Claimers, Deciding(c)
          PROVE  queue'[poll[c].cur] = queue[poll[c].cur]
      <3>1. HeldBy(poll[c].cur, c) /\ queue[poll[c].cur].exists
        BY <2>4 DEF ClaimInv, RowCurrent, Eligible
      <3>2. CASE poll[c].cur = q
        <4>1. ~Writes(o)
          BY <1>4, <3>1, <3>2 DEF WriteQueue
        <4>2. request[o].assigned = request[o].read /\ ~Deletes(o)
          BY <2>1, <4>1 DEF Writes, Deletes, NoRow
        <4>3. queue[q] \in QueueRow
          BY <1>0, <2>1 DEF TypeOK
        <4>4. row = queue[q]
          BY <2>1, <3>1, <3>2, <4>2, <4>3, WrittenType
        <4> HIDE DEF row
        <4> QED BY <1>0, <2>1, <2>3, <3>2, <4>4 DEF TypeOK
      <3>3. CASE poll[c].cur # q
        <4> HIDE DEF row
        <4> QED BY <1>0, <2>1, <2>3, <2>4, <3>3 DEF TypeOK, Deciding
      <3> QED BY <3>2, <3>3
    <2>5. \A j \in Jobs : job'[j].status = "running" => job'[j] = job[j]
      BY <1>4 DEF WriteQueue
    <2> QED BY <1>0, <2>2, <2>3, <2>4, <2>5, OthersKeepInv
  <1>5. ASSUME NEW j \in Jobs, JobStep(j)
        PROVE  ClaimInv'
    <2>1. \A k \in Jobs : job'[k].status = "running" /\ job'[k].lease = "live" => job'[k] = job[k]
      BY <1>0, <1>5 DEF TypeOK, JobRow, JobStep, Finish, LeaseExpires, Renew, Reap
    <2>2. UNCHANGED <<queue, poll, request>>
      BY <1>5 DEF JobStep, Finish, LeaseExpires, Renew, Reap
    <2>3. ReadExisting'
      BY <1>0, <2>2 DEF ReadExisting
    <2> QED BY <1>0, <2>1, <2>2, <2>3, OthersKeepInv
  <1>6. CASE UNCHANGED vars
    <2>1. ReadExisting'
      BY <1>0, <1>6 DEF ReadExisting, vars
    <2> QED BY <1>0, <1>6, <2>1, OthersKeepInv DEF vars
  <1> QED BY <1>1, <1>2, <1>3, <1>4, <1>5, <1>6 DEF Next, OperatorStep

\* Every reachable state satisfies the invariant.
LEMMA ClaimInvHolds == Spec => []ClaimInv
  BY ClaimAssumption, ClaimInvInit, ClaimInvNext, PTL DEF Spec

-----------------------------------------------------------------------------
(* What is true when a claim is committed.                                 *)

\* A claim that commits leaves its queue within the limit.
LEMMA CommitFits ==
  ASSUME ClaimAssumption, ClaimInv, Next, NEW c \in Claimers, NEW q \in Queues,
         Commits(c), poll[c].cur = q
  PROVE  Cardinality(Unlapsed(q)') <= queue[q].limit
  <1>0. TypeOK /\ ClaimInv' /\ Deciding(c)
    BY ClaimInvNext DEF ClaimInv, Commits, Deciding
  <1>1. Cardinality(Unlapsed(q)) < queue[q].limit
    BY DEF ClaimInv, HasRoom, Commits
  <1>2. /\ IsFiniteSet(Unlapsed(q)) /\ Cardinality(Unlapsed(q)) \in Nat
        /\ queue[q].limit \in Nat
    BY <1>0, CountsFinite DEF TypeOK, QueueRow
  <1>3. CASE CommitClaim(c)
    <2> DEFINE j == poll[c].job
    <2>1. Unlapsed(q)' \in SUBSET (Unlapsed(q) \cup {j})
      BY <1>0, <1>3 DEF CommitClaim, Unlapsed, Running, TypeOK
    <2>2. /\ IsFiniteSet(Unlapsed(q) \cup {j})
          /\ Cardinality(Unlapsed(q) \cup {j}) \in {Cardinality(Unlapsed(q)), Cardinality(Unlapsed(q)) + 1}
      BY <1>2, FS_AddElement
    <2>3. /\ IsFiniteSet(Unlapsed(q)')
          /\ Cardinality(Unlapsed(q)') <= Cardinality(Unlapsed(q) \cup {j})
      BY <2>1, <2>2, FS_Subset
    <2>4. Cardinality(Unlapsed(q)') \in Nat
      BY <2>3, FS_CardinalityType
    <2> QED BY <1>1, <1>2, <2>2, <2>3, <2>4
  <1>4. CASE ClaimerStep(c) /\ ~CommitClaim(c)
    <2>1. job' = job
      BY <1>4 DEF ClaimerStep, StartPoll, LockQueue, CountRunning, PickJob,
                  RefuseClaim, EndPoll, CrashClaimer, ClaimerVictim
    <2>2. Unlapsed(q)' = Unlapsed(q)
      BY <2>1 DEF Unlapsed, Running
    <2> QED BY <1>1, <1>2, <2>2
  <1>5. CASE ~ClaimerStep(c)
    <2>1. poll'[c] = poll[c]
      <3>1. ASSUME NEW d \in Claimers, ClaimerStep(d)
            PROVE  poll'[c] = poll[c]
        BY <1>0, <1>5, <3>1, PollStep DEF TypeOK
      <3>2. ASSUME NEW i \in Inserters, InserterStep(i)
            PROVE  poll' = poll
        BY <3>2 DEF InserterStep, StartInsert, InsertJob, CommitInsert, InserterVictim
      <3>3. ASSUME NEW o \in Operators, OperatorStep(o)
            PROVE  poll' = poll
        BY <3>3 DEF OperatorStep, ReadQueue, WriteQueue
      <3>4. ASSUME NEW j \in Jobs, JobStep(j)
            PROVE  poll' = poll
        BY <3>4 DEF JobStep, Finish, LeaseExpires, Renew, Reap
      <3> QED BY <3>1, <3>2, <3>3, <3>4 DEF Next
    <2>2. queue'[q] = queue[q]
      BY <1>0, <2>1 DEF ClaimInv, RowCurrent, Deciding
    <2>3. Cardinality(Unlapsed(q))' < queue'[q].limit
      BY <1>0, <2>1 DEF ClaimInv, HasRoom, Commits
    <2>4. IsFiniteSet(Unlapsed(q)')
      BY FS_Subset DEF ClaimAssumption, Unlapsed, Running
    <2>5. Cardinality(Unlapsed(q)') \in Nat
      BY <2>4, FS_CardinalityType
    <2> QED BY <1>2, <2>2, <2>3, <2>5
  <1> QED BY <1>3, <1>4, <1>5

\* A committed claim keeps the queue within its limit, counting the jobs whose
\* lease never expired.
THEOREM ClaimsFit == Spec => ClaimWithinLimit
  <1>1. ClaimAssumption /\ ClaimInv /\ [Next]_vars =>
          [\A c \in Claimers, q \in Queues :
             Commits(c) /\ poll[c].cur = q => Cardinality(Unlapsed(q)') <= queue[q].limit]_vars
    BY CommitFits
  <1> QED BY <1>1, ClaimAssumption, ClaimInvHolds, PTL DEF Spec, ClaimWithinLimit

\* No claim is committed from a queue that is paused or deleted.
THEOREM PausedQueuesRest == Spec => PausedNeverClaims
  <1>1. ClaimInv => \A c \in Claimers : Commits(c) =>
          queue[poll[c].cur].exists /\ ~queue[poll[c].cur].paused
    BY DEF ClaimInv, RowCurrent, Commits, Deciding, Eligible
  <1>2. ClaimInv /\ [Next]_vars =>
          [\A c \in Claimers : Commits(c) =>
             queue[poll[c].cur].exists /\ ~queue[poll[c].cur].paused]_vars
    BY <1>1
  <1> QED BY <1>2, ClaimInvHolds, PTL DEF Spec, PausedNeverClaims
=============================================================================
