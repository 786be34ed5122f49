------------------------- MODULE JobLifecycleProofs -------------------------
(***************************************************************************)
(* Theorems about JobLifecycle, for every value of its constants: the      *)
(* tables are well typed, the fencing tokens keep their promise, and, when *)
(* no transaction is overtaken, retries, dead letters and children do.     *)
(***************************************************************************)
EXTENDS JobLifecycle, TLAPS

-----------------------------------------------------------------------------
(* Type correctness.  TypeOK is not inductive: StartAttempt reads the row  *)
(* of the job that an attempt names, so attempts that were issued have to  *)
(* name one.                                                               *)

AttemptNamed ==
  \A t \in Tokens :
    attempt[t].phase # "unissued" => attempt[t].job \in Jobs /\ attempt[t].worker \in Workers

TypeInv == TypeOK /\ AttemptNamed

\* An attempt that ends remembers its job and its worker.
LEMMA ClosedType ==
  ASSUME TypeOK, NEW t \in Tokens, NEW phase \in Phase
  PROVE  /\ Closed(t, phase) \in Attempt
         /\ Closed(t, phase).phase = phase
         /\ Closed(t, phase).job = attempt[t].job
         /\ Closed(t, phase).worker = attempt[t].worker
  BY DEF TypeOK, Closed, Attempt

\* A released row has no token.
LEMMA ReleasedType ==
  ASSUME NEW r \in Row, NEW status \in Status
  PROVE  /\ Released(r, status) \in Row
         /\ Released(r, status).status = status
         /\ Released(r, status).token = NoToken
  BY DEF Released, Row

\* What an ORM commit does to a row, whatever was read: the row stays a row, its
\* token is kept or cleared, and it does not become running (or absent).
LEMMA WrittenRow ==
  ASSUME TypeOK, NEW j \in Jobs, NEW read \in Row,
         NEW op \in {"cancel", "retry", "replay", "reap"}
  PROVE  /\ Written(op, j, read) \in Row
         /\ Written(op, j, read).token \in {rows[j].token, NoToken}
         /\ Written(op, j, read).status
              \in {rows[j].status, "cancelled", "queued", "dead_letter"}
         /\ /\ op = "reap" => read.status = "running"
            /\ Written(op, j, read).status = "running"
            => Written(op, j, read).token = rows[j].token
  <1> DEFINE now == rows[j]
             a == Assigned(op, j, read)
             status == OrmColumn(now.status, read.status, a.status)
             token == OrmColumn(now.token, read.token, a.token)
             owner == OrmColumn(now.owner, read.owner, a.owner)
             lease == OrmColumn(now.lease, read.lease, a.lease)
             o == OrmWrite(now, read, a)
  <1>1. /\ a.status \in {"cancelled", "queued", "dead_letter"}
        /\ a.token \in {read.token, NoToken}
        /\ a.owner = NoWorker
        /\ a.lease = "none"
    BY DEF Assigned, Row
  <1>2. now \in Row
    BY DEF TypeOK
  <1>10. now.status \in Status /\ {"cancelled", "queued", "dead_letter"} \subseteq Status
    BY <1>2 DEF Row, Status
  <1>3. /\ status \in {now.status, "cancelled", "queued", "dead_letter"} \cap Status
        /\ token \in {now.token, NoToken} \cap (Tokens \cup {NoToken})
        /\ owner \in Workers \cup {NoWorker}
        /\ lease \in {"none", "live", "expired"}
    <2> HIDE DEF a, now
    <2> QED BY <1>1, <1>2, <1>10 DEF OrmColumn, Row
  <1>7. op = "reap" /\ read.status = "running" => status # "running"
    <2> HIDE DEF a, now
    <2> QED BY <1>1 DEF OrmColumn
  <1>8. op # "reap" => token = now.token
    <2>1. op # "reap" => a.token = read.token
      BY DEF Assigned, Row
    <2> QED BY <2>1 DEF OrmColumn
  <1>4. o = [now EXCEPT !.status = status, !.token = token, !.owner = owner, !.lease = lease]
    BY DEF OrmWrite
  <1>5. o \in Row /\ o.status = status /\ o.token = token
    <2> HIDE DEF o, status, token, owner, lease, now
    <2> QED BY <1>2, <1>3, <1>4, Zenon DEF Row
  <1>6. Written(op, j, read) = IF Requeues(op, j, read) THEN [o EXCEPT !.runAt = "due"] ELSE o
    BY DEF Written
  <1> HIDE DEF o, status, token
  <1>9. /\ Written(op, j, read) \in Row
        /\ Written(op, j, read).status = status
        /\ Written(op, j, read).token = token
    BY <1>5, <1>6 DEF Row
  <1> QED BY <1>3, <1>7, <1>8, <1>9

\* What a transaction reads has the type of a session.
LEMMA SessionType ==
  ASSUME TypeOK, NEW op \in Op, NEW S \in SUBSET Jobs
  PROVE  [op |-> op, touched |-> S,
          rows    |-> [j \in Jobs |-> IF j \in S THEN rows[j] ELSE Absent],
          entries |-> [j \in Jobs |-> IF j \in S THEN ReadEntry(j) ELSE "none"]] \in Session
  <1> DEFINE read == [j \in Jobs |-> IF j \in S THEN rows[j] ELSE Absent]
             entries == [j \in Jobs |-> IF j \in S THEN ReadEntry(j) ELSE "none"]
  <1>1. Absent \in Row
    BY DEF Absent, Row, Status
  <1>2. read \in [Jobs -> Row]
    BY <1>1 DEF TypeOK
  <1>3. entries \in [Jobs -> Entry]
    BY DEF TypeOK, ReadEntry, Entry
  <1>4. [op |-> op, touched |-> S, rows |-> read, entries |-> entries] \in Session
    <2> HIDE DEF read, entries
    <2> QED BY <1>2, <1>3 DEF Session
  <1> QED BY <1>4

\* A session without a transaction.
LEMMA IdleType == Idle \in Session
  BY DEF Idle, Session, Op, Absent, Row, Status, Entry

\* A bulk request inserts new rows where there were none and none was requested.
LEMMA ManyInserted ==
  ASSUME TypeOK, NEW S \in SUBSET Jobs, CreateMany(S)
  PROVE  /\ Quiet /\ rows' \in [Jobs -> Row] /\ UNCHANGED <<dlq, attempt, up, active, session, ops>>
         /\ \A i \in Jobs \ S : rows'[i] = rows[i]
         /\ \A j \in S : /\ rows[j].status = "absent" /\ ~Requested(j)
                        /\ rows'[j].status \in {"queued", "scheduled"} /\ rows'[j].attempts = 0
                        /\ rows'[j].token = NoToken /\ rows'[j].runAt # "never"
  <1> DEFINE R == {New("queued", "due"), New("queued", "later"), New("scheduled", "later")}
  <1>1. \A r \in R : /\ r \in Row /\ r.status \in {"queued", "scheduled"} /\ r.attempts = 0
                     /\ r.token = NoToken /\ r.runAt # "never"
    <2>1. ASSUME NEW status \in {"queued", "scheduled"}, NEW runAt \in {"due", "later"}
          PROVE  LET r == New(status, runAt)
                 IN  /\ r \in Row /\ r.status \in {"queued", "scheduled"} /\ r.attempts = 0
                     /\ r.token = NoToken /\ r.runAt # "never"
      BY DEF New, Absent, Row, Status
    <2> QED BY <2>1
  <1>2. PICK new \in [S -> R] : rows' = [j \in Jobs |-> IF j \in S THEN new[j] ELSE rows[j]]
    BY DEF CreateMany
  <1> HIDE DEF R
  <1>3. /\ \A i \in Jobs \ S : rows'[i] = rows[i]
        /\ \A j \in S : rows'[j] = new[j] /\ new[j] \in R
    BY <1>2
  <1>4. rows' \in [Jobs -> Row]
    BY <1>1, <1>2 DEF TypeOK
  <1>5. /\ Quiet /\ UNCHANGED <<dlq, attempt, up, active, session, ops>>
        /\ \A j \in S : rows[j].status = "absent" /\ ~Requested(j)
    BY DEF CreateMany
  <1> QED BY <1>1, <1>3, <1>4, <1>5

\* The initial state has its types.
LEMMA TypeInit == LifecycleAssumption /\ Init => TypeInv
  <1> SUFFICES ASSUME LifecycleAssumption, Init PROVE TypeInv
    OBVIOUS
  <1>1. rows \in [Jobs -> Row]
    BY DEF Init, Absent, Row, Status
  <1>2. session \in [Sessions -> Session]
    BY IdleType DEF Init
  <1>3. attempt \in [Tokens -> Attempt] /\ AttemptNamed
    BY DEF Init, Unissued, Attempt, Phase, AttemptNamed
  <1>4. dlq \in [Jobs -> Entry] /\ up \in SUBSET Workers /\ active \in [Workers -> SUBSET Jobs]
    BY DEF Init, Entry
  <1>5. ops \in 0..MaxOps
    BY DEF Init, LifecycleAssumption
  <1> QED BY <1>1, <1>2, <1>3, <1>4, <1>5 DEF TypeInv, TypeOK

\* Every step keeps the types.
LEMMA TypeNext == LifecycleAssumption /\ TypeInv /\ [Next]_vars => TypeInv'
  <1> SUFFICES ASSUME LifecycleAssumption, TypeInv, [Next]_vars PROVE TypeInv'
    OBVIOUS
  <1> USE DEF TypeInv
  <1>1. ASSUME NEW w \in Workers, NEW j \in Jobs, NEW t \in Tokens, Claim(w, j, t)
        PROVE  TypeInv'
    <2>1. rows[j] \in Row /\ rows[j].attempts + 1 \in Nat /\ "running" \in Status
      BY DEF TypeOK, Row, Status
    <2>2. rows'[j] \in Row
      BY <1>1, <2>1 DEF Claim, TypeOK, Row
    <2>3. attempt'[t] \in Attempt
      BY <1>1 DEF Claim, TypeOK, Unissued, Attempt, Phase, Busy
    <2>4. rows' \in [Jobs -> Row] /\ attempt' \in [Tokens -> Attempt]
      BY <1>1, <2>2, <2>3 DEF Claim, TypeOK
    <2>5. AttemptNamed'
      BY <1>1 DEF Claim, TypeOK, Unissued, AttemptNamed
    <2> QED BY <1>1, <2>4, <2>5 DEF Claim, TypeOK
  <1>2. ASSUME NEW w \in Workers, NEW j \in Jobs, ClaimRefused(w, j)
        PROVE  TypeInv'
    <2>1. rows'[j] \in Row
      BY <1>2, ReleasedType DEF ClaimRefused, TypeOK, Status
    <2> QED BY <1>2, <2>1 DEF ClaimRefused, TypeOK, AttemptNamed
  <1>3. ASSUME NEW t \in Tokens, StartAttempt(t)
        PROVE  TypeInv'
    <2>1. attempt[t].job \in Jobs /\ attempt[t].worker \in Workers
      BY <1>3 DEF StartAttempt, AttemptNamed
    <2>2. rows[attempt[t].job].attempts \in Nat
      BY <2>1 DEF TypeOK, Row
    <2>3. attempt[t] \in Attempt
      BY DEF TypeOK
    <2> DEFINE a == [attempt[t] EXCEPT !.phase = "running",
                                       !.count = rows[attempt[t].job].attempts]
    <2>4. a \in Attempt /\ a.job = attempt[t].job /\ a.worker = attempt[t].worker
      BY <2>2, <2>3 DEF Attempt, Phase, Busy
    <2>5. attempt' = [attempt EXCEPT ![t] = a]
      BY <1>3 DEF StartAttempt
    <2> HIDE DEF a
    <2> QED BY <1>3, <2>1, <2>4, <2>5 DEF StartAttempt, TypeOK, AttemptNamed
  <1>4. ASSUME NEW t \in Tokens, NEW ok \in BOOLEAN, FinalizeUpdate(t, ok)
        PROVE  TypeInv'
    <2>1. WaitingKids(t, ok) \in SUBSET Jobs
      BY DEF WaitingKids
    <2>2. attempt[t].job \in Jobs /\ attempt[t].worker \in Workers
      BY <1>4 DEF FinalizeUpdate, AttemptNamed
    <2>3. attempt[t] \in Attempt
      BY DEF TypeOK
    <2> DEFINE a == [attempt[t] EXCEPT !.phase = "finalizing", !.ok = ok,
                                       !.kids = WaitingKids(t, ok)]
    <2>4. a \in Attempt /\ a.job = attempt[t].job /\ a.worker = attempt[t].worker
      BY <2>1, <2>3 DEF Attempt, Phase, Busy
    <2>5. attempt' = [attempt EXCEPT ![t] = a]
      BY <1>4 DEF FinalizeUpdate
    <2> HIDE DEF a
    <2>6. attempt' \in [Tokens -> Attempt] /\ AttemptNamed'
      BY <2>2, <2>4, <2>5 DEF TypeOK, AttemptNamed
    <2> QED BY <1>4, <2>6 DEF FinalizeUpdate, TypeOK
  <1>5. ASSUME NEW t \in Tokens, FinalizeFenced(t)
        PROVE  TypeInv'
    <2>1. attempt[t].job \in Jobs /\ attempt[t].worker \in Workers
      BY <1>5 DEF FinalizeFenced, AttemptNamed
    <2> QED BY <1>5, <2>1, ClosedType DEF FinalizeFenced, TypeOK, AttemptNamed, Phase
  <1>6. ASSUME NEW t \in Tokens, FinalizeCommit(t)
        PROVE  TypeInv'
    <2>1. attempt[t].job \in Jobs /\ attempt[t].worker \in Workers
      BY <1>6 DEF FinalizeCommit, AttemptNamed
    <2>2. \A status \in Status : Released(rows[attempt[t].job], status) \in Row
      BY <2>1, ReleasedType DEF TypeOK
    <2>3. rows' \in [Jobs -> Row]
      <3>1. CASE Complete(t)
        <4>1. ASSUME NEW c \in Jobs
              PROVE  [rows[c] EXCEPT !.status = "queued", !.runAt = "due"] \in Row
          <5>1. rows[c] \in Row /\ "queued" \in Status
            BY DEF TypeOK, Status
          <5> QED BY <5>1 DEF Row
        <4>2. "completed" \in Status
          BY DEF Status
        <4> QED BY <2>2, <3>1, <4>1, <4>2 DEF Complete, WithKids, TypeOK
      <3>2. CASE Reschedule(t)
        <4>1. "scheduled" \in Status
          BY DEF Status
        <4>2. [Released(rows[attempt[t].job], "scheduled") EXCEPT !.runAt = "later"] \in Row
          BY <2>2, <4>1 DEF Row
        <4> QED BY <3>2, <4>2 DEF Reschedule, TypeOK
      <3>3. CASE Bury(t)
        <4>1. ASSUME NEW c \in Jobs
              PROVE  [rows[c] EXCEPT !.status = "cancelled"] \in Row
          <5>1. rows[c] \in Row /\ "cancelled" \in Status
            BY DEF TypeOK, Status
          <5> QED BY <5>1 DEF Row
        <4>2. "dead_letter" \in Status
          BY DEF Status
        <4> QED BY <2>2, <3>3, <4>1, <4>2 DEF Bury, WithKids, TypeOK
      <3> QED BY <1>6, <3>1, <3>2, <3>3 DEF FinalizeCommit
    <2>4. dlq' \in [Jobs -> Entry]
      BY <1>6, <2>1 DEF FinalizeCommit, Complete, Reschedule, Bury, TypeOK, Entry
    <2>5. PICK phase \in Phase : attempt' = [attempt EXCEPT ![t] = Closed(t, phase)]
      BY <1>6 DEF FinalizeCommit, Complete, Reschedule, Bury, Phase, Applied
    <2>6. attempt' \in [Tokens -> Attempt] /\ AttemptNamed'
      BY <2>1, <2>5, ClosedType DEF TypeOK, AttemptNamed
    <2>7. /\ UNCHANGED <<up, session, ops>>
          /\ active' \in [Workers -> SUBSET Jobs]
      BY <1>6, <2>1 DEF FinalizeCommit, TypeOK
    <2> QED BY <2>3, <2>4, <2>6, <2>7 DEF TypeOK
  <1>7. ASSUME NEW w \in Workers, Heartbeat(w)
        PROVE  TypeInv'
    <2>1. ASSUME NEW j \in Jobs
          PROVE  [rows[j] EXCEPT !.lease = "live"] \in Row
      <3>1. rows[j] \in Row
        BY DEF TypeOK
      <3> QED BY <3>1 DEF Row
    <2> QED BY <1>7, <2>1 DEF Heartbeat, TypeOK, AttemptNamed
  <1>8. ASSUME NEW w \in Workers, Crash(w)
        PROVE  TypeInv'
    <2>1. attempt' \in [Tokens -> Attempt] /\ AttemptNamed'
      BY <1>8, ClosedType DEF Crash, TypeOK, AttemptNamed, Phase, Busy
    <2> QED BY <1>8, <2>1 DEF Crash, TypeOK
  <1>9. ASSUME NEW s \in Sessions, NEW op \in Op, NEW S \in SUBSET Jobs, Open(s, op, S)
        PROVE  session' \in [Sessions -> Session]
    BY <1>9, SessionType DEF Open, TypeOK
  <1>10. ASSUME NEW c \in Clients, NEW j \in Jobs,
                CancelRead(c, j) \/ RetryRead(c, j) \/ ReplayRead(c, j)
         PROVE  TypeInv'
    <2>1. Request(c) /\ \E op \in Op : Open(c, op, {j})
      BY <1>10 DEF CancelRead, RetryRead, ReplayRead, Op
    <2>2. session' \in [Sessions -> Session]
      BY <2>1, <1>9 DEF Sessions
    <2> QED BY <2>1, <2>2 DEF Request, TypeOK, AttemptNamed, LifecycleAssumption
  <1>11. ASSUME NEW c \in Clients, ReplayAllRead(c)
         PROVE  TypeInv'
    <2>1. Request(c) /\ \E S \in SUBSET Jobs : Open(c, "replay", S)
      BY <1>11 DEF ReplayAllRead
    <2>2. session' \in [Sessions -> Session]
      BY <2>1, <1>9 DEF Sessions, Op
    <2> QED BY <2>1, <2>2 DEF Request, TypeOK, AttemptNamed, LifecycleAssumption
  <1>12. ASSUME NEW r \in Reapers, ReapRead(r)
         PROVE  TypeInv'
    <2>1. \E S \in SUBSET Jobs : Open(r, "sweep", S)
      BY <1>12 DEF ReapRead
    <2>2. session' \in [Sessions -> Session]
      BY <2>1, <1>9 DEF Sessions, Op
    <2> QED BY <1>12, <2>2 DEF ReapRead, TypeOK, AttemptNamed
  <1>13. ASSUME NEW r \in Reapers, ReapLookup(r)
         PROVE  TypeInv'
    <2>1. \A j \in Jobs : ReadEntry(j) \in Entry
      BY DEF TypeOK, ReadEntry, Entry
    <2>2. session' \in [Sessions -> Session]
      <3> DEFINE entries == [j \in Jobs |-> IF j \in session[r].touched
                                            THEN ReadEntry(j) ELSE "none"]
                 n == [session[r] EXCEPT !.op = "reap", !.entries = entries]
      <3>1. entries \in [Jobs -> Entry]
        BY <2>1 DEF Entry
      <3>2. session[r] \in Session
        BY DEF TypeOK, Sessions
      <3>3. n \in Session
        <4> HIDE DEF entries
        <4> QED BY <3>1, <3>2 DEF Session, Op
      <3>4. session' = [session EXCEPT ![r] = n]
        BY <1>13, <3>2 DEF ReapLookup, TypeOK, Session, Sessions
      <3> QED BY <3>3, <3>4 DEF TypeOK
    <2> QED BY <1>13, <2>2 DEF ReapLookup, TypeOK, AttemptNamed
  <1>14. ASSUME NEW s \in Sessions, Flush(s)
         PROVE  TypeInv'
    <2>1. session' \in [Sessions -> Session]
      BY <1>14, IdleType DEF Flush, TypeOK
    <2>2. \A j \in Jobs : Written(session[s].op, j, session[s].rows[j]) \in Row
      BY <1>14, WrittenRow DEF Flush, TypeOK, Session
    <2>3. rows' \in [Jobs -> Row]
      BY <1>14, <2>2 DEF Flush, TypeOK
    <2>4. \A j \in Jobs : EntryAfter(s, j) \in Entry
      BY DEF EntryAfter, OrmColumn, TypeOK, Session, Entry
    <2>5. dlq' \in [Jobs -> Entry]
      BY <1>14, <2>4 DEF Flush, TypeOK
    <2> QED BY <1>14, <2>1, <2>3, <2>5 DEF Flush, TypeOK, AttemptNamed
  <1>15. ASSUME NEW j \in Jobs, CreateRoot(j)
         PROVE  TypeInv'
    <2>1. rows' \in [Jobs -> Row]
      <3>1. New("queued", "due") \in Row /\ New("scheduled", "later") \in Row
        BY DEF New, Absent, Row, Status
      <3> QED BY <1>15, <3>1 DEF CreateRoot, TypeOK
    <2> QED BY <1>15, <2>1 DEF CreateRoot, TypeOK, AttemptNamed
  <1>16. ASSUME NEW c \in Clients, NEW j \in Jobs, CreateRead(c, j)
         PROVE  TypeInv'
    <2>1. PICK child \in Row :
            session' = [session EXCEPT ![c] = [Idle EXCEPT !.op = "create",
                                                 !.touched = {j}, !.rows[j] = child]]
      <3>1. New("queued", "due") \in Row /\ New("scheduled", "never") \in Row
        BY DEF New, Absent, Row, Status
      <3> QED BY <1>16, <3>1 DEF CreateRead
    <2>2. [Idle EXCEPT !.op = "create", !.touched = {j}, !.rows[j] = child] \in Session
      BY IdleType DEF Session, Op, Idle
    <2>3. session' \in [Sessions -> Session]
      BY <2>1, <2>2 DEF TypeOK
    <2> QED BY <1>16, <2>3 DEF CreateRead, TypeOK, AttemptNamed
  <1>17. ASSUME NEW c \in Clients, CreateInsert(c)
         PROVE  TypeInv'
    <2>1. session' \in [Sessions -> Session]
      BY <1>17, IdleType DEF CreateInsert, TypeOK
    <2>2. session[c] \in Session
      BY DEF TypeOK, Sessions
    <2>3. rows' \in [Jobs -> Row]
      BY <1>17, <2>2 DEF CreateInsert, TypeOK, Session
    <2> QED BY <1>17, <2>1, <2>3 DEF CreateInsert, TypeOK, AttemptNamed
  <1>18. ASSUME NEW j \in Jobs, Purge(j)
         PROVE  TypeInv'
    <2>1. session' \in [Sessions -> Session]
      <3>1. ASSUME NEW s \in Sessions
            PROVE  [session[s] EXCEPT !.entries[j] = "purged"] \in Session
        <4>1. session[s] \in Session
          BY DEF TypeOK
        <4>2. [session[s].entries EXCEPT ![j] = "purged"] \in [Jobs -> Entry]
          BY <4>1 DEF Session, Entry
        <4> QED BY <4>1, <4>2 DEF Session
      <3> QED BY <1>18, <3>1 DEF Purge, TypeOK
    <2> QED BY <1>18, <2>1 DEF Purge, TypeOK, AttemptNamed, Entry, LifecycleAssumption
  <1>19. CASE Promote
    <2>1. ASSUME NEW j \in Jobs
          PROVE  [rows[j] EXCEPT !.status = "queued"] \in Row
      <3>1. rows[j] \in Row /\ "queued" \in Status
        BY DEF TypeOK, Status
      <3> QED BY <3>1 DEF Row
    <2> QED BY <1>19, <2>1 DEF Promote, TypeOK, AttemptNamed
  <1>20. ASSUME NEW j \in Jobs, LeaseExpires(j) \/ TimePasses(j)
         PROVE  TypeInv'
    <2>1. rows[j] \in Row
      BY DEF TypeOK
    <2>2. /\ [rows[j] EXCEPT !.lease = "expired"] \in Row
          /\ [rows[j] EXCEPT !.runAt = "due"] \in Row
      BY <2>1 DEF Row
    <2>3. rows' \in [Jobs -> Row]
      <3>1. \/ rows' = [rows EXCEPT ![j] = [rows[j] EXCEPT !.lease = "expired"]]
            \/ rows' = [rows EXCEPT ![j] = [rows[j] EXCEPT !.runAt = "due"]]
        BY <1>20 DEF LeaseExpires, TimePasses
      <3> QED BY <2>2, <3>1 DEF TypeOK
    <2> QED BY <1>20, <2>3 DEF LeaseExpires, TimePasses, TypeOK, AttemptNamed
  <1>21. CASE UNCHANGED vars
    BY <1>21 DEF vars, TypeOK, AttemptNamed
  <1>22. ASSUME NEW s \in Sessions, RollBack(s)
         PROVE  TypeInv'
    <2>1. session' \in [Sessions -> Session]
      BY <1>22, IdleType DEF RollBack, TypeOK
    <2> QED BY <1>22, <2>1 DEF RollBack, TypeOK, AttemptNamed
  <1>23. ASSUME NEW S \in SUBSET Jobs, CreateMany(S)
         PROVE  TypeInv'
    BY <1>23, ManyInserted DEF TypeOK, AttemptNamed
  <1> QED BY <1>1, <1>2, <1>3, <1>4, <1>5, <1>6, <1>7, <1>8, <1>10, <1>11, <1>12, <1>13,
             <1>14, <1>15, <1>16, <1>17, <1>18, <1>19, <1>20, <1>21, <1>22, <1>23
          DEF Next, Continues, Begins, WorkerBegins, ClientBegins

\* Every table and every process holds only the values the code can put there.
THEOREM TypeCorrect == Spec => []TypeOK
  <1>1. Init => TypeInv
    BY TypeInit, LifecycleAssumption
  <1>2. TypeInv /\ [Next]_vars => TypeInv'
    BY TypeNext, LifecycleAssumption
  <1>3. TypeInv => TypeOK
    BY DEF TypeInv
  <1> QED BY <1>1, <1>2, <1>3, PTL DEF Spec

-----------------------------------------------------------------------------
(* Fencing.  FinalizerHolds and RunningHasClaim are inductive together with *)
(* what they rest on: a token left on a row names that row's job, a sweep   *)
(* only ever read running rows, and a row that a client is about to insert  *)
(* does not exist yet.                                                      *)

TokenNamesJob ==
  \A j \in Jobs : rows[j].token # NoToken =>
    /\ attempt[rows[j].token].phase # "unissued"
    /\ attempt[rows[j].token].job = j

Writers == {"cancel", "retry", "replay", "sweep", "reap"}

SessionsPresent ==
  \A s \in Sessions : session[s].op \in Writers =>
    \A j \in session[s].touched :
      /\ rows[j].status # "absent"
      /\ session[s].op \in {"sweep", "reap"} => session[s].rows[j].status = "running"

CreatesAbsent ==
  \A c \in Sessions : session[c].op = "create" =>
    \A j \in session[c].touched :
      /\ rows[j].status = "absent"
      /\ session[c].rows[j].status \in {"queued", "scheduled"}
      /\ session[c].rows[j].token = NoToken
      /\ Parent[j] # NoJob
      /\ \A d \in Sessions : session[d].op = "create" /\ j \in session[d].touched => d = c

\* Entries and the children of an open finalization belong to rows that exist.
EntryHasRow == \A j \in Jobs : dlq[j] # "none" => rows[j].status # "absent"
KidsPresent ==
  \A t \in Tokens : \A c \in attempt[t].kids \cap Jobs : rows[c].status # "absent"

FenceInv ==
  /\ TypeInv
  /\ TokenNamesJob
  /\ RunningHasClaim
  /\ FinalizerHolds
  /\ SessionsPresent
  /\ CreatesAbsent
  /\ EntryHasRow
  /\ KidsPresent

\* What every step but a claim does: leases are only lost, attempts keep their
\* job, and an outcome is applied by a finalization, which gives the lease up.
RowLoses(j) ==
  /\ rows'[j].token \in {rows[j].token, NoToken}
  /\ rows'[j].status = "running" => rows[j].status = "running" /\ rows'[j].token = rows[j].token
  /\ rows[j].status # "absent" => rows'[j].status # "absent"

RowSame(j) == rows'[j].token = rows[j].token /\ rows'[j].status = rows[j].status

AttemptEnds(t) ==
  \/ /\ attempt'[t].phase \in Busy \cup {"aborted", "crashed"}
     /\ attempt[t].phase \in Busy
     /\ attempt'[t].phase = "finalizing" => Holds(t)
  \/ attempt[t].phase \in Busy /\ attempt'[t].phase = "fenced" /\ ~Holds(t)
  \/ /\ attempt[t].phase = "finalizing" /\ attempt'[t].phase \in Applied
     /\ rows'[attempt[t].job].status # "running"

Loses ==
  /\ \A j \in Jobs : RowLoses(j)
  /\ \A t \in Tokens :
       /\ attempt'[t].job = attempt[t].job
       /\ attempt'[t].phase = attempt[t].phase \/ AttemptEnds(t)
       /\ attempt'[t].phase = "finalizing" => RowSame(attempt[t].job)
  /\ \A t, u \in Tokens :
       /\ attempt'[t].phase \in Applied /\ attempt[t].phase \notin Applied
       /\ attempt'[u].phase \in Applied /\ attempt[u].phase \notin Applied
       => t = u

NoClaim == \A w \in Workers, j \in Jobs, t \in Tokens : ~Claim(w, j, t)

\* The two common ways to lose nothing of an attempt.
LEMMA RowsOnly ==
  ASSUME FenceInv, UNCHANGED attempt,
         \A j \in Jobs : RowLoses(j),
         \A j \in Jobs : Running(j) /\ Locked(j) => RowSame(j)
  PROVE  Loses
  <1>1. ASSUME NEW t \in Tokens, attempt[t].phase = "finalizing"
        PROVE  RowSame(attempt[t].job)
    BY <1>1 DEF FenceInv, FinalizerHolds, Holds, Locked
  <1> QED BY <1>1 DEF Loses

\* An attempt that ends without an outcome, while no row changes, loses nothing else.
LEMMA AttemptOnly ==
  ASSUME FenceInv, UNCHANGED rows, NEW t \in Tokens,
         \A u \in Tokens \ {t} : attempt'[u] = attempt[u],
         attempt'[t].job = attempt[t].job, AttemptEnds(t),
         attempt'[t].phase \notin Applied
  PROVE  Loses
  BY DEF Loses, RowLoses, RowSame

\* A step that changes neither rows nor attempts loses nothing.
LEMMA NothingLost == FenceInv /\ UNCHANGED <<rows, attempt>> => Loses
  BY DEF Loses, RowLoses, RowSame

\* The columns of a row.
LEMMA RowType ==
  ASSUME TypeOK, NEW j \in Jobs
  PROVE  rows[j] \in Row /\ rows[j].token \in Tokens \cup {NoToken} /\ rows[j].status \in Status
  BY DEF TypeOK, Row

\* Every step but a claim only loses leases.
LEMMA LosesNext ==
  ASSUME LifecycleAssumption, FenceInv, [Next]_vars, NoClaim
  PROVE  Loses
  <1> USE DEF FenceInv, TypeInv
  <1>1. ASSUME NEW w \in Workers, NEW j \in Jobs, ClaimRefused(w, j)
        PROVE  Loses
    <2>1. \A i \in Jobs : RowLoses(i)
      BY <1>1, RowType, ReleasedType DEF ClaimRefused, RowLoses, TypeOK, Status
    <2>2. \A i \in Jobs : Running(i) => RowSame(i)
      BY <1>1 DEF ClaimRefused, RowSame, TypeOK, Running
    <2> QED BY <1>1, <2>1, <2>2, RowsOnly DEF ClaimRefused
  <1>2. ASSUME NEW t \in Tokens, StartAttempt(t)
        PROVE  Loses
    <2>1. attempt'[t].job = attempt[t].job /\ attempt'[t].phase = "running"
      BY <1>2 DEF StartAttempt, TypeOK, Attempt
    <2>2. \A u \in Tokens \ {t} : attempt'[u] = attempt[u]
      BY <1>2 DEF StartAttempt, TypeOK
    <2>3. AttemptEnds(t)
      BY <1>2, <2>1 DEF StartAttempt, AttemptEnds, Busy
    <2> QED BY <1>2, <2>1, <2>2, <2>3, AttemptOnly DEF StartAttempt, Applied
  <1>3. ASSUME NEW t \in Tokens, NEW ok \in BOOLEAN, FinalizeUpdate(t, ok)
        PROVE  Loses
    <2>1. attempt'[t].job = attempt[t].job /\ attempt'[t].phase = "finalizing"
      BY <1>3 DEF FinalizeUpdate, TypeOK, Attempt
    <2>2. \A u \in Tokens \ {t} : attempt'[u] = attempt[u]
      BY <1>3 DEF FinalizeUpdate, TypeOK
    <2>3. AttemptEnds(t)
      BY <1>3, <2>1 DEF FinalizeUpdate, AttemptEnds, Busy
    <2> QED BY <1>3, <2>1, <2>2, <2>3, AttemptOnly DEF FinalizeUpdate, Applied
  <1>4. ASSUME NEW t \in Tokens, FinalizeFenced(t)
        PROVE  Loses
    <2>1. attempt'[t].job = attempt[t].job /\ attempt'[t].phase = "fenced"
      BY <1>4, ClosedType DEF FinalizeFenced, TypeOK, Phase
    <2>2. \A u \in Tokens \ {t} : attempt'[u] = attempt[u]
      BY <1>4 DEF FinalizeFenced, TypeOK
    <2>3. AttemptEnds(t)
      BY <1>4, <2>1 DEF FinalizeFenced, AttemptEnds, Busy
    <2> QED BY <1>4, <2>1, <2>2, <2>3, AttemptOnly DEF FinalizeFenced, Applied
  <1>5. ASSUME NEW t \in Tokens, FinalizeCommit(t)
        PROVE  Loses
    <2> DEFINE j == attempt[t].job
    <2>1. attempt[t].phase = "finalizing" /\ j \in Jobs /\ Running(j) /\ Holds(t)
      BY <1>5 DEF FinalizeCommit, FinalizerHolds, Holds
    <2>2. \A u \in Tokens : attempt[u].phase = "finalizing" /\ attempt[u].job = j => u = t
      BY <2>1 DEF FinalizerHolds, Holds
    <2>3. \A u \in Tokens : attempt[u].phase = "finalizing" => attempt[u].job \notin attempt[t].kids
      BY <1>5 DEF FinalizeCommit, Locked
    <2>4. ASSUME NEW phase \in Applied,
                 attempt' = [attempt EXCEPT ![t] = Closed(t, phase)],
                 \A i \in Jobs : RowLoses(i),
                 rows'[j].status # "running",
                 \A i \in Jobs \ (attempt[t].kids \cup {j}) : rows'[i] = rows[i]
          PROVE  Loses
      <3>1. attempt'[t].job = j /\ attempt'[t].phase = phase
        <4>1. attempt'[t] = Closed(t, phase) /\ phase \in Phase
          BY <2>4 DEF TypeOK, Phase
        <4> QED BY <4>1, ClosedType
      <3>2. \A u \in Tokens \ {t} : attempt'[u] = attempt[u]
        BY <2>4 DEF TypeOK
      <3>3. AttemptEnds(t)
        BY <2>1, <2>4, <3>1 DEF AttemptEnds
      <3>4. ASSUME NEW u \in Tokens, attempt'[u].phase = "finalizing"
            PROVE  RowSame(attempt[u].job)
        <4>1. u # t
          BY <2>4, <3>1, <3>4 DEF Applied
        <4>2. attempt[u].phase = "finalizing" /\ attempt[u].job \in Jobs
          BY <3>2, <3>4, <4>1 DEF AttemptNamed
        <4> QED BY <2>2, <2>3, <2>4, <4>1, <4>2 DEF RowSame
      <3> QED BY <2>4, <3>1, <3>2, <3>3, <3>4 DEF Loses
    <2>5. \A status \in Status \ {"absent", "running"} :
            LET r == Released(rows[j], status)
            IN  r.token = NoToken /\ r.status = status
      BY <2>1, ReleasedType DEF TypeOK
    <2>6. CASE Complete(t)
      <3>1. \A i \in Jobs :
              rows'[i] = IF i = j THEN Released(rows[j], "completed")
                         ELSE IF i \in attempt[t].kids
                              THEN [rows[i] EXCEPT !.status = "queued", !.runAt = "due"]
                              ELSE rows[i]
        BY <2>6 DEF Complete, WithKids
      <3>2. \A i \in Jobs : /\ i \in attempt[t].kids /\ i # j
                            => rows'[i].status = "queued" /\ rows'[i].token = rows[i].token
        BY <3>1, RowType DEF Row
      <3>3. rows'[j].status = "completed" /\ rows'[j].token = NoToken
        <4>1. "completed" \in Status \ {"absent", "running"}
          BY DEF Status
        <4>2. rows'[j] = Released(rows[j], "completed")
          BY <2>1, <3>1
        <4> QED BY <2>5, <4>1, <4>2
      <3>4. \A i \in Jobs : RowLoses(i)
        BY <3>1, <3>2, <3>3 DEF RowLoses
      <3> QED BY <2>4, <2>6, <3>1, <3>3, <3>4 DEF Complete, Applied
    <2>7. CASE Reschedule(t)
      <3>1. Released(rows[j], "scheduled") \in Row
        BY <2>1, ReleasedType, RowType DEF Status
      <3>2. rows'[j] = [Released(rows[j], "scheduled") EXCEPT !.runAt = "later"]
        BY <2>1, <2>7 DEF Reschedule, TypeOK
      <3>3. rows'[j].status = "scheduled" /\ rows'[j].token = NoToken
        BY <2>5, <3>1, <3>2 DEF Row, Status
      <3>4. \A i \in Jobs \ {j} : rows'[i] = rows[i]
        BY <2>7 DEF Reschedule, TypeOK
      <3>5. \A i \in Jobs : RowLoses(i)
        BY <3>3, <3>4 DEF RowLoses
      <3> QED BY <2>4, <2>7, <3>3, <3>4, <3>5 DEF Reschedule, Applied
    <2>8. CASE Bury(t)
      <3>1. CASE HasEntry(dlq[j])
        <4>1. attempt'[t].job = j /\ attempt'[t].phase = "aborted"
          BY <2>8, <3>1, ClosedType DEF Bury, TypeOK, Phase
        <4>2. \A u \in Tokens \ {t} : attempt'[u] = attempt[u]
          BY <2>8, <3>1 DEF Bury, TypeOK
        <4>3. AttemptEnds(t)
          BY <2>1, <4>1 DEF AttemptEnds, Busy
        <4> QED BY <2>8, <3>1, <4>1, <4>2, <4>3, AttemptOnly DEF Bury, Applied
      <3>2. CASE ~HasEntry(dlq[j])
        <4>1. \A i \in Jobs :
                rows'[i] = IF i = j THEN Released(rows[j], "dead_letter")
                           ELSE IF i \in attempt[t].kids
                                THEN [rows[i] EXCEPT !.status = "cancelled"]
                                ELSE rows[i]
          BY <2>8, <3>2 DEF Bury, WithKids
        <4>2. \A i \in Jobs : /\ i \in attempt[t].kids /\ i # j
                              => rows'[i].status = "cancelled" /\ rows'[i].token = rows[i].token
          BY <4>1, RowType DEF Row
        <4>3. rows'[j].status = "dead_letter" /\ rows'[j].token = NoToken
          <5>1. "dead_letter" \in Status \ {"absent", "running"}
            BY DEF Status
          <5>2. rows'[j] = Released(rows[j], "dead_letter")
            BY <2>1, <4>1
          <5> QED BY <2>5, <5>1, <5>2
        <4>4. \A i \in Jobs : RowLoses(i)
          BY <4>1, <4>2, <4>3 DEF RowLoses
        <4> QED BY <2>4, <2>8, <3>2, <4>1, <4>3, <4>4 DEF Bury, Applied
      <3> QED BY <3>1, <3>2
    <2> QED BY <1>5, <2>6, <2>7, <2>8 DEF FinalizeCommit
  <1>6. ASSUME NEW w \in Workers, Heartbeat(w)
        PROVE  Loses
    <2>1. \A j \in Jobs : RowSame(j)
      BY <1>6, RowType DEF Heartbeat, RowSame, Row
    <2>2. UNCHANGED attempt
      BY <1>6 DEF Heartbeat
    <2>3. \A j \in Jobs : RowLoses(j)
      BY <2>1 DEF RowSame, RowLoses
    <2> QED BY <2>1, <2>2, <2>3, RowsOnly
  <1>7. ASSUME NEW w \in Workers, Crash(w)
        PROVE  Loses
    <2>1. ASSUME NEW t \in Tokens
          PROVE  /\ attempt'[t].job = attempt[t].job
                 /\ \/ attempt'[t].phase = attempt[t].phase
                    \/ attempt[t].phase \in Busy /\ attempt'[t].phase = "crashed"
      BY <1>7, ClosedType DEF Crash, Phase
    <2> QED BY <1>7, <2>1 DEF Crash, Loses, RowLoses, RowSame, AttemptEnds, Applied
  <1>8. ASSUME NEW s \in Sessions, Flush(s)
        PROVE  Loses
    <2> DEFINE op == session[s].op
               W(j) == Written(op, j, session[s].rows[j])
    <2>1. op \in {"cancel", "retry", "replay", "reap"}
      BY <1>8 DEF Flush
    <2>2. \A j \in Jobs : rows'[j] \in {rows[j], W(j)}
      BY <1>8 DEF Flush, TypeOK
    <2>3. \A j \in Jobs : j \notin session[s].touched => rows'[j] = rows[j]
      BY <1>8 DEF Flush, TypeOK
    <2>4. ASSUME NEW j \in session[s].touched
          PROVE  /\ j \in Jobs
                 /\ W(j).token \in {rows[j].token, NoToken}
                 /\ W(j).status \in {rows[j].status, "cancelled", "queued", "dead_letter"}
                 /\ W(j).status = "running" => W(j).token = rows[j].token
      <3>1. j \in Jobs /\ session[s].rows[j] \in Row
        BY DEF TypeOK, Session
      <3>2. op = "reap" => session[s].rows[j].status = "running"
        BY DEF SessionsPresent, Writers
      <3> HIDE DEF op
      <3> QED BY <2>1, <3>1, <3>2, WrittenRow
    <2>5. \A j \in session[s].touched : ~Locked(j)
      BY <1>8 DEF Flush
    <2>6. \A j \in Jobs : RowLoses(j)
      BY <2>2, <2>3, <2>4 DEF RowLoses
    <2>7. \A j \in Jobs : Locked(j) => RowSame(j)
      BY <2>3, <2>5 DEF RowSame
    <2> QED BY <1>8, <2>6, <2>7, RowsOnly DEF Flush
  <1>9. ASSUME NEW j \in Jobs, CreateRoot(j)
        PROVE  Loses
    <2>1. \A i \in Jobs \ {j} : rows'[i] = rows[i]
      BY <1>9 DEF CreateRoot, TypeOK
    <2>2. rows'[j].token = NoToken /\ rows'[j].status \in {"queued", "scheduled"}
      <3>1. \A r \in {New("queued", "due"), New("scheduled", "later")} :
              r.token = NoToken /\ r.status \in {"queued", "scheduled"}
        BY DEF New, Absent
      <3> QED BY <1>9, <3>1 DEF CreateRoot, TypeOK
    <2>3. rows[j].status = "absent"
      BY <1>9 DEF CreateRoot
    <2> QED BY <1>9, <2>1, <2>2, <2>3, RowsOnly DEF CreateRoot, RowLoses, RowSame, Running
  <1>10. ASSUME NEW c \in Clients, CreateInsert(c)
         PROVE  Loses
    <2>1. \A j \in Jobs : j \notin session[c].touched => rows'[j] = rows[j]
      BY <1>10 DEF CreateInsert
    <2>2. \A j \in Jobs : j \in session[c].touched =>
            /\ rows[j].status = "absent"
            /\ rows'[j].token = NoToken /\ rows'[j].status \in {"queued", "scheduled"}
      BY <1>10 DEF CreateInsert, CreatesAbsent, Sessions
    <2> QED BY <1>10, <2>1, <2>2, RowsOnly DEF CreateInsert, RowLoses, RowSame, Running
  <1>11. CASE Promote
    <2>1. \A j \in Jobs : \/ rows'[j] = rows[j]
                          \/ /\ rows[j].status = "scheduled" /\ rows'[j].status = "queued"
                             /\ rows'[j].token = rows[j].token
      BY <1>11, RowType DEF Promote, Promotable, Row
    <2> QED BY <1>11, <2>1, RowsOnly DEF Promote, RowLoses, RowSame, Running
  <1>12. ASSUME NEW j \in Jobs, LeaseExpires(j) \/ TimePasses(j)
         PROVE  Loses
    <2>1. \A i \in Jobs : RowSame(i)
      <3>1. rows[j] \in Row
        BY RowType
      <3>2. \A i \in Jobs \ {j} : rows'[i] = rows[i]
        BY <1>12 DEF LeaseExpires, TimePasses, TypeOK
      <3>3. CASE LeaseExpires(j)
        <4>1. rows'[j] = [rows[j] EXCEPT !.lease = "expired"]
          BY <3>3 DEF LeaseExpires, TypeOK
        <4> QED BY <3>1, <3>2, <4>1 DEF RowSame, Row
      <3>4. CASE TimePasses(j)
        <4>1. rows'[j] = [rows[j] EXCEPT !.runAt = "due"]
          BY <3>4 DEF TimePasses, TypeOK
        <4> QED BY <3>1, <3>2, <4>1 DEF RowSame, Row
      <3> QED BY <1>12, <3>3, <3>4
    <2>2. UNCHANGED attempt
      BY <1>12 DEF LeaseExpires, TimePasses
    <2>3. \A i \in Jobs : RowLoses(i)
      BY <2>1 DEF RowSame, RowLoses
    <2> QED BY <2>1, <2>2, <2>3, RowsOnly
  <1>13. ASSUME \/ \E c \in Clients : \/ \E j \in Jobs : \/ CancelRead(c, j) \/ RetryRead(c, j)
                                                         \/ ReplayRead(c, j) \/ CreateRead(c, j)
                                      \/ ReplayAllRead(c)
                \/ \E r \in Reapers : ReapRead(r) \/ ReapLookup(r)
                \/ \E s \in Sessions : RollBack(s)
                \/ \E j \in Jobs : Purge(j)
                \/ UNCHANGED vars
         PROVE  Loses
    <2>1. UNCHANGED <<rows, attempt>>
      BY <1>13 DEF CancelRead, RetryRead, ReplayRead, CreateRead, ReplayAllRead, Request,
                   ReapRead, ReapLookup, RollBack, Purge, vars
    <2> QED BY <2>1, NothingLost
  <1>14. ASSUME NEW S \in SUBSET Jobs, CreateMany(S)
         PROVE  Loses
    <2>1. /\ UNCHANGED attempt /\ \A i \in Jobs \ S : rows'[i] = rows[i]
          /\ \A j \in S : /\ rows[j].status = "absent" /\ rows'[j].token = NoToken
                         /\ rows'[j].status \in {"queued", "scheduled"}
      BY <1>14, ManyInserted
    <2>2. \A j \in Jobs : RowLoses(j) /\ (Running(j) => RowSame(j))
      BY <2>1 DEF RowLoses, RowSame, Running
    <2> QED BY <2>1, <2>2, RowsOnly
  <1> QED BY <1>1, <1>2, <1>3, <1>4, <1>5, <1>6, <1>7, <1>8, <1>9, <1>10, <1>11, <1>12, <1>13, <1>14
          DEF Next, Continues, Begins, WorkerBegins, ClientBegins, NoClaim

\* What the steps do to the sessions.
Keeps == \A j \in Jobs : rows[j].status # "absent" => rows'[j].status # "absent"
LeavesAbsent == \A j \in Jobs : rows[j].status = "absent" => rows'[j] = rows[j]
SessionInv == SessionsPresent /\ CreatesAbsent

\* Sessions stay as they are, or end; no row appears.
LEMMA SessionsKept ==
  ASSUME TypeOK, SessionInv, Keeps, LeavesAbsent,
         \A u \in Sessions :
           \/ session'[u].op = "idle"
           \/ /\ session'[u].op = session[u].op
              /\ session'[u].touched = session[u].touched
              /\ session'[u].rows = session[u].rows
  PROVE  SessionInv'
  <1>1. \A u \in Sessions : session[u].touched \subseteq Jobs
    BY DEF TypeOK, Session
  <1>2. SessionsPresent'
    BY <1>1 DEF SessionInv, SessionsPresent, Keeps, Writers
  <1>3. CreatesAbsent'
    BY <1>1 DEF SessionInv, CreatesAbsent, LeavesAbsent
  <1> QED BY <1>2, <1>3 DEF SessionInv

\* A transaction that begins has read rows that exist, a sweep running ones.
LEMMA SessionOpened ==
  ASSUME TypeOK, SessionInv, UNCHANGED rows,
         NEW s \in Sessions, NEW op \in Writers, NEW S \in SUBSET Jobs, Open(s, op, S),
         \A j \in S : rows[j].status # "absent",
         op \in {"sweep", "reap"} => \A j \in S : rows[j].status = "running"
  PROVE  SessionInv'
  <1>1. \A u \in Sessions \ {s} : session'[u] = session[u]
    BY DEF Open, TypeOK
  <1>2. /\ session'[s].op = op /\ session'[s].touched = S
        /\ \A j \in S : session'[s].rows[j] = rows[j]
    BY DEF Open, TypeOK
  <1>3. SessionsPresent'
    BY <1>1, <1>2 DEF SessionInv, SessionsPresent
  <1>4. CreatesAbsent'
    BY <1>1, <1>2 DEF SessionInv, CreatesAbsent, Writers
  <1> QED BY <1>3, <1>4 DEF SessionInv

\* Every step that deletes no row keeps what is known of the open transactions.
LEMMA SessionsNext ==
  ASSUME LifecycleAssumption, FenceInv, [Next]_vars, Keeps
  PROVE  SessionInv'
  <1> USE DEF FenceInv, TypeInv
  <1>a. SessionInv
    BY DEF SessionInv
  <1>1. ASSUME UNCHANGED session, LeavesAbsent
        PROVE  SessionInv'
    BY <1>a, <1>1, SessionsKept
  <1>2. ASSUME NEW w \in Workers, NEW j \in Jobs,
               ClaimRefused(w, j) \/ \E t \in Tokens : Claim(w, j, t)
        PROVE  SessionInv'
    BY <1>1, <1>2 DEF ClaimRefused, Claim, LeavesAbsent, TypeOK
  <1>3. ASSUME NEW t \in Tokens, FinalizeCommit(t)
        PROVE  SessionInv'
    <2>1. attempt[t].job \in Jobs /\ rows[attempt[t].job].status # "absent"
      BY <1>3 DEF FinalizeCommit, FinalizerHolds, Holds, Running
    <2>2. \A c \in Jobs : rows[c].status = "absent" => c \notin attempt[t].kids \cup {attempt[t].job}
      BY <2>1 DEF KidsPresent
    <2>3. \A c \in Jobs \ (attempt[t].kids \cup {attempt[t].job}) : rows'[c] = rows[c]
      <3>1. CASE Complete(t)
        BY <3>1 DEF Complete, WithKids
      <3>2. CASE Reschedule(t)
        BY <3>2 DEF Reschedule, TypeOK
      <3>3. CASE Bury(t)
        BY <3>3 DEF Bury, WithKids
      <3> QED BY <1>3, <3>1, <3>2, <3>3 DEF FinalizeCommit
    <2>4. LeavesAbsent
      BY <2>2, <2>3 DEF LeavesAbsent
    <2> QED BY <1>1, <1>3, <2>4 DEF FinalizeCommit
  <1>4. CASE \/ \E t \in Tokens : \/ StartAttempt(t) \/ FinalizeFenced(t)
                                  \/ \E ok \in BOOLEAN : FinalizeUpdate(t, ok)
             \/ \E w \in Workers : Crash(w)
             \/ UNCHANGED vars
    <2>1. UNCHANGED <<rows, session>>
      BY <1>4 DEF StartAttempt, FinalizeFenced, FinalizeUpdate, Crash, vars
    <2> QED BY <1>1, <2>1 DEF LeavesAbsent
  <1>5. CASE \/ \E w \in Workers : Heartbeat(w)
             \/ Promote
             \/ \E j \in Jobs : LeaseExpires(j) \/ TimePasses(j)
    <2>1. LeavesAbsent
      BY <1>5 DEF Heartbeat, Renewed, Promote, Promotable, LeaseExpires, TimePasses,
                  Running, LeavesAbsent, TypeOK
    <2> QED BY <1>1, <1>5, <2>1 DEF Heartbeat, Promote, LeaseExpires, TimePasses
  <1>6. ASSUME NEW c \in Clients, NEW j \in Jobs,
               CancelRead(c, j) \/ RetryRead(c, j) \/ ReplayRead(c, j)
        PROVE  SessionInv'
    <2>1. UNCHANGED rows /\ \E op \in {"cancel", "retry", "replay"} : Open(c, op, {j})
      BY <1>6 DEF CancelRead, RetryRead, ReplayRead, Request
    <2>2. rows[j].status # "absent"
      BY <1>6 DEF CancelRead, RetryRead, ReplayRead, HasEntry, EntryHasRow
    <2> QED BY <1>a, <2>1, <2>2, SessionOpened DEF Sessions, Writers
  <1>7. ASSUME NEW c \in Clients, ReplayAllRead(c)
        PROVE  SessionInv'
    <2>1. PICK S \in SUBSET Jobs : Open(c, "replay", S) /\ \A j \in S : dlq[j] = "pending"
      BY <1>7 DEF ReplayAllRead
    <2>2. UNCHANGED rows /\ \A j \in S : rows[j].status # "absent"
      BY <1>7, <2>1 DEF ReplayAllRead, Request, EntryHasRow
    <2> QED BY <1>a, <2>1, <2>2, SessionOpened DEF Sessions, Writers
  <1>8. ASSUME NEW r \in Reapers, ReapRead(r)
        PROVE  SessionInv'
    <2>1. PICK S \in SUBSET Jobs : Open(r, "sweep", S) /\ \A j \in S : rows[j].status = "running"
      BY <1>8 DEF ReapRead, Expired, Running
    <2>2. UNCHANGED rows
      BY <1>8 DEF ReapRead
    <2> QED BY <1>a, <2>1, <2>2, SessionOpened DEF Sessions, Writers
  <1>9. ASSUME NEW r \in Reapers, ReapLookup(r)
        PROVE  SessionInv'
    <2>1. \A s \in Sessions \ {r} : session'[s] = session[s]
      BY <1>9 DEF ReapLookup, TypeOK
    <2>2. /\ session[r].op = "sweep" /\ session'[r].op = "reap"
          /\ session'[r].touched = session[r].touched
          /\ session'[r].rows = session[r].rows
      BY <1>9 DEF ReapLookup, TypeOK, Session, Sessions
    <2>3. UNCHANGED rows
      BY <1>9 DEF ReapLookup
    <2>4. SessionsPresent'
      BY <2>1, <2>2, <2>3 DEF SessionsPresent, Writers
    <2>5. CreatesAbsent'
      BY <2>1, <2>2, <2>3 DEF CreatesAbsent
    <2> QED BY <2>4, <2>5 DEF SessionInv
  <1>10. ASSUME NEW s \in Sessions, Flush(s)
         PROVE  SessionInv'
    <2>1. LeavesAbsent
      <3>1. \A j \in session[s].touched : rows[j].status # "absent"
        BY <1>10 DEF Flush, SessionsPresent, Writers
      <3> QED BY <1>10, <3>1 DEF Flush, LeavesAbsent, TypeOK
    <2>2. \A u \in Sessions : session'[u] = session[u] \/ session'[u].op = "idle"
      BY <1>10 DEF Flush, TypeOK, Idle
    <2> QED BY <1>a, <2>1, <2>2, SessionsKept
  <1>11. ASSUME NEW j \in Jobs, CreateRoot(j)
         PROVE  SessionInv'
    <2>1. UNCHANGED session /\ \A i \in Jobs \ {j} : rows'[i] = rows[i]
      BY <1>11 DEF CreateRoot, TypeOK
    <2>2. \A s \in Sessions : session[s].op = "create" => j \notin session[s].touched
      BY <1>11 DEF CreateRoot, CreatesAbsent
    <2>3. \A s \in Sessions : session[s].touched \subseteq Jobs
      BY DEF TypeOK, Session
    <2>4. CreatesAbsent'
      BY <2>1, <2>2, <2>3 DEF CreatesAbsent
    <2>5. SessionsPresent'
      BY <2>1, <2>3 DEF SessionsPresent, Keeps
    <2> QED BY <2>4, <2>5 DEF SessionInv
  <1>12. ASSUME NEW c \in Clients, NEW j \in Jobs, CreateRead(c, j)
         PROVE  SessionInv'
    <2>1. PICK child \in {New("queued", "due"), New("scheduled", "never")} :
            session' = [session EXCEPT ![c] = [Idle EXCEPT !.op = "create",
                                                 !.touched = {j}, !.rows[j] = child]]
      BY <1>12 DEF CreateRead
    <2>2. child.token = NoToken /\ child.status \in {"queued", "scheduled"}
      BY DEF New, Absent
    <2>3. /\ session'[c].op = "create" /\ session'[c].touched = {j}
          /\ session'[c].rows[j] = child
      BY <2>1 DEF TypeOK, Sessions, Idle
    <2>4. \A s \in Sessions \ {c} : session'[s] = session[s]
      BY <2>1 DEF TypeOK
    <2>5. /\ UNCHANGED rows /\ rows[j].status = "absent" /\ Parent[j] # NoJob
          /\ \A s \in Sessions : session[s].op = "create" => j \notin session[s].touched
      BY <1>12 DEF CreateRead, Requested, LifecycleAssumption
    <2>6. SessionsPresent'
      BY <2>3, <2>4, <2>5 DEF SessionsPresent, Writers
    <2>7. CreatesAbsent'
      BY <2>2, <2>3, <2>4, <2>5 DEF CreatesAbsent
    <2> QED BY <2>6, <2>7 DEF SessionInv
  <1>13. ASSUME NEW c \in Clients, CreateInsert(c)
         PROVE  SessionInv'
    <2>1. \A s \in Sessions \ {c} : session'[s] = session[s]
      BY <1>13 DEF CreateInsert, TypeOK
    <2>2. session'[c].op = "idle"
      BY <1>13 DEF CreateInsert, TypeOK, Sessions, Idle
    <2>3. \A j \in Jobs : j \notin session[c].touched => rows'[j] = rows[j]
      BY <1>13 DEF CreateInsert
    <2>4. \A s \in Sessions \ {c} : session[s].op = "create" =>
            session[s].touched \cap session[c].touched = {}
      BY <1>13 DEF CreateInsert, CreatesAbsent, Sessions
    <2>5. \A s \in Sessions : session[s].touched \subseteq Jobs
      BY DEF TypeOK, Session
    <2>6. SessionsPresent'
      BY <2>1, <2>2, <2>5 DEF SessionsPresent, Keeps, Writers
    <2>7. CreatesAbsent'
      BY <2>1, <2>2, <2>3, <2>4, <2>5 DEF CreatesAbsent
    <2> QED BY <2>6, <2>7 DEF SessionInv
  <1>14. ASSUME NEW j \in Jobs, Purge(j)
         PROVE  SessionInv'
    <2>1. UNCHANGED rows /\ LeavesAbsent
      BY <1>14 DEF Purge, LeavesAbsent
    <2>2. ASSUME NEW s \in Sessions
          PROVE  /\ session'[s].op = session[s].op
                 /\ session'[s].touched = session[s].touched
                 /\ session'[s].rows = session[s].rows
      <3>1. session[s] \in Session
        BY DEF TypeOK
      <3> QED BY <1>14, <3>1 DEF Purge, Session
    <2> QED BY <1>a, <2>1, <2>2, SessionsKept
  <1>15. ASSUME NEW s \in Sessions, RollBack(s)
         PROVE  SessionInv'
    <2>1. LeavesAbsent
      BY <1>15 DEF RollBack, LeavesAbsent
    <2>2. \A u \in Sessions : session'[u] = session[u] \/ session'[u].op = "idle"
      BY <1>15 DEF RollBack, TypeOK, Idle
    <2> QED BY <1>a, <2>1, <2>2, SessionsKept
  <1>16. ASSUME NEW S \in SUBSET Jobs, CreateMany(S)
         PROVE  SessionInv'
    <2>1. /\ UNCHANGED session /\ \A i \in Jobs \ S : rows'[i] = rows[i]
          /\ \A s \in Sessions : session[s].op = "create" => session[s].touched \cap S = {}
      BY <1>16, ManyInserted DEF Requested
    <2>2. \A s \in Sessions : session[s].touched \subseteq Jobs
      BY DEF TypeOK, Session
    <2>3. CreatesAbsent'
      BY <2>1, <2>2 DEF CreatesAbsent
    <2>4. SessionsPresent'
      BY <2>1, <2>2 DEF SessionsPresent, Keeps
    <2> QED BY <2>3, <2>4 DEF SessionInv
  <1> QED BY <1>2, <1>3, <1>4, <1>5, <1>6, <1>7, <1>8, <1>9, <1>10, <1>11, <1>12, <1>13, <1>14, <1>15, <1>16
          DEF Next, Continues, Begins, WorkerBegins, ClientBegins

\* Entries appear only with rows that exist, and so do the kids of an attempt.
LEMMA PresenceNext ==
  ASSUME LifecycleAssumption, FenceInv, [Next]_vars, Keeps
  PROVE  EntryHasRow' /\ KidsPresent'
  <1> USE DEF FenceInv, TypeInv
  <1>1. ASSUME UNCHANGED dlq
        PROVE  EntryHasRow'
    BY <1>1 DEF EntryHasRow, Keeps
  <1>2. ASSUME \A t \in Tokens : attempt'[t].kids \subseteq attempt[t].kids
        PROVE  KidsPresent'
    BY <1>2 DEF KidsPresent, Keeps
  <1>3. ASSUME UNCHANGED attempt
        PROVE  KidsPresent'
    BY <1>2, <1>3
  <1>4. \A t \in Tokens, phase \in Phase : Closed(t, phase).kids = {}
    BY DEF Closed, TypeOK, Attempt
  <1>5. ASSUME NEW w \in Workers, NEW j \in Jobs, NEW t \in Tokens, Claim(w, j, t)
        PROVE  EntryHasRow' /\ KidsPresent'
    <2>1. attempt'[t].kids = {} /\ \A u \in Tokens \ {t} : attempt'[u] = attempt[u]
      BY <1>5 DEF Claim, TypeOK, Unissued
    <2> QED BY <1>1, <1>2, <1>5, <2>1 DEF Claim
  <1>6. ASSUME NEW t \in Tokens, StartAttempt(t)
        PROVE  EntryHasRow' /\ KidsPresent'
    <2>1. \A u \in Tokens : attempt'[u].kids = attempt[u].kids
      BY <1>6 DEF StartAttempt, TypeOK, Attempt
    <2> QED BY <1>1, <1>2, <1>6, <2>1 DEF StartAttempt
  <1>7. ASSUME NEW t \in Tokens, NEW ok \in BOOLEAN, FinalizeUpdate(t, ok)
        PROVE  EntryHasRow' /\ KidsPresent'
    <2>1. \A u \in Tokens \ {t} : attempt'[u] = attempt[u]
      BY <1>7 DEF FinalizeUpdate, TypeOK
    <2>2. attempt'[t].kids = WaitingKids(t, ok)
      BY <1>7 DEF FinalizeUpdate, TypeOK, Attempt
    <2>3. \A c \in WaitingKids(t, ok) : rows[c].status # "absent"
      BY DEF WaitingKids
    <2>4. KidsPresent'
      BY <1>7, <2>1, <2>2, <2>3 DEF KidsPresent, FinalizeUpdate
    <2> QED BY <1>1, <1>7, <2>4 DEF FinalizeUpdate
  <1>8. ASSUME NEW t \in Tokens, FinalizeFenced(t)
        PROVE  EntryHasRow' /\ KidsPresent'
    <2>1. \A u \in Tokens : attempt'[u] = attempt[u] \/ attempt'[u].kids = {}
      BY <1>4, <1>8 DEF FinalizeFenced, TypeOK, Phase
    <2> QED BY <1>1, <1>2, <1>8, <2>1 DEF FinalizeFenced
  <1>9. ASSUME NEW t \in Tokens, FinalizeCommit(t)
        PROVE  EntryHasRow' /\ KidsPresent'
    <2>1. \E phase \in Phase : attempt' = [attempt EXCEPT ![t] = Closed(t, phase)]
      BY <1>9 DEF FinalizeCommit, Complete, Reschedule, Bury, Phase, Applied
    <2>2. \A u \in Tokens : attempt'[u] = attempt[u] \/ attempt'[u].kids = {}
      BY <1>4, <2>1 DEF TypeOK
    <2>3. rows[attempt[t].job].status # "absent"
      BY <1>9 DEF FinalizeCommit, FinalizerHolds, Holds, Running
    <2>4. \A j \in Jobs : dlq'[j] = dlq[j] \/ j = attempt[t].job
      BY <1>9 DEF FinalizeCommit, Complete, Reschedule, Bury, TypeOK
    <2>5. EntryHasRow'
      BY <2>3, <2>4 DEF EntryHasRow, Keeps
    <2> QED BY <1>2, <2>2, <2>5
  <1>10. ASSUME NEW w \in Workers, Crash(w)
         PROVE  EntryHasRow' /\ KidsPresent'
    <2>1. \A u \in Tokens : attempt'[u] = attempt[u] \/ attempt'[u].kids = {}
      BY <1>4, <1>10 DEF Crash, Phase
    <2> QED BY <1>1, <1>2, <1>10, <2>1 DEF Crash
  <1>11. ASSUME NEW s \in Sessions, Flush(s)
         PROVE  EntryHasRow' /\ KidsPresent'
    <2>1. \A j \in Jobs : dlq'[j] = dlq[j] \/ j \in session[s].touched
      BY <1>11 DEF Flush
    <2>2. \A j \in session[s].touched : rows[j].status # "absent"
      BY <1>11 DEF Flush, SessionsPresent, Writers
    <2>3. EntryHasRow'
      BY <2>1, <2>2 DEF EntryHasRow, Keeps
    <2> QED BY <1>3, <1>11, <2>3 DEF Flush
  <1>12. ASSUME NEW j \in Jobs, Purge(j)
         PROVE  EntryHasRow' /\ KidsPresent'
    <2>1. \A i \in Jobs : dlq'[i] # "none" => dlq[i] # "none"
      BY <1>12 DEF Purge, HasEntry, TypeOK
    <2> QED BY <1>3, <1>12, <2>1 DEF Purge, EntryHasRow, Keeps
  <1>13. CASE UNCHANGED <<dlq, attempt>>
    BY <1>1, <1>3, <1>13
  <1>14. ASSUME \/ \E w \in Workers : Heartbeat(w) \/ \E j \in Jobs : ClaimRefused(w, j)
                \/ \E S \in SUBSET Jobs : CreateMany(S)
                \/ \E j \in Jobs : CreateRoot(j) \/ LeaseExpires(j) \/ TimePasses(j)
                \/ \E c \in Clients : \/ CreateInsert(c) \/ ReplayAllRead(c)
                                      \/ \E j \in Jobs : \/ CancelRead(c, j) \/ RetryRead(c, j)
                                                         \/ ReplayRead(c, j) \/ CreateRead(c, j)
                \/ \E r \in Reapers : ReapRead(r) \/ ReapLookup(r)
                \/ \E s \in Sessions : RollBack(s)
                \/ Promote
                \/ UNCHANGED vars
         PROVE  UNCHANGED <<dlq, attempt>>
    BY <1>14 DEF Heartbeat, ClaimRefused, CreateRoot, CreateMany, LeaseExpires, TimePasses, CreateInsert,
                 ReplayAllRead, CancelRead, RetryRead, ReplayRead, CreateRead, Request,
                 ReapRead, ReapLookup, RollBack, Promote, vars
  <1> QED BY <1>5, <1>6, <1>7, <1>8, <1>9, <1>10, <1>11, <1>12, <1>13, <1>14
          DEF Next, Continues, Begins, WorkerBegins, ClientBegins

\* A claim takes a queued row with a token that no row and no attempt has used.
LEMMA ClaimGains ==
  ASSUME FenceInv, NEW w \in Workers, NEW j \in Jobs, NEW t \in Tokens, Claim(w, j, t)
  PROVE  /\ ~Running(j) /\ rows'[j].status = "running" /\ rows'[j].token = t
         /\ \A i \in Jobs \ {j} : rows'[i] = rows[i]
         /\ attempt[t].phase = "unissued"
         /\ attempt'[t].phase = "claimed" /\ attempt'[t].job = j
         /\ \A u \in Tokens \ {t} : attempt'[u] = attempt[u]
  <1>1. rows[j] \in Row
    BY RowType DEF FenceInv, TypeInv
  <1>2. rows'[j] = [rows[j] EXCEPT !.status = "running", !.token = t, !.owner = w,
                                   !.lease = "live", !.attempts = rows[j].attempts + 1]
    BY DEF Claim, FenceInv, TypeInv, TypeOK
  <1>3. rows'[j].status = "running" /\ rows'[j].token = t
    BY <1>1, <1>2 DEF Row
  <1>4. attempt'[t].phase = "claimed" /\ attempt'[t].job = j
    BY DEF Claim, FenceInv, TypeInv, TypeOK, Unissued
  <1> QED BY <1>3, <1>4 DEF Claim, FenceInv, TypeInv, TypeOK, Running

\* Every step keeps the invariant.
LEMMA FenceNext == LifecycleAssumption /\ FenceInv /\ [Next]_vars => FenceInv'
  <1> SUFFICES ASSUME LifecycleAssumption, FenceInv, [Next]_vars PROVE FenceInv'
    OBVIOUS
  <1>1. TypeInv'
    BY TypeNext DEF FenceInv
  <1>2. /\ \A j \in Jobs : rows[j].token \in Tokens \cup {NoToken}
        /\ NoToken \notin Tokens
        /\ \A t \in Tokens : attempt[t].phase # "unissued" => attempt[t].job \in Jobs
    BY RowType DEF FenceInv, TypeInv, AttemptNamed, LifecycleAssumption
  <1>3. ASSUME NEW w \in Workers, NEW j \in Jobs, NEW t \in Tokens, Claim(w, j, t)
        PROVE  Keeps /\ TokenNamesJob' /\ RunningHasClaim' /\ FinalizerHolds'
    <2>1. TokenNamesJob'
      BY <1>2, <1>3, ClaimGains DEF FenceInv, TokenNamesJob
    <2>2. RunningHasClaim'
      BY <1>2, <1>3, ClaimGains DEF FenceInv, RunningHasClaim, Running, Busy
    <2>3. FinalizerHolds'
      BY <1>2, <1>3, ClaimGains DEF FenceInv, FinalizerHolds, Holds, Running
    <2>4. Keeps
      BY <1>3, ClaimGains DEF Keeps
    <2> QED BY <2>1, <2>2, <2>3, <2>4
  <1>4. ASSUME NoClaim
        PROVE  Keeps /\ TokenNamesJob' /\ RunningHasClaim' /\ FinalizerHolds'
    <2>1. Loses
      BY <1>4, LosesNext
    <2>2. Keeps
      BY <2>1 DEF Loses, RowLoses, Keeps
    <2>3. TokenNamesJob'
      <3> SUFFICES ASSUME NEW j \in Jobs, rows'[j].token # NoToken
                   PROVE  /\ attempt'[rows'[j].token].phase # "unissued"
                          /\ attempt'[rows'[j].token].job = j
        BY DEF TokenNamesJob
      <3>1. rows'[j].token = rows[j].token /\ rows[j].token \in Tokens
        BY <1>2, <2>1 DEF Loses, RowLoses
      <3>2. attempt[rows[j].token].phase # "unissued" /\ attempt[rows[j].token].job = j
        BY <3>1 DEF FenceInv, TokenNamesJob
      <3> QED BY <2>1, <3>1, <3>2 DEF Loses, AttemptEnds, Busy, Applied
    <2>4. RunningHasClaim'
      <3> SUFFICES ASSUME NEW j \in Jobs, rows'[j].status = "running"
                   PROVE  /\ rows'[j].token \in Tokens
                          /\ attempt'[rows'[j].token].job = j
                          /\ attempt'[rows'[j].token].phase \in Busy \cup {"aborted", "crashed"}
        BY DEF RunningHasClaim, Running
      <3> DEFINE t == rows[j].token
      <3>1. Running(j) /\ rows'[j].token = t
        BY <2>1 DEF Loses, RowLoses, Running
      <3>2. /\ t \in Tokens /\ attempt[t].job = j
            /\ attempt[t].phase \in Busy \cup {"aborted", "crashed"}
        BY <3>1 DEF FenceInv, RunningHasClaim
      <3>3. Holds(t)
        BY <3>1, <3>2 DEF Holds
      <3> QED BY <2>1, <3>1, <3>2, <3>3 DEF Loses, AttemptEnds
    <2>5. FinalizerHolds'
      <3> SUFFICES ASSUME NEW t \in Tokens, attempt'[t].phase = "finalizing"
                   PROVE  Holds(t)'
        BY DEF FinalizerHolds
      <3>1. Holds(t)
        BY <2>1 DEF Loses, AttemptEnds, Applied, FenceInv, FinalizerHolds
      <3> QED BY <2>1, <3>1 DEF Loses, RowSame, Holds, Running
    <2> QED BY <2>2, <2>3, <2>4, <2>5
  <1>5. Keeps /\ TokenNamesJob' /\ RunningHasClaim' /\ FinalizerHolds'
    BY <1>3, <1>4 DEF NoClaim
  <1>6. SessionsPresent' /\ CreatesAbsent'
    BY <1>5, SessionsNext DEF SessionInv
  <1>7. EntryHasRow' /\ KidsPresent'
    BY <1>5, PresenceNext
  <1> QED BY <1>1, <1>5, <1>6, <1>7 DEF FenceInv

\* The initial state satisfies the invariant.
LEMMA FenceInit == LifecycleAssumption /\ Init => FenceInv
  <1> SUFFICES ASSUME LifecycleAssumption, Init PROVE FenceInv
    OBVIOUS
  <1>1. TypeInv
    BY TypeInit
  <1>2. TokenNamesJob /\ RunningHasClaim /\ EntryHasRow
    BY DEF Init, Absent, TokenNamesJob, RunningHasClaim, Running, EntryHasRow
  <1>3. FinalizerHolds /\ KidsPresent
    BY DEF Init, Unissued, FinalizerHolds, KidsPresent
  <1>4. SessionsPresent /\ CreatesAbsent
    BY DEF Init, Idle, SessionsPresent, CreatesAbsent, Writers
  <1> QED BY <1>1, <1>2, <1>3, <1>4 DEF FenceInv

\* Every reachable state satisfies the invariant.
LEMMA Fenced == Spec => []FenceInv
  <1>1. Init => FenceInv
    BY FenceInit, LifecycleAssumption
  <1>2. FenceInv /\ [Next]_vars => FenceInv'
    BY FenceNext, LifecycleAssumption
  <1> QED BY <1>1, <1>2, PTL DEF Spec

\* While a finalization is open, its lease holds: what the runner decides from the
\* row count of the fenced UPDATE is still true at its commit.
THEOREM FinalizersHold == Spec => []FinalizerHolds
  <1>1. FenceInv => FinalizerHolds
    BY DEF FenceInv
  <1> QED BY <1>1, Fenced, PTL

\* A running row always belongs to a claim whose outcome is still open.
THEOREM RunningClaimed == Spec => []RunningHasClaim
  <1>1. FenceInv => RunningHasClaim
    BY DEF FenceInv
  <1> QED BY <1>1, Fenced, PTL

NeverRegained ==
  \A t \in Tokens : attempt[t].phase # "unissued" /\ ~Holds(t) => ~Holds(t)'

\* No step gives a claim the job it lost.
LEMMA NeverRegainedStep == LifecycleAssumption /\ FenceInv /\ [Next]_vars => NeverRegained
  <1> SUFFICES ASSUME LifecycleAssumption, FenceInv, [Next]_vars,
                      NEW u \in Tokens, attempt[u].phase # "unissued", ~Holds(u)
               PROVE  ~Holds(u)'
    BY DEF NeverRegained
  <1>1. attempt[u].job \in Jobs
    BY DEF FenceInv, TypeInv, AttemptNamed
  <1>2. ASSUME NEW w \in Workers, NEW j \in Jobs, NEW t \in Tokens, Claim(w, j, t)
        PROVE  ~Holds(u)'
    <2>1. u # t /\ attempt'[u] = attempt[u]
      BY <1>2, ClaimGains
    <2> QED BY <1>1, <1>2, <2>1, ClaimGains DEF Holds, Running
  <1>3. CASE NoClaim
    BY <1>1, <1>3, LosesNext DEF Loses, RowLoses, Holds, Running
  <1> QED BY <1>2, <1>3 DEF NoClaim

\* A claim that lost its job never gets it back.
THEOREM ZombiesStayFenced == Spec => LeaseNeverRegained
  <1>1. FenceInv /\ [Next]_vars =>
          [\A t \in Tokens : attempt[t].phase # "unissued" /\ ~Holds(t) => ~Holds(t)']_vars
    BY NeverRegainedStep, LifecycleAssumption DEF NeverRegained
  <1> QED BY <1>1, Fenced, PTL DEF Spec, LeaseNeverRegained

-----------------------------------------------------------------------------
(* Refinement of FencedLease.  A claim is a Grant; every other step loses  *)
(* leases only (Loses), so it is an Apply if it applies an outcome, and a   *)
(* Revoke of the jobs that lost their holder otherwise.                    *)

\* The holder of a job is the token of its running row, whose claim has no outcome yet.
LEMMA HolderOf ==
  ASSUME LifecycleAssumption, FenceInv, NEW j \in Jobs, NEW t \in Tokens
  PROVE  /\ Holder[j] = t <=> Running(j) /\ rows[j].token = t
         /\ Holder[j] = t => Holds(t) /\ attempt[t].job = j
         /\ Holder[j] = t => attempt[t].phase \in Busy \cup {"aborted", "crashed"}
         /\ Holds(t) /\ attempt[t].job = j => Holder[j] = t
         /\ Holder[j] = NoToken <=> ~Running(j)
  <1>1. Holder[j] = IF Running(j) THEN rows[j].token ELSE NoToken
    BY DEF Holder
  <1>2. Running(j) => /\ rows[j].token \in Tokens
                      /\ attempt[rows[j].token].job = j
                      /\ attempt[rows[j].token].phase \in Busy \cup {"aborted", "crashed"}
    BY DEF FenceInv, RunningHasClaim
  <1> QED BY <1>1, <1>2 DEF Holds, LifecycleAssumption

\* At the start nobody holds a job and every token is fresh.
LEMMA LeaseInitially == LifecycleAssumption /\ Init => Lease!LeaseInit
  <1> SUFFICES ASSUME LifecycleAssumption, Init PROVE Lease!LeaseInit
    OBVIOUS
  <1>1. Holder = [j \in Jobs |-> NoToken]
    BY DEF Init, Holder, Running, Absent
  <1>2. Fate = [t \in Tokens |-> "fresh"]
    BY DEF Init, Fate, Unissued
  <1> QED BY <1>1, <1>2 DEF Lease!LeaseInit

\* A claim grants its token.
LEMMA ClaimGrants ==
  ASSUME LifecycleAssumption, FenceInv, FenceInv',
         NEW w \in Workers, NEW j \in Jobs, NEW t \in Tokens, Claim(w, j, t)
  PROVE  Lease!Grant(j, t)
  <1>1. Holder[j] = NoToken /\ Fate[t] = "fresh"
    BY ClaimGains DEF Holder, Fate
  <1>2. Holder' = [Holder EXCEPT ![j] = t]
    <2>1. Holder'[j] = t
      BY ClaimGains DEF Holder, Running
    <2>2. \A i \in Jobs \ {j} : Holder'[i] = Holder[i]
      BY ClaimGains DEF Holder, Running
    <2> QED BY <2>1, <2>2 DEF Holder
  <1>3. Fate'[t] = "granted"
    BY ClaimGains DEF Fate, Holds, Running, Applied
  <1>4. ASSUME NEW u \in Tokens \ {t}
        PROVE  Fate'[u] = Fate[u]
    <2>1. attempt'[u] = attempt[u]
      BY ClaimGains
    <2>2. Holds(u)' <=> Holds(u)
      BY <2>1, ClaimGains DEF Holds, Running
    <2> QED BY <2>1, <2>2 DEF Fate
  <1>5. Fate' = [Fate EXCEPT ![t] = "granted"]
    BY <1>3, <1>4 DEF Fate
  <1> QED BY <1>1, <1>2, <1>5 DEF Lease!Grant

\* The jobs whose holder a step takes away, and what that makes of each token.
Lost == {j \in Jobs : Holder'[j] # Holder[j]}

\* A step that loses leases revokes exactly those.
LEMMA LossRevokes ==
  ASSUME LifecycleAssumption, FenceInv, FenceInv', Loses
  PROVE  /\ Holder' = [j \in Jobs |-> IF j \in Lost THEN NoToken ELSE Holder[j]]
         /\ \A u \in Tokens :
              ~(attempt'[u].phase \in Applied /\ attempt[u].phase \notin Applied) =>
                Fate'[u] = IF \E j \in Lost : Holder[j] = u THEN "revoked" ELSE Fate[u]
  <1>1. \A j \in Jobs : Holder'[j] \in {Holder[j], NoToken}
    BY DEF Holder, Loses, RowLoses, Running
  <1>2. Holder' = [j \in Jobs |-> IF j \in Lost THEN NoToken ELSE Holder[j]]
    BY <1>1 DEF Holder, Lost
  <1>3. ASSUME NEW u \in Tokens,
               ~(attempt'[u].phase \in Applied /\ attempt[u].phase \notin Applied)
        PROVE  Fate'[u] = IF \E j \in Lost : Holder[j] = u THEN "revoked" ELSE Fate[u]
    <2> DEFINE j == attempt[u].job
    <2>1. /\ attempt'[u].job = j
          /\ \/ attempt'[u].phase = attempt[u].phase
             \/ attempt[u].phase \in Busy /\ attempt'[u].phase \notin Applied \cup {"unissued"}
      BY <1>3 DEF Loses, AttemptEnds, Busy, Applied
    <2>2. \A i \in Jobs : Holder[i] = u => /\ i = j /\ Holds(u)
                                           /\ attempt[u].phase \in Busy \cup {"aborted", "crashed"}
      BY HolderOf
    <2>3. CASE attempt[u].phase \in {"unissued"} \cup Applied
      <3>1. attempt'[u].phase = attempt[u].phase
        BY <2>1, <2>3 DEF Busy, Applied
      <3>2. \A i \in Jobs : Holder[i] # u
        BY <2>2, <2>3 DEF Busy, Applied
      <3> QED BY <2>3, <3>1, <3>2 DEF Fate, Lost
    <2>4. CASE attempt[u].phase \notin {"unissued"} \cup Applied
      <3>1. j \in Jobs
        BY <2>4 DEF FenceInv, TypeInv, AttemptNamed
      <3>2. /\ Fate[u] = IF Holds(u) THEN "granted" ELSE "revoked"
            /\ Fate'[u] = IF Holds(u)' THEN "granted" ELSE "revoked"
        BY <2>1, <2>4 DEF Fate
      <3>3. Holds(u) <=> Holder[j] = u
        BY <3>1, HolderOf
      <3>4. Holds(u)' <=> Holder'[j] = u
        BY <2>1, <3>1, <1>1, <3>3 DEF Holds, Holder, Running, Loses, RowLoses, LifecycleAssumption
      <3>5. (\E i \in Lost : Holder[i] = u) <=> Holder[j] = u /\ Holder'[j] # u
        BY <2>2, <3>1 DEF Lost
      <3>6. Holder'[j] = u => Holder[j] = u
        BY <1>1, <3>1 DEF LifecycleAssumption
      <3> QED BY <3>2, <3>3, <3>4, <3>5, <3>6
    <2> QED BY <2>3, <2>4
  <1> QED BY <1>2, <1>3

\* A step that loses leases applies one outcome, or revokes.
LEMMA LossImplements ==
  ASSUME LifecycleAssumption, FenceInv, FenceInv', Loses
  PROVE  Lease!LeaseNext
  <1>1. Lost \in SUBSET Jobs
    BY DEF Lost
  <1>2. CASE \A u \in Tokens : ~(attempt'[u].phase \in Applied /\ attempt[u].phase \notin Applied)
    <2>1. Holder' = [j \in Jobs |-> IF j \in Lost THEN NoToken ELSE Holder[j]]
      BY LossRevokes
    <2>2. Fate' = [u \in Tokens |-> IF \E j \in Lost : Holder[j] = u THEN "revoked" ELSE Fate[u]]
      BY <1>2, LossRevokes DEF Fate
    <2>3. Lease!Revoke(Lost)
      BY <2>1, <2>2 DEF Lease!Revoke, Lease!Without
    <2> QED BY <1>1, <2>3 DEF Lease!LeaseNext
  <1>3. ASSUME NEW t \in Tokens, attempt'[t].phase \in Applied, attempt[t].phase \notin Applied
        PROVE  Lease!LeaseNext
    <2> DEFINE j == attempt[t].job
    <2>1. attempt[t].phase = "finalizing" /\ rows'[j].status # "running"
      BY <1>3 DEF Loses, AttemptEnds, Busy, Applied
    <2>2. j \in Jobs /\ Holds(t) /\ Holder[j] = t
      BY <2>1, HolderOf DEF FenceInv, FinalizerHolds, Holds
    <2>3. j \in Lost
      BY <2>1, <2>2 DEF Lost, Holder, Running, LifecycleAssumption
    <2>4. \A u \in Tokens \ {t} : ~(attempt'[u].phase \in Applied /\ attempt[u].phase \notin Applied)
      BY <1>3 DEF Loses
    <2>5. Holder' = [i \in Jobs |-> IF i \in Lost \cup {j} THEN NoToken ELSE Holder[i]]
      BY <2>3, LossRevokes
    <2>6. Fate'[t] = "applied"
      BY <1>3, FenceInv' DEF Fate, FenceInv, TypeInv, TypeOK, Applied
    <2>7. Fate' = [u \in Tokens |-> IF u = t THEN "applied"
                                    ELSE IF \E i \in Lost : Holder[i] = u THEN "revoked" ELSE Fate[u]]
      BY <2>4, <2>6, LossRevokes DEF Fate
    <2>8. Lease!Apply(j, t, Lost)
      BY <2>2, <2>5, <2>7 DEF Lease!Apply, Lease!Without
    <2> QED BY <1>1, <2>2, <2>8 DEF Lease!LeaseNext
  <1> QED BY <1>2, <1>3

\* Every step is a step of FencedLease or changes nothing it has.
LEMMA LeaseSteps ==
  LifecycleAssumption /\ FenceInv /\ FenceInv' /\ [Next]_vars => [Lease!LeaseNext]_Lease!leaseVars
  <1> SUFFICES ASSUME LifecycleAssumption, FenceInv, FenceInv', [Next]_vars
               PROVE  Lease!LeaseNext
    OBVIOUS
  <1>1. CASE NoClaim
    BY <1>1, LosesNext, LossImplements
  <1>2. ASSUME NEW w \in Workers, NEW j \in Jobs, NEW t \in Tokens, Claim(w, j, t)
        PROVE  Lease!LeaseNext
    BY <1>2, ClaimGrants DEF Lease!LeaseNext
  <1> QED BY <1>1, <1>2 DEF NoClaim

\* The job table, with every process that writes it, implements FencedLease: one
\* holder per job, each token granted once, and only a holder's outcome applied, once.
THEOREM LifecycleFencesLeases == Spec => ImplementsLease
  <1>1. Init => Lease!LeaseInit
    BY LeaseInitially, LifecycleAssumption
  <1>2. FenceInv /\ FenceInv' /\ [Next]_vars => [Lease!LeaseNext]_Lease!leaseVars
    BY LeaseSteps, LifecycleAssumption
  <1> QED BY <1>1, <1>2, Fenced, PTL DEF Spec, ImplementsLease, Lease!LeaseSpec

-----------------------------------------------------------------------------
(* What holds when no transaction is overtaken (~Overtaking): retries stay *)
(* within their budget, a dead-lettered job can be replayed, children      *)
(* follow their parent and none is forgotten, and what ended stays ended.  *)
(* Workers may still crash at any moment, in an open transaction too.      *)
(* The invariant: because nothing begins while a transaction is open, what *)
(* that transaction read is still what the tables hold (OpenInv).          *)

\* At most one transaction is open.
Exclusive ==
  /\ \A r, s \in Sessions : session[r].op # "idle" /\ session[s].op # "idle" => r = s
  /\ \A s \in Sessions, t \in Tokens : session[s].op = "idle" \/ attempt[t].phase # "finalizing"
  /\ \A t, u \in Tokens : attempt[t].phase = "finalizing" /\ attempt[u].phase = "finalizing" => t = u

ReadsCurrent ==
  \A s \in Sessions : session[s].op \in Writers =>
    \A j \in session[s].touched :
      session[s].rows[j] = rows[j] /\ session[s].entries[j] = ReadEntry(j)

KidsCurrent ==
  \A t \in Tokens : attempt[t].phase = "finalizing" =>
    attempt[t].kids = WaitingKids(t, attempt[t].ok)

\* The row that a client is about to insert fits its parent.
CreateCurrent ==
  \A s \in Sessions : session[s].op = "create" =>
    \A j \in session[s].touched :
      /\ Parent[j] \in Jobs
      /\ \/ /\ session[s].rows[j] = New("queued", "due")
            /\ rows[Parent[j]].status = "completed"
         \/ /\ session[s].rows[j] = New("scheduled", "never")
            /\ rows[Parent[j]].status \notin {"absent", "completed"}

\* The runs that job j may have without any request of an operator.
MaxRuns(j) == IF MaxRetries[j] = 0 THEN 1 ELSE MaxRetries[j]

RequestsSound ==
  /\ \A r \in Reapers : session[r].op \in {"idle", "sweep", "reap"}
  /\ \A c \in Clients : session[c].op \notin {"sweep", "reap"}
  /\ \A s \in Sessions : \A j \in session[s].touched :
       /\ session[s].op = "cancel" => rows[j].status \notin {"absent", "completed", "cancelled"}
       /\ session[s].op \in {"retry", "replay"} => rows[j].attempts < MaxRuns(j) + ops

OpenInv == Exclusive /\ ReadsCurrent /\ KidsCurrent /\ CreateCurrent /\ RequestsSound

\* The count an attempt read at its start is the one in the row it still holds.
CountCurrent ==
  \A t \in Tokens : attempt[t].phase \in {"running", "finalizing"} /\ Holds(t) =>
    attempt[t].count = rows[attempt[t].job].attempts

\* A job that may be claimed again has a run left.
Budget ==
  \A j \in Jobs :
    /\ rows[j].attempts <= MaxRuns(j) + ops
    /\ rows[j].status \in {"queued", "scheduled"} => rows[j].attempts < MaxRuns(j) + ops

TableInv == CountCurrent /\ Budget /\ DeadLetterIsPending /\ CompletedParentReleases

CalmInv == FenceInv /\ OpenInv /\ TableInv

-----------------------------------------------------------------------------
(* What a step does to the rows.                                           *)

EndedStay ==
  \A j \in Jobs :
    rows[j].status \in {"completed", "cancelled", "dead_letter"} =>
      \/ rows'[j].status = rows[j].status
      \/ rows[j].status = "dead_letter" /\ rows'[j].status = "cancelled"
      \/ Redriven(j)

ReadyAfterParent ==
  \A j \in Jobs :
    /\ Parent[j] # NoJob /\ rows'[j].status = "queued"
    /\ rows[j].status = "scheduled" \/ (rows[j].status = "absent" /\ Requested(j))
    => rows'[Parent[j]].status = "completed" \/ Redriven(j)

RunsCounted ==
  \A j \in Jobs : rows[j].status = "running" => rows'[j].attempts = rows[j].attempts

RowsStep ==
  /\ Budget' /\ DeadLetterIsPending' /\ CompletedParentReleases'
  /\ EndedStay /\ ReadyAfterParent /\ RunsCounted

\* A job may run at least once.
LEMMA MaxRunsType ==
  ASSUME LifecycleAssumption, NEW j \in Jobs
  PROVE  MaxRuns(j) \in Nat /\ MaxRuns(j) > 0 /\ MaxRuns(j) >= MaxRetries[j] /\ MaxRetries[j] \in Nat
  <1>1. MaxRetries[j] \in Nat
    BY DEF LifecycleAssumption
  <1> QED BY <1>1 DEF MaxRuns

\* A released row keeps its attempts and its time.
LEMMA FieldsReleased ==
  ASSUME NEW r \in Row, NEW status \in Status
  PROVE  /\ Released(r, status).status = status
         /\ Released(r, status).attempts = r.attempts
         /\ Released(r, status).runAt = r.runAt
  BY DEF Released, Row

\* Rows that keep their status, or are promoted.
LEMMA RowsAlike ==
  ASSUME LifecycleAssumption, TypeOK, TableInv, ops' \in Nat, ops <= ops',
         \A j \in Jobs : dlq'[j] \in {dlq[j], "purged"},
         \A j \in Jobs :
           /\ rows'[j].attempts = rows[j].attempts
           /\ \/ rows'[j].status = rows[j].status
              \/ Promotable(j) /\ rows'[j].status = "queued"
           /\ rows'[j].runAt \in {rows[j].runAt, "due"}
  PROVE  RowsStep
  <1>1. ops \in Nat /\ \A j \in Jobs : rows[j].attempts \in Nat
    BY DEF TypeOK, Row, LifecycleAssumption
  <1>2. \A j \in Jobs : Parent[j] # NoJob => Parent[j] \in Jobs
    BY DEF LifecycleAssumption
  <1>3. Budget'
    <2> SUFFICES ASSUME NEW j \in Jobs
                 PROVE  /\ rows'[j].attempts <= MaxRuns(j) + ops'
                        /\ rows'[j].status \in {"queued", "scheduled"} =>
                             rows'[j].attempts < MaxRuns(j) + ops'
      BY DEF Budget
    <2>1. /\ rows[j].attempts <= MaxRuns(j) + ops
          /\ rows[j].status \in {"queued", "scheduled"} => rows[j].attempts < MaxRuns(j) + ops
      BY DEF TableInv, Budget
    <2>2. rows'[j].status \in {"queued", "scheduled"} => rows[j].status \in {"queued", "scheduled"}
      BY DEF Promotable
    <2>3. MaxRuns(j) \in Nat
      BY MaxRunsType
    <2> QED BY <1>1, <2>1, <2>2, <2>3
  <1>4. DeadLetterIsPending'
    BY DEF TableInv, DeadLetterIsPending
  <1>5. CompletedParentReleases'
    <2> SUFFICES ASSUME NEW j \in Jobs, Parent[j] # NoJob,
                        rows'[j].status = "scheduled", rows'[j].runAt = "never"
                 PROVE  rows'[Parent[j]].status # "completed"
      BY DEF CompletedParentReleases
    <2>1. rows[j].status = "scheduled" /\ rows[j].runAt = "never"
      OBVIOUS
    <2>2. rows[Parent[j]].status # "completed"
      BY <2>1 DEF TableInv, CompletedParentReleases
    <2> QED BY <1>2, <2>2
  <1>6. EndedStay
    BY DEF EndedStay, Promotable
  <1>7. ReadyAfterParent
    BY <1>2 DEF ReadyAfterParent, Promotable
  <1>8. RunsCounted
    BY DEF RunsCounted
  <1> QED BY <1>3, <1>4, <1>5, <1>6, <1>7, <1>8 DEF RowsStep

\* A step that leaves the tables alone.
LEMMA RowsUntouched ==
  ASSUME LifecycleAssumption, TypeOK, TableInv, ops' \in Nat, ops <= ops', UNCHANGED <<rows, dlq>>
  PROVE  RowsStep
  BY RowsAlike

\* A claim uses a run that was left.
LEMMA ClaimRows ==
  ASSUME LifecycleAssumption, TypeOK, TableInv,
         NEW w \in Workers, NEW j \in Jobs, NEW t \in Tokens, Claim(w, j, t)
  PROVE  RowsStep
  <1>1. /\ rows'[j].status = "running" /\ rows'[j].attempts = rows[j].attempts + 1
        /\ \A i \in Jobs \ {j} : rows'[i] = rows[i]
    <2>1. rows[j] \in Row
      BY DEF TypeOK
    <2> QED BY <2>1 DEF Claim, TypeOK, Row
  <1>2. UNCHANGED <<dlq, ops>> /\ rows[j].status = "queued"
    BY DEF Claim
  <1>3. ops \in Nat /\ \A i \in Jobs : rows[i].attempts \in Nat /\ MaxRuns(i) \in Nat
    BY MaxRunsType DEF TypeOK, Row, LifecycleAssumption
  <1>4. Budget'
    <2> SUFFICES ASSUME NEW i \in Jobs
                 PROVE  /\ rows'[i].attempts <= MaxRuns(i) + ops'
                        /\ rows'[i].status \in {"queued", "scheduled"} =>
                             rows'[i].attempts < MaxRuns(i) + ops'
      BY DEF Budget
    <2>1. /\ rows[i].attempts <= MaxRuns(i) + ops
          /\ rows[i].status \in {"queued", "scheduled"} => rows[i].attempts < MaxRuns(i) + ops
      BY DEF TableInv, Budget
    <2> QED BY <1>1, <1>2, <1>3, <2>1
  <1>5. DeadLetterIsPending'
    BY <1>1, <1>2 DEF TableInv, DeadLetterIsPending
  <1>6. CompletedParentReleases'
    BY <1>1 DEF TableInv, CompletedParentReleases, LifecycleAssumption
  <1>7. EndedStay /\ ReadyAfterParent /\ RunsCounted
    BY <1>1, <1>2 DEF EndedStay, ReadyAfterParent, RunsCounted
  <1> QED BY <1>4, <1>5, <1>6, <1>7 DEF RowsStep

\* Rows of the form New are inserted where there were none.
Inserted(S) ==
  /\ \A i \in Jobs \ S : rows'[i] = rows[i]
  /\ \A j \in S :
       /\ rows[j].status = "absent"
       /\ rows'[j].status \in {"queued", "scheduled"} /\ rows'[j].attempts = 0
       /\ Parent[j] # NoJob =>
            /\ rows'[j].status = "queued" => rows[Parent[j]].status = "completed" \/ ~Requested(j)
            /\ rows'[j].runAt = "never" => rows[Parent[j]].status # "completed"

\* New rows have all their runs, and fit their parents if create_job inserts them.
LEMMA InsertedRows ==
  ASSUME LifecycleAssumption, TypeOK, TableInv, UNCHANGED <<dlq, ops>>,
         NEW S \in SUBSET Jobs, Inserted(S)
  PROVE  RowsStep
  <1> USE DEF Inserted
  <1>1. ops \in Nat /\ \A i \in Jobs : MaxRuns(i) \in Nat /\ MaxRuns(i) > 0
    BY MaxRunsType DEF TypeOK, LifecycleAssumption
  <1>2. \A j \in Jobs : Parent[j] # NoJob => Parent[j] \in Jobs
    BY DEF LifecycleAssumption
  <1>3. Budget'
    <2> SUFFICES ASSUME NEW j \in Jobs
                 PROVE  /\ rows'[j].attempts <= MaxRuns(j) + ops'
                        /\ rows'[j].status \in {"queued", "scheduled"} =>
                             rows'[j].attempts < MaxRuns(j) + ops'
      BY DEF Budget
    <2> QED BY <1>1 DEF TableInv, Budget
  <1>4. DeadLetterIsPending'
    BY DEF TableInv, DeadLetterIsPending
  <1>5. CompletedParentReleases'
    BY <1>2 DEF TableInv, CompletedParentReleases
  <1>6. EndedStay /\ RunsCounted
    BY DEF EndedStay, RunsCounted
  <1>7. ReadyAfterParent
    BY <1>2 DEF ReadyAfterParent
  <1> QED BY <1>3, <1>4, <1>5, <1>6, <1>7 DEF RowsStep

\* What an ORM commit makes of a row that nobody has touched since it was read.
LEMMA WrittenCurrent ==
  ASSUME TypeOK, NEW j \in Jobs, NEW op \in {"cancel", "retry", "replay", "reap"}
  PROVE  LET r == Written(op, j, rows[j])
         IN  /\ r.status = IF op = "cancel" THEN "cancelled"
                           ELSE IF Requeues(op, j, rows[j]) THEN "queued" ELSE "dead_letter"
             /\ r.attempts = rows[j].attempts
  <1> DEFINE now == rows[j]
             a == Assigned(op, j, now)
             o == OrmWrite(now, now, a)
  <1>1. now \in Row
    BY DEF TypeOK
  <1>2. a.status = IF op = "cancel" THEN "cancelled"
                   ELSE IF Requeues(op, j, now) THEN "queued" ELSE "dead_letter"
    BY <1>1 DEF Assigned, Row
  <1>3. o.status = a.status /\ o.attempts = now.attempts
    BY <1>1 DEF OrmWrite, OrmColumn, Row
  <1>4. Written(op, j, now) = IF Requeues(op, j, now) THEN [o EXCEPT !.runAt = "due"] ELSE o
    BY DEF Written
  <1> HIDE DEF o, a
  <1>5. /\ Written(op, j, now).status = a.status
        /\ Written(op, j, now).attempts = now.attempts
    BY <1>3, <1>4
  <1> QED BY <1>2, <1>5

\* A finalization: its children are those that still wait, and the count it
\* decided by is the one in the row.
LEMMA CommitRows ==
  ASSUME LifecycleAssumption, FenceInv, KidsCurrent, TableInv,
         NEW t \in Tokens, FinalizeCommit(t)
  PROVE  RowsStep
  <1> DEFINE j == attempt[t].job
  <1>1. /\ attempt[t].phase = "finalizing" /\ j \in Jobs /\ rows[j].status = "running"
        /\ UNCHANGED ops
    BY DEF FinalizeCommit, FenceInv, FinalizerHolds, Holds, Running
  <1>2. attempt[t].count = rows[j].attempts
    BY <1>1 DEF TableInv, CountCurrent, FenceInv, FinalizerHolds
  <1>3. attempt[t].kids = WaitingKids(t, attempt[t].ok)
    BY <1>1 DEF KidsCurrent
  <1>4. rows \in [Jobs -> Row] /\ dlq \in [Jobs -> Entry]
    BY DEF FenceInv, TypeInv, TypeOK
  <1>5. ops \in Nat /\ \A i \in Jobs : rows[i].attempts \in Nat /\ MaxRuns(i) \in Nat
    BY MaxRunsType DEF FenceInv, TypeInv, TypeOK, Row, LifecycleAssumption
  <1>6. \A i \in Jobs : Parent[i] # NoJob => Parent[i] \in Jobs
    BY DEF LifecycleAssumption
  <1>7. \A i \in Jobs :
          /\ rows[i].attempts <= MaxRuns(i) + ops
          /\ rows[i].status \in {"queued", "scheduled"} => rows[i].attempts < MaxRuns(i) + ops
    BY DEF TableInv, Budget
  <1>8. \A status \in Status :
          /\ Released(rows[j], status).status = status
          /\ Released(rows[j], status).attempts = rows[j].attempts
    BY <1>1, <1>4, FieldsReleased
  <1>9. {"completed", "scheduled", "dead_letter"} \subseteq Status
    BY DEF Status
  <1>10. CASE attempt[t].ok /\ Complete(t)
    <2>1. /\ UNCHANGED dlq
          /\ rows'[j].status = "completed" /\ rows'[j].attempts = rows[j].attempts
      BY <1>1, <1>8, <1>9, <1>10 DEF Complete, WithKids
    <2>2. \A c \in Jobs : c \in attempt[t].kids <=> Parent[c] = j /\ rows[c].status = "scheduled"
      BY <1>3, <1>10 DEF WaitingKids
    <2>3. ASSUME NEW c \in attempt[t].kids, c \in Jobs
          PROVE  rows'[c].status = "queued" /\ rows'[c].attempts = rows[c].attempts
      <3>1. c # j
        BY <1>1, <2>2, <2>3
      <3>2. rows'[c] = [rows[c] EXCEPT !.status = "queued", !.runAt = "due"]
        BY <1>10, <2>3, <3>1 DEF Complete, WithKids
      <3>3. rows[c] \in Row
        BY <1>4, <2>3
      <3> QED BY <3>2, <3>3 DEF Row
    <2>4. \A i \in Jobs : i # j /\ i \notin attempt[t].kids => rows'[i] = rows[i]
      BY <1>10 DEF Complete, WithKids
    <2> HIDE DEF j
    <2>5. Budget'
      BY <1>1, <1>5, <1>7, <2>1, <2>2, <2>3, <2>4 DEF Budget
    <2>6. DeadLetterIsPending'
      BY <2>1, <2>3, <2>4 DEF TableInv, DeadLetterIsPending
    <2>7. CompletedParentReleases'
      BY <1>6, <2>1, <2>2, <2>3, <2>4 DEF TableInv, CompletedParentReleases
    <2>8. EndedStay /\ RunsCounted
      BY <1>1, <2>1, <2>2, <2>4 DEF EndedStay, RunsCounted
    <2>9. ReadyAfterParent
      BY <1>1, <2>1, <2>2, <2>4 DEF ReadyAfterParent
    <2> QED BY <2>5, <2>6, <2>7, <2>8, <2>9 DEF RowsStep
  <1>11. CASE MayRetry(t) /\ Reschedule(t)
    <2> DEFINE r == [Released(rows[j], "scheduled") EXCEPT !.runAt = "later"]
    <2>1. r.status = "scheduled" /\ r.attempts = rows[j].attempts /\ r.runAt = "later"
      <3>1. Released(rows[j], "scheduled") \in Row
        BY <1>1, <1>4, <1>9, ReleasedType
      <3> QED BY <1>8, <1>9, <3>1 DEF Row
    <2>2. rows' = [rows EXCEPT ![j] = r] /\ UNCHANGED dlq
      BY <1>11 DEF Reschedule
    <2> HIDE DEF r
    <2>3. rows'[j] = r /\ \A i \in Jobs \ {j} : rows'[i] = rows[i]
      BY <1>1, <1>4, <2>2
    <2>4. rows[j].attempts < MaxRuns(j) + ops
      <3>1. MaxRuns(j) >= MaxRetries[j] /\ MaxRetries[j] \in Nat
        BY <1>1, MaxRunsType
      <3>2. rows[j].attempts < MaxRetries[j]
        BY <1>2, <1>11 DEF MayRetry
      <3> QED BY <1>1, <1>5, <3>1, <3>2
    <2> HIDE DEF j
    <2>5. Budget'
      BY <1>1, <1>5, <1>7, <2>1, <2>3, <2>4 DEF Budget
    <2>6. DeadLetterIsPending'
      BY <2>1, <2>2, <2>3 DEF TableInv, DeadLetterIsPending
    <2>7. CompletedParentReleases'
      BY <1>6, <2>1, <2>3 DEF TableInv, CompletedParentReleases
    <2>8. EndedStay /\ ReadyAfterParent /\ RunsCounted
      BY <1>1, <2>1, <2>3 DEF EndedStay, ReadyAfterParent, RunsCounted
    <2> QED BY <2>5, <2>6, <2>7, <2>8 DEF RowsStep
  <1>12. CASE ~attempt[t].ok /\ ~MayRetry(t) /\ Bury(t)
    <2>1. CASE HasEntry(dlq[j])
      <3>1. UNCHANGED <<rows, dlq>>
        BY <1>12, <2>1 DEF Bury
      <3> QED BY <1>1, <1>5, <3>1, RowsUntouched DEF FenceInv, TypeInv
    <2>2. CASE ~HasEntry(dlq[j])
      <3>1. /\ rows'[j].status = "dead_letter" /\ rows'[j].attempts = rows[j].attempts
            /\ dlq'[j] = "pending" /\ \A i \in Jobs \ {j} : dlq'[i] = dlq[i]
        BY <1>1, <1>4, <1>8, <1>9, <1>12, <2>2 DEF Bury, WithKids
      <3>2. \A c \in Jobs : c \in attempt[t].kids => rows[c].status = "scheduled"
        BY <1>3 DEF WaitingKids
      <3>3. ASSUME NEW c \in attempt[t].kids, c \in Jobs
            PROVE  rows'[c].status = "cancelled" /\ rows'[c].attempts = rows[c].attempts
        <4>1. c # j
          BY <1>1, <3>2, <3>3
        <4>2. rows'[c] = [rows[c] EXCEPT !.status = "cancelled"]
          BY <1>12, <2>2, <3>3, <4>1 DEF Bury, WithKids
        <4>3. rows[c] \in Row
          BY <1>4, <3>3
        <4> QED BY <4>2, <4>3 DEF Row
      <3>4. \A i \in Jobs : i # j /\ i \notin attempt[t].kids => rows'[i] = rows[i]
        BY <1>12, <2>2 DEF Bury, WithKids
      <3> HIDE DEF j
      <3>5. Budget'
        BY <1>1, <1>5, <1>7, <3>1, <3>3, <3>4 DEF Budget
      <3>6. DeadLetterIsPending'
        BY <3>1, <3>3, <3>4 DEF TableInv, DeadLetterIsPending
      <3>7. CompletedParentReleases'
        BY <1>6, <3>1, <3>3, <3>4 DEF TableInv, CompletedParentReleases
      <3>8. EndedStay /\ ReadyAfterParent /\ RunsCounted
        BY <1>1, <3>1, <3>2, <3>3, <3>4 DEF EndedStay, ReadyAfterParent, RunsCounted
      <3> QED BY <3>5, <3>6, <3>7, <3>8 DEF RowsStep
    <2> QED BY <2>1, <2>2
  <1> QED BY <1>10, <1>11, <1>12 DEF FinalizeCommit

\* A request or a sweep writes the rows it read as they were.
LEMMA FlushRows ==
  ASSUME LifecycleAssumption, FenceInv, ReadsCurrent, RequestsSound, TableInv,
         NEW s \in Sessions, Flush(s)
  PROVE  RowsStep
  <1> DEFINE op == session[s].op
             S == session[s].touched
  <1>1. op \in {"cancel", "retry", "replay", "reap"} /\ UNCHANGED ops
    BY DEF Flush
  <1>2. /\ S \subseteq Jobs /\ rows \in [Jobs -> Row] /\ dlq \in [Jobs -> Entry]
        /\ TypeOK /\ session[s] \in Session
    BY DEF FenceInv, TypeInv, TypeOK, Session
  <1>3. \A j \in S : session[s].rows[j] = rows[j] /\ session[s].entries[j] = ReadEntry(j)
    BY <1>1 DEF ReadsCurrent, Writers
  <1>4. ops \in Nat /\ \A i \in Jobs : rows[i].attempts \in Nat /\ MaxRuns(i) \in Nat
    BY MaxRunsType DEF FenceInv, TypeInv, TypeOK, Row, LifecycleAssumption
  <1>5. \A i \in Jobs : Parent[i] # NoJob => Parent[i] \in Jobs
    BY DEF LifecycleAssumption
  <1>6. CASE \E j \in S : EntryConflict(s, j)
    <2>1. UNCHANGED <<rows, dlq>>
      BY <1>6 DEF Flush
    <2> QED BY <1>1, <1>2, <1>4, <2>1, RowsUntouched
  <1>7. CASE ~ \E j \in S : EntryConflict(s, j)
    <2>1. /\ \A j \in Jobs \ S : rows'[j] = rows[j] /\ dlq'[j] = dlq[j]
          /\ \A j \in S : /\ rows'[j] = Written(op, j, rows[j])
                          /\ dlq'[j] = IF WritesEntry(s, j) THEN EntryAfter(s, j) ELSE dlq[j]
      BY <1>2, <1>3, <1>7 DEF Flush
    <2>2. \A j \in S :
            /\ rows'[j].attempts = rows[j].attempts
            /\ rows'[j].status = IF op = "cancel" THEN "cancelled"
                                 ELSE IF Requeues(op, j, rows[j]) THEN "queued" ELSE "dead_letter"
      BY <1>1, <1>2, <2>1, WrittenCurrent
    <2>3. \A j \in S : op = "cancel" => rows[j].status \notin {"absent", "completed", "cancelled"}
      BY <1>2 DEF RequestsSound
    <2>4. \A j \in S : op \in {"retry", "replay"} => Redriven(j) /\ rows[j].attempts < MaxRuns(j) + ops
      <3>1. op \in {"retry", "replay"} => s \in Clients
        BY DEF RequestsSound, Sessions
      <3>2. session'[s] = Idle
        BY DEF Flush, FenceInv, TypeInv, TypeOK
      <3> QED BY <1>2, <3>1, <3>2 DEF Redriven, RequestsSound
    <2>5. \A j \in S : op = "reap" => rows[j].status = "running"
      BY <1>2, <1>3 DEF FenceInv, SessionsPresent, Writers
    <2>6. \A j \in S : op = "reap" /\ Requeues(op, j, rows[j]) => rows[j].attempts < MaxRuns(j) + ops
      <3> SUFFICES ASSUME NEW j \in S, op = "reap", Requeues(op, j, rows[j])
                   PROVE  rows[j].attempts < MaxRuns(j) + ops
        OBVIOUS
      <3>1. rows[j].attempts < MaxRetries[j]
        BY DEF Requeues
      <3>2. MaxRuns(j) >= MaxRetries[j] /\ MaxRetries[j] \in Nat
        BY <1>2, MaxRunsType
      <3> QED BY <1>2, <1>4, <3>1, <3>2
    <2>7. ASSUME NEW j \in S, rows'[j].status = "dead_letter"
          PROVE  dlq'[j] = "pending"
      <3>1. op = "reap" /\ ~Requeues(op, j, rows[j])
        BY <1>1, <2>2, <2>7 DEF Requeues
      <3>2. WritesEntry(s, j)
        BY <1>3, <3>1 DEF WritesEntry, Buries
      <3>3. dlq'[j] = EntryAfter(s, j)
        BY <2>1, <3>2
      <3>4. EntryAfter(s, j) = "pending"
        BY <1>3, <3>1 DEF EntryAfter, OrmColumn, ReadEntry, HasEntry
      <3> QED BY <3>3, <3>4
    <2>8. \A j \in S : op \in {"retry", "replay"} => Requeues(op, j, rows[j])
      BY DEF Requeues
    <2> HIDE DEF op, S
    <2>9. Budget'
      <3> SUFFICES ASSUME NEW j \in Jobs
                   PROVE  /\ rows'[j].attempts <= MaxRuns(j) + ops'
                          /\ rows'[j].status \in {"queued", "scheduled"} =>
                               rows'[j].attempts < MaxRuns(j) + ops'
        BY DEF Budget
      <3>1. /\ rows[j].attempts <= MaxRuns(j) + ops
            /\ rows[j].status \in {"queued", "scheduled"} => rows[j].attempts < MaxRuns(j) + ops
        BY DEF TableInv, Budget
      <3>2. CASE j \notin S
        BY <1>1, <2>1, <3>1, <3>2
      <3>3. CASE j \in S
        BY <1>1, <1>4, <2>2, <2>4, <2>6, <3>1, <3>3
      <3> QED BY <3>2, <3>3
    <2>10. DeadLetterIsPending'
      BY <2>1, <2>7 DEF TableInv, DeadLetterIsPending
    <2>11. CompletedParentReleases'
      <3> SUFFICES ASSUME NEW j \in Jobs, Parent[j] # NoJob,
                          rows'[j].status = "scheduled", rows'[j].runAt = "never"
                   PROVE  rows'[Parent[j]].status # "completed"
        BY DEF CompletedParentReleases
      <3>1. rows'[j] = rows[j]
        BY <2>1, <2>2
      <3>2. rows[Parent[j]].status # "completed"
        BY <3>1 DEF TableInv, CompletedParentReleases
      <3> QED BY <1>5, <2>1, <2>2, <3>2
    <2>12. EndedStay
      <3> SUFFICES ASSUME NEW j \in Jobs, rows[j].status \in {"completed", "cancelled", "dead_letter"}
                   PROVE  \/ rows'[j].status = rows[j].status
                          \/ rows[j].status = "dead_letter" /\ rows'[j].status = "cancelled"
                          \/ Redriven(j)
        BY DEF EndedStay
      <3> QED BY <1>1, <2>1, <2>2, <2>3, <2>4, <2>5
    <2>13. ReadyAfterParent
      <3> SUFFICES ASSUME NEW j \in Jobs, rows[j].status \in {"absent", "scheduled"},
                          rows'[j].status = "queued"
                   PROVE  Redriven(j)
        BY DEF ReadyAfterParent
      <3> QED BY <1>1, <2>1, <2>2, <2>4, <2>5
    <2>14. RunsCounted
      BY <2>1, <2>2 DEF RunsCounted
    <2> QED BY <2>9, <2>10, <2>11, <2>12, <2>13, <2>14 DEF RowsStep
  <1> QED BY <1>6, <1>7

\* Every step of a history without overtaking keeps what is known of the tables.
LEMMA RowsNext ==
  ASSUME LifecycleAssumption, FenceInv, OpenInv, TableInv, [Next]_vars
  PROVE  RowsStep
  <1> USE DEF FenceInv, TypeInv
  <1>1. /\ rows \in [Jobs -> Row] /\ dlq \in [Jobs -> Entry] /\ ops \in Nat
        /\ \A j \in Jobs : rows[j] \in Row
    BY DEF TypeOK, LifecycleAssumption
  <1>2. ASSUME \/ \E t \in Tokens : \/ StartAttempt(t) \/ FinalizeFenced(t)
                                    \/ \E ok \in BOOLEAN : FinalizeUpdate(t, ok)
               \/ \E w \in Workers : Crash(w)
               \/ \E c \in Clients : \/ ReplayAllRead(c)
                                     \/ \E j \in Jobs : \/ CancelRead(c, j) \/ RetryRead(c, j)
                                                        \/ ReplayRead(c, j) \/ CreateRead(c, j)
               \/ \E r \in Reapers : ReapRead(r) \/ ReapLookup(r)
               \/ \E s \in Sessions : RollBack(s)
               \/ UNCHANGED vars
        PROVE  RowsStep
    <2>1. UNCHANGED <<rows, dlq>> /\ (ops' = ops \/ ops' = ops + 1)
      BY <1>2 DEF StartAttempt, FinalizeFenced, FinalizeUpdate, Crash, ReplayAllRead, CancelRead,
                  RetryRead, ReplayRead, CreateRead, Request, ReapRead, ReapLookup, RollBack, vars
    <2>2. ops' \in Nat /\ ops <= ops'
      BY <1>1, <2>1
    <2> QED BY <2>1, <2>2, RowsUntouched
  <1>3. ASSUME NEW w \in Workers, NEW j \in Jobs, ClaimRefused(w, j)
        PROVE  RowsStep
    <2>1. "queued" \in Status
      BY DEF Status
    <2>2. rows' = [rows EXCEPT ![j] = Released(rows[j], "queued")] /\ rows[j].status = "queued"
      BY <1>3 DEF ClaimRefused
    <2>3. \A i \in Jobs : /\ rows'[i].attempts = rows[i].attempts
                          /\ rows'[i].status = rows[i].status
                          /\ rows'[i].runAt = rows[i].runAt
      BY <1>1, <2>1, <2>2, FieldsReleased
    <2>4. UNCHANGED <<dlq, ops>>
      BY <1>3 DEF ClaimRefused
    <2> QED BY <1>1, <2>3, <2>4, RowsAlike
  <1>4. ASSUME \/ \E w \in Workers : Heartbeat(w)
               \/ \E j \in Jobs : LeaseExpires(j) \/ TimePasses(j)
               \/ Promote
        PROVE  RowsStep
    <2>1. ASSUME NEW i \in Jobs
          PROVE  /\ [rows[i] EXCEPT !.lease = "live"].status = rows[i].status
                 /\ [rows[i] EXCEPT !.lease = "live"].attempts = rows[i].attempts
                 /\ [rows[i] EXCEPT !.lease = "live"].runAt = rows[i].runAt
                 /\ [rows[i] EXCEPT !.lease = "expired"].status = rows[i].status
                 /\ [rows[i] EXCEPT !.lease = "expired"].attempts = rows[i].attempts
                 /\ [rows[i] EXCEPT !.lease = "expired"].runAt = rows[i].runAt
      BY <1>1 DEF Row
    <2>2. ASSUME NEW i \in Jobs
          PROVE  /\ [rows[i] EXCEPT !.runAt = "due"].status = rows[i].status
                 /\ [rows[i] EXCEPT !.runAt = "due"].attempts = rows[i].attempts
                 /\ [rows[i] EXCEPT !.runAt = "due"].runAt = "due"
                 /\ [rows[i] EXCEPT !.status = "queued"].status = "queued"
                 /\ [rows[i] EXCEPT !.status = "queued"].attempts = rows[i].attempts
                 /\ [rows[i] EXCEPT !.status = "queued"].runAt = rows[i].runAt
      BY <1>1 DEF Row
    <2>3. \A i \in Jobs : /\ rows'[i].attempts = rows[i].attempts
                          /\ \/ rows'[i].status = rows[i].status
                             \/ Promotable(i) /\ rows'[i].status = "queued"
                          /\ rows'[i].runAt \in {rows[i].runAt, "due"}
      <3>1. CASE \E w \in Workers : Heartbeat(w)
        BY <2>1, <3>1 DEF Heartbeat
      <3>2. CASE \E j \in Jobs : LeaseExpires(j)
        BY <1>1, <2>1, <3>2 DEF LeaseExpires
      <3>3. CASE \E j \in Jobs : TimePasses(j)
        BY <1>1, <2>2, <3>3 DEF TimePasses
      <3>4. CASE Promote
        BY <2>2, <3>4 DEF Promote
      <3> QED BY <1>4, <3>1, <3>2, <3>3, <3>4
    <2>4. UNCHANGED <<dlq, ops>>
      BY <1>4 DEF Heartbeat, LeaseExpires, TimePasses, Promote
    <2> QED BY <1>1, <2>3, <2>4, RowsAlike
  <1>5. ASSUME NEW j \in Jobs, Purge(j)
        PROVE  RowsStep
    <2>1. UNCHANGED rows /\ ops' = ops + 1 /\ dlq' = [dlq EXCEPT ![j] = "purged"]
      BY <1>5 DEF Purge
    <2>2. ops' \in Nat /\ ops <= ops'
      BY <1>1, <2>1
    <2>3. \A i \in Jobs : dlq'[i] \in {dlq[i], "purged"}
      BY <1>1, <2>1
    <2> QED BY <2>1, <2>2, <2>3, RowsAlike
  <1>6. ASSUME NEW w \in Workers, NEW j \in Jobs, NEW t \in Tokens, Claim(w, j, t)
        PROVE  RowsStep
    BY <1>6, ClaimRows
  <1>7. ASSUME NEW j \in Jobs, CreateRoot(j)
        PROVE  RowsStep
    <2>1. /\ rows[j].status = "absent" /\ Parent[j] = NoJob /\ UNCHANGED <<dlq, ops>>
          /\ \A i \in Jobs \ {j} : rows'[i] = rows[i]
          /\ rows'[j] \in {New("queued", "due"), New("scheduled", "later")}
      BY <1>1, <1>7 DEF CreateRoot
    <2>2. rows'[j].status \in {"queued", "scheduled"} /\ rows'[j].attempts = 0
      BY <2>1 DEF New, Absent
    <2>3. {j} \in SUBSET Jobs /\ Inserted({j})
      BY <2>1, <2>2 DEF Inserted
    <2> QED BY <2>1, <2>3, InsertedRows
  <1>8. ASSUME NEW c \in Clients, CreateInsert(c)
        PROVE  RowsStep
    <2> DEFINE S == session[c].touched
    <2>1. c \in Sessions /\ session[c].op = "create" /\ S \in SUBSET Jobs
      BY <1>8 DEF CreateInsert, Sessions, TypeOK, Session
    <2>2. /\ UNCHANGED <<dlq, ops>>
          /\ \A i \in Jobs \ S : rows'[i] = rows[i]
          /\ \A j \in S : rows'[j] = session[c].rows[j]
      BY <1>8, <2>1 DEF CreateInsert
    <2>3. \A j \in S : rows[j].status = "absent"
      BY <2>1 DEF CreatesAbsent
    <2>4. \A j \in S :
            \/ rows'[j] = New("queued", "due") /\ rows[Parent[j]].status = "completed"
            \/ rows'[j] = New("scheduled", "never") /\ rows[Parent[j]].status # "completed"
      BY <2>1, <2>2 DEF OpenInv, CreateCurrent
    <2>5. /\ New("queued", "due").status = "queued" /\ New("queued", "due").attempts = 0
          /\ New("queued", "due").runAt = "due"
          /\ New("scheduled", "never").status = "scheduled" /\ New("scheduled", "never").attempts = 0
      BY DEF New, Absent
    <2> HIDE DEF S
    <2>6. Inserted(S)
      BY <2>2, <2>3, <2>4, <2>5 DEF Inserted
    <2> QED BY <2>1, <2>2, <2>6, InsertedRows
  <1>9. ASSUME NEW t \in Tokens, FinalizeCommit(t)
        PROVE  RowsStep
    BY <1>9, CommitRows DEF OpenInv
  <1>10. ASSUME NEW s \in Sessions, Flush(s)
         PROVE  RowsStep
    BY <1>10, FlushRows DEF OpenInv
  <1>11. ASSUME NEW S \in SUBSET Jobs, CreateMany(S)
         PROVE  RowsStep
    <2>1. UNCHANGED <<dlq, ops>> /\ Inserted(S)
      BY <1>11, ManyInserted DEF Inserted
    <2> QED BY <2>1, InsertedRows
  <1> QED BY <1>2, <1>3, <1>4, <1>5, <1>6, <1>7, <1>8, <1>9, <1>10, <1>11
          DEF Next, Continues, Begins, WorkerBegins, ClientBegins

-----------------------------------------------------------------------------
(* The count of an attempt, and the transaction that is open.              *)

\* The count of an attempt stays that of the row it holds.
LEMMA CountsNext ==
  ASSUME LifecycleAssumption, FenceInv, TableInv, [Next]_vars, RunsCounted
  PROVE  CountCurrent'
  <1> USE DEF FenceInv, TypeInv
  <1> SUFFICES ASSUME NEW t \in Tokens, attempt'[t].phase \in {"running", "finalizing"}, Holds(t)'
               PROVE  attempt'[t].count = rows'[attempt'[t].job].attempts
    BY DEF CountCurrent
  <1>1. attempt \in [Tokens -> Attempt] /\ attempt[t] \in Attempt
    BY DEF TypeOK
  <1>2. CASE StartAttempt(t)
    <2>1. attempt'[t] = [attempt[t] EXCEPT !.phase = "running", !.count = rows[attempt[t].job].attempts]
      BY <1>1, <1>2 DEF StartAttempt
    <2>2. attempt'[t].count = rows[attempt[t].job].attempts /\ attempt'[t].job = attempt[t].job
      BY <1>1, <2>1 DEF Attempt
    <2> QED BY <1>2, <2>2 DEF StartAttempt
  <1>3. CASE ~StartAttempt(t)
    <2>1. /\ attempt[t].phase \in {"running", "finalizing"}
          /\ attempt'[t].count = attempt[t].count /\ attempt'[t].job = attempt[t].job
      <3>1. CASE UNCHANGED attempt
        BY <3>1
      <3>2. ASSUME NEW u \in Tokens, u # t, \A v \in Tokens \ {u} : attempt'[v] = attempt[v]
            PROVE  UNCHANGED attempt[t]
        BY <3>2
      <3>3. \A phase \in Phase : Closed(t, phase).phase = phase
        BY ClosedType
      <3>4. ASSUME NEW w \in Workers, NEW j \in Jobs, NEW u \in Tokens, Claim(w, j, u)
            PROVE  UNCHANGED attempt[t]
        BY <3>4, <3>2, ClaimGains
      <3>5. ASSUME NEW u \in Tokens, StartAttempt(u)
            PROVE  UNCHANGED attempt[t]
        BY <1>1, <1>3, <3>2, <3>5 DEF StartAttempt
      <3>6. ASSUME NEW u \in Tokens, FinalizeFenced(u) \/ FinalizeCommit(u)
            PROVE  UNCHANGED attempt[t]
        <4>1. PICK phase \in Applied \cup {"fenced", "aborted"} :
                attempt' = [attempt EXCEPT ![u] = Closed(u, phase)]
          BY <3>6 DEF FinalizeFenced, FinalizeCommit, Complete, Reschedule, Bury, Applied
        <4>2. phase \in Phase /\ phase \notin {"running", "finalizing"}
          BY DEF Phase, Applied
        <4> QED BY <1>1, <3>2, <3>3, <4>1, <4>2
      <3>7. ASSUME NEW u \in Tokens, NEW ok \in BOOLEAN, FinalizeUpdate(u, ok)
            PROVE  /\ attempt[t].phase \in {"running", "finalizing"}
                   /\ attempt'[t].count = attempt[t].count /\ attempt'[t].job = attempt[t].job
        <4>1. CASE u # t
          BY <1>1, <3>7, <4>1 DEF FinalizeUpdate
        <4>2. CASE u = t
          <5>1. attempt'[t] = [attempt[t] EXCEPT !.phase = "finalizing", !.ok = ok,
                                                 !.kids = WaitingKids(t, ok)]
            BY <1>1, <3>7, <4>2 DEF FinalizeUpdate
          <5>2. attempt'[t].count = attempt[t].count /\ attempt'[t].job = attempt[t].job
            BY <1>1, <5>1 DEF Attempt
          <5> QED BY <3>7, <4>2, <5>2 DEF FinalizeUpdate
        <4> QED BY <4>1, <4>2
      <3>8. ASSUME NEW w \in Workers, Crash(w)
            PROVE  UNCHANGED attempt[t]
        BY <3>3, <3>8 DEF Crash, Phase
      <3>9. ASSUME \/ \E w \in Workers : Heartbeat(w) \/ \E j \in Jobs : ClaimRefused(w, j)
                   \/ \E S \in SUBSET Jobs : CreateMany(S)
                   \/ \E j \in Jobs : CreateRoot(j) \/ LeaseExpires(j) \/ TimePasses(j) \/ Purge(j)
                   \/ \E c \in Clients : \/ CreateInsert(c) \/ ReplayAllRead(c)
                                         \/ \E j \in Jobs : \/ CancelRead(c, j) \/ RetryRead(c, j)
                                                            \/ ReplayRead(c, j) \/ CreateRead(c, j)
                   \/ \E r \in Reapers : ReapRead(r) \/ ReapLookup(r)
                   \/ \E s \in Sessions : Flush(s) \/ RollBack(s)
                   \/ Promote
                   \/ UNCHANGED vars
            PROVE  UNCHANGED attempt
        BY <3>9 DEF Heartbeat, ClaimRefused, CreateRoot, CreateMany, LeaseExpires, TimePasses, Purge,
                    CreateInsert, ReplayAllRead, CancelRead, RetryRead, ReplayRead, CreateRead, Request,
                    ReapRead, ReapLookup, Flush, RollBack, Promote, vars
      <3> QED BY <3>1, <3>4, <3>5, <3>6, <3>7, <3>8, <3>9
              DEF Next, Continues, Begins, WorkerBegins, ClientBegins
    <2>2. Holds(t)
      BY <2>1, NeverRegainedStep DEF NeverRegained
    <2>3. attempt[t].job \in Jobs /\ rows[attempt[t].job].status = "running"
      BY <2>2 DEF Holds, Running
    <2>4. attempt[t].count = rows[attempt[t].job].attempts
      BY <2>1, <2>2 DEF TableInv, CountCurrent
    <2> QED BY <2>1, <2>3, <2>4 DEF RunsCounted
  <1> QED BY <1>2, <1>3

NoneOpen ==
  /\ \A s \in Sessions : session[s].op = "idle"
  /\ \A t \in Tokens : attempt[t].phase # "finalizing"

\* When no transaction is open, nothing has to be current.
LEMMA ClosedAgain ==
  ASSUME NoneOpen'
  PROVE  OpenInv'
  <1>1. Exclusive'
    BY DEF NoneOpen, Exclusive
  <1>2. ReadsCurrent' /\ KidsCurrent' /\ CreateCurrent'
    BY DEF NoneOpen, ReadsCurrent, KidsCurrent, CreateCurrent, Writers
  <1>3. RequestsSound'
    BY DEF NoneOpen, RequestsSound, Sessions
  <1> QED BY <1>1, <1>2, <1>3 DEF OpenInv

\* A request or a sweep reads its rows while nothing else is open.
LEMMA SessionOpens ==
  ASSUME TypeOK, NoneOpen, UNCHANGED <<rows, dlq, attempt>>,
         NEW s \in Sessions, NEW op \in Writers, NEW S \in SUBSET Jobs, Open(s, op, S),
         s \in Reapers => op = "sweep",
         s \in Clients => op \notin {"sweep", "reap"},
         \A j \in S :
           /\ op = "cancel" => rows[j].status \notin {"absent", "completed", "cancelled"}
           /\ op \in {"retry", "replay"} => rows[j].attempts < MaxRuns(j) + ops'
  PROVE  OpenInv'
  <1>1. \A u \in Sessions \ {s} : session'[u].op = "idle"
    BY DEF Open, TypeOK, NoneOpen
  <1>2. /\ session'[s].op = op /\ session'[s].touched = S
        /\ \A j \in S : session'[s].rows[j] = rows[j] /\ session'[s].entries[j] = ReadEntry(j)
    BY DEF Open, TypeOK
  <1>3. Exclusive'
    BY <1>1 DEF Exclusive, NoneOpen
  <1>4. ReadsCurrent'
    BY <1>1, <1>2 DEF ReadsCurrent, Writers, ReadEntry, HasEntry
  <1>5. KidsCurrent' /\ CreateCurrent'
    BY <1>1, <1>2 DEF KidsCurrent, CreateCurrent, NoneOpen, Writers
  <1>6. RequestsSound'
    BY <1>1, <1>2 DEF RequestsSound, Sessions
  <1> QED BY <1>3, <1>4, <1>5, <1>6 DEF OpenInv

\* What begins finds nothing open, and what continues is the one thing open.
LEMMA OpenNext ==
  ASSUME LifecycleAssumption, ~Overtaking, FenceInv, OpenInv, Budget, [Next]_vars
  PROVE  OpenInv'
  <1> USE DEF FenceInv, TypeInv
  <1>1. /\ attempt \in [Tokens -> Attempt] /\ session \in [Sessions -> Session]
        /\ ops \in Nat /\ Clients \cap Reapers = {}
        /\ \A j \in Jobs : rows[j].attempts \in Nat /\ MaxRuns(j) \in Nat
    BY MaxRunsType DEF TypeOK, Row, LifecycleAssumption
  <1>2. \A t \in Tokens : \A phase \in Phase : Closed(t, phase).phase = phase
    BY ClosedType
  <1>3. Quiet => NoneOpen
    BY DEF Quiet, OpenTransaction, NoneOpen
  <1>4. ASSUME \/ \E w \in Workers : Heartbeat(w) \/ \E j \in Jobs : ClaimRefused(w, j)
               \/ \E S \in SUBSET Jobs : CreateMany(S)
               \/ \E j \in Jobs : CreateRoot(j) \/ LeaseExpires(j) \/ TimePasses(j)
               \/ Promote
        PROVE  OpenInv'
    <2>1. Quiet /\ UNCHANGED <<attempt, session>>
      BY <1>4 DEF Heartbeat, ClaimRefused, CreateRoot, CreateMany, LeaseExpires, TimePasses, Promote
    <2>2. NoneOpen'
      BY <1>3, <2>1 DEF NoneOpen
    <2> QED BY <2>2, ClosedAgain
  <1>5. ASSUME NEW w \in Workers, NEW j \in Jobs, NEW t \in Tokens, Claim(w, j, t)
        PROVE  OpenInv'
    <2>1. Quiet /\ UNCHANGED session
      BY <1>5 DEF Claim
    <2>2. attempt'[t].phase = "claimed" /\ \A u \in Tokens \ {t} : attempt'[u] = attempt[u]
      BY <1>5, ClaimGains
    <2>3. NoneOpen'
      BY <1>3, <2>1, <2>2 DEF NoneOpen
    <2> QED BY <2>3, ClosedAgain
  <1>6. ASSUME NEW t \in Tokens, StartAttempt(t)
        PROVE  OpenInv'
    <2>1. attempt'[t].phase = "running" /\ \A u \in Tokens \ {t} : attempt'[u] = attempt[u]
      BY <1>1, <1>6 DEF StartAttempt, Attempt
    <2>2. Quiet /\ UNCHANGED session
      BY <1>6 DEF StartAttempt
    <2>3. NoneOpen'
      BY <1>3, <2>1, <2>2 DEF NoneOpen
    <2> QED BY <2>3, ClosedAgain
  <1>7. ASSUME NEW t \in Tokens, FinalizeFenced(t)
        PROVE  OpenInv'
    <2>1. attempt'[t].phase = "fenced" /\ \A u \in Tokens \ {t} : attempt'[u] = attempt[u]
      BY <1>1, <1>2, <1>7 DEF FinalizeFenced, Phase
    <2>2. Quiet /\ UNCHANGED session
      BY <1>7 DEF FinalizeFenced
    <2>3. NoneOpen'
      BY <1>3, <2>1, <2>2 DEF NoneOpen
    <2> QED BY <2>3, ClosedAgain
  <1>8. ASSUME NEW j \in Jobs, Purge(j)
        PROVE  OpenInv'
    <2>1. Quiet /\ UNCHANGED attempt
      BY <1>8 DEF Purge
    <2>2. ASSUME NEW s \in Sessions
          PROVE  session'[s].op = session[s].op
      <3>1. session[s] \in Session
        BY <1>1
      <3> QED BY <1>8, <3>1 DEF Purge, Session
    <2>3. NoneOpen'
      BY <1>3, <2>1, <2>2 DEF NoneOpen
    <2> QED BY <2>3, ClosedAgain
  <1>9. ASSUME NEW t \in Tokens, NEW ok \in BOOLEAN, FinalizeUpdate(t, ok)
        PROVE  OpenInv'
    <2>1. NoneOpen /\ UNCHANGED <<rows, session>>
      BY <1>3, <1>9 DEF FinalizeUpdate
    <2>2. \A u \in Tokens \ {t} : attempt'[u] = attempt[u]
      BY <1>1, <1>9 DEF FinalizeUpdate
    <2>3. attempt'[t] = [attempt[t] EXCEPT !.phase = "finalizing", !.ok = ok, !.kids = WaitingKids(t, ok)]
      BY <1>1, <1>9 DEF FinalizeUpdate
    <2>4. /\ attempt'[t].ok = ok /\ attempt'[t].kids = WaitingKids(t, ok)
          /\ attempt'[t].job = attempt[t].job /\ attempt'[t].count = attempt[t].count
      BY <1>1, <2>3 DEF Attempt
    <2>5. Exclusive'
      BY <2>1, <2>2 DEF Exclusive, NoneOpen
    <2>6. KidsCurrent'
      BY <2>1, <2>2, <2>4 DEF KidsCurrent, NoneOpen, WaitingKids, MayRetry
    <2>7. ReadsCurrent' /\ CreateCurrent' /\ RequestsSound'
      BY <2>1 DEF ReadsCurrent, CreateCurrent, RequestsSound, NoneOpen, Writers, Sessions
    <2> QED BY <2>5, <2>6, <2>7 DEF OpenInv
  <1>10. ASSUME NEW c \in Clients, NEW j \in Jobs,
                CancelRead(c, j) \/ RetryRead(c, j) \/ ReplayRead(c, j)
         PROVE  OpenInv'
    <2>1. NoneOpen /\ UNCHANGED <<rows, dlq, attempt>> /\ ops' = ops + 1
      BY <1>3, <1>10 DEF CancelRead, RetryRead, ReplayRead, Request
    <2>2. rows[j].attempts < MaxRuns(j) + ops'
      BY <1>1, <2>1 DEF Budget
    <2>3. PICK op \in {"cancel", "retry", "replay"} :
            /\ Open(c, op, {j})
            /\ op = "cancel" => rows[j].status \notin {"absent", "completed", "cancelled"}
      BY <1>10 DEF CancelRead, RetryRead, ReplayRead
    <2>4. op \in Writers /\ c \in Sessions /\ {j} \in SUBSET Jobs /\ c \notin Reapers
      BY <1>1 DEF Writers, Sessions
    <2> QED BY <2>1, <2>2, <2>3, <2>4, SessionOpens
  <1>11. ASSUME NEW c \in Clients, ReplayAllRead(c)
         PROVE  OpenInv'
    <2>1. NoneOpen /\ UNCHANGED <<rows, dlq, attempt>> /\ ops' = ops + 1
      BY <1>3, <1>11 DEF ReplayAllRead, Request
    <2>2. \A j \in Jobs : rows[j].attempts < MaxRuns(j) + ops'
      BY <1>1, <2>1 DEF Budget
    <2>3. PICK S \in SUBSET Jobs : Open(c, "replay", S)
      BY <1>11 DEF ReplayAllRead
    <2>4. "replay" \in Writers /\ c \in Sessions /\ c \notin Reapers
      BY <1>1 DEF Writers, Sessions
    <2> QED BY <2>1, <2>2, <2>3, <2>4, SessionOpens
  <1>12. ASSUME NEW r \in Reapers, ReapRead(r)
         PROVE  OpenInv'
    <2>1. NoneOpen /\ UNCHANGED <<rows, dlq, attempt, ops>>
      BY <1>3, <1>12 DEF ReapRead
    <2>2. PICK S \in SUBSET Jobs : Open(r, "sweep", S)
      BY <1>12 DEF ReapRead
    <2>3. "sweep" \in Writers /\ r \in Sessions /\ r \notin Clients
      BY <1>1 DEF Writers, Sessions
    <2> QED BY <2>1, <2>2, <2>3, SessionOpens
  <1>13. ASSUME NEW c \in Clients, NEW j \in Jobs, CreateRead(c, j)
         PROVE  OpenInv'
    <2> DEFINE child == IF rows[Parent[j]].status = "completed"
                        THEN New("queued", "due") ELSE New("scheduled", "never")
    <2>1. NoneOpen /\ UNCHANGED <<rows, attempt>> /\ c \in Sessions
      BY <1>3, <1>13 DEF CreateRead, Sessions
    <2>2. session' = [session EXCEPT ![c] = [Idle EXCEPT !.op = "create",
                                              !.touched = {j}, !.rows[j] = child]]
      BY <1>13 DEF CreateRead
    <2>3. /\ session'[c].op = "create" /\ session'[c].touched = {j}
          /\ session'[c].rows[j] = child
      <3> HIDE DEF child
      <3> QED BY <1>1, <2>1, <2>2 DEF Idle
    <2>4. \A s \in Sessions \ {c} : session'[s].op = "idle"
      <3> HIDE DEF child
      <3> QED BY <1>1, <2>1, <2>2 DEF NoneOpen
    <2>5. Parent[j] \in Jobs /\ rows[Parent[j]].status # "absent"
      BY <1>13 DEF CreateRead
    <2>6. Exclusive'
      BY <2>1, <2>4 DEF Exclusive, NoneOpen
    <2>7. ReadsCurrent' /\ KidsCurrent'
      BY <2>1, <2>3, <2>4 DEF ReadsCurrent, KidsCurrent, NoneOpen, Writers
    <2>8. CreateCurrent'
      BY <2>1, <2>3, <2>4, <2>5 DEF CreateCurrent, New
    <2>9. RequestsSound'
      BY <1>1, <2>3, <2>4 DEF RequestsSound, Sessions
    <2> QED BY <2>6, <2>7, <2>8, <2>9 DEF OpenInv
  <1>14. ASSUME NEW r \in Reapers, ReapLookup(r)
         PROVE  OpenInv'
    <2>1. /\ r \in Sessions /\ session[r].op = "sweep" /\ UNCHANGED <<rows, dlq, attempt, ops>>
          /\ \A s \in Sessions \ {r} : session'[s] = session[s]
      BY <1>1, <1>14 DEF ReapLookup, Sessions
    <2>2. /\ session'[r].op = "reap" /\ session'[r].touched = session[r].touched
          /\ session'[r].rows = session[r].rows
          /\ \A j \in session[r].touched \cap Jobs : session'[r].entries[j] = ReadEntry(j)
      BY <1>1, <1>14, <2>1 DEF ReapLookup, Session
    <2>3. \A s \in Sessions : session[s].touched \subseteq Jobs
      BY <1>1 DEF Session
    <2>4. \A s \in Sessions \ {r} : session[s].op = "idle"
      BY <2>1 DEF OpenInv, Exclusive
    <2>5. \A t \in Tokens : attempt[t].phase # "finalizing"
      BY <2>1 DEF OpenInv, Exclusive
    <2>6. Exclusive' /\ KidsCurrent'
      BY <2>1, <2>4, <2>5 DEF Exclusive, KidsCurrent
    <2>7. ReadsCurrent'
      BY <2>1, <2>2, <2>3, <2>4 DEF OpenInv, ReadsCurrent, Writers, ReadEntry, HasEntry
    <2>8. CreateCurrent'
      BY <2>1, <2>2, <2>4 DEF CreateCurrent
    <2>9. RequestsSound'
      BY <1>1, <2>1, <2>2, <2>4 DEF RequestsSound, Sessions
    <2> QED BY <2>6, <2>7, <2>8, <2>9 DEF OpenInv
  <1>15. ASSUME NEW s \in Sessions, session[s].op # "idle", UNCHANGED attempt,
                session' = [session EXCEPT ![s] = Idle]
         PROVE  OpenInv'
    <2>1. \A u \in Sessions : session'[u].op = "idle"
      BY <1>1, <1>15 DEF Idle, OpenInv, Exclusive
    <2>2. \A t \in Tokens : attempt[t].phase # "finalizing"
      BY <1>15 DEF OpenInv, Exclusive
    <2>3. NoneOpen'
      BY <1>15, <2>1, <2>2 DEF NoneOpen
    <2> QED BY <2>3, ClosedAgain
  <1>16. ASSUME NEW t \in Tokens, FinalizeCommit(t)
         PROVE  OpenInv'
    <2>1. PICK phase \in {"completed", "rescheduled", "dead", "aborted"} :
            attempt' = [attempt EXCEPT ![t] = Closed(t, phase)]
      BY <1>16 DEF FinalizeCommit, Complete, Reschedule, Bury
    <2>2. phase \in Phase /\ phase # "finalizing"
      BY DEF Phase, Applied
    <2>3. attempt[t].phase = "finalizing" /\ UNCHANGED session
      BY <1>16 DEF FinalizeCommit
    <2>4. \A u \in Tokens : attempt'[u].phase # "finalizing"
      BY <1>1, <1>2, <2>1, <2>2, <2>3 DEF OpenInv, Exclusive
    <2>5. \A s \in Sessions : session[s].op = "idle"
      BY <2>3 DEF OpenInv, Exclusive
    <2>6. NoneOpen'
      BY <2>3, <2>4, <2>5 DEF NoneOpen
    <2> QED BY <2>6, ClosedAgain
  <1>17. ASSUME NEW w \in Workers, Crash(w)
         PROVE  OpenInv'
    <2>1. UNCHANGED <<rows, dlq, session, ops>>
      BY <1>17 DEF Crash
    <2>2. \A t \in Tokens : attempt'[t].phase = "finalizing" => attempt'[t] = attempt[t]
      BY <1>2, <1>17 DEF Crash, Phase
    <2>3. Exclusive'
      BY <2>1, <2>2 DEF OpenInv, Exclusive
    <2>4. KidsCurrent'
      BY <2>1, <2>2 DEF OpenInv, KidsCurrent, WaitingKids, MayRetry
    <2>5. ReadsCurrent' /\ CreateCurrent' /\ RequestsSound'
      BY <2>1 DEF OpenInv, ReadsCurrent, CreateCurrent, RequestsSound, ReadEntry, HasEntry
    <2> QED BY <2>3, <2>4, <2>5 DEF OpenInv
  <1>18. ASSUME UNCHANGED vars
         PROVE  OpenInv'
    <2>1. Exclusive' /\ KidsCurrent'
      BY <1>18 DEF OpenInv, Exclusive, KidsCurrent, WaitingKids, MayRetry, vars
    <2>2. ReadsCurrent' /\ CreateCurrent' /\ RequestsSound'
      BY <1>18 DEF OpenInv, ReadsCurrent, CreateCurrent, RequestsSound, ReadEntry, HasEntry, vars
    <2> QED BY <2>1, <2>2 DEF OpenInv
  <1>19. ASSUME (\E s \in Sessions : Flush(s) \/ RollBack(s)) \/ (\E c \in Clients : CreateInsert(c))
         PROVE  OpenInv'
    BY <1>15, <1>19 DEF Flush, RollBack, CreateInsert, Sessions
  <1> QED BY <1>4, <1>5, <1>6, <1>7, <1>8, <1>9, <1>10, <1>11, <1>12, <1>13, <1>14, <1>16, <1>17, <1>18, <1>19
          DEF Next, Continues, Begins, WorkerBegins, ClientBegins

-----------------------------------------------------------------------------
(* The owner and the expiry of a running row.                              *)

\* A row that runs after the step ran before, under the same claim, and with an expiry if
\* it had one.
LeaseKept(j) ==
  Running(j)' =>
    /\ Running(j) /\ rows'[j].token = rows[j].token /\ rows'[j].owner = rows[j].owner
    /\ rows[j].lease # "none" => rows'[j].lease # "none"

\* A claim is remembered with its worker.
LEMMA WorkersNext ==
  ASSUME LifecycleAssumption, FenceInv, [Next]_vars, NEW t \in Tokens, attempt[t].phase # "unissued"
  PROVE  attempt'[t].worker = attempt[t].worker
  <1> USE DEF FenceInv, TypeInv
  <1>1. attempt \in [Tokens -> Attempt] /\ attempt[t] \in Attempt
    BY DEF TypeOK
  <1>2. \A phase \in Phase : Closed(t, phase).worker = attempt[t].worker
    BY ClosedType
  <1>3. ASSUME NEW w \in Workers, NEW j \in Jobs, NEW u \in Tokens, Claim(w, j, u)
        PROVE  UNCHANGED attempt[t]
    BY <1>3, ClaimGains
  <1>4. ASSUME NEW u \in Tokens, StartAttempt(u)
        PROVE  attempt'[t].worker = attempt[t].worker
    BY <1>1, <1>4 DEF StartAttempt, Attempt
  <1>5. ASSUME NEW u \in Tokens, FinalizeFenced(u) \/ FinalizeCommit(u)
        PROVE  attempt'[t].worker = attempt[t].worker
    <2>1. PICK phase \in Applied \cup {"fenced", "aborted"} :
            attempt' = [attempt EXCEPT ![u] = Closed(u, phase)]
      BY <1>5 DEF FinalizeFenced, FinalizeCommit, Complete, Reschedule, Bury, Applied
    <2>2. phase \in Phase
      BY DEF Phase, Applied
    <2> QED BY <1>1, <1>2, <2>1, <2>2
  <1>6. ASSUME NEW u \in Tokens, NEW ok \in BOOLEAN, FinalizeUpdate(u, ok)
        PROVE  attempt'[t].worker = attempt[t].worker
    BY <1>1, <1>6 DEF FinalizeUpdate, Attempt
  <1>7. ASSUME NEW w \in Workers, Crash(w)
        PROVE  attempt'[t].worker = attempt[t].worker
    BY <1>2, <1>7 DEF Crash, Phase
  <1>8. ASSUME \/ \E w \in Workers : Heartbeat(w) \/ \E j \in Jobs : ClaimRefused(w, j)
               \/ \E S \in SUBSET Jobs : CreateMany(S)
               \/ \E j \in Jobs : CreateRoot(j) \/ LeaseExpires(j) \/ TimePasses(j) \/ Purge(j)
               \/ \E c \in Clients : \/ CreateInsert(c) \/ ReplayAllRead(c)
                                     \/ \E j \in Jobs : \/ CancelRead(c, j) \/ RetryRead(c, j)
                                                        \/ ReplayRead(c, j) \/ CreateRead(c, j)
               \/ \E r \in Reapers : ReapRead(r) \/ ReapLookup(r)
               \/ \E s \in Sessions : Flush(s) \/ RollBack(s)
               \/ Promote
               \/ UNCHANGED vars
        PROVE  UNCHANGED attempt
    BY <1>8 DEF Heartbeat, ClaimRefused, CreateRoot, CreateMany, LeaseExpires, TimePasses, Purge, CreateInsert,
                ReplayAllRead, CancelRead, RetryRead, ReplayRead, CreateRead, Request,
                ReapRead, ReapLookup, Flush, RollBack, Promote, vars
  <1> QED BY <1>3, <1>4, <1>5, <1>6, <1>7, <1>8
          DEF Next, Continues, Begins, WorkerBegins, ClientBegins

\* No transaction that nobody overtook leaves a row running that it wrote: the rows that
\* still run kept their lease, and the others were claimed by the step.
LEMMA LeasesNext ==
  ASSUME LifecycleAssumption, FenceInv, ReadsCurrent, [Next]_vars, NEW j \in Jobs
  PROVE  LeaseKept(j) \/ \E w \in Workers, t \in Tokens : Claim(w, j, t)
  <1> USE DEF FenceInv, TypeInv
  <1>1. TypeOK /\ rows \in [Jobs -> Row] /\ rows[j] \in Row
    BY DEF TypeOK
  <1>2. ASSUME rows'[j] = rows[j] \/ rows'[j].status # "running"
        PROVE  LeaseKept(j)
    BY <1>2 DEF LeaseKept, Running
  <1>3. ASSUME NEW w \in Workers, NEW i \in Jobs, NEW t \in Tokens, i # j, Claim(w, i, t)
        PROVE  rows'[j] = rows[j]
    BY <1>1, <1>3 DEF Claim
  <1>4. ASSUME NEW w \in Workers, NEW i \in Jobs, ClaimRefused(w, i)
        PROVE  LeaseKept(j)
    <2>1. CASE i # j
      BY <1>1, <1>2, <1>4, <2>1 DEF ClaimRefused
    <2>2. CASE i = j
      <3>1. rows'[j] = Released(rows[j], "queued")
        BY <1>1, <1>4, <2>2 DEF ClaimRefused
      <3>2. rows'[j].status = "queued"
        BY <1>1, <3>1, FieldsReleased DEF Status
      <3> QED BY <1>2, <3>2
    <2> QED BY <2>1, <2>2
  <1>5. ASSUME NEW t \in Tokens, FinalizeCommit(t)
        PROVE  LeaseKept(j)
    <2> DEFINE i == attempt[t].job
    <2>1. \A status \in Status : Released(rows[j], status).status = status
      BY <1>1, FieldsReleased
    <2>2. CASE Complete(t)
      <3>1. rows'[j] = IF j = i THEN Released(rows[i], "completed")
                       ELSE IF j \in attempt[t].kids
                            THEN [rows[j] EXCEPT !.status = "queued", !.runAt = "due"] ELSE rows[j]
        BY <2>2 DEF Complete, WithKids
      <3>2. [rows[j] EXCEPT !.status = "queued", !.runAt = "due"].status = "queued"
        BY <1>1 DEF Row
      <3>3. rows'[j] = rows[j] \/ rows'[j].status # "running"
        BY <2>1, <3>1, <3>2 DEF Status
      <3> QED BY <1>2, <3>3
    <2>3. CASE Reschedule(t)
      <3>1. rows'[j] = IF j = i THEN [Released(rows[i], "scheduled") EXCEPT !.runAt = "later"] ELSE rows[j]
        BY <1>1, <2>3 DEF Reschedule
      <3>2. [Released(rows[j], "scheduled") EXCEPT !.runAt = "later"].status = "scheduled"
        BY <1>1 DEF Released, Row
      <3>3. rows'[j] = rows[j] \/ rows'[j].status # "running"
        BY <3>1, <3>2
      <3> QED BY <1>2, <3>3
    <2>4. CASE Bury(t)
      <3>1. \/ rows'[j] = rows[j]
            \/ rows'[j] = IF j = i THEN Released(rows[i], "dead_letter")
                          ELSE IF j \in attempt[t].kids
                               THEN [rows[j] EXCEPT !.status = "cancelled"] ELSE rows[j]
        BY <2>4 DEF Bury, WithKids
      <3>2. [rows[j] EXCEPT !.status = "cancelled"].status = "cancelled"
        BY <1>1 DEF Row
      <3>3. rows'[j] = rows[j] \/ rows'[j].status # "running"
        BY <2>1, <3>1, <3>2 DEF Status
      <3> QED BY <1>2, <3>3
    <2> QED BY <1>5, <2>2, <2>3, <2>4 DEF FinalizeCommit
  <1>6. ASSUME NEW w \in Workers, Heartbeat(w)
        PROVE  LeaseKept(j)
    <2>1. rows'[j] = rows[j] \/ rows'[j] = [rows[j] EXCEPT !.lease = "live"]
      BY <1>6 DEF Heartbeat
    <2>2. LET r == [rows[j] EXCEPT !.lease = "live"]
          IN  r.status = rows[j].status /\ r.token = rows[j].token /\ r.owner = rows[j].owner /\ r.lease = "live"
      BY <1>1 DEF Row
    <2> QED BY <2>1, <2>2 DEF LeaseKept, Running
  <1>7. ASSUME NEW s \in Sessions, Flush(s)
        PROVE  LeaseKept(j)
    <2> DEFINE op == session[s].op
    <2>1. op \in {"cancel", "retry", "replay", "reap"}
      BY <1>7 DEF Flush
    <2>2. rows'[j] = rows[j] \/ (j \in session[s].touched /\ rows'[j] = Written(op, j, session[s].rows[j]))
      BY <1>7 DEF Flush
    <2>3. j \in session[s].touched => session[s].rows[j] = rows[j]
      BY <2>1 DEF ReadsCurrent, Writers
    <2>4. Written(op, j, rows[j]).status \in {"cancelled", "queued", "dead_letter"}
      BY <1>1, <2>1, WrittenCurrent
    <2> QED BY <1>2, <2>2, <2>3, <2>4
  <1>8. ASSUME NEW c \in Clients, CreateInsert(c)
        PROVE  LeaseKept(j)
    <2>1. rows'[j] = rows[j] \/ (j \in session[c].touched /\ rows'[j] = session[c].rows[j])
      BY <1>8 DEF CreateInsert
    <2>2. j \in session[c].touched => session[c].rows[j].status \in {"queued", "scheduled"}
      BY <1>8 DEF CreateInsert, CreatesAbsent, Sessions
    <2> QED BY <1>2, <2>1, <2>2
  <1>9. ASSUME NEW i \in Jobs, CreateRoot(i) \/ LeaseExpires(i) \/ TimePasses(i)
        PROVE  LeaseKept(j)
    <2>1. CASE i # j
      BY <1>1, <1>2, <1>9, <2>1 DEF CreateRoot, LeaseExpires, TimePasses
    <2>2. CASE i = j /\ CreateRoot(i)
      <3>1. New("queued", "due").status = "queued" /\ New("scheduled", "later").status = "scheduled"
        BY DEF New, Absent
      <3> QED BY <1>1, <1>2, <2>2, <3>1 DEF CreateRoot
    <2>3. CASE i = j /\ LeaseExpires(i)
      <3>1. rows'[j] = [rows[j] EXCEPT !.lease = "expired"]
        BY <1>1, <2>3 DEF LeaseExpires
      <3>2. /\ rows'[j].status = rows[j].status /\ rows'[j].token = rows[j].token
            /\ rows'[j].owner = rows[j].owner /\ rows'[j].lease = "expired"
        BY <1>1, <3>1 DEF Row
      <3> QED BY <3>2 DEF LeaseKept, Running
    <2>4. CASE i = j /\ TimePasses(i)
      <3>1. rows[j].status # "running" /\ rows'[j] = [rows[j] EXCEPT !.runAt = "due"]
        BY <1>1, <2>4 DEF TimePasses
      <3>2. rows'[j].status # "running"
        BY <1>1, <3>1 DEF Row
      <3> QED BY <1>2, <3>2
    <2> QED BY <1>9, <2>1, <2>2, <2>3, <2>4
  <1>10. ASSUME Promote
         PROVE  LeaseKept(j)
    <2>1. rows'[j] = rows[j] \/ rows'[j] = [rows[j] EXCEPT !.status = "queued"]
      BY <1>10 DEF Promote
    <2>2. [rows[j] EXCEPT !.status = "queued"].status = "queued"
      BY <1>1 DEF Row
    <2> QED BY <1>2, <2>1, <2>2
  <1>11. ASSUME \/ \E t \in Tokens : \/ StartAttempt(t) \/ FinalizeFenced(t)
                                     \/ \E ok \in BOOLEAN : FinalizeUpdate(t, ok)
                \/ \E w \in Workers : Crash(w)
                \/ \E i \in Jobs : Purge(i)
                \/ \E c \in Clients : \/ ReplayAllRead(c)
                                      \/ \E i \in Jobs : \/ CancelRead(c, i) \/ RetryRead(c, i)
                                                         \/ ReplayRead(c, i) \/ CreateRead(c, i)
                \/ \E r \in Reapers : ReapRead(r) \/ ReapLookup(r)
                \/ \E s \in Sessions : RollBack(s)
                \/ UNCHANGED vars
         PROVE  rows' = rows
    BY <1>11 DEF StartAttempt, FinalizeFenced, FinalizeUpdate, Crash, Purge, ReplayAllRead, CancelRead,
                 RetryRead, ReplayRead, CreateRead, Request, ReapRead, ReapLookup, RollBack, vars
  <1>12. ASSUME NEW S \in SUBSET Jobs, CreateMany(S)
         PROVE  LeaseKept(j)
    <2>1. rows'[j] = rows[j] \/ rows'[j].status \in {"queued", "scheduled"}
      BY <1>12, ManyInserted
    <2> QED BY <1>2, <2>1
  <1> QED BY <1>2, <1>3, <1>4, <1>5, <1>6, <1>7, <1>8, <1>9, <1>10, <1>11, <1>12
          DEF Next, Continues, Begins, WorkerBegins, ClientBegins

\* A running row keeps its worker and its expiry.
LEMMA LeasedNext ==
  ASSUME LifecycleAssumption, FenceInv, ReadsCurrent, RunningIsLeased, [Next]_vars
  PROVE  RunningIsLeased'
  <1> SUFFICES ASSUME NEW j \in Jobs, Running(j)'
               PROVE  rows'[j].lease # "none" /\ rows'[j].owner = attempt'[rows'[j].token].worker
    BY DEF RunningIsLeased
  <1>1. CASE LeaseKept(j)
    <2>1. /\ Running(j) /\ rows'[j].token = rows[j].token /\ rows'[j].owner = rows[j].owner
          /\ rows[j].lease # "none" => rows'[j].lease # "none"
      BY <1>1 DEF LeaseKept
    <2>2. rows[j].lease # "none" /\ rows[j].owner = attempt[rows[j].token].worker
      BY <2>1 DEF RunningIsLeased
    <2>3. rows[j].token \in Tokens /\ attempt[rows[j].token].phase # "unissued"
      BY <2>1 DEF FenceInv, RunningHasClaim, Busy
    <2>4. attempt'[rows[j].token].worker = attempt[rows[j].token].worker
      BY <2>3, WorkersNext
    <2> QED BY <2>1, <2>2, <2>4
  <1>2. ASSUME NEW w \in Workers, NEW t \in Tokens, Claim(w, j, t)
        PROVE  rows'[j].lease # "none" /\ rows'[j].owner = attempt'[rows'[j].token].worker
    <2>1. rows[j] \in Row /\ rows \in [Jobs -> Row] /\ attempt \in [Tokens -> Attempt]
      BY DEF FenceInv, TypeInv, TypeOK
    <2>2. rows'[j].token = t /\ rows'[j].owner = w /\ rows'[j].lease = "live"
      BY <1>2, <2>1 DEF Claim, Row
    <2>3. attempt'[t].worker = w
      BY <1>2, <2>1 DEF Claim, Unissued
    <2> QED BY <2>2, <2>3
  <1> QED BY <1>1, <1>2, LeasesNext

-----------------------------------------------------------------------------
\* The initial state satisfies the invariant.
LEMMA CalmInit == LifecycleAssumption /\ Init => CalmInv
  <1> SUFFICES ASSUME LifecycleAssumption, Init PROVE CalmInv
    OBVIOUS
  <1>1. FenceInv
    BY FenceInit
  <1>2. /\ \A s \in Sessions : session[s].op = "idle" /\ session[s].touched = {}
        /\ \A t \in Tokens : attempt[t].phase = "unissued"
        /\ \A j \in Jobs : rows[j].status = "absent" /\ rows[j].attempts = 0
        /\ ops = 0
    BY DEF Init, Idle, Unissued, Absent
  <1>3. OpenInv
    BY <1>2 DEF OpenInv, Exclusive, ReadsCurrent, KidsCurrent, CreateCurrent, RequestsSound,
                Writers, Sessions
  <1>4. Budget
    BY <1>2, MaxRunsType DEF Budget
  <1>5. CountCurrent /\ DeadLetterIsPending /\ CompletedParentReleases
    BY <1>2 DEF CountCurrent, DeadLetterIsPending, CompletedParentReleases
  <1> QED BY <1>1, <1>3, <1>4, <1>5 DEF CalmInv, TableInv

\* Every step keeps the invariant, the ended jobs and the order of parent and child.
LEMMA CalmNext ==
  LifecycleAssumption /\ ~Overtaking /\ CalmInv /\ [Next]_vars => CalmInv' /\ EndedStay /\ ReadyAfterParent
  <1> SUFFICES ASSUME LifecycleAssumption, ~Overtaking, CalmInv, [Next]_vars
               PROVE  CalmInv' /\ EndedStay /\ ReadyAfterParent
    OBVIOUS
  <1>1. FenceInv /\ OpenInv /\ TableInv /\ Budget
    BY DEF CalmInv, TableInv
  <1>2. FenceInv'
    BY <1>1, FenceNext
  <1>3. OpenInv'
    BY <1>1, OpenNext
  <1>4. RowsStep
    BY <1>1, RowsNext
  <1>5. CountCurrent'
    BY <1>1, <1>4, CountsNext DEF RowsStep
  <1> QED BY <1>2, <1>3, <1>4, <1>5 DEF CalmInv, TableInv, RowsStep

\* Without overtaking every reachable state satisfies the invariant.
LEMMA Calm == ~Overtaking => (Spec => []CalmInv)
  <1> SUFFICES ASSUME ~Overtaking PROVE Spec => []CalmInv
    OBVIOUS
  <1>1. Init => CalmInv
    BY CalmInit, LifecycleAssumption
  <1>2. CalmInv /\ [Next]_vars => CalmInv'
    BY CalmNext, LifecycleAssumption
  <1> QED BY <1>1, <1>2, PTL DEF Spec

-----------------------------------------------------------------------------
(* The theorems.                                                           *)

\* However often a worker crashes, a lease expires or a handler fails, a job runs
\* at most max_retries times (at least once) and once more per request.
THEOREM RetriesStayInBudget == ~Overtaking => (Spec => []AttemptBudget)
  <1> SUFFICES ASSUME ~Overtaking PROVE Spec => []AttemptBudget
    OBVIOUS
  <1>1. CalmInv => AttemptBudget
    BY DEF CalmInv, TableInv, Budget, MaxRuns, AttemptBudget
  <1> QED BY <1>1, Calm, PTL

\* A job in the dead letter queue can be replayed, the second time it dies as well.
THEOREM DeadLettersReplayable == ~Overtaking => (Spec => []DeadLetterIsPending)
  <1> SUFFICES ASSUME ~Overtaking PROVE Spec => []DeadLetterIsPending
    OBVIOUS
  <1>1. CalmInv => DeadLetterIsPending
    BY DEF CalmInv, TableInv
  <1> QED BY <1>1, Calm, PTL

\* No child waits for the year 9999 once its parent has completed.
THEOREM ChildrenReleased == ~Overtaking => (Spec => []CompletedParentReleases)
  <1> SUFFICES ASSUME ~Overtaking PROVE Spec => []CompletedParentReleases
    OBVIOUS
  <1>1. CalmInv => CompletedParentReleases
    BY DEF CalmInv, TableInv
  <1> QED BY <1>1, Calm, PTL

\* Only an operator takes a job out of a status it ended in.
THEOREM EndedJobsStayEnded == ~Overtaking => (Spec => EndedStaysEnded)
  <1> SUFFICES ASSUME ~Overtaking PROVE Spec => EndedStaysEnded
    OBVIOUS
  <1>1. CalmInv /\ [Next]_vars =>
          [\A j \in Jobs :
             rows[j].status \in {"completed", "cancelled", "dead_letter"} =>
               \/ rows'[j].status = rows[j].status
               \/ rows[j].status = "dead_letter" /\ rows'[j].status = "cancelled"
               \/ Redriven(j)]_vars
    BY CalmNext, LifecycleAssumption DEF EndedStay
  <1> QED BY <1>1, Calm, PTL DEF Spec, EndedStaysEnded

\* A child that waits, or that create_job inserts, becomes ready when its parent is
\* completed, or by an operator's request.
THEOREM ChildrenFollowParents == ~Overtaking => (Spec => ChildAfterParent)
  <1> SUFFICES ASSUME ~Overtaking PROVE Spec => ChildAfterParent
    OBVIOUS
  <1>1. CalmInv /\ [Next]_vars =>
          [\A j \in Jobs :
             /\ Parent[j] # NoJob /\ rows'[j].status = "queued"
             /\ rows[j].status = "scheduled" \/ (rows[j].status = "absent" /\ Requested(j))
             => rows'[Parent[j]].status = "completed" \/ Redriven(j)]_vars
    BY CalmNext, LifecycleAssumption DEF ReadyAfterParent
  <1> QED BY <1>1, Calm, PTL DEF Spec, ChildAfterParent

\* A running row can always be renewed by its worker or swept by the reaper.
THEOREM RunningRowsLeased == ~Overtaking => (Spec => []RunningIsLeased)
  <1> SUFFICES ASSUME ~Overtaking PROVE Spec => []RunningIsLeased
    OBVIOUS
  <1>1. Init => RunningIsLeased
    BY DEF Init, Absent, RunningIsLeased, Running
  <1>2. CalmInv /\ RunningIsLeased /\ [Next]_vars => RunningIsLeased'
    BY LeasedNext, LifecycleAssumption DEF CalmInv, OpenInv
  <1> QED BY <1>1, <1>2, Calm, PTL DEF Spec
=============================================================================
