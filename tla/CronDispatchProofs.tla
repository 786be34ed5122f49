-------------------------- MODULE CronDispatchProofs -------------------------
(***************************************************************************)
(* For any number of schedules, replicas, clients and expressions: every   *)
(* occurrence has one job, and the replicas act as one dispatcher that     *)
(* sees every schedule as it is.                                           *)
(***************************************************************************)
EXTENDS CronDispatch, FiniteSetTheorems, TLAPS

\* NextRun is the least occurrence after base.
LEMMA NextRunLeast ==
  ASSUME NEW e \in Expressions, NEW base \in Times
  PROVE  /\ NextRun(e, base) \in Nat
         /\ \A v \in Fires[e] : v > base => NextRun(e, base) <= v
<1>1. \E u \in Fires[e] : u > base /\ \A v \in Fires[e] : v > base => u <= v
  BY CronAssumption
<1>2. /\ NextRun(e, base) \in Fires[e]
      /\ \A v \in Fires[e] : v > base => NextRun(e, base) <= v
  BY <1>1 DEF NextRun
<1> QED BY <1>2, CronAssumption

-----------------------------------------------------------------------------
\* A locked row is as the sweep read it, and still due; nobody else locked it.
LockInv ==
  /\ \A r \in Replicas : \A s \in DOMAIN sweep[r] :
       s \in Schedules /\ sweep[r][s] = row[s] /\ Due(s)
  /\ \A q, r \in Replicas : q # r => DOMAIN sweep[q] \cap DOMAIN sweep[r] = {}

\* A schedule that is about to be inserted does not exist, and is inserted once.
InsertInv ==
  /\ \A c \in Clients : req[c].op = "insert" =>
       /\ row[req[c].on].state = "absent"
       /\ req[c].ask.runs = 0 /\ req[c].ask.since = req[c].ask.next
  /\ \A c, d \in Clients :
       req[c].op = "insert" /\ req[d].op = "insert" /\ req[c].on = req[d].on => c = d

\* Jobs are inserted for schedules that exist, a finite number of times.
JobInv ==
  \A s \in Schedules : /\ IsFiniteSet(jobs[s])
                       /\ row[s].state = "absent" => jobs[s] = {}

Inv == TypeOK /\ LockInv /\ InsertInv /\ JobInv /\ NoOccurrenceMissed /\ RunsCounted

\* In the beginning there are no schedules.
LEMMA InitInv == Init => Inv
<1> SUFFICES ASSUME Init PROVE Inv
  OBVIOUS
<1>1. PICK e \in Expressions :
        row = [s \in Schedules |-> [state |-> "absent", active |-> TRUE, expr |-> e,
                                    next |-> 0, runs |-> 0, since |-> 0]]
  BY DEF Init
<1>2. row \in [Schedules -> Row] /\ \A s \in Schedules : row[s].state = "absent"
  BY <1>1 DEF Row
<1>3. \A r \in Replicas : DOMAIN sweep[r] = {} /\ IsSweep(sweep[r])
  <2>1. \A r \in Replicas : sweep[r] \in [{} -> Row]
    BY DEF Init
  <2> QED BY <2>1 DEF IsSweep
<1>4. TypeOK
  <2>1. now \in Times /\ ops \in 0..MaxOps
    BY CronAssumption DEF Init, Times
  <2>2. jobs \in [Schedules -> SUBSET Nat] /\ req \in [Clients -> Request \cup {Done}]
    BY DEF Init
  <2>3. DOMAIN sweep = Replicas /\ up = Replicas
    BY DEF Init
  <2> QED BY <1>2, <1>3, <2>1, <2>2, <2>3 DEF TypeOK
<1>5. LockInv /\ InsertInv
  BY <1>3 DEF Init, LockInv, InsertInv, Done
<1>6. JobInv
  BY FS_EmptySet DEF Init, JobInv
<1>7. NoOccurrenceMissed /\ RunsCounted
  BY <1>2, Zenon DEF NoOccurrenceMissed, RunsCounted, Present
<1> QED BY <1>4, <1>5, <1>6, <1>7 DEF Inv

-----------------------------------------------------------------------------
\* A sweep locks rows as it reads them.
LEMMA SweepReadInv == ASSUME Inv, NEW r \in Replicas, SweepRead(r) PROVE Inv'
<1> DEFINE due == {s \in Schedules : Due(s) /\ ~Locked(s)}
<1> DEFINE f == [s \in due |-> row[s]]
<1>1. /\ r \in up /\ DOMAIN sweep[r] = {} /\ sweep' = [sweep EXCEPT ![r] = f]
      /\ now' = now /\ row' = row /\ jobs' = jobs /\ up' = up /\ req' = req /\ ops' = ops
  BY DEF SweepRead
<1>2. DOMAIN f = due /\ \A s \in due : f[s] = row[s] /\ s \in Schedules /\ Due(s) /\ ~Locked(s)
  OBVIOUS
<1>3. f \in [due -> Row] /\ due \in SUBSET Schedules
  BY DEF Inv, TypeOK
<1>4. IsSweep(f)
  BY <1>3 DEF IsSweep
<1> HIDE DEF f, due
<1>5. DOMAIN sweep' = Replicas /\ sweep'[r] = f /\ \A q \in Replicas \ {r} : sweep'[q] = sweep[q]
  BY <1>1 DEF Inv, TypeOK
<1>6. TypeOK'
  BY <1>1, <1>4, <1>5 DEF Inv, TypeOK
<1>7. \A s : Due(s)' = Due(s)
  BY <1>1 DEF Due, Present
<1>8. LockInv'
  BY <1>1, <1>2, <1>5, <1>7 DEF Inv, LockInv, Locked
<1> QED BY <1>1, <1>6, <1>8
        DEF Inv, InsertInv, JobInv, NoOccurrenceMissed, RunsCounted, Present

\* The death of a replica releases its locks.
LEMMA DieInv == ASSUME Inv, NEW r \in Replicas, Die(r) PROVE Inv'
<1> DEFINE f == [s \in {} |-> row[s]]
<1>1. /\ up' = up \ {r} /\ sweep' = [sweep EXCEPT ![r] = f]
      /\ now' = now /\ row' = row /\ jobs' = jobs /\ req' = req /\ ops' = ops
  BY DEF Die
<1>2. DOMAIN f = {} /\ f \in [{} -> Row]
  OBVIOUS
<1>3. IsSweep(f)
  BY <1>2 DEF IsSweep
<1> HIDE DEF f
<1>4. DOMAIN sweep' = Replicas /\ sweep'[r] = f /\ \A q \in Replicas \ {r} : sweep'[q] = sweep[q]
  BY <1>1 DEF Inv, TypeOK
<1>5. TypeOK'
  BY <1>1, <1>2, <1>3, <1>4 DEF Inv, TypeOK
<1>6. \A s : Due(s)' = Due(s)
  BY <1>1 DEF Due, Present
<1>7. LockInv'
  BY <1>1, <1>2, <1>4, <1>6 DEF Inv, LockInv
<1> QED BY <1>1, <1>5, <1>7
        DEF Inv, InsertInv, JobInv, NoOccurrenceMissed, RunsCounted, Present

\* A sweep that fails releases its locks.
LEMMA SweepFailsInv == ASSUME Inv, NEW r \in Replicas, SweepFails(r) PROVE Inv'
<1> DEFINE f == [s \in {} |-> row[s]]
<1>1. /\ up' = up /\ sweep' = [sweep EXCEPT ![r] = f]
      /\ now' = now /\ row' = row /\ jobs' = jobs /\ req' = req /\ ops' = ops
  BY DEF SweepFails
<1>2. DOMAIN f = {} /\ f \in [{} -> Row]
  OBVIOUS
<1>3. IsSweep(f)
  BY <1>2 DEF IsSweep
<1> HIDE DEF f
<1>4. DOMAIN sweep' = Replicas /\ sweep'[r] = f /\ \A q \in Replicas \ {r} : sweep'[q] = sweep[q]
  BY <1>1 DEF Inv, TypeOK
<1>5. TypeOK'
  BY <1>1, <1>2, <1>3, <1>4 DEF Inv, TypeOK
<1>6. \A s : Due(s)' = Due(s)
  BY <1>1 DEF Due, Present
<1>7. LockInv'
  BY <1>1, <1>2, <1>4, <1>6 DEF Inv, LockInv
<1> QED BY <1>1, <1>5, <1>7
        DEF Inv, InsertInv, JobInv, NoOccurrenceMissed, RunsCounted, Present

-----------------------------------------------------------------------------
\* A sweep that commits inserts the occurrence of each of its rows and advances it.
LEMMA SweepCommitInv == ASSUME Inv, NEW r \in Replicas, SweepCommit(r) PROVE Inv'
<1> DEFINE due == DOMAIN sweep[r]
<1> DEFINE f == [s \in {} |-> row[s]]
<1>1. /\ r \in up /\ due # {} /\ sweep' = [sweep EXCEPT ![r] = f]
      /\ now' = now /\ up' = up /\ req' = req /\ ops' = ops
  BY DEF SweepCommit
<1>2. \A s \in due : s \in Schedules /\ sweep[r][s] = row[s] /\ Due(s)
  BY DEF Inv, LockInv
<1>3. \A s \in due : /\ row[s] \in Row /\ row[s].state = "present"
                     /\ row[s].expr \in Expressions /\ row[s].next \in Times
  BY <1>2, CronAssumption DEF Inv, TypeOK, Row, Due, Present, Times
<1>4. \A s \in due : /\ Advanced(row[s]) \in Nat
                     /\ \A t \in Fires[row[s].expr] :
                          t < Advanced(row[s]) => t <= row[s].next
  <2> SUFFICES ASSUME NEW s \in due
               PROVE  /\ NextRun(row[s].expr, row[s].next) \in Nat
                      /\ \A t \in Fires[row[s].expr] :
                           t < NextRun(row[s].expr, row[s].next) => t <= row[s].next
    BY DEF Advanced
  <2>1. /\ NextRun(row[s].expr, row[s].next) \in Nat
        /\ \A v \in Fires[row[s].expr] :
             v > row[s].next => NextRun(row[s].expr, row[s].next) <= v
    BY <1>3, NextRunLeast
  <2> QED BY <2>1, <1>3, CronAssumption DEF Times
<1>5. \A s \in due : Counted(s, row[s]) \in Nat
  BY <1>3 DEF Counted, Row
<1>6. /\ jobs' = [s \in Schedules |->
                   IF s \in due THEN jobs[s] \cup {row[s].next} ELSE jobs[s]]
      /\ row' = [s \in Schedules |->
                  IF s \in due THEN [row[s] EXCEPT !.next = Advanced(row[s]),
                                                   !.runs = Counted(s, row[s])]
                               ELSE row[s]]
  BY <1>2 DEF SweepCommit
<1>7. ASSUME NEW s \in due
      PROVE  /\ row'[s] \in Row
             /\ row'[s].state = "present" /\ row'[s].active = row[s].active
             /\ row'[s].expr = row[s].expr /\ row'[s].since = row[s].since
             /\ row'[s].next = Advanced(row[s]) /\ row'[s].runs = Counted(s, row[s])
             /\ jobs'[s] = jobs[s] \cup {row[s].next}
  <2> DEFINE n == Advanced(row[s])
  <2> DEFINE k == Counted(s, row[s])
  <2>1. n \in Nat /\ k \in Nat
    BY <1>4, <1>5
  <2>2. row'[s] = [row[s] EXCEPT !.next = n, !.runs = k]
    BY <1>2, <1>6
  <2>3. jobs'[s] = jobs[s] \cup {row[s].next}
    BY <1>2, <1>6
  <2> HIDE DEF n, k
  <2>4. [row[s] EXCEPT !.next = n, !.runs = k] \in Row
    BY <1>3, <2>1, Zenon DEF Row
  <2>5. LET z == [row[s] EXCEPT !.next = n, !.runs = k]
        IN  /\ z.state = row[s].state /\ z.active = row[s].active /\ z.expr = row[s].expr
            /\ z.since = row[s].since /\ z.next = n /\ z.runs = k
    BY <1>3 DEF Row
  <2> QED BY <1>3, <2>2, <2>3, <2>4, <2>5 DEF n, k
<1>8. \A s \in Schedules \ due : row'[s] = row[s] /\ jobs'[s] = jobs[s]
  BY <1>6
<1>9. DOMAIN f = {} /\ IsSweep(f)
  <2>1. f \in [{} -> Row]
    OBVIOUS
  <2> QED BY <2>1 DEF IsSweep
<1> HIDE DEF f
<1>10. DOMAIN sweep' = Replicas /\ sweep'[r] = f /\ \A q \in Replicas \ {r} : sweep'[q] = sweep[q]
  BY <1>1 DEF Inv, TypeOK
<1>11. TypeOK'
  <2>1. row' \in [Schedules -> Row]
    <3>1. \A s \in Schedules : row'[s] \in Row
      BY <1>7, <1>8 DEF Inv, TypeOK
    <3>2. DOMAIN row' = Schedules /\ row' = [s \in Schedules |-> row'[s]]
      BY <1>6, Zenon
    <3> QED BY <3>1, <3>2
  <2>2. jobs' \in [Schedules -> SUBSET Nat]
    <3>1. \A s \in Schedules : jobs'[s] \in SUBSET Nat
      BY <1>3, <1>7, <1>8 DEF Inv, TypeOK, Times
    <3>2. jobs' = [s \in Schedules |-> jobs'[s]]
      BY <1>6, Zenon
    <3> QED BY <3>1, <3>2
  <2> QED BY <1>1, <1>9, <1>10, <2>1, <2>2 DEF Inv, TypeOK
<1>12. LockInv'
  <2>1. ASSUME NEW q \in Replicas, NEW s \in DOMAIN sweep'[q]
        PROVE  s \in Schedules /\ sweep'[q][s] = row'[s] /\ Due(s)'
    <3>1. q # r /\ sweep'[q] = sweep[q]
      BY <1>9, <1>10
    <3>2. s \in Schedules /\ sweep[q][s] = row[s] /\ Due(s) /\ s \notin due
      BY <3>1 DEF Inv, LockInv
    <3>3. row'[s] = row[s]
      BY <3>2, <1>8
    <3> QED BY <1>1, <3>1, <3>2, <3>3 DEF Due, Present
  <2>2. \A p, q \in Replicas : p # q => DOMAIN sweep'[p] \cap DOMAIN sweep'[q] = {}
    BY <1>9, <1>10 DEF Inv, LockInv
  <2> QED BY <2>1, <2>2 DEF LockInv
<1>13. InsertInv'
  BY <1>1, <1>3, <1>7, <1>8 DEF Inv, InsertInv, TypeOK, Request, Done
<1>14. JobInv'
  <2> SUFFICES ASSUME NEW s \in Schedules
               PROVE  IsFiniteSet(jobs'[s]) /\ (row'[s].state = "absent" => jobs'[s] = {})
    BY DEF JobInv
  <2>1. IsFiniteSet(jobs[s]) /\ (row[s].state = "absent" => jobs[s] = {})
    BY DEF Inv, JobInv
  <2>2. CASE s \in due
    <3>1. IsFiniteSet(jobs[s] \cup {row[s].next})
      BY <2>1, FS_AddElement
    <3> QED BY <1>7, <2>2, <3>1
  <2> QED BY <1>8, <2>1, <2>2
<1>15. NoOccurrenceMissed'
  <2> SUFFICES ASSUME NEW s \in Schedules, row'[s].state = "present",
                      NEW t \in Fires[row'[s].expr],
                      row'[s].since <= t, t < row'[s].next
               PROVE  t \in jobs'[s]
    BY DEF NoOccurrenceMissed, Present
  <2>1. CASE s \in due
    <3>1. /\ t \in Fires[row[s].expr] /\ row[s].since <= t /\ t <= row[s].next
          /\ row[s].next \in Nat /\ t \in Nat
      BY <2>1, <1>3, <1>4, <1>7, CronAssumption DEF Times
    <3>2. CASE t < row[s].next
      <4>1. t \in jobs[s]
        BY <3>1, <3>2, <2>1, <1>3 DEF Inv, NoOccurrenceMissed, Present
      <4> QED BY <4>1, <2>1, <1>7
    <3>3. CASE t = row[s].next
      BY <3>3, <2>1, <1>7
    <3> QED BY <3>1, <3>2, <3>3
  <2>2. CASE s \notin due
    BY <2>2, <1>8 DEF Inv, NoOccurrenceMissed, Present
  <2> QED BY <2>1, <2>2
<1>16. RunsCounted'
  <2> SUFFICES ASSUME NEW s \in Schedules, row'[s].state = "present"
               PROVE  row'[s].runs = Cardinality(jobs'[s])
    BY DEF RunsCounted, Present
  <2>1. CASE s \in due
    <3>1. row[s].runs = Cardinality(jobs[s]) /\ IsFiniteSet(jobs[s])
      BY <2>1, <1>3 DEF Inv, RunsCounted, Present, JobInv
    <3>2. Cardinality(jobs[s] \cup {row[s].next}) =
            IF row[s].next \in jobs[s] THEN Cardinality(jobs[s]) ELSE Cardinality(jobs[s]) + 1
      BY <3>1, FS_AddElement
    <3> QED BY <3>1, <3>2, <2>1, <1>7 DEF Counted
  <2>2. CASE s \notin due
    BY <2>2, <1>8 DEF Inv, RunsCounted, Present
  <2> QED BY <2>1, <2>2
<1> QED BY <1>11, <1>12, <1>13, <1>14, <1>15, <1>16 DEF Inv

-----------------------------------------------------------------------------
\* Opening a request keeps the invariant; a new schedule has a new id.
LEMMA AsksInv ==
  ASSUME Inv, NEW c \in Clients, NEW s \in Schedules, NEW ask \in Row,
         NEW op \in {"insert", "update", "delete"}, Asks(c, op, s, ask),
         op = "insert" =>
           /\ row[s].state = "absent" /\ ask.runs = 0 /\ ask.since = ask.next
           /\ \A d \in Clients : req[d].op = "insert" => req[d].on # s
  PROVE  Inv'
<1> DEFINE q == [op |-> op, on |-> s, read |-> row[s], ask |-> ask]
<1>1. /\ req' = [req EXCEPT ![c] = q] /\ ops' = ops + 1 /\ ops < MaxOps
      /\ now' = now /\ row' = row /\ jobs' = jobs /\ up' = up /\ sweep' = sweep
  BY DEF Asks
<1>2. q \in Request /\ q.op = op /\ q.on = s /\ q.ask = ask
  BY DEF Inv, TypeOK, Request
<1> HIDE DEF q
<1>3. req'[c] = q /\ \A d \in Clients \ {c} : req'[d] = req[d]
  BY <1>1 DEF Inv, TypeOK
<1>4. TypeOK'
  <2>1. req' \in [Clients -> Request \cup {Done}]
    BY <1>1, <1>2 DEF Inv, TypeOK
  <2>2. ops' \in 0..MaxOps
    BY <1>1, CronAssumption DEF Inv, TypeOK
  <2> QED BY <1>1, <2>1, <2>2 DEF Inv, TypeOK
<1>5. InsertInv'
  BY <1>1, <1>2, <1>3 DEF Inv, InsertInv
<1>6. LockInv'
  BY <1>1 DEF Inv, LockInv, Due, Present
<1> QED BY <1>1, <1>4, <1>5, <1>6 DEF Inv, JobInv, NoOccurrenceMissed, RunsCounted, Present

\* A request that commits changes one row that no sweep has locked.
LEMMA RequestCommitInv == ASSUME Inv, NEW c \in Clients, RequestCommit(c) PROVE Inv'
<1> DEFINE s == req[c].on
<1>1. /\ req[c] # Done /\ ~Locked(s)
      /\ row' = [row EXCEPT ![s] = After(c)] /\ req' = [req EXCEPT ![c] = Done]
      /\ now' = now /\ jobs' = jobs /\ up' = up /\ sweep' = sweep /\ ops' = ops
  BY DEF RequestCommit, Blocked
<1>2. req[c] \in Request
  BY <1>1 DEF Inv, TypeOK
<1>3. /\ s \in Schedules /\ row[s] \in Row /\ req[c].read \in Row /\ req[c].ask \in Row
      /\ req[c].op \in {"insert", "update", "delete"}
  BY <1>2 DEF Request, Inv, TypeOK
<1> HIDE DEF s
<1>4. /\ row'[s] = After(c) /\ \A d \in Schedules \ {s} : row'[d] = row[d]
      /\ req'[c] = Done /\ \A d \in Clients \ {c} : req'[d] = req[d]
  BY <1>1, <1>3 DEF Inv, TypeOK
\* What becomes of the row: it is inserted, left alone, deleted, or updated so
\* that a new expression or a new next run begins to count there.
<1>5. /\ After(c) \in Row
      /\ row[s].state = "absent" => After(c) = row[s] \/ req[c].op = "insert"
      /\ row[s].state # "absent" => After(c).state # "absent"
      /\ After(c).state = "present" =>
           \/ req[c].op = "insert" /\ After(c) = req[c].ask
           \/ /\ row[s].state = "present" /\ After(c).runs = row[s].runs
              /\ \/ After(c).since = After(c).next
                 \/ /\ After(c).expr = row[s].expr /\ After(c).next = row[s].next
                    /\ After(c).since = row[s].since
  <2>1. CASE req[c].op = "insert"
    <3>1. After(c) = req[c].ask /\ row[s].state = "absent"
      BY <2>1 DEF After, s, Inv, InsertInv
    <3> QED BY <3>1, <2>1, <1>3
  <2>2. CASE req[c].op # "insert" /\ ~Present(s)
    <3>1. After(c) = row[s]
      BY <2>2 DEF After, s
    <3> QED BY <3>1, <2>2, <1>3 DEF Present
  <2>3. CASE req[c].op = "delete" /\ Present(s)
    <3>1. After(c) = [row[s] EXCEPT !.state = "deleted"]
      BY <2>3 DEF After, s
    <3>2. After(c) \in Row /\ After(c).state = "deleted"
      BY <3>1, <1>3 DEF Row
    <3> QED BY <3>2, <2>3 DEF Present
  <2>4. CASE req[c].op = "update" /\ Present(s)
    <3> DEFINE read == req[c].read
    <3> DEFINE ask == req[c].ask
    <3> DEFINE a == IF ask.active # read.active THEN ask.active ELSE row[s].active
    <3> DEFINE e == IF ask.expr # read.expr THEN ask.expr ELSE row[s].expr
    <3> DEFINE n == IF ask.next # read.next THEN ask.next ELSE row[s].next
    <3> DEFINE b == IF ask.expr # read.expr \/ ask.next # read.next THEN n ELSE row[s].since
    <3>1. After(c) = [row[s] EXCEPT !.active = a, !.expr = e, !.next = n, !.since = b]
      BY <2>4 DEF After, Written, s
    <3>2. a \in BOOLEAN /\ e \in Expressions /\ n \in Nat /\ b \in Nat
      BY <1>3, Zenon DEF Row
    <3>3. b = n \/ (e = row[s].expr /\ n = row[s].next /\ b = row[s].since)
      <4>1. CASE ask.expr # read.expr \/ ask.next # read.next
        BY <4>1
      <4>2. CASE ask.expr = read.expr /\ ask.next = read.next
        BY <4>2
      <4> QED BY <4>1, <4>2
    <3> HIDE DEF a, e, n, b
    <3>4. [row[s] EXCEPT !.active = a, !.expr = e, !.next = n, !.since = b] \in Row
      BY <1>3, <3>2, Zenon DEF Row
    <3>5. /\ After(c).state = row[s].state /\ After(c).runs = row[s].runs
          /\ After(c).expr = e /\ After(c).next = n /\ After(c).since = b
      BY <3>1, <1>3 DEF Row
    <3> QED BY <2>4, <3>1, <3>3, <3>4, <3>5 DEF Present
  <2> QED BY <1>3, <2>1, <2>2, <2>3, <2>4
<1>6. TypeOK'
  <2>1. row' \in [Schedules -> Row]
    BY <1>1, <1>5 DEF Inv, TypeOK
  <2>2. req' \in [Clients -> Request \cup {Done}]
    BY <1>1 DEF Inv, TypeOK
  <2> QED BY <1>1, <2>1, <2>2 DEF Inv, TypeOK
<1>7. LockInv'
  <2>1. ASSUME NEW r \in Replicas, NEW d \in DOMAIN sweep'[r]
        PROVE  d \in Schedules /\ sweep'[r][d] = row'[d] /\ Due(d)'
    <3>1. d \in Schedules /\ sweep[r][d] = row[d] /\ Due(d) /\ d # s
      BY <1>1 DEF Inv, LockInv, Locked
    <3> QED BY <3>1, <1>1, <1>4 DEF Due, Present
  <2> QED BY <2>1, <1>1 DEF Inv, LockInv
<1>8. InsertInv'
  <2>1. ASSUME NEW d \in Clients, req'[d].op = "insert"
        PROVE  req'[d] = req[d] /\ row'[req[d].on].state = "absent"
    <3>1. d # c /\ req'[d] = req[d]
      BY <2>1, <1>4 DEF Done
    <3>2. row[req[d].on].state = "absent" /\ req[d].on \in Schedules
      BY <2>1, <3>1 DEF Inv, InsertInv, TypeOK, Request, Done
    <3>3. CASE req[d].on = s
      <4>1. req[c].op # "insert"
        BY <2>1, <3>1, <3>3 DEF Inv, InsertInv, s
      <4> QED BY <3>1, <3>2, <3>3, <4>1, <1>4, <1>5
    <3> QED BY <3>1, <3>2, <3>3, <1>4
  <2> QED BY <2>1 DEF Inv, InsertInv
<1>9. JobInv'
  BY <1>1, <1>4, <1>5 DEF Inv, JobInv
<1>10. NoOccurrenceMissed'
  <2> SUFFICES ASSUME NEW d \in Schedules, row'[d].state = "present",
                      NEW t \in Fires[row'[d].expr],
                      row'[d].since <= t, t < row'[d].next
               PROVE  t \in jobs[d]
    BY <1>1 DEF NoOccurrenceMissed, Present
  <2>1. CASE d = s /\ row'[s].since = row'[s].next
    BY <2>1, <1>6, CronAssumption DEF TypeOK, Row
  <2>2. CASE d = s /\ req[c].op = "insert"
    BY <2>1, <2>2, <1>4, <1>5 DEF Inv, InsertInv, After
  <2> QED BY <2>1, <2>2, <1>4, <1>5 DEF Inv, NoOccurrenceMissed, Present
<1>11. RunsCounted'
  <2> SUFFICES ASSUME NEW d \in Schedules, row'[d].state = "present"
               PROVE  row'[d].runs = Cardinality(jobs[d])
    BY <1>1 DEF RunsCounted, Present
  <2>1. CASE d = s /\ req[c].op = "insert"
    <3>1. row'[s].runs = 0 /\ jobs[s] = {}
      BY <2>1, <1>3, <1>4 DEF Inv, InsertInv, JobInv, After, s
    <3> QED BY <3>1, <2>1, FS_EmptySet
  <2> QED BY <2>1, <1>4, <1>5 DEF Inv, RunsCounted, Present
<1> QED BY <1>6, <1>7, <1>8, <1>9, <1>10, <1>11 DEF Inv

-----------------------------------------------------------------------------
\* Every action keeps the invariant.
LEMMA NextInv == Inv /\ [Next]_vars => Inv'
<1> SUFFICES ASSUME Inv, [Next]_vars PROVE Inv'
  OBVIOUS
<1>1. \A e \in Expressions : NextRun(e, now) \in Nat
  BY NextRunLeast DEF Inv, TypeOK
<1>2. row \in [Schedules -> Row]
  BY DEF Inv, TypeOK
<1>3. CASE Tick
  <2>1. TypeOK'
    BY <1>3, CronAssumption DEF Tick, Inv, TypeOK, Times
  <2>2. LockInv'
    <3>1. \A s \in Schedules : Due(s) => Due(s)'
      BY <1>2, <1>3, CronAssumption DEF Tick, Due, Present, Inv, TypeOK, Row, Times
    <3> QED BY <3>1, <1>3 DEF Tick, Inv, LockInv
  <2> QED BY <2>1, <2>2, <1>3
          DEF Tick, Inv, InsertInv, JobInv, NoOccurrenceMissed, RunsCounted, Present
<1>4. ASSUME NEW r \in Replicas, SweepRead(r) \/ SweepCommit(r) \/ SweepFails(r) \/ Die(r)
      PROVE  Inv'
  BY <1>4, SweepReadInv, SweepCommitInv, SweepFailsInv, DieInv
<1>5. ASSUME NEW c \in Clients, RequestCommit(c) PROVE Inv'
  BY <1>5, RequestCommitInv
<1>6. ASSUME NEW c \in Clients, NEW s \in Schedules, NEW e \in Expressions, CreateRead(c, s, e)
      PROVE  Inv'
  <2> DEFINE ask == [state |-> "present", active |-> TRUE, expr |-> e,
                     next |-> NextRun(e, now), runs |-> 0, since |-> NextRun(e, now)]
  <2>1. ask \in Row /\ ask.runs = 0 /\ ask.since = ask.next
    BY <1>1 DEF Row
  <2>2. /\ Asks(c, "insert", s, ask) /\ row[s].state = "absent"
        /\ \A d \in Clients : req[d].op = "insert" => req[d].on # s
    BY <1>6 DEF CreateRead
  <2> HIDE DEF ask
  <2> QED BY <2>1, <2>2, AsksInv
<1>7. ASSUME NEW c \in Clients, NEW s \in Schedules, NEW b \in BOOLEAN, PauseRead(c, s, b)
      PROVE  Inv'
  <2> DEFINE ask == [row[s] EXCEPT !.active = b]
  <2>1. ask \in Row
    BY <1>2 DEF Row
  <2>2. Asks(c, "update", s, ask)
    BY <1>7 DEF PauseRead
  <2> HIDE DEF ask
  <2> QED BY <2>1, <2>2, AsksInv
<1>8. ASSUME NEW c \in Clients, NEW s \in Schedules, NEW e \in Expressions, NEW b \in BOOLEAN,
             EditRead(c, s, e, b)
      PROVE  Inv'
  <2> DEFINE n == NextRun(e, now)
  <2> DEFINE ask == [row[s] EXCEPT !.active = b, !.expr = e, !.next = n]
  <2>1. n \in Nat /\ row[s] \in Row
    BY <1>1, <1>2
  <2>2. Asks(c, "update", s, ask)
    BY <1>8 DEF EditRead
  <2> HIDE DEF n
  <2>3. ask \in Row
    BY <2>1, Zenon DEF Row
  <2> HIDE DEF ask
  <2> QED BY <2>2, <2>3, AsksInv
<1>9. ASSUME NEW c \in Clients, NEW s \in Schedules, DeleteRead(c, s) PROVE Inv'
  <2> DEFINE ask == [row[s] EXCEPT !.state = "deleted"]
  <2>1. ask \in Row
    BY <1>2 DEF Row
  <2>2. Asks(c, "delete", s, ask)
    BY <1>9 DEF DeleteRead
  <2> HIDE DEF ask
  <2> QED BY <2>1, <2>2, AsksInv
<1>10. CASE UNCHANGED vars
  <2>1. TypeOK'
    BY <1>10 DEF vars, Inv, TypeOK
  <2>2. LockInv' /\ InsertInv' /\ JobInv'
    BY <1>10 DEF vars, Inv, LockInv, InsertInv, JobInv, Due, Present
  <2> QED BY <2>1, <2>2, <1>10 DEF vars, Inv, NoOccurrenceMissed, RunsCounted, Present
<1> QED BY <1>3, <1>4, <1>5, <1>6, <1>7, <1>8, <1>9, <1>10 DEF Next

\* Every reachable state satisfies the invariant.
LEMMA Invariance == Spec => []Inv
<1> QED BY InitInv, NextInv, PTL DEF Spec

-----------------------------------------------------------------------------
\* The schedules, jobs and transactions keep their types; a dead replica holds no
\* lock.
THEOREM CronTypeCorrect == Spec => []TypeOK
<1>1. Inv => TypeOK
  BY DEF Inv
<1> QED BY <1>1, Invariance, PTL

\* Every occurrence from the first of the present expression up to the next run
\* has its job.
THEOREM EveryOccurrence == Spec => []NoOccurrenceMissed
<1>1. Inv => NoOccurrenceMissed
  BY DEF Inv
<1> QED BY <1>1, Invariance, PTL

\* The run counter of a schedule is the number of its jobs.
THEOREM RunsExact == Spec => []RunsCounted
<1>1. Inv => RunsCounted
  BY DEF Inv
<1> QED BY <1>1, Invariance, PTL

-----------------------------------------------------------------------------
(* Refinement of OneDispatcher.  A sweep that commits is a Dispatch of the *)
(* rows it locked, a request that commits a Change of its row.             *)

\* The row of a schedule that was never created counts no runs.
NewRows == \A s \in Schedules : row[s].state = "absent" => row[s].runs = 0

\* A request that commits writes one row, and not its counter.
LEMMA RequestWrites ==
  ASSUME Inv, NewRows, NEW c \in Clients, RequestCommit(c)
  PROVE  /\ req[c].on \in Schedules /\ row'[req[c].on].runs = row[req[c].on].runs
         /\ \A s \in Schedules : s # req[c].on => row'[s] = row[s]
         /\ now' = now /\ jobs' = jobs
         /\ row'[req[c].on].state = "absent" => row[req[c].on].state = "absent"
<1> DEFINE s == req[c].on
<1>1. /\ req[c] # Done /\ row' = [row EXCEPT ![s] = After(c)] /\ now' = now /\ jobs' = jobs
  BY DEF RequestCommit
<1>2. req[c] \in Request /\ row \in [Schedules -> Row]
  BY <1>1 DEF Inv, TypeOK
<1>3. s \in Schedules /\ row[s] \in Row /\ req[c].op \in {"insert", "update", "delete"}
  BY <1>2 DEF Request
<1>4. row'[s] = After(c) /\ \A z \in Schedules : z # s => row'[z] = row[z]
  BY <1>1, <1>2, <1>3
<1>5. After(c).runs = row[s].runs /\ (After(c).state = "absent" => row[s].state = "absent")
  <2>1. CASE req[c].op = "insert"
    <3>1. After(c) = req[c].ask /\ req[c].ask.runs = 0 /\ row[s].state = "absent"
      BY <2>1 DEF After, Inv, InsertInv
    <3> QED BY <1>3, <3>1 DEF NewRows
  <2>2. CASE req[c].op # "insert" /\ ~Present(s)
    BY <2>2 DEF After
  <2>3. CASE req[c].op = "delete" /\ Present(s)
    <3>1. After(c) = [row[s] EXCEPT !.state = "deleted"]
      BY <2>3 DEF After
    <3> QED BY <1>3, <3>1 DEF Row
  <2>4. CASE req[c].op = "update" /\ Present(s)
    <3>1. After(c) = Written(s, req[c].read, req[c].ask)
      BY <2>4 DEF After
    <3>2. /\ Written(s, req[c].read, req[c].ask).runs = row[s].runs
          /\ Written(s, req[c].read, req[c].ask).state = row[s].state
      BY <1>3 DEF Written, Row
    <3> QED BY <3>1, <3>2
  <2> QED BY <1>3, <2>1, <2>2, <2>3, <2>4
<1> QED BY <1>1, <1>3, <1>4, <1>5

\* A sweep that commits makes, counts and advances the schedules as they are.
LEMMA SweepDispatches ==
  ASSUME Inv, NEW r \in Replicas, SweepCommit(r)
  PROVE  DOMAIN sweep[r] \in SUBSET Schedules /\ One!Dispatch(DOMAIN sweep[r])
<1> DEFINE due == DOMAIN sweep[r]
<1>1. \A s \in due : s \in Schedules /\ sweep[r][s] = row[s] /\ Due(s)
  BY DEF Inv, LockInv
<1>2. /\ now' = now
      /\ jobs' = [s \in Schedules |-> IF s \in due THEN jobs[s] \cup {row[s].next} ELSE jobs[s]]
      /\ row' = [s \in Schedules |->
                  IF s \in due THEN [row[s] EXCEPT !.next = Advanced(row[s]),
                                                   !.runs = Counted(s, row[s])]
                               ELSE row[s]]
  BY <1>1 DEF SweepCommit
<1> HIDE DEF due
<1>3. ASSUME NEW s \in Schedules
      PROVE  Plan[s] = [ready |-> Present(s) /\ row[s].active, next |-> row[s].next,
                        expr |-> row[s].expr, runs |-> row[s].runs]
  BY DEF Plan
<1>4. ASSUME NEW s \in Schedules
      PROVE  /\ Plan[s].ready <=> Present(s) /\ row[s].active
             /\ Plan[s].next = row[s].next /\ Plan[s].expr = row[s].expr /\ Plan[s].runs = row[s].runs
  BY DEF Plan
<1>5. ASSUME NEW s \in Schedules
      PROVE  Plan'[s] = [ready |-> row'[s].state = "present" /\ row'[s].active, next |-> row'[s].next,
                         expr |-> row'[s].expr, runs |-> row'[s].runs]
  BY DEF Plan, Present
<1>6. \A s \in due : Plan[s].ready /\ Plan[s].next <= now
  BY <1>1, <1>4 DEF Due
<1>7. jobs' = [s \in Schedules |-> IF s \in due THEN jobs[s] \cup {Plan[s].next} ELSE jobs[s]]
  BY <1>1, <1>2, <1>4
<1>8. ASSUME NEW s \in due
      PROVE  Plan'[s] = [Plan[s] EXCEPT !.next = One!Following(Plan[s].expr, Plan[s].next),
                                        !.runs = IF Plan[s].next \in jobs[s] THEN Plan[s].runs
                                                 ELSE Plan[s].runs + 1]
  <2> DEFINE n == Advanced(row[s])
             k == Counted(s, row[s])
  <2>1. s \in Schedules /\ row[s] \in Row /\ row'[s] = [row[s] EXCEPT !.next = n, !.runs = k]
    BY <1>1, <1>2 DEF Inv, TypeOK
  <2>2. n = One!Following(row[s].expr, row[s].next)
    BY DEF Advanced, NextRun, One!Following
  <2>3. k = IF row[s].next \in jobs[s] THEN row[s].runs ELSE row[s].runs + 1
    BY DEF Counted
  <2> HIDE DEF n, k
  <2>4. /\ row'[s].state = row[s].state /\ row'[s].active = row[s].active
        /\ row'[s].expr = row[s].expr /\ row'[s].next = n /\ row'[s].runs = k
    BY <2>1 DEF Row
  <2>5. Plan'[s] = [ready |-> Present(s) /\ row[s].active, next |-> n,
                    expr |-> row[s].expr, runs |-> k]
    BY <1>5, <2>1, <2>4 DEF Present
  <2>6. Plan'[s] = [Plan[s] EXCEPT !.next = n, !.runs = k]
    <3> DEFINE b == Present(s) /\ row[s].active
    <3>1. Plan[s] = [ready |-> b, next |-> row[s].next, expr |-> row[s].expr, runs |-> row[s].runs]
      BY <1>3, <2>1
    <3>2. Plan'[s] = [ready |-> b, next |-> n, expr |-> row[s].expr, runs |-> k]
      BY <2>5
    <3> HIDE DEF b
    <3> DEFINE q == Plan[s]
    <3>3. q = [ready |-> b, next |-> row[s].next, expr |-> row[s].expr, runs |-> row[s].runs]
      BY <3>1
    <3> HIDE DEF q
    <3>4. [q EXCEPT !.next = n] = [ready |-> b, next |-> n, expr |-> row[s].expr, runs |-> row[s].runs]
      BY <3>3
    <3> DEFINE m == [q EXCEPT !.next = n]
    <3>5. m = [ready |-> b, next |-> n, expr |-> row[s].expr, runs |-> row[s].runs]
      BY <3>4
    <3>6. [q EXCEPT !.next = n, !.runs = k] = [m EXCEPT !.runs = k]
      BY Zenon
    <3> HIDE DEF m
    <3>7. [m EXCEPT !.runs = k] = [ready |-> b, next |-> n, expr |-> row[s].expr, runs |-> k]
      BY <3>5
    <3> QED BY <3>2, <3>6, <3>7 DEF q
  <2> QED BY <1>4, <2>1, <2>2, <2>3, <2>6
<1>9. ASSUME NEW s \in Schedules, s \notin due
      PROVE  Plan'[s] = Plan[s]
  <2>1. row'[s] = row[s]
    BY <1>2, <1>9
  <2> QED BY <1>3, <1>5, <2>1 DEF Present
<1>10. Plan' = [s \in Schedules |->
        IF s \in due
        THEN [Plan[s] EXCEPT !.next = One!Following(Plan[s].expr, Plan[s].next),
                             !.runs = IF Plan[s].next \in jobs[s] THEN Plan[s].runs ELSE Plan[s].runs + 1]
        ELSE Plan[s]]
  <2>1. Plan' = [s \in Schedules |-> Plan'[s]]
    BY DEF Plan
  <2> QED BY <1>8, <1>9, <2>1
<1>11. One!Dispatch(due)
  BY <1>2, <1>6, <1>7, <1>10 DEF One!Dispatch
<1> QED BY <1>1, <1>11 DEF due

\* A request that commits changes one schedule, and neither its count nor its jobs.
LEMMA RequestChanges ==
  ASSUME Inv, NewRows, NEW c \in Clients, RequestCommit(c)
  PROVE  req[c].on \in Schedules /\ One!Change(req[c].on)
<1>1. /\ req[c].on \in Schedules /\ row'[req[c].on].runs = row[req[c].on].runs
      /\ \A s \in Schedules : s # req[c].on => row'[s] = row[s]
      /\ now' = now /\ jobs' = jobs
  BY RequestWrites
<1>2. \A s \in Schedules : /\ row'[s] = row[s] => Plan'[s] = Plan[s]
                           /\ row'[s].runs = row[s].runs => Plan'[s].runs = Plan[s].runs
  BY DEF Plan, Present
<1> QED BY <1>1, <1>2 DEF One!Change

\* A row that does not exist yet counts no runs, whatever happens.
LEMMA NewRowsNext == Inv /\ NewRows /\ [Next]_vars => NewRows'
<1> SUFFICES ASSUME Inv, NewRows, [Next]_vars PROVE NewRows'
  OBVIOUS
<1>1. CASE row' = row
  BY <1>1 DEF NewRows
<1>2. ASSUME NEW r \in Replicas, SweepCommit(r)
      PROVE  NewRows'
  <2>1. \A s \in DOMAIN sweep[r] : row[s].state = "present" /\ sweep[r][s] = row[s]
    BY DEF Inv, LockInv, Due, Present
  <2>2. ASSUME NEW s \in Schedules, row'[s].state = "absent"
        PROVE  row'[s] = row[s]
    <3>1. CASE s \in DOMAIN sweep[r]
      <4>1. row'[s].state = row[s].state
        BY <1>2, <3>1 DEF SweepCommit, Inv, TypeOK, Row
      <4> QED BY <2>1, <2>2, <3>1, <4>1
    <3> QED BY <1>2, <3>1 DEF SweepCommit
  <2> QED BY <2>2 DEF NewRows
<1>3. ASSUME NEW c \in Clients, RequestCommit(c)
      PROVE  NewRows'
  BY <1>3, RequestWrites DEF NewRows
<1> QED BY <1>1, <1>2, <1>3
        DEF Next, vars, Tick, SweepRead, SweepFails, Die, CreateRead, PauseRead, EditRead,
            DeleteRead, Asks

\* A step is a step of the one dispatcher or changes nothing it has.
LEMMA DispatchSteps ==
  Inv /\ NewRows /\ [Next]_vars => [One!DispatchNext]_One!dispatchVars
<1> SUFFICES ASSUME Inv, NewRows, [Next]_vars PROVE [One!DispatchNext]_One!dispatchVars
  OBVIOUS
<1>1. CASE row' = row /\ jobs' = jobs /\ (now' = now \/ now' = now + 1)
  <2>1. Plan' = Plan
    BY <1>1 DEF Plan, Present
  <2> QED BY <1>1, <2>1 DEF One!DispatchNext, One!Pass, One!dispatchVars
<1>2. ASSUME NEW r \in Replicas, SweepCommit(r)
      PROVE  One!DispatchNext
  BY <1>2, SweepDispatches DEF One!DispatchNext
<1>3. ASSUME NEW c \in Clients, RequestCommit(c)
      PROVE  One!DispatchNext
  BY <1>3, RequestChanges DEF One!DispatchNext
<1> QED BY <1>1, <1>2, <1>3
        DEF Next, vars, Tick, SweepRead, SweepFails, Die, CreateRead, PauseRead, EditRead,
            DeleteRead, Asks

\* However many replicas sweep, fail and die while requests come and go, the tables are those
\* of one dispatcher that takes only due schedules, as they are, in one step.
THEOREM ReplicasActAsOne == Spec => ImplementsOneDispatcher
<1>1. Init => One!DispatchInit /\ NewRows
  <2> SUFFICES ASSUME Init PROVE One!DispatchInit /\ NewRows
    OBVIOUS
  <2>1. now = 0 /\ \A s \in Schedules : row[s].state = "absent" /\ row[s].runs = 0 /\ jobs[s] = {}
    BY DEF Init
  <2>2. \A s \in Schedules : ~Plan[s].ready /\ Plan[s].runs = 0
    BY <2>1 DEF Plan, Present
  <2> QED BY <2>1, <2>2 DEF One!DispatchInit, NewRows
<1>2. Inv /\ NewRows /\ [Next]_vars => NewRows' /\ [One!DispatchNext]_One!dispatchVars
  BY NewRowsNext, DispatchSteps
<1> QED BY <1>1, <1>2, Invariance, PTL DEF Spec, ImplementsOneDispatcher, One!DispatchSpec
=============================================================================
