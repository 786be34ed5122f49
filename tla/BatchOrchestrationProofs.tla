---------------------- MODULE BatchOrchestrationProofs ----------------------
(***************************************************************************)
(* Theorems about BatchOrchestration, for every value of its constants:    *)
(* one job for one key in all answers, batches that are whole, and jobs    *)
(* that no cancellation takes from their worker.                           *)
(***************************************************************************)
EXTENDS BatchOrchestration, FiniteSetTheorems, TLAPS

-----------------------------------------------------------------------------
(* Requests.                                                               *)

Inserts(x) == x.op \in {"single", "bulk", "batch"}
Updates(x) == x.op \in {"cancel", "retry"}
Request == Insertion \cup Reread \cup Update \cup {None}

\* A request that inserts, updates or reads again has the fields of its kind.
LEMMA RequestKinds ==
  ASSUME NEW x \in Request
  PROVE  /\ Inserts(x) => x \in Insertion /\ ~Updates(x)
         /\ Updates(x) => x \in Update
         /\ x.op = "reread" => x \in Reread
  BY DEF Request, Inserts, Updates, Insertion, Reread, Update, None

\* A client without a request holds no rows.
LEMMA NoneIsRequest == None \in Request /\ ~Inserts(None) /\ ~Updates(None)
  BY DEF Request, None, Inserts, Updates

\* A request that reads its key again holds no rows.
LEMMA RereadIsRequest ==
  ASSUME NEW k \in Keys
  PROVE  /\ [op |-> "reread", key |-> k] \in Request
         /\ ~Inserts([op |-> "reread", key |-> k]) /\ ~Updates([op |-> "reread", key |-> k])
  BY DEF Request, Reread, Inserts, Updates

\* What an open insertion has done: its rows are not there yet, every id it has resolved is
\* one of them or the committed owner of the key, and one row has one key.
Sound(x) ==
  Inserts(x) =>
    /\ Len(x.ids) <= Len(x.keys)
    /\ x.op = "single" => Len(x.keys) = 1 /\ x.keys[1] \in Keys
    /\ \A j \in x.new : ~Present(j) /\ \E n \in DOMAIN x.ids : x.ids[n] = j
    /\ \A n \in DOMAIN x.ids : x.ids[n] \in x.new \/ Owns(x.ids[n], x.keys[n])
    /\ \A m, n \in DOMAIN x.ids : x.ids[m] = x.ids[n] /\ x.ids[n] \in x.new => x.keys[m] = x.keys[n]

\* The row j of key k that x has inserted and not committed.
Holds(x, j, k) ==
  /\ Inserts(x) /\ j \in x.new
  /\ \E n \in DOMAIN x.ids : x.ids[n] = j /\ x.keys[n] = k

\* Two requests insert no row both.
Apart(x, y) == Inserts(x) /\ Inserts(y) => x.new \cap y.new = {}

RowsApart == \A r, q \in Requests : r # q => Apart(req[r], req[q])
KeysUnique == \A i, j \in Jobs, k \in Keys : Owns(i, k) /\ Owns(j, k) => i = j
\* A key that is being inserted is inserted once, and nobody owns it.
KeysOpen ==
  \A r \in Requests, j \in Jobs, k \in Keys : Holds(req[r], j, k) =>
    /\ \A i \in Jobs : ~Owns(i, k)
    /\ \A q \in Requests, i \in Jobs : Holds(req[q], i, k) => q = r /\ i = j
AnswersOwn == \A a \in told : Owns(a[2], a[1])

\* The rows an update has locked are still what it found.
UpdateSound(x) ==
  Updates(x) =>
    /\ batch[x.on].status # "absent"
    /\ \A j \in x.rows : row[j].status \in (IF x.op = "cancel" THEN {"queued"} ELSE {"dead", "cancelled"})
LocksApart == \A r, q \in Requests : r # q /\ Updates(req[r]) /\ Updates(req[q]) => req[r].rows \cap req[q].rows = {}

Rows(b) == {j \in Jobs : row[j].batch = b}
\* An open batch has no row yet, and inserts a new one for every id.
BatchSound(x) ==
  /\ Inserts(x) /\ x.op # "batch" => x.on = NoBatch
  /\ Inserts(x) /\ x.op = "batch" =>
       /\ x.on \in Batches /\ batch[x.on].status = "absent"
       /\ IsFiniteSet(x.new) /\ Cardinality(x.new) = Len(x.ids)
BatchesApart ==
  \A r, q \in Requests : r # q /\ Inserts(req[r]) /\ Inserts(req[q]) /\ req[r].op = "batch" => req[q].on # req[r].on
AbsentBare == \A j \in Jobs : ~Present(j) => row[j].batch = NoBatch
BatchesWhole ==
  \A b \in Batches :
    /\ IsFiniteSet(Rows(b))
    /\ Cardinality(Rows(b)) = IF batch[b].status = "absent" THEN 0 ELSE batch[b].total

Typed ==
  /\ row \in [Jobs -> Row] /\ batch \in [Batches -> BatchRow]
  /\ req \in [Requests -> Request]
  /\ told \subseteq Keys \X Jobs /\ ops \in 0..MaxOps
KeyInv == RowsApart /\ KeysUnique /\ KeysOpen /\ AnswersOwn
BatchInv == BatchesApart /\ AbsentBare /\ BatchesWhole
EachSound == \A r \in Requests : Sound(req[r]) /\ UpdateSound(req[r]) /\ BatchSound(req[r])
BatchOrchestrationInv == Typed /\ EachSound /\ KeyInv /\ LocksApart /\ BatchInv

\* What a request inserted is what it holds under that key.
LEMMA InsertedHolds ==
  ASSUME NEW r \in Requests, NEW j, NEW k
  PROVE  Inserted(r, j, k) <=> Holds(req[r], j, k)
  BY DEF Inserted, Holds, Inserting, Inserts

\* The empty tables satisfy the invariant.
LEMMA InitInv == BatchAssumption /\ Init => BatchOrchestrationInv
  <1> SUFFICES ASSUME BatchAssumption, Init PROVE BatchOrchestrationInv
    OBVIOUS
  <1>1. Typed
    <2>1. [status |-> "absent", key |-> NoKey, batch |-> NoBatch] \in Row
      BY DEF Row
    <2>2. [status |-> "absent", total |-> 0] \in BatchRow
      BY DEF BatchRow
    <2>3. req \in [Requests -> Request]
      BY NoneIsRequest DEF Init
    <2>4. ops \in 0..MaxOps
      BY DEF Init, BatchAssumption
    <2> QED BY <2>1, <2>2, <2>3, <2>4 DEF Init, Typed
  <1>2. \A r \in Requests : ~Inserts(req[r]) /\ ~Updates(req[r])
    BY NoneIsRequest DEF Init
  <1>3. \A j \in Jobs : ~Present(j) /\ row[j].batch = NoBatch
    BY DEF Init, Present
  <1>4. EachSound
    BY <1>2 DEF EachSound, Sound, UpdateSound, BatchSound
  <1>5. KeyInv
    BY <1>2, <1>3 DEF KeyInv, RowsApart, Apart, KeysUnique, KeysOpen, Holds, Owns, AnswersOwn, Init
  <1>6. LocksApart /\ BatchesApart /\ AbsentBare
    BY <1>2, <1>3 DEF LocksApart, BatchesApart, AbsentBare
  <1>7. BatchesWhole
    <2> SUFFICES ASSUME NEW b \in Batches
                 PROVE  IsFiniteSet(Rows(b)) /\ Cardinality(Rows(b)) = 0 /\ batch[b].status = "absent"
      BY DEF BatchesWhole
    <2>1. Rows(b) = {}
      BY <1>3 DEF Rows, BatchAssumption
    <2> QED BY <2>1, FS_EmptySet DEF Init
  <1> QED BY <1>1, <1>4, <1>5, <1>6, <1>7 DEF BatchOrchestrationInv, BatchInv

-----------------------------------------------------------------------------
(* A step that changes one request and no table.                           *)

\* What the new state x of the request r owes the others.
Fits(r, x) ==
  /\ Sound(x) /\ UpdateSound(x) /\ BatchSound(x)
  /\ \A q \in Requests \ {r} :
       /\ Apart(x, req[q])
       /\ Updates(x) /\ Updates(req[q]) => x.rows \cap req[q].rows = {}
       /\ Inserts(x) /\ Inserts(req[q]) /\ (x.op = "batch" \/ req[q].op = "batch") => req[q].on # x.on
  /\ \A j \in Jobs, k \in Keys : Holds(x, j, k) =>
       /\ \A i \in Jobs : ~Owns(i, k)
       /\ \A i \in Jobs : Holds(x, i, k) => i = j
       /\ \A q \in Requests \ {r}, i \in Jobs : ~Holds(req[q], i, k)

\* A step of one request that leaves the tables alone, answers only with committed
\* rows and keeps apart from the other requests.
LEMMA RequestStep ==
  ASSUME BatchAssumption, BatchOrchestrationInv, NEW r \in Requests, NEW x \in Request,
         req' = [req EXCEPT ![r] = x], UNCHANGED <<row, batch>>, ops' \in 0..MaxOps,
         told' \subseteq Keys \X Jobs, \A a \in told' : Owns(a[2], a[1]), Fits(r, x)
  PROVE  BatchOrchestrationInv'
  <1>1. req \in [Requests -> Request]
    BY DEF BatchOrchestrationInv, Typed
  <1>2. \A q \in Requests : req'[q] = (IF q = r THEN x ELSE req[q])
    BY <1>1
  <1>3. Typed'
    <2>1. req' \in [Requests -> Request]
      BY <1>1
    <2> QED BY <2>1 DEF BatchOrchestrationInv, Typed
  <1>4. EachSound'
    <2> SUFFICES ASSUME NEW q \in Requests
                 PROVE  (Sound(req[q]) /\ UpdateSound(req[q]) /\ BatchSound(req[q]))'
      BY DEF EachSound
    <2>1. PICK y \in Request : y = req'[q]
      BY <1>1, <1>2
    <2>2. Sound(y) /\ UpdateSound(y) /\ BatchSound(y)
      BY <1>2, <2>1 DEF BatchOrchestrationInv, EachSound, Fits
    <2>3. Sound(req[q])'
      BY <2>1, <2>2 DEF Sound, Present, Owns
    <2>4. UpdateSound(req[q])'
      BY <2>1, <2>2 DEF UpdateSound
    <2>5. BatchSound(req[q])'
      BY <2>1, <2>2 DEF BatchSound
    <2> QED BY <2>3, <2>4, <2>5
  <1>5. RowsApart'
    BY <1>2 DEF BatchOrchestrationInv, KeyInv, RowsApart, Apart, Fits
  <1>6. KeysUnique' /\ AnswersOwn'
    BY DEF BatchOrchestrationInv, KeyInv, KeysUnique, AnswersOwn, Owns, Present
  <1>7. KeysOpen'
    <2> SUFFICES ASSUME NEW p \in Requests, NEW j \in Jobs, NEW k \in Keys, Holds(req'[p], j, k)
                 PROVE  /\ \A i \in Jobs : ~Owns(i, k)
                        /\ \A q \in Requests, i \in Jobs : Holds(req'[q], i, k) => q = p /\ i = j
      BY DEF KeysOpen, Owns, Present, Holds
    <2>1. CASE p = r
      BY <1>2, <2>1 DEF Fits
    <2>2. CASE p # r
      BY <1>2, <2>2 DEF Fits, BatchOrchestrationInv, KeyInv, KeysOpen
    <2> QED BY <2>1, <2>2
  <1>8. LocksApart'
    BY <1>2 DEF BatchOrchestrationInv, LocksApart, Fits
  <1>9. BatchesApart'
    BY <1>2 DEF BatchOrchestrationInv, BatchInv, BatchesApart, Fits
  <1>10. AbsentBare' /\ BatchesWhole'
    BY DEF BatchOrchestrationInv, BatchInv, AbsentBare, BatchesWhole, Present, Rows
  <1> QED BY <1>3, <1>4, <1>5, <1>6, <1>7, <1>8, <1>9, <1>10 DEF BatchOrchestrationInv, KeyInv, BatchInv

\* A request that ends, or is left with a read, fits.
LEMMA IdleFits ==
  ASSUME NEW r \in Requests, NEW x \in Request, ~Inserts(x), ~Updates(x)
  PROVE  Fits(r, x)
  BY DEF Fits, Sound, UpdateSound, BatchSound, Apart, Holds

\* A request that has inserted nothing yet.
LEMMA CreationFits ==
  ASSUME BatchAssumption, BatchOrchestrationInv, NEW r \in Requests,
         NEW op \in {"single", "bulk", "batch"}, NEW keys \in Seq(Keys \cup {NoKey}),
         NEW on \in Batches \cup {NoBatch},
         op = "single" => Len(keys) = 1 /\ keys[1] \in Keys,
         op # "batch" => on = NoBatch,
         op = "batch" => /\ on \in Batches /\ batch[on].status = "absent"
                         /\ \A q \in Requests : Inserting(q) => req[q].on # on
  PROVE  Creation(op, keys, on) \in Request /\ Fits(r, Creation(op, keys, on))
  <1> DEFINE x == Creation(op, keys, on)
  <1>1. /\ x.op = op /\ x.keys = keys /\ x.ids = <<>> /\ x.new = {} /\ x.on = on
        /\ Inserts(x) /\ ~Updates(x)
    BY DEF Creation, Inserts, Updates
  <1>2. <<>> \in Seq(Jobs) /\ Len(<<>>) = 0 /\ DOMAIN <<>> = {} /\ Len(keys) \in Nat
    OBVIOUS
  <1>3. x \in Insertion
    BY <1>2 DEF Creation, Insertion
  <1>4. IsFiniteSet({}) /\ Cardinality({}) = 0
    BY FS_EmptySet
  <1> HIDE DEF x
  <1>5. Sound(x) /\ UpdateSound(x) /\ BatchSound(x)
    BY <1>1, <1>2, <1>4 DEF Sound, UpdateSound, BatchSound
  <1>6. \A q \in Requests : Inserts(req[q]) /\ req[q].op = "batch" => req[q].on # NoBatch
    BY DEF BatchOrchestrationInv, EachSound, BatchSound, BatchAssumption
  <1>7. \A q \in Requests : (Inserts(x) /\ Inserts(req[q])) /\ (x.op = "batch" \/ req[q].op = "batch") => req[q].on # x.on
    BY <1>1, <1>6 DEF Inserting, Inserts, BatchAssumption
  <1>8. Fits(r, x)
    BY <1>1, <1>5, <1>7 DEF Fits, Apart, Holds
  <1> QED BY <1>3, <1>8 DEF x, Request

\* Opening a creation.
LEMMA OpenSteps ==
  ASSUME BatchAssumption, BatchOrchestrationInv, NEW r \in Requests, Creates(r)
  PROVE  BatchOrchestrationInv'
  <1>0. /\ told \subseteq Keys \X Jobs /\ (\A a \in told : Owns(a[2], a[1])) /\ ops \in 0..MaxOps
        /\ req \in [Requests -> Request] /\ MaxOps \in Nat
    BY DEF BatchOrchestrationInv, Typed, KeyInv, AnswersOwn, BatchAssumption
  \* A request is opened.
  <1>1. ASSUME NEW x \in Request, Opens(r, x), UNCHANGED <<row, batch, told>>, Fits(r, x)
        PROVE  BatchOrchestrationInv'
    <2>1. ops' \in 0..MaxOps /\ req' = [req EXCEPT ![r] = x]
      BY <1>0, <1>1 DEF Opens
    <2> QED BY <1>0, <1>1, <2>1, RequestStep
  <1>2. ASSUME NEW k \in Keys, CreateJob(r, k)
        PROVE  BatchOrchestrationInv'
    <2>1. CASE \E j \in Jobs : Owns(j, k)
      <3>1. /\ req[r] = None /\ ops' = ops + 1 /\ ops < MaxOps /\ UNCHANGED <<req, row, batch>>
            /\ told' = told \cup {<<k, j>> : j \in {i \in Jobs : Owns(i, k)}}
        BY <1>2, <2>1 DEF CreateJob
      <3>2. told' \subseteq Keys \X Jobs /\ \A a \in told' : Owns(a[2], a[1])
        BY <1>0, <3>1
      <3>3. req' = [req EXCEPT ![r] = None]
        BY <1>0, <3>1
      <3>4. ops' \in 0..MaxOps
        BY <1>0, <3>1
      <3> QED BY <3>1, <3>2, <3>3, <3>4, NoneIsRequest, IdleFits, RequestStep
    <2>2. CASE ~\E j \in Jobs : Owns(j, k)
      <3> DEFINE x == Creation("single", <<k>>, NoBatch)
      <3>1. Opens(r, x) /\ UNCHANGED <<row, batch, told>>
        BY <1>2, <2>2 DEF CreateJob
      <3>2. <<k>> \in Seq(Keys \cup {NoKey}) /\ Len(<<k>>) = 1 /\ <<k>>[1] = k
        OBVIOUS
      <3>3. x \in Request /\ Fits(r, x)
        BY <3>2, CreationFits
      <3> QED BY <1>1, <3>1, <3>3
    <2> QED BY <2>1, <2>2
  <1>3. ASSUME NEW keys \in Bulks, CreateJobsBatch(r, keys)
        PROVE  BatchOrchestrationInv'
    <2>1. keys \in Seq(Keys \cup {NoKey})
      BY DEF BatchAssumption
    <2>2. Creation("bulk", keys, NoBatch) \in Request /\ Fits(r, Creation("bulk", keys, NoBatch))
      BY <2>1, CreationFits
    <2> QED BY <1>1, <1>3, <2>2 DEF CreateJobsBatch
  <1>4. ASSUME NEW keys \in Bulks, NEW b \in Batches, CreateBatch(r, keys, b)
        PROVE  BatchOrchestrationInv'
    <2>1. keys \in Seq(Keys \cup {NoKey})
      BY DEF BatchAssumption
    <2>2. batch[b].status = "absent" /\ \A q \in Requests : Inserting(q) => req[q].on # b
      BY <1>4 DEF CreateBatch
    <2>3. Creation("batch", keys, b) \in Request /\ Fits(r, Creation("batch", keys, b))
      BY <2>1, <2>2, CreationFits
    <2> QED BY <1>1, <1>4, <2>3 DEF CreateBatch
  <1>5. ASSUME NEW b \in Batches, NEW op \in {"cancel", "retry"}, ReadBatch(r, op, b)
        PROVE  BatchOrchestrationInv'
    <2> DEFINE x == [op |-> op, on |-> b, read |-> batch[b].status, done |-> FALSE, rows |-> {}]
    <2>1. batch[b].status \in {"processing", "cancelled"}
      BY <1>5 DEF ReadBatch, BatchOrchestrationInv, Typed, BatchRow
    <2>2. x \in Update /\ Updates(x) /\ ~Inserts(x) /\ x.rows = {} /\ x.on = b
      BY <2>1 DEF Update, Updates, Inserts
    <2>3. Opens(r, x) /\ UNCHANGED <<row, batch, told>>
      BY <1>5 DEF ReadBatch
    <2> HIDE DEF x
    <2>4. Fits(r, x)
      BY <2>1, <2>2 DEF Fits, Sound, UpdateSound, BatchSound, Apart, Holds
    <2>5. x \in Request
      BY <2>2 DEF Request
    <2> QED BY <1>1, <2>3, <2>4, <2>5
  <1> QED BY <1>2, <1>3, <1>4, <1>5 DEF Creates

-----------------------------------------------------------------------------
(* Insertions.                                                             *)

\* The request that resolved one more key.
LEMMA ResolvedShape ==
  ASSUME BatchAssumption, BatchOrchestrationInv, NEW r \in Requests, Unfinished(r),
         NEW j \in Jobs, NEW new \in SUBSET Jobs
  PROVE  LET x == Resolved(r, j, new)
         IN  /\ x \in Request /\ Inserts(x) /\ Inserts(req[r]) /\ ~Updates(x)
             /\ x.op = req[r].op /\ x.keys = req[r].keys /\ x.on = req[r].on /\ x.new = new
             /\ Len(req[r].ids) \in Nat /\ Len(req[r].keys) \in Nat
             /\ Len(x.ids) = Len(req[r].ids) + 1 /\ Len(x.ids) <= Len(x.keys)
             /\ DOMAIN req[r].ids = 1..Len(req[r].ids) /\ DOMAIN x.ids = 1..(Len(req[r].ids) + 1)
             /\ \A n \in DOMAIN req[r].ids : x.ids[n] = req[r].ids[n]
             /\ x.ids[Next1(r)] = j /\ x.keys[Next1(r)] = KeyOf(r)
             /\ Next1(r) = Len(req[r].ids) + 1
             /\ KeyOf(r) \in Keys \cup {NoKey}
  <1> DEFINE x == Resolved(r, j, new)
  <1>1. req[r] \in Request /\ Inserts(req[r])
    BY DEF BatchOrchestrationInv, Typed, Unfinished, Inserting, Inserts
  <1>2. req[r] \in Insertion
    BY <1>1, RequestKinds
  <1>3. /\ req[r].ids \in Seq(Jobs) /\ req[r].keys \in Seq(Keys \cup {NoKey})
        /\ Len(req[r].ids) \in Nat /\ Len(req[r].keys) \in Nat
    BY <1>2 DEF Insertion
  <1>4. /\ Append(req[r].ids, j) \in Seq(Jobs) /\ Len(Append(req[r].ids, j)) = Len(req[r].ids) + 1
        /\ DOMAIN Append(req[r].ids, j) = 1..(Len(req[r].ids) + 1)
        /\ DOMAIN req[r].ids = 1..Len(req[r].ids)
        /\ \A n \in 1..Len(req[r].ids) : Append(req[r].ids, j)[n] = req[r].ids[n]
        /\ Append(req[r].ids, j)[Len(req[r].ids) + 1] = j
    BY <1>3
  <1>5. /\ x.op = req[r].op /\ x.keys = req[r].keys /\ x.on = req[r].on /\ x.new = new
        /\ x.ids = Append(req[r].ids, j)
    BY <1>2 DEF Resolved, Insertion
  <1>6. x \in Insertion
    BY <1>2, <1>4 DEF Resolved, Insertion
  <1>7. x \in Request /\ Inserts(x) /\ ~Updates(x)
    BY <1>1, <1>5, <1>6 DEF Inserts, Updates, Request
  <1>8. Next1(r) = Len(req[r].ids) + 1 /\ Next1(r) <= Len(req[r].keys) /\ KeyOf(r) = req[r].keys[Next1(r)]
    BY DEF Next1, Unfinished, KeyOf
  <1>9. KeyOf(r) \in Keys \cup {NoKey}
    BY <1>3, <1>8
  <1> HIDE DEF x
  <1>10. Len(x.ids) <= Len(x.keys) /\ Len(x.ids) = Len(req[r].ids) + 1
    BY <1>3, <1>4, <1>5, <1>8
  <1>11. x.ids[Next1(r)] = j /\ x.keys[Next1(r)] = KeyOf(r)
    BY <1>4, <1>5, <1>8
  <1>12. DOMAIN x.ids = 1..(Len(req[r].ids) + 1) /\ \A n \in DOMAIN req[r].ids : x.ids[n] = req[r].ids[n]
    BY <1>4, <1>5
  <1>13. /\ x \in Request /\ Inserts(x) /\ Inserts(req[r]) /\ ~Updates(x)
         /\ x.op = req[r].op /\ x.keys = req[r].keys /\ x.on = req[r].on /\ x.new = new
         /\ Len(req[r].ids) \in Nat /\ Len(req[r].keys) \in Nat
         /\ Len(x.ids) = Len(req[r].ids) + 1 /\ Len(x.ids) <= Len(x.keys)
         /\ DOMAIN req[r].ids = 1..Len(req[r].ids) /\ DOMAIN x.ids = 1..(Len(req[r].ids) + 1)
         /\ \A n \in DOMAIN req[r].ids : x.ids[n] = req[r].ids[n]
         /\ x.ids[Next1(r)] = j /\ x.keys[Next1(r)] = KeyOf(r)
         /\ Next1(r) = Len(req[r].ids) + 1
         /\ KeyOf(r) \in Keys \cup {NoKey}
    BY <1>1, <1>3, <1>4, <1>5, <1>7, <1>8, <1>9, <1>10, <1>11, <1>12
  <1> QED BY <1>13 DEF x

\* What is asked of r's new state x when it resolved its key to j, inserted or found.
LEMMA ResolvedFits ==
  ASSUME BatchAssumption, BatchOrchestrationInv, NEW r \in Requests, Unfinished(r), NEW j \in Jobs,
         NEW new \in SUBSET Jobs,
         \/ /\ new = req[r].new \cup {j} /\ Fresh(j) /\ ~Waits(r)
            /\ \A i \in Jobs : ~Conflicts(r, i)
         \/ /\ new = req[r].new /\ req[r].op = "bulk"
            /\ Owns(j, KeyOf(r)) \/ Holds(req[r], j, KeyOf(r))
  PROVE  Resolved(r, j, new) \in Request /\ Fits(r, Resolved(r, j, new))
  <1> DEFINE x == Resolved(r, j, new)
             old == req[r]
             K == KeyOf(r)
             N == Next1(r)
             found == Owns(j, K) \/ Holds(old, j, K)
             fresh == ~Present(j) /\ \A q \in Requests : Inserts(req[q]) => j \notin req[q].new
  <1>1. /\ x \in Request /\ Inserts(x) /\ Inserts(old) /\ ~Updates(x)
        /\ x.op = old.op /\ x.keys = old.keys /\ x.on = old.on /\ x.new = new
        /\ Len(old.ids) \in Nat /\ Len(old.keys) \in Nat
        /\ Len(x.ids) = Len(old.ids) + 1 /\ Len(x.ids) <= Len(x.keys)
        /\ DOMAIN old.ids = 1..Len(old.ids) /\ DOMAIN x.ids = 1..(Len(old.ids) + 1)
        /\ \A n \in DOMAIN old.ids : x.ids[n] = old.ids[n]
        /\ x.ids[N] = j /\ x.keys[N] = K
        /\ N = Len(old.ids) + 1
        /\ K \in Keys \cup {NoKey}
    BY ResolvedShape
  <1>2. Sound(old) /\ UpdateSound(old) /\ BatchSound(old)
    BY DEF BatchOrchestrationInv, EachSound
  <1>3. old.new \in SUBSET Jobs
    <2>1. old \in Insertion
      BY <1>1, RequestKinds DEF BatchOrchestrationInv, Typed
    <2> QED BY <2>1 DEF Insertion
  <1>4. \/ new = old.new \cup {j} /\ fresh
        \/ new = old.new /\ old.op = "bulk" /\ found
    BY DEF Fresh, Inserting, Inserts
  \* Indices of x are those of old and N.
  <1>5. /\ \A n \in DOMAIN x.ids : n \in DOMAIN old.ids \/ n = N
        /\ DOMAIN old.ids \subseteq DOMAIN x.ids /\ N \in DOMAIN x.ids
    BY <1>1
  <1>6. /\ \A i \in old.new : ~Present(i) /\ \E n \in DOMAIN old.ids : old.ids[n] = i
        /\ \A n \in DOMAIN old.ids : old.ids[n] \in old.new \/ Owns(old.ids[n], old.keys[n])
        /\ \A m, n \in DOMAIN old.ids : old.ids[m] = old.ids[n] /\ old.ids[n] \in old.new => old.keys[m] = old.keys[n]
        /\ old.op = "single" => Len(old.keys) = 1 /\ old.keys[1] \in Keys
    BY <1>1, <1>2 DEF Sound
  \* A fresh row is none that was resolved before.
  <1>7. fresh => j \notin old.new /\ \A n \in DOMAIN old.ids : old.ids[n] # j
    BY <1>1, <1>6 DEF Owns
  <1>8. found /\ j \in old.new => Holds(old, j, K)
    BY <1>6 DEF Owns
  <1>9. Sound(x)
    <2>1. \A i \in x.new : ~Present(i) /\ \E n \in DOMAIN x.ids : x.ids[n] = i
      BY <1>1, <1>4, <1>5, <1>6
    <2>2. ASSUME NEW n \in DOMAIN x.ids
          PROVE  x.ids[n] \in x.new \/ Owns(x.ids[n], x.keys[n])
      <3>1. CASE n = N
        BY <1>1, <1>4, <3>1 DEF Holds
      <3>2. CASE n \in DOMAIN old.ids
        <4>1. x.ids[n] = old.ids[n] /\ x.keys[n] = old.keys[n] /\ old.new \subseteq x.new
          BY <1>1, <1>4, <3>2
        <4> QED BY <1>6, <3>2, <4>1
      <3> QED BY <1>5, <3>1, <3>2
    <2>3. ASSUME NEW m \in DOMAIN x.ids, NEW n \in DOMAIN x.ids, x.ids[m] = x.ids[n], x.ids[n] \in x.new
          PROVE  x.keys[m] = x.keys[n]
      <3>1. CASE m \in DOMAIN old.ids /\ n \in DOMAIN old.ids
        <4>1. old.ids[m] = old.ids[n] /\ old.ids[n] \in old.new
          <5>1. x.ids[m] = old.ids[m] /\ x.ids[n] = old.ids[n]
            BY <1>1, <3>1
          <5>2. old.ids[n] \in new /\ old.ids[m] = old.ids[n]
            BY <1>1, <2>3, <5>1
          <5>3. fresh => old.ids[n] # j
            BY <1>7, <3>1
          <5> HIDE DEF fresh, found, old
          <5> QED BY <1>4, <5>2, <5>3
        <4>2. old.keys[m] = old.keys[n]
          BY <1>6, <3>1, <4>1
        <4> QED BY <1>1, <4>2
      <3>2. ASSUME NEW p \in DOMAIN old.ids, old.ids[p] = j, j \in x.new
            PROVE  old.keys[p] = K
        <4>1. new = old.new /\ found /\ j \in old.new
          BY <1>1, <1>4, <1>7, <3>2
        <4>2. PICK i \in DOMAIN old.ids : old.ids[i] = j /\ old.keys[i] = K
          BY <1>8, <4>1 DEF Holds
        <4> QED BY <1>6, <3>2, <4>1, <4>2
      <3>3. CASE m = N /\ n \in DOMAIN old.ids
        BY <1>1, <2>3, <3>2, <3>3
      <3>4. CASE n = N /\ m \in DOMAIN old.ids
        BY <1>1, <2>3, <3>2, <3>4
      <3> QED BY <1>5, <3>1, <3>3, <3>4
    <2>4. x.op = "single" => Len(x.keys) = 1 /\ x.keys[1] \in Keys
      BY <1>1, <1>6
    <2> QED BY <1>1, <2>1, <2>2, <2>3, <2>4 DEF Sound
  \* It holds what it held, and the new row.
  <1>10. ASSUME NEW i \in Jobs, NEW k \in Keys, Holds(x, i, k)
         PROVE  Holds(old, i, k) \/ (i = j /\ k = K /\ fresh /\ new = old.new \cup {j})
    <2>1. PICK n \in DOMAIN x.ids : i \in x.new /\ x.ids[n] = i /\ x.keys[n] = k
      BY <1>10 DEF Holds
    <2>2. CASE n \in DOMAIN old.ids
      <3>1. old.ids[n] = i /\ old.keys[n] = k /\ i \in old.new
        BY <1>1, <1>4, <1>7, <2>1, <2>2
      <3> QED BY <1>1, <2>2, <3>1 DEF Holds
    <2>3. CASE n = N
      BY <1>1, <1>4, <1>8, <2>1, <2>3
    <2> QED BY <1>5, <2>2, <2>3
  <1>11. fresh /\ new = old.new \cup {j} /\ K \in Keys =>
           /\ \A i \in Jobs : ~Owns(i, K)
           /\ \A q \in Requests, i \in Jobs : ~Holds(req[q], i, K)
    <2> SUFFICES ASSUME fresh, new = old.new \cup {j}, K \in Keys
                 PROVE  /\ \A i \in Jobs : ~Owns(i, K)
                        /\ \A q \in Requests, i \in Jobs : ~Holds(req[q], i, K)
      OBVIOUS
    <2>1. ~Waits(r) /\ \A i \in Jobs : ~Conflicts(r, i)
      BY <1>7 DEF Holds, Owns
    <2>2. K # NoKey
      BY DEF BatchAssumption
    <2>3. \A i \in Jobs : ~Owns(i, K) /\ ~Holds(old, i, K)
      BY <2>1, <2>2, InsertedHolds DEF Conflicts
    <2>4. \A q \in Requests \ {r}, i \in Jobs : ~Holds(req[q], i, K)
      BY <2>1, <2>2, InsertedHolds DEF Waits, WaitsFor
    <2> QED BY <2>3, <2>4
  <1>12. KeysOpen
    BY DEF BatchOrchestrationInv, KeyInv
  <1>13. ASSUME NEW i \in Jobs, NEW k \in Keys, Holds(x, i, k)
         PROVE  /\ \A h \in Jobs : ~Owns(h, k)
                /\ \A h \in Jobs : Holds(x, h, k) => h = i
                /\ \A q \in Requests \ {r}, h \in Jobs : ~Holds(req[q], h, k)
    <2> HIDE DEF x, K, fresh
    <2>1. CASE Holds(old, i, k)
      <3>1. ~(k = K /\ fresh /\ new = old.new \cup {j})
        BY <1>11, <2>1
      <3>2. \A h \in Jobs : Holds(x, h, k) => Holds(old, h, k)
        BY <1>10, <3>1
      <3> QED BY <1>12, <2>1, <3>2 DEF KeysOpen
    <2>2. CASE i = j /\ k = K /\ fresh /\ new = old.new \cup {j}
      <3>1. \A h \in Jobs : Holds(x, h, k) => h = j
        BY <1>10, <1>11, <2>2
      <3> QED BY <1>11, <2>2, <3>1
    <2> QED BY <1>10, <1>13, <2>1, <2>2
  <1>14. BatchSound(x)
    <2>1. CASE old.op # "batch"
      BY <1>1, <1>2, <2>1 DEF BatchSound
    <2>2. CASE old.op = "batch"
      <3>1. new = old.new \cup {j} /\ j \notin old.new
        BY <1>4, <1>7, <2>2
      <3>2. IsFiniteSet(old.new) /\ Cardinality(old.new) = Len(old.ids)
        BY <1>1, <1>2, <2>2 DEF BatchSound
      <3>3. IsFiniteSet(new) /\ Cardinality(new) = Len(old.ids) + 1
        BY <3>1, <3>2, FS_AddElement
      <3> QED BY <1>1, <1>2, <2>2, <3>3 DEF BatchSound
    <2> QED BY <2>1, <2>2
  <1>15. ASSUME NEW q \in Requests \ {r}
         PROVE  /\ Apart(x, req[q])
                /\ Inserts(req[q]) /\ (x.op = "batch" \/ req[q].op = "batch") => req[q].on # x.on
    <2>1. Apart(x, req[q])
      BY <1>1, <1>4 DEF Apart, BatchOrchestrationInv, KeyInv, RowsApart
    <2>2. Inserts(req[q]) /\ (x.op = "batch" \/ req[q].op = "batch") => req[q].on # x.on
      BY <1>1 DEF BatchOrchestrationInv, BatchInv, BatchesApart
    <2> QED BY <2>1, <2>2
  <1>16. UpdateSound(x)
    BY <1>1 DEF UpdateSound
  <1>17. x \in Request /\ ~Updates(x)
    BY <1>1
  <1>18. Fits(r, x)
    <2> HIDE DEF x
    <2> QED BY <1>9, <1>13, <1>14, <1>15, <1>16, <1>17 DEF Fits
  <1> QED BY <1>17, <1>18

\* Inserting, meeting a key that is taken, reading again, updating by status, giving up.
LEMMA ResolveSteps ==
  ASSUME BatchAssumption, BatchOrchestrationInv, NEW r \in Requests,
         \/ InsertNew(r) \/ ReadAgain(r) \/ UpdateRows(r) \/ Aborts(r) \/ UpdateAborts(r)
         \/ \E j \in Jobs : InsertConflict(r, j)
  PROVE  BatchOrchestrationInv'
  <1>0. /\ told \subseteq Keys \X Jobs /\ (\A a \in told : Owns(a[2], a[1])) /\ ops \in 0..MaxOps
        /\ req \in [Requests -> Request] /\ req[r] \in Request
    BY DEF BatchOrchestrationInv, Typed, KeyInv, AnswersOwn
  \* The request becomes x.
  <1>1. ASSUME NEW x \in Request, Becomes(r, x), UNCHANGED <<row, batch, told>>, Fits(r, x)
        PROVE  BatchOrchestrationInv'
    BY <1>0, <1>1, RequestStep DEF Becomes
  \* The request ends, or reads a key again.
  <1>2. ASSUME Becomes(r, None), UNCHANGED <<row, batch, told>>
        PROVE  BatchOrchestrationInv'
    BY <1>1, <1>2, NoneIsRequest, IdleFits
  <1>3. ASSUME NEW k \in Keys, Becomes(r, [op |-> "reread", key |-> k]), UNCHANGED <<row, batch, told>>
        PROVE  BatchOrchestrationInv'
    BY <1>1, <1>3, RereadIsRequest, IdleFits
  <1>4. CASE InsertNew(r)
    <2>1. Uuid \in Jobs /\ Fresh(Uuid)
      BY <1>4 DEF InsertNew, Uuid
    <2>2. /\ Unfinished(r) /\ ~Waits(r) /\ (\A i \in Jobs : ~Conflicts(r, i))
          /\ Becomes(r, Resolved(r, Uuid, req[r].new \cup {Uuid})) /\ UNCHANGED <<row, batch, told>>
      BY <1>4 DEF InsertNew
    <2>3. req[r].new \cup {Uuid} \in SUBSET Jobs
      <3>1. req[r] \in Insertion
        BY <1>0, <2>2, RequestKinds DEF Unfinished, Inserting, Inserts
      <3> QED BY <2>1, <3>1 DEF Insertion
    <2> DEFINE j == Uuid
               new == req[r].new \cup {j}
    <2>4. Resolved(r, j, new) \in Request /\ Fits(r, Resolved(r, j, new))
      <3>1. j \in Jobs /\ Fresh(j) /\ new = req[r].new \cup {j} /\ new \in SUBSET Jobs
        BY <2>1, <2>3
      <3> HIDE DEF j, new
      <3> QED BY <2>2, <3>1, ResolvedFits
    <2> QED BY <1>1, <2>2, <2>4
  <1>5. ASSUME NEW j \in Jobs, InsertConflict(r, j)
        PROVE  BatchOrchestrationInv'
    <2>1. /\ Unfinished(r) /\ KeyOf(r) # NoKey /\ (Owns(j, KeyOf(r)) \/ Holds(req[r], j, KeyOf(r)))
          /\ UNCHANGED <<row, batch, told>>
      BY <1>5, InsertedHolds DEF InsertConflict, Conflicts
    <2>2. KeyOf(r) \in Keys
      BY <2>1, ResolvedShape
    <2>3. CASE req[r].op = "single"
      <3>1. Becomes(r, [op |-> "reread", key |-> KeyOf(r)])
        BY <1>5, <2>3 DEF InsertConflict
      <3> QED BY <1>3, <2>1, <2>2, <3>1
    <2>4. CASE req[r].op = "bulk"
      <3>1. Becomes(r, Resolved(r, j, req[r].new))
        BY <1>5, <2>4 DEF InsertConflict, BulkResolves
      <3>2. req[r].new \in SUBSET Jobs
        <4>1. req[r] \in Insertion
          BY <1>0, <2>1, RequestKinds DEF Unfinished, Inserting, Inserts
        <4> QED BY <4>1 DEF Insertion
      <3>3. Resolved(r, j, req[r].new) \in Request /\ Fits(r, Resolved(r, j, req[r].new))
        BY <2>1, <2>4, <3>2, ResolvedFits
      <3> QED BY <1>1, <2>1, <3>1, <3>3
    <2>5. CASE req[r].op = "batch"
      <3>1. Becomes(r, None)
        BY <1>5, <2>5 DEF InsertConflict
      <3> QED BY <1>2, <2>1, <3>1
    <2> QED BY <2>1, <2>3, <2>4, <2>5 DEF Unfinished, Inserting
  <1>6. CASE Aborts(r)
    <2>1. Inserts(req[r]) /\ UNCHANGED <<row, batch, told>>
      BY <1>6 DEF Aborts, Inserting, Inserts
    <2>2. CASE req[r].op = "single"
      <3>1. req[r].keys[1] \in Keys
        BY <2>1, <2>2 DEF BatchOrchestrationInv, EachSound, Sound
      <3>2. Becomes(r, [op |-> "reread", key |-> req[r].keys[1]])
        BY <1>6, <2>2 DEF Aborts
      <3> QED BY <1>3, <2>1, <3>1, <3>2
    <2>3. CASE req[r].op # "single"
      <3>1. Becomes(r, None)
        BY <1>6, <2>3 DEF Aborts
      <3> QED BY <1>2, <2>1, <3>1
    <2> QED BY <2>2, <2>3
  <1>7. CASE UpdateAborts(r)
    BY <1>2, <1>7 DEF UpdateAborts
  <1>8. CASE ReadAgain(r)
    <2>1. req[r].key \in Keys
      BY <1>0, <1>8, RequestKinds DEF ReadAgain, Reread
    <2>2. /\ told' = told \cup {<<req[r].key, j>> : j \in {i \in Jobs : Owns(i, req[r].key)}}
          /\ req' = [req EXCEPT ![r] = None] /\ ops' = ops /\ UNCHANGED <<row, batch>>
      BY <1>8 DEF ReadAgain, Becomes
    <2>3. told' \subseteq Keys \X Jobs /\ \A a \in told' : Owns(a[2], a[1])
      BY <1>0, <2>1, <2>2
    <2> QED BY <1>0, <2>2, <2>3, NoneIsRequest, IdleFits, RequestStep
  <1>9. CASE UpdateRows(r)
    <2> DEFINE x == [req[r] EXCEPT !.done = TRUE, !.rows = Affected(r)]
    <2>1. req[r] \in Update /\ Updates(req[r])
      BY <1>0, <1>9, RequestKinds DEF UpdateRows, Updates
    <2>2. Affected(r) \in SUBSET Jobs
      BY DEF Affected, Of
    <2>3. /\ x \in Update /\ x.op = req[r].op /\ x.on = req[r].on /\ x.rows = Affected(r)
          /\ Updates(x) /\ ~Inserts(x)
      BY <2>1, <2>2 DEF Update, Updates, Inserts
    <2>4. Becomes(r, x) /\ UNCHANGED <<row, batch, told>> /\ \A j \in Affected(r) : ~Locked(j)
      BY <1>9 DEF UpdateRows
    <2> HIDE DEF x
    <2>5. UpdateSound(x)
      <3>1. batch[x.on].status # "absent"
        BY <2>1, <2>3 DEF BatchOrchestrationInv, EachSound, UpdateSound
      <3>2. \A j \in x.rows : row[j].status \in (IF x.op = "cancel" THEN {"queued"} ELSE {"dead", "cancelled"})
        BY <2>3 DEF Affected, Of
      <3> QED BY <3>1, <3>2 DEF UpdateSound
    <2>6. \A q \in Requests : Updates(req[q]) => x.rows \cap req[q].rows = {}
      BY <2>3, <2>4 DEF Locked, Updates
    <2>7. Fits(r, x)
      BY <2>3, <2>5, <2>6 DEF Fits, Sound, BatchSound, Apart, Holds
    <2>8. x \in Request
      BY <2>3 DEF Request
    <2> QED BY <1>1, <2>4, <2>7, <2>8
  <1> QED BY <1>4, <1>5, <1>6, <1>7, <1>8, <1>9

-----------------------------------------------------------------------------
(* Commits.                                                                *)

\* The rows of r become visible; r itself ends or reads its key again.
LEMMA PublishStep ==
  ASSUME BatchAssumption, BatchOrchestrationInv, NEW r \in Requests, Ready(r),
         row' = RowsOf(r), batch' = BatchesOf(r), ops' = ops,
         NEW x \in Request, ~Inserts(x), ~Updates(x), req' = [req EXCEPT ![r] = x],
         told' \in {told, told \cup Answers(r)}
  PROVE  BatchOrchestrationInv'
  <1> DEFINE old == req[r]
  <1>1. old \in Insertion /\ Inserts(old)
    BY RequestKinds DEF BatchOrchestrationInv, Typed, Ready, Inserting, Inserts
  <1>2. /\ Sound(old) /\ BatchSound(old)
        /\ row \in [Jobs -> Row] /\ batch \in [Batches -> BatchRow] /\ req \in [Requests -> Request]
    BY DEF BatchOrchestrationInv, EachSound, Typed
  <1>3. /\ old.keys \in Seq(Keys \cup {NoKey}) /\ old.ids \in Seq(Jobs) /\ old.new \in SUBSET Jobs
        /\ Len(old.ids) = Len(old.keys) /\ Len(old.keys) \in Nat
        /\ old.on \in Batches \cup {NoBatch}
    <2>1. /\ old.keys \in Seq(Keys \cup {NoKey}) /\ old.ids \in Seq(Jobs) /\ old.new \in SUBSET Jobs
          /\ old.on \in Batches \cup {NoBatch}
      BY <1>1 DEF Insertion
    <2>2. Len(old.ids) \in Nat /\ Len(old.keys) \in Nat
      BY <2>1
    <2>3. Len(old.ids) <= Len(old.keys) /\ ~(Len(old.ids) + 1 <= Len(old.keys))
      BY <1>1, <1>2 DEF Sound, Ready, Unfinished, Next1, Inserting, Inserts
    <2> QED BY <2>1, <2>2, <2>3
  <1>4. /\ \A j \in old.new : ~Present(j) /\ \E n \in DOMAIN old.ids : old.ids[n] = j
        /\ \A n \in DOMAIN old.ids : old.ids[n] \in old.new \/ Owns(old.ids[n], old.keys[n])
        /\ \A m, n \in DOMAIN old.ids : old.ids[m] = old.ids[n] /\ old.ids[n] \in old.new => old.keys[m] = old.keys[n]
    BY <1>1, <1>2 DEF Sound
  <1>5. DOMAIN old.ids = 1..Len(old.keys) /\ DOMAIN old.ids = DOMAIN old.keys
    BY <1>3
  \* Every new row has the key it was inserted for.
  <1>6. ASSUME NEW j \in old.new
        PROVE  /\ row'[j].status = "queued" /\ row'[j].batch = old.on /\ row'[j] \in Row
               /\ row'[j].key \in Keys \cup {NoKey}
               /\ \A n \in DOMAIN old.ids : old.ids[n] = j => row'[j].key = old.keys[n]
               /\ row'[j].key \in Keys => Holds(old, j, row'[j].key)
    <2> DEFINE i == CHOOSE n \in DOMAIN old.ids : old.ids[n] = j
    <2>1. i \in DOMAIN old.ids /\ old.ids[i] = j
      BY <1>4
    <2> HIDE DEF i
    <2>2. row'[j] = [status |-> "queued", key |-> old.keys[i], batch |-> old.on]
      BY <1>3 DEF RowsOf, i
    <2>3. old.keys[i] \in Keys \cup {NoKey}
      BY <1>3, <1>5, <2>1
    <2>4. [status |-> "queued", key |-> old.keys[i], batch |-> old.on] \in Row
      BY <1>3, <2>3 DEF Row
    <2>5. \A n \in DOMAIN old.ids : old.ids[n] = j => old.keys[i] = old.keys[n]
      BY <1>4, <2>1
    <2>6. Holds(old, j, old.keys[i])
      BY <1>1, <2>1 DEF Holds
    <2> QED BY <2>2, <2>3, <2>4, <2>5, <2>6
  <1>7. \A j \in Jobs \ old.new : row'[j] = row[j]
    BY DEF RowsOf
  <1>8. row' \in [Jobs -> Row]
    <2>1. row' = [j \in Jobs |-> row'[j]]
      BY DEF RowsOf
    <2>2. \A j \in Jobs : row'[j] \in Row
      BY <1>2, <1>6, <1>7
    <2> QED BY <2>1, <2>2
  <1>9. /\ batch' \in [Batches -> BatchRow]
        /\ \A b \in Batches : batch'[b] = IF b = old.on THEN [status |-> "processing", total |-> Len(old.keys)]
                                                      ELSE batch[b]
    <2>1. [status |-> "processing", total |-> Len(old.keys)] \in BatchRow
      BY <1>3 DEF BatchRow
    <2> QED BY <1>2, <2>1 DEF BatchesOf
  <1>10. \A q \in Requests : req'[q] = (IF q = r THEN x ELSE req[q])
    BY <1>2
  \* What was owned stays owned; what is owned now was, or was held.
  <1>11. ASSUME NEW j \in Jobs, NEW k
         PROVE  /\ Present(j) => Present(j)' /\ j \notin old.new
                /\ Owns(j, k) => Owns(j, k)'
    BY <1>4, <1>7 DEF Present, Owns
  <1>12. ASSUME NEW j \in Jobs, NEW k \in Keys, Owns(j, k)'
         PROVE  Owns(j, k) \/ Holds(old, j, k)
    <2>1. CASE j \in old.new
      BY <1>6, <1>12, <2>1 DEF Owns
    <2>2. CASE j \notin old.new
      BY <1>7, <1>12, <2>2 DEF Owns, Present
    <2> QED BY <2>1, <2>2
  <1>13. Typed'
    <2>1. Answers(r) \subseteq Keys \X Jobs
      BY <1>3, <1>5 DEF Answers
    <2>2. told \subseteq Keys \X Jobs /\ ops \in 0..MaxOps
      BY DEF BatchOrchestrationInv, Typed
    <2>3. req' \in [Requests -> Request]
      BY <1>2
    <2> QED BY <1>8, <1>9, <2>1, <2>2, <2>3 DEF Typed
  <1>14. AnswersOwn'
    <2>1. ASSUME NEW a \in told PROVE Owns(a[2], a[1])'
      <3>1. Owns(a[2], a[1]) /\ a[2] \in Jobs
        BY DEF BatchOrchestrationInv, Typed, KeyInv, AnswersOwn
      <3> QED BY <1>11, <3>1
    <2>2. ASSUME NEW a \in Answers(r) PROVE Owns(a[2], a[1])'
      <3>1. PICK n \in DOMAIN old.ids : old.keys[n] # NoKey /\ a = <<old.keys[n], old.ids[n]>>
        BY DEF Answers
      <3>2. a[1] = old.keys[n] /\ a[2] = old.ids[n] /\ old.ids[n] \in Jobs
        BY <1>3, <3>1
      <3>3. CASE old.ids[n] \in old.new
        BY <1>6, <3>1, <3>2, <3>3 DEF Owns, Present
      <3>4. CASE Owns(old.ids[n], old.keys[n])
        BY <1>11, <3>2, <3>4
      <3> QED BY <1>4, <3>3, <3>4
    <2> QED BY <2>1, <2>2 DEF AnswersOwn
  <1>15. ASSUME NEW q \in Requests, q # r
         PROVE  (Sound(req[q]) /\ UpdateSound(req[q]) /\ BatchSound(req[q]))'
    <2> DEFINE y == req[q]
    <2>1. req'[q] = y /\ Sound(y) /\ UpdateSound(y) /\ BatchSound(y) /\ y \in Request
      BY <1>2, <1>10, <1>15 DEF BatchOrchestrationInv, EachSound
    <2>2. Inserts(y) => /\ y.new \cap old.new = {} /\ y.new \in SUBSET Jobs
                        /\ \A n \in DOMAIN y.ids : y.ids[n] \in Jobs
      <3>1. Inserts(y) => y \in Insertion
        BY <2>1, RequestKinds
      <3>2. Inserts(y) => y.new \cap old.new = {}
        BY <1>1, <1>15 DEF BatchOrchestrationInv, KeyInv, RowsApart, Apart
      <3> QED BY <3>1, <3>2 DEF Insertion
    <2>3. Sound(req[q])'
      <3>1. ASSUME Inserts(y) PROVE \A j \in y.new : ~Present(j)'
        BY <1>7, <2>1, <2>2, <3>1 DEF Sound, Present
      <3>2. ASSUME Inserts(y) PROVE \A n \in DOMAIN y.ids : y.ids[n] \in y.new \/ Owns(y.ids[n], y.keys[n])'
        BY <1>11, <2>1, <2>2, <3>2 DEF Sound
      <3> QED BY <2>1, <3>1, <3>2 DEF Sound, Inserts
    <2>4. UpdateSound(req[q])'
      <3>1. Updates(y) => y \in Update
        BY <2>1, RequestKinds
      <3>2. Updates(y) => /\ y.on \in Batches /\ y.rows \in SUBSET Jobs
        BY <3>1 DEF Update
      <3>3. Updates(y) => batch'[y.on].status # "absent"
        BY <1>9, <2>1, <3>2 DEF UpdateSound
      <3>4. ASSUME Updates(y), NEW j \in y.rows PROVE row'[j] = row[j]
        BY <1>7, <1>11, <2>1, <3>2, <3>4 DEF UpdateSound, Present
      <3> QED BY <2>1, <3>3, <3>4 DEF UpdateSound
    <2>5. BatchSound(req[q])'
      <3>1. Inserts(y) /\ y.op = "batch" => batch'[y.on] = batch[y.on]
        <4>1. Inserts(y) /\ y.op = "batch" => y.on # old.on /\ y.on \in Batches
          BY <1>1, <1>15, <2>1 DEF BatchSound, BatchOrchestrationInv, BatchInv, BatchesApart
        <4> QED BY <1>9, <4>1
      <3> QED BY <2>1, <3>1 DEF BatchSound
    <2> QED BY <2>3, <2>4, <2>5
  <1>16. EachSound'
    <2>1. (Sound(req[r]) /\ UpdateSound(req[r]) /\ BatchSound(req[r]))'
      <3>1. req'[r] = x
        BY <1>10
      <3> QED BY <3>1 DEF Sound, UpdateSound, BatchSound, Inserts, Updates
    <2> QED BY <1>15, <2>1 DEF EachSound
  <1>17. RowsApart' /\ LocksApart' /\ BatchesApart'
    BY <1>10 DEF BatchOrchestrationInv, KeyInv, BatchInv, RowsApart, Apart, LocksApart, BatchesApart, Inserts, Updates
  <1>18. KeysOpen
    BY DEF BatchOrchestrationInv, KeyInv
  <1>19. KeysUnique'
    <2> SUFFICES ASSUME NEW i \in Jobs, NEW j \in Jobs, NEW k \in Keys, Owns(i, k)', Owns(j, k)'
                 PROVE  i = j
      BY DEF KeysUnique
    <2>1. Owns(i, k) \/ Holds(old, i, k)
      BY <1>12
    <2>2. Owns(j, k) \/ Holds(old, j, k)
      BY <1>12
    <2> QED BY <1>18, <2>1, <2>2 DEF KeysOpen, BatchOrchestrationInv, KeyInv, KeysUnique
  <1>20. KeysOpen'
    <2> SUFFICES ASSUME NEW p \in Requests, NEW j \in Jobs, NEW k \in Keys, Holds(req'[p], j, k)
                 PROVE  /\ \A i \in Jobs : ~Owns(i, k)'
                        /\ \A q \in Requests, i \in Jobs : Holds(req'[q], i, k) => q = p /\ i = j
      BY DEF KeysOpen, Holds, Inserts
    <2>1. p # r /\ Holds(req[p], j, k)
      BY <1>10 DEF Holds
    <2>2. \A q \in Requests, i \in Jobs : Holds(req'[q], i, k) => q # r /\ Holds(req[q], i, k)
      BY <1>10 DEF Holds
    <2>3. \A i \in Jobs : ~Owns(i, k)'
      BY <1>12, <1>18, <2>1 DEF KeysOpen
    <2> QED BY <1>18, <2>1, <2>2, <2>3 DEF KeysOpen
  <1>21. AbsentBare
    BY DEF BatchOrchestrationInv, BatchInv
  <1>22. AbsentBare'
    BY <1>6, <1>7, <1>21 DEF AbsentBare, Present
  <1>23. BatchesWhole'
    <2> SUFFICES ASSUME NEW b \in Batches
                 PROVE  /\ IsFiniteSet(Rows(b)')
                        /\ Cardinality(Rows(b)') = IF batch'[b].status = "absent" THEN 0 ELSE batch'[b].total
      BY DEF BatchesWhole
    <2>1. IsFiniteSet(Rows(b)) /\ Cardinality(Rows(b)) = IF batch[b].status = "absent" THEN 0 ELSE batch[b].total
      BY DEF BatchOrchestrationInv, BatchInv, BatchesWhole
    <2>2. \A j \in old.new : row[j].batch = NoBatch /\ j \in Jobs
      BY <1>3, <1>4, <1>21 DEF AbsentBare
    <2>3. CASE b = old.on
      <3>1. /\ batch[b].status = "absent" /\ IsFiniteSet(old.new)
            /\ Cardinality(old.new) = Len(old.ids)
        BY <1>1, <1>2, <2>3 DEF BatchSound, BatchAssumption
      <3>2. Rows(b) = {}
        BY <2>1, <3>1, FS_EmptySet
      <3>3. Rows(b)' = old.new
        BY <1>3, <1>6, <1>7, <2>3, <3>2 DEF Rows
      <3>4. batch'[b].status = "processing" /\ batch'[b].total = Len(old.keys)
        BY <1>9, <2>3
      <3> QED BY <1>3, <3>1, <3>3, <3>4
    <2>4. CASE b # old.on
      <3>1. \A j \in Jobs : row'[j].batch = b <=> row[j].batch = b
        BY <1>6, <1>7, <2>2, <2>4 DEF BatchAssumption
      <3>2. Rows(b)' = Rows(b)
        BY <3>1 DEF Rows
      <3>3. batch'[b] = batch[b]
        BY <1>9, <2>4
      <3> QED BY <2>1, <3>2, <3>3
    <2> QED BY <2>3, <2>4
  <1> QED BY <1>13, <1>14, <1>16, <1>17, <1>19, <1>20, <1>22, <1>23
          DEF BatchOrchestrationInv, KeyInv, BatchInv

-----------------------------------------------------------------------------
(* Steps that change the status of rows.                                   *)

\* A step that changes statuses, but no key, no batch and no total, and spares the rows
\* that an open update has locked.
LEMMA StatusStep ==
  ASSUME BatchAssumption, BatchOrchestrationInv, row' \in [Jobs -> Row], batch' \in [Batches -> BatchRow],
         \A j \in Jobs :
           /\ row'[j].key = row[j].key /\ row'[j].batch = row[j].batch
           /\ (row'[j].status = "absent") <=> (row[j].status = "absent"),
         \A b \in Batches :
           /\ batch'[b].total = batch[b].total
           /\ (batch'[b].status = "absent") <=> (batch[b].status = "absent"),
         req' \in [Requests -> Request], \A r \in Requests : req'[r] \in {req[r], None},
         UNCHANGED <<told, ops>>,
         \A r \in Requests : Updates(req'[r]) => \A j \in req[r].rows : row'[j].status = row[j].status
  PROVE  BatchOrchestrationInv'
  <1>1. \A j \in Jobs : Present(j)' <=> Present(j)
    BY DEF Present
  <1>2. \A j \in Jobs : \A k : Owns(j, k)' <=> Owns(j, k)
    BY <1>1 DEF Owns
  <1>3. Typed'
    BY DEF BatchOrchestrationInv, Typed
  <1>4. \A r \in Requests : Inserts(req'[r]) \/ Updates(req'[r]) => req'[r] = req[r]
    BY NoneIsRequest
  <1>5. ASSUME NEW r \in Requests
        PROVE  (Sound(req[r]) /\ UpdateSound(req[r]) /\ BatchSound(req[r]))'
    <2> DEFINE y == req[r]
    <2>1. Sound(y) /\ UpdateSound(y) /\ BatchSound(y) /\ y \in Request
      BY DEF BatchOrchestrationInv, EachSound, Typed
    <2>2. CASE req'[r] = y
      <3>1. Inserts(y) => y \in Insertion
        BY <2>1, RequestKinds
      <3>2. Inserts(y) => y.new \in SUBSET Jobs /\ \A n \in DOMAIN y.ids : y.ids[n] \in Jobs
        BY <3>1 DEF Insertion
      <3>3. Sound(req[r])'
        <4>1. ASSUME Inserts(y) PROVE \A j \in y.new : ~Present(j)'
          BY <1>1, <2>1, <3>2, <4>1 DEF Sound
        <4>2. ASSUME Inserts(y) PROVE \A n \in DOMAIN y.ids : y.ids[n] \in y.new \/ Owns(y.ids[n], y.keys[n])'
          BY <1>2, <2>1, <2>2, <3>2, <4>2 DEF Sound
        <4> QED BY <2>1, <2>2, <4>1, <4>2 DEF Sound, Inserts
      <3>4. Updates(y) => y.on \in Batches
        BY <2>1, RequestKinds DEF Update
      <3>5. UpdateSound(req[r])'
        BY <2>1, <2>2, <3>4 DEF UpdateSound
      <3>6. BatchSound(req[r])'
        BY <2>1, <2>2 DEF BatchSound
      <3> QED BY <3>3, <3>5, <3>6
    <2>3. CASE req'[r] = None
      BY <2>3, NoneIsRequest DEF Sound, UpdateSound, BatchSound, Inserts, Updates
    <2> QED BY <2>2, <2>3
  <1>6. EachSound'
    BY <1>5 DEF EachSound
  <1>7. RowsApart' /\ LocksApart' /\ BatchesApart'
    BY <1>4 DEF BatchOrchestrationInv, KeyInv, BatchInv, RowsApart, Apart, LocksApart, BatchesApart, Inserts, Updates
  <1>8. KeysUnique'
    BY <1>2 DEF BatchOrchestrationInv, KeyInv, KeysUnique
  <1>9. AnswersOwn'
    BY <1>2 DEF BatchOrchestrationInv, Typed, KeyInv, AnswersOwn
  <1>10. KeysOpen'
    <2> SUFFICES ASSUME NEW p \in Requests, NEW j \in Jobs, NEW k \in Keys, Holds(req'[p], j, k)
                 PROVE  /\ \A i \in Jobs : ~Owns(i, k)'
                        /\ \A q \in Requests, i \in Jobs : Holds(req'[q], i, k) => q = p /\ i = j
      BY DEF KeysOpen, Holds, Inserts
    <2>1. \A q \in Requests, i \in Jobs : Holds(req'[q], i, k) => Holds(req[q], i, k)
      BY <1>4 DEF Holds
    <2> QED BY <1>2, <2>1 DEF BatchOrchestrationInv, KeyInv, KeysOpen
  <1>11. AbsentBare'
    BY <1>1 DEF BatchOrchestrationInv, BatchInv, AbsentBare
  <1>12. BatchesWhole'
    <2>1. \A b \in Batches : Rows(b)' = Rows(b)
      BY DEF Rows
    <2> QED BY <2>1 DEF BatchOrchestrationInv, BatchInv, BatchesWhole
  <1> QED BY <1>3, <1>6, <1>7, <1>8, <1>9, <1>10, <1>11, <1>12 DEF BatchOrchestrationInv, KeyInv, BatchInv

\* A commit publishes the rows of its request, or the statuses it locked.
LEMMA CommitSteps ==
  ASSUME BatchAssumption, BatchOrchestrationInv, NEW r \in Requests,
         Commit(r) \/ CommitUnanswered(r) \/ CommitUpdate(r)
  PROVE  BatchOrchestrationInv'
  <1>0. /\ row \in [Jobs -> Row] /\ batch \in [Batches -> BatchRow]
        /\ req \in [Requests -> Request] /\ req[r] \in Request
    BY DEF BatchOrchestrationInv, Typed
  <1>1. CASE Commit(r)
    BY <1>1, NoneIsRequest, PublishStep DEF Commit, MayCommit, AfterCommit, Becomes
  <1>2. CASE CommitUnanswered(r)
    <2>1. /\ Ready(r) /\ row' = RowsOf(r) /\ batch' = BatchesOf(r) /\ told' = told
          /\ Becomes(r, IF req[r].op = "single" THEN [op |-> "reread", key |-> req[r].keys[1]] ELSE None)
      BY <1>2 DEF CommitUnanswered
    <2>2. CASE req[r].op = "single"
      <3>1. req[r].keys[1] \in Keys
        BY <2>2 DEF BatchOrchestrationInv, EachSound, Sound, Inserts
      <3> QED BY <2>1, <2>2, <3>1, RereadIsRequest, PublishStep DEF Becomes
    <2>3. CASE req[r].op # "single"
      BY <2>1, <2>3, NoneIsRequest, PublishStep DEF Becomes
    <2> QED BY <2>2, <2>3
  <1>3. CASE CommitUpdate(r)
    <2> DEFINE rows == req[r].rows
               status == IF req[r].op = "cancel" THEN "cancelled" ELSE "queued"
               verdict == IF req[r].op = "cancel" THEN "cancelled" ELSE "processing"
               b == req[r].on
    <2>1. req[r] \in Update /\ Updates(req[r])
      BY <1>0, <1>3, RequestKinds DEF CommitUpdate, Updates
    <2>2. rows \in SUBSET Jobs /\ b \in Batches /\ batch[b].status # "absent"
      BY <2>1 DEF Update, BatchOrchestrationInv, EachSound, UpdateSound
    <2>3. \A j \in rows : Present(j)
      BY <2>1 DEF BatchOrchestrationInv, EachSound, UpdateSound, Present
    <2>4. /\ row' = [j \in Jobs |-> IF j \in rows THEN [row[j] EXCEPT !.status = status] ELSE row[j]]
          /\ batch' = IF req[r].read = verdict THEN batch ELSE [batch EXCEPT ![b].status = verdict]
          /\ req' = [req EXCEPT ![r] = None] /\ UNCHANGED <<told, ops>>
      BY <1>3 DEF CommitUpdate, Becomes
    <2>5. ASSUME NEW j \in Jobs
          PROVE  /\ row'[j] \in Row
                 /\ row'[j].key = row[j].key /\ row'[j].batch = row[j].batch
                 /\ (row'[j].status = "absent") <=> (row[j].status = "absent")
                 /\ (j \notin rows) => (row'[j] = row[j])
      <3>1. CASE j \in rows
        <4>1. row'[j] = [row[j] EXCEPT !.status = status]
          BY <2>4, <3>1
        <4>2. row[j] \in Row /\ status \in {"queued"} \cup Ended
          BY <1>0 DEF Ended
        <4>3. row'[j] \in Row /\ row'[j].status = status /\ row'[j].key = row[j].key /\ row'[j].batch = row[j].batch
          <5> HIDE DEF status
          <5> QED BY <4>1, <4>2 DEF Row
        <4> QED BY <2>3, <3>1, <4>3 DEF Present
      <3>2. CASE j \notin rows
        BY <1>0, <2>4, <3>2
      <3> QED BY <3>1, <3>2
    <2>6. row' \in [Jobs -> Row]
      <3>1. row' = [j \in Jobs |-> row'[j]]
        BY <2>4
      <3> QED BY <2>5, <3>1
    <2>7. batch' \in [Batches -> BatchRow] /\
          \A c \in Batches :
            /\ batch'[c].total = batch[c].total
            /\ (batch'[c].status = "absent") <=> (batch[c].status = "absent")
      <3>1. verdict \in {"processing", "cancelled"}
        OBVIOUS
      <3>2. CASE batch' = batch
        BY <1>0, <3>2
      <3>3. CASE batch' = [batch EXCEPT ![b].status = verdict]
        <4> HIDE DEF verdict, b
        <4>1. /\ [batch[b] EXCEPT !.status = verdict] \in BatchRow
              /\ [batch[b] EXCEPT !.status = verdict].status = verdict
              /\ [batch[b] EXCEPT !.status = verdict].total = batch[b].total
          BY <1>0, <2>2, <3>1 DEF BatchRow
        <4>2. \A c \in Batches : batch'[c] = IF c = b THEN [batch[b] EXCEPT !.status = verdict] ELSE batch[c]
          BY <1>0, <2>2, <3>3
        <4>3. batch' \in [Batches -> BatchRow]
          <5>1. batch' = [c \in Batches |-> batch'[c]]
            BY <1>0, <3>3
          <5> QED BY <1>0, <4>1, <4>2, <5>1
        <4> QED BY <2>2, <3>1, <4>1, <4>2, <4>3
      <3> QED BY <2>4, <3>2, <3>3
    <2>8. \A q \in Requests : req'[q] = IF q = r THEN None ELSE req[q]
      BY <1>0, <2>4
    <2>9. req' \in [Requests -> Request]
      BY <1>0, <2>4, NoneIsRequest
    <2>10. ASSUME NEW q \in Requests, Updates(req'[q]), NEW j \in req[q].rows
           PROVE  row'[j].status = row[j].status
      <3>1. q # r /\ Updates(req[q])
        BY <2>8, <2>10, NoneIsRequest
      <3>2. req[q] \in Update
        BY <1>0, <3>1, RequestKinds
      <3>3. j \in Jobs /\ j \notin rows
        BY <2>1, <2>10, <3>1, <3>2 DEF Update, BatchOrchestrationInv, LocksApart
      <3> QED BY <2>5, <3>3
    <2> QED BY <2>4, <2>5, <2>6, <2>7, <2>8, <2>9, <2>10, StatusStep
  <1> QED BY <1>1, <1>2, <1>3

\* A worker takes a row or ends one.
LEMMA WorkerSteps ==
  ASSUME BatchAssumption, BatchOrchestrationInv, NEW j \in Jobs, NEW from \in {"queued", "running"},
         NEW to \in {"running", "completed", "dead", "queued"}, Moves(j, from, to)
  PROVE  BatchOrchestrationInv'
  <1>1. /\ row \in [Jobs -> Row] /\ batch \in [Batches -> BatchRow] /\ req \in [Requests -> Request]
        /\ row[j].status = from /\ ~Locked(j) /\ row' = [row EXCEPT ![j].status = to]
        /\ UNCHANGED <<batch, req, told, ops>>
    BY DEF BatchOrchestrationInv, Typed, Moves
  <1>2. /\ [row[j] EXCEPT !.status = to] \in Row
        /\ [row[j] EXCEPT !.status = to].status = to
        /\ [row[j] EXCEPT !.status = to].key = row[j].key
        /\ [row[j] EXCEPT !.status = to].batch = row[j].batch
    BY <1>1 DEF Row, Ended
  <1>3. \A i \in Jobs : row'[i] = IF i = j THEN [row[j] EXCEPT !.status = to] ELSE row[i]
    BY <1>1
  <1>4. row' \in [Jobs -> Row]
    <2>1. row' = [i \in Jobs |-> row'[i]]
      BY <1>1
    <2> QED BY <1>1, <1>2, <1>3, <2>1
  <1>5. ASSUME NEW i \in Jobs
        PROVE  /\ row'[i].key = row[i].key /\ row'[i].batch = row[i].batch
               /\ (row'[i].status = "absent") <=> (row[i].status = "absent")
    BY <1>1, <1>2, <1>3
  <1>6. ASSUME NEW r \in Requests, Updates(req'[r]), NEW i \in req[r].rows
        PROVE  row'[i].status = row[i].status
    <2>1. req[r] \in Update /\ i # j
      BY <1>1, <1>6, RequestKinds DEF Locked, Updates
    <2> QED BY <1>3, <1>6, <2>1 DEF Update
  <1> QED BY <1>1, <1>4, <1>5, <1>6, StatusStep

\* Every step keeps the invariant.
LEMMA NextInv == BatchAssumption /\ BatchOrchestrationInv /\ [Next]_vars => BatchOrchestrationInv'
  <1> SUFFICES ASSUME BatchAssumption, BatchOrchestrationInv, [Next]_vars PROVE BatchOrchestrationInv'
    OBVIOUS
  <1>1. ASSUME NEW r \in Requests, Creates(r) PROVE BatchOrchestrationInv'
    BY <1>1, OpenSteps
  <1>2. ASSUME NEW r \in Requests, Proceeds(r) PROVE BatchOrchestrationInv'
    BY <1>2, ResolveSteps, CommitSteps DEF Proceeds
  <1>3. ASSUME NEW r \in Requests, Aborts(r) \/ UpdateAborts(r) PROVE BatchOrchestrationInv'
    BY <1>3, ResolveSteps
  <1>4. ASSUME NEW j \in Jobs, Claim(j) \/ Finalize(j) PROVE BatchOrchestrationInv'
    BY <1>4, WorkerSteps DEF Claim, Finalize
  <1>5. CASE UNCHANGED vars
    <2>1. \A r \in Requests : Updates(req[r]) => \A j \in req[r].rows : row'[j].status = row[j].status
      BY <1>5 DEF vars
    <2> QED BY <1>5, <2>1, StatusStep DEF vars, BatchOrchestrationInv, Typed
  <1> QED BY <1>1, <1>2, <1>3, <1>4, <1>5 DEF Next

-----------------------------------------------------------------------------
(* The theorems.                                                           *)

\* Every reachable state satisfies the invariant, for any keys, lists, batches and
\* requests (batch_service.py, job_service.py).
THEOREM BatchOrchestrationInvariant == BatchAssumption /\ Spec => []BatchOrchestrationInv
  <1> SUFFICES ASSUME BatchAssumption PROVE Spec => []BatchOrchestrationInv
    OBVIOUS
  <1>1. Init => BatchOrchestrationInv
    BY InitInv
  <1>2. BatchOrchestrationInv /\ [Next]_vars => BatchOrchestrationInv'
    BY NextInv
  <1> QED BY <1>1, <1>2, PTL DEF Spec

\* The tables and the open transactions hold values of their types.
THEOREM BatchTypeCorrect == BatchAssumption /\ Spec => []TypeOK
  <1>1. BatchOrchestrationInv => TypeOK
    BY DEF BatchOrchestrationInv, Typed, TypeOK, Request
  <1> QED BY <1>1, BatchOrchestrationInvariant, PTL

\* However many clients submit one key, singly or in bulk, and however often a commit
\* goes unanswered, every answer names the same job, and the job is there
\* (job_service.py:39-133, 183-228).
THEOREM OneJobPerKey == BatchAssumption /\ Spec => []AnswersAgree
  <1>1. BatchOrchestrationInv => AnswersAgree
    <2> SUFFICES ASSUME BatchOrchestrationInv, NEW a \in told, NEW b \in told, a[1] = b[1]
                 PROVE  a[2] = b[2] /\ Owns(a[2], a[1])
      BY DEF AnswersAgree
    <2>1. Owns(a[2], a[1]) /\ Owns(b[2], a[1])
      BY DEF BatchOrchestrationInv, KeyInv, AnswersOwn
    <2>2. a[1] \in Keys /\ a[2] \in Jobs /\ b[2] \in Jobs
      BY DEF BatchOrchestrationInv, Typed
    <2> QED BY <2>1, <2>2 DEF BatchOrchestrationInv, KeyInv, KeysUnique
  <1> QED BY <1>1, BatchOrchestrationInvariant, PTL

\* A batch has as many jobs as its row says, from the moment it is there
\* (batch_service.py:58-98).
THEOREM BatchesStayWhole == BatchAssumption /\ Spec => []BatchIsWhole
  <1>1. BatchOrchestrationInv => BatchIsWhole
    BY DEF BatchOrchestrationInv, BatchInv, BatchesWhole, BatchIsWhole, Rows
  <1> QED BY <1>1, BatchOrchestrationInvariant, PTL

\* No cancellation and no retry reaches a job that runs, and none revives a completed
\* one: the rows an update writes are the ones it locked (batch_service.py:212, 238).
THEOREM RunningJobsAreTheirWorkers == BatchAssumption /\ Spec => WorkersEndJobs
  <1> SUFFICES ASSUME BatchAssumption PROVE Spec => WorkersEndJobs
    OBVIOUS
  <1>1. BatchOrchestrationInv /\ [Next]_vars =>
          [\A j \in Jobs : /\ row[j].status = "running" => row'[j].status # "cancelled"
                           /\ row[j].status = "completed" => row'[j].status = "completed"]_vars
    <2> SUFFICES ASSUME BatchOrchestrationInv, Next, NEW j \in Jobs
                 PROVE  /\ row[j].status = "running" => row'[j].status # "cancelled"
                        /\ row[j].status = "completed" => row'[j].status = "completed"
      OBVIOUS
    <2>1. row \in [Jobs -> Row] /\ req \in [Requests -> Request]
      BY DEF BatchOrchestrationInv, Typed
    <2>2. ASSUME NEW r \in Requests, Creates(r) \/ Aborts(r) \/ UpdateAborts(r) \/ InsertNew(r)
                    \/ ReadAgain(r) \/ UpdateRows(r) \/ (\E i \in Jobs : InsertConflict(r, i))
          PROVE  row' = row
      BY <2>2 DEF Creates, CreateJob, CreateJobsBatch, CreateBatch, ReadBatch, Aborts, UpdateAborts,
                  InsertNew, ReadAgain, UpdateRows, InsertConflict
    \* A commit of an insertion writes rows that were not there.
    <2>3. ASSUME NEW r \in Requests, Commit(r) \/ CommitUnanswered(r), Present(j)
          PROVE  row'[j] = row[j]
      <3>1. row' = RowsOf(r) /\ Inserts(req[r])
        BY <2>3 DEF Commit, CommitUnanswered, MayCommit, Ready, Inserting, Inserts
      <3>2. j \notin req[r].new
        BY <2>3, <3>1 DEF BatchOrchestrationInv, EachSound, Sound
      <3> QED BY <3>1, <3>2 DEF RowsOf
    \* A commit of an update writes rows that were waiting, or had ended without success.
    <2>4. ASSUME NEW r \in Requests, CommitUpdate(r), row[j].status \in {"running", "completed"}
          PROVE  row'[j] = row[j]
      <3>1. /\ j \in req[r].rows => row'[j] = [row[j] EXCEPT !.status = IF req[r].op = "cancel" THEN "cancelled" ELSE "queued"]
            /\ j \notin req[r].rows => row'[j] = row[j]
            /\ Updates(req[r])
        BY <2>4 DEF CommitUpdate, Updates
      <3>2. j \notin req[r].rows
        BY <2>4, <3>1 DEF BatchOrchestrationInv, EachSound, UpdateSound
      <3> QED BY <3>1, <3>2
    \* A worker moves the row it claims or runs.
    <2>5. ASSUME NEW i \in Jobs, Claim(i) \/ Finalize(i)
          PROVE  /\ row[j].status = "running" => row'[j].status # "cancelled"
                 /\ row[j].status = "completed" => row'[j].status = "completed"
      <3>1. PICK to \in {"running", "completed", "dead", "queued"} :
              row' = [row EXCEPT ![i].status = to] /\ row[i].status \in {"queued", "running"}
        BY <2>5 DEF Claim, Finalize, Moves
      <3>2. row'[j] = IF j = i THEN [row[i] EXCEPT !.status = to] ELSE row[j]
        BY <2>1, <3>1
      <3>3. j = i => row'[j].status = to
        BY <2>1, <3>2 DEF Row
      <3> QED BY <3>1, <3>2, <3>3
    <2>6. Present(j) <=> row[j].status # "absent"
      BY DEF Present
    <2> QED BY <2>2, <2>3, <2>4, <2>5, <2>6 DEF Next, Proceeds
  <1> QED BY <1>1, BatchOrchestrationInvariant, PTL DEF Spec, WorkersEndJobs

\* The cardinalities of two disjoint finite sets add up.
LEMMA DisjointSum ==
  ASSUME NEW S, NEW T, IsFiniteSet(S), IsFiniteSet(T), S \cap T = {}
  PROVE  /\ IsFiniteSet(S \cup T) /\ Cardinality(S) \in Nat /\ Cardinality(T) \in Nat
         /\ Cardinality(S \cup T) = Cardinality(S) + Cardinality(T)
  <1>1. /\ IsFiniteSet(S \cup T)
        /\ Cardinality(S \cup T) = Cardinality(S) + Cardinality(T) - Cardinality(S \cap T)
    BY FS_Union
  <1>2. Cardinality(S) \in Nat /\ Cardinality(T) \in Nat /\ Cardinality(S \cap T) = 0
    BY FS_CardinalityType, FS_EmptySet
  <1> QED BY <1>1, <1>2

\* The status that is derived from the counters is true of the jobs: the counters are of
\* disjoint parts of exactly the jobs of the batch (batch_service.py:122-146).
THEOREM ReportsAreTrue == BatchAssumption /\ Spec => []ReportIsTrue
  <1> SUFFICES ASSUME BatchAssumption PROVE Spec => []ReportIsTrue
    OBVIOUS
  <1>1. BatchOrchestrationInv => ReportIsTrue
    <2> SUFFICES ASSUME BatchOrchestrationInv, NEW b \in Batches, batch[b].status # "absent"
                 PROVE  /\ Report(b, "processing") = "completed" =>
                              Of(b, {"completed"}) = Of(b, {"queued", "running"} \cup Ended)
                        /\ Report(b, "processing") # "processing" => Of(b, {"queued", "running"}) = {}
      BY DEF ReportIsTrue
    <2> DEFINE C == Of(b, {"completed"})
               D == Of(b, {"dead"})
               X == Of(b, {"cancelled"})
               E == Of(b, Ended)
               n == batch[b].total
    <2>1. IsFiniteSet(Rows(b)) /\ Cardinality(Rows(b)) = n /\ n \in Nat
      BY DEF BatchOrchestrationInv, Typed, BatchInv, BatchesWhole, BatchRow
    <2>2. C \subseteq Rows(b) /\ D \subseteq Rows(b) /\ X \subseteq Rows(b) /\ E \subseteq Rows(b)
      BY DEF Of, Rows
    <2>3. IsFiniteSet(C) /\ IsFiniteSet(D) /\ IsFiniteSet(X) /\ IsFiniteSet(E)
      BY <2>1, <2>2, FS_Subset
    <2>4. Rows(b) = Of(b, {"queued", "running"} \cup Ended)
      BY DEF BatchOrchestrationInv, Typed, BatchInv, AbsentBare, Present, Rows, Of, Row, BatchAssumption
    <2>5. E = (C \cup D) \cup X /\ C \cap D = {} /\ (C \cup D) \cap X = {}
      BY DEF Of, Ended
    <2>6. /\ Cardinality(E) = Cardinality(C) + Cardinality(D) + Cardinality(X)
          /\ Cardinality(C) \in Nat /\ Cardinality(D) \in Nat /\ Cardinality(X) \in Nat
      <3> HIDE DEF C, D, X, E
      <3>1. /\ Cardinality(C \cup D) = Cardinality(C) + Cardinality(D) /\ IsFiniteSet(C \cup D)
            /\ Cardinality(C) \in Nat /\ Cardinality(D) \in Nat
        BY <2>3, <2>5, DisjointSum
      <3>2. /\ Cardinality((C \cup D) \cup X) = Cardinality(C \cup D) + Cardinality(X)
            /\ Cardinality(X) \in Nat
        BY <2>3, <2>5, <3>1, DisjointSum
      <3> QED BY <2>5, <3>1, <3>2
    <2>7. Cardinality(E) <= n /\ Cardinality(C) <= n
      BY <2>1, <2>2, FS_Subset
    <2>8. Report(b, "processing") = Verdict(n, Cardinality(C), Cardinality(D), Cardinality(X))
      BY DEF Report, Count
    <2>9. Report(b, "processing") # "processing" => Cardinality(E) = n
      <3> HIDE DEF C, D, X, E, n
      <3> QED BY <2>1, <2>6, <2>7, <2>8 DEF Verdict
    <2>10. Report(b, "processing") = "completed" => Cardinality(C) = n
      <3> HIDE DEF C, D, X, E, n
      <3> QED BY <2>1, <2>6, <2>7, <2>8 DEF Verdict
    <2>11. (Cardinality(E) = n => E = Rows(b)) /\ (Cardinality(C) = n => C = Rows(b))
      BY <2>1, <2>2, FS_Subset
    <2>12. E = Rows(b) => Of(b, {"queued", "running"}) = {}
      BY DEF Of, Rows, Ended
    <2>13. Report(b, "processing") = "completed" => C = Rows(b)
      <3> HIDE DEF C
      <3> QED BY <2>10, <2>11
    <2>14. Report(b, "processing") # "processing" => Of(b, {"queued", "running"}) = {}
      BY <2>9, <2>11, <2>12
    <2> QED BY <2>4, <2>13, <2>14
  <1> QED BY <1>1, BatchOrchestrationInvariant, PTL
=============================================================================
