---------------------------- MODULE PacingProofs -----------------------------
(***************************************************************************)
(* Theorems about Pacing, for every value of its constants: what a bucket  *)
(* gives within a window, what a claim costs, and how long a job rests     *)
(* between two starts.                                                     *)
(***************************************************************************)
EXTENDS Pacing, TLAPS

-----------------------------------------------------------------------------
(* Arithmetic of the bucket.                                               *)

\* The arithmetic of rates and ticks.
LEMMA Products ==
  ASSUME NEW r \in Nat, NEW n \in Nat
  PROVE  /\ r * n \in Nat
         /\ r * (n + 1) = r * n + r
         /\ r * n = n * r
         /\ n > 0 => r * n = r * (n - 1) + r
  OBVIOUS

\* Both sides of a bound grow alike.
LEMMA BothGrow ==
  ASSUME NEW a \in Nat, NEW b \in Nat, NEW c \in Nat, NEW d \in Nat, NEW r \in Nat,
         a + b <= c + d
  PROVE  a + (b + r) <= c + (d + r)
  OBVIOUS

\* What a refill adds, and that it stops at a second's worth.
LEMMA RefillBounds ==
  ASSUME NEW b \in Bucket, Second \in Nat \ {0}, b.tokens <= Second * b.rate
  PROVE  /\ Refill(b) \in Nat
         /\ Refill(b) <= Second * b.rate
         /\ Refill(b) <= b.tokens + b.rate * b.since
         /\ b.tokens <= Refill(b)
  <1>1. b.rate \in Nat /\ b.tokens \in Nat /\ b.since \in Nat
    BY DEF Bucket
  <1>2. Second * b.rate \in Nat /\ b.since * b.rate \in Nat /\ b.since * b.rate = b.rate * b.since
    BY <1>1, Products
  <1> QED BY <1>1, <1>2 DEF Refill, Least

-----------------------------------------------------------------------------
(* Type correctness.                                                       *)

\* A process starts without buckets.
LEMMA NoBucketType == PacingAssumption => NoBucket \in Bucket
  BY DEF PacingAssumption, NoBucket, Bucket

\* A new bucket is full.
LEMMA MadeType ==
  ASSUME PacingAssumption, NEW rate \in Nat
  PROVE  /\ Made(rate) \in Bucket
         /\ Made(rate).tokens = Second * Made(rate).rate
         /\ Made(rate).since = 0 /\ Made(rate).made
  <1>1. Most(1, rate) \in Nat /\ Second \in Nat
    BY DEF PacingAssumption, Most
  <1>2. Second * Most(1, rate) \in Nat /\ 0 \in 0..Second
    BY <1>1
  <1> QED BY <1>1, <1>2 DEF Made, Bucket

\* The claims that are open.
OpenClaim == [by: Processes, job: Jobs, rate: Rates, granted: BOOLEAN]

\* Every policy, the default one included, has a longest delay.
LEMMA PolicyMax ==
  ASSUME PacingAssumption, NEW policy \in Policies
  PROVE  PolicyOf(policy).max \in Nat
  BY DEF PacingAssumption, PolicyOf, Policy

\* No delay is shorter than a second.
LEMMA DelaysFloor ==
  ASSUME PacingAssumption, NEW policy \in Policies, NEW n, NEW d \in Delays(PolicyOf(policy), n)
  PROVE  d \in Nat /\ d >= Second
  <1>1. PolicyOf(policy).max \in Nat /\ Second \in Nat
    BY PolicyMax DEF PacingAssumption
  <1>2. Second * PolicyOf(policy).max \in Nat
    BY <1>1
  <1>3. d \in Second .. Second * PolicyOf(policy).max
    BY DEF Delays
  <1> QED BY <1>1, <1>2, <1>3

\* The bucket that p is asked, and that it keeps its promise.
LEMMA AskedBucket ==
  ASSUME PacingAssumption, TypeOK, NEW p \in Processes, NEW rate \in Nat
  PROVE  /\ BucketFor(p, rate) \in Bucket
         /\ BucketFor(p, rate).made
         /\ BucketFor(p, rate).tokens <= Second * BucketFor(p, rate).rate
  <1>1. CASE bucket[p].made
    BY <1>1 DEF BucketFor, TypeOK
  <1>2. CASE ~bucket[p].made
    <2>1. Made(rate).rate \in Nat /\ Second * Made(rate).rate \in Nat
      BY MadeType DEF Bucket, PacingAssumption
    <2> QED BY <1>2, <2>1, MadeType DEF BucketFor
  <1> QED BY <1>1, <1>2

\* A claim that asks has a job and a rate.
LEMMA AskingClaim ==
  ASSUME PacingAssumption, TypeOK, NEW p \in Processes, claim.by = p
  PROVE  claim \in OpenClaim /\ claim.job \in Jobs
  BY DEF PacingAssumption, TypeOK, NoClaim, OpenClaim

\* The buckets and their history of a step that asks p's bucket.
BucketsOK ==
  /\ bucket \in [Processes -> Bucket]
  /\ \A p \in Processes : bucket[p].tokens <= Second * bucket[p].rate
  /\ recent \in [Processes -> [0..Window -> Nat]]

\* The rows, the clocks and the bounds.
RowsOK ==
  /\ queue \in NewQueues /\ job \in [Jobs -> JobRow]
  /\ claim \in OpenClaim \cup {NoClaim}
  /\ runs \in [Jobs -> Nat] /\ rest \in [Jobs -> 0..Second]
  /\ lost \in [Jobs -> Nat] /\ forced \in [Jobs -> Nat] /\ ordered \in [Jobs -> BOOLEAN]
  /\ ops \in 0..MaxOps /\ faults \in 0..MaxFaults

\* The types, of the buckets and of the rows.
LEMMA TypeParts == TypeOK <=> BucketsOK /\ RowsOK
  BY DEF TypeOK, BucketsOK, RowsOK, OpenClaim

\* The initial state has its types.
LEMMA PacingTypeInit == PacingAssumption /\ Init => TypeOK
  <1> SUFFICES ASSUME PacingAssumption, Init PROVE BucketsOK /\ RowsOK
    BY TypeParts
  <1>1. BucketsOK
    <2>1. bucket \in [Processes -> Bucket] /\ \A p \in Processes : bucket[p] = NoBucket
      BY NoBucketType DEF Init
    <2>2. NoBucket.tokens = 0 /\ NoBucket.rate = 0 /\ Second * 0 = 0
      BY DEF NoBucket, PacingAssumption
    <2>3. recent \in [Processes -> [0..Window -> Nat]]
      BY DEF Init
    <2> QED BY <2>1, <2>2, <2>3 DEF BucketsOK
  <1>2. RowsOK
    <2>1. job \in [Jobs -> JobRow]
      BY DEF Init, JobRow
    <2>2. /\ rest \in [Jobs -> 0..Second] /\ runs \in [Jobs -> Nat]
          /\ lost \in [Jobs -> Nat] /\ forced \in [Jobs -> Nat] /\ ordered \in [Jobs -> BOOLEAN]
      BY DEF Init, PacingAssumption
    <2>3. ops \in 0..MaxOps /\ faults \in 0..MaxFaults
      BY DEF Init, PacingAssumption
    <2> QED BY <2>1, <2>2, <2>3 DEF Init, RowsOK
  <1> QED BY <1>1, <1>2

-----------------------------------------------------------------------------
(* The inductive invariant.                                                *)

\* A claim that still has to ask was made under a limit.
Limited == claim \in OpenClaim /\ ~claim.granted => claim.rate \in Nat

\* What a bucket gave within w ticks, together with what it holds and is still to be
\* refilled, fits into a full bucket and the refill of w ticks; it gave nothing since
\* it was last asked.
PacedBy(b, gave) ==
  /\ \A w \in 0..Window : ~b.made \/ w < b.since => gave[w] = 0
  /\ \A w \in 0..Window : w >= b.since =>
       gave[w] * Second + b.tokens + b.rate * b.since <= b.rate * Second + b.rate * w
Paced == \A p \in Processes : PacedBy(bucket[p], recent[p])

\* The job of an open claim stays ready.
Claiming == claim \in OpenClaim => job[claim.job].status = "queued" /\ job[claim.job].wait = 0

\* Attempts are runs and lost claims, and a job that waits has an attempt left.
Waits(j) == job[j].status \in {"queued", "scheduled"}
Budget(j) == Most(1, MaxRetries) + forced[j]
Counted ==
  \A j \in Jobs :
    /\ job[j].attempts = runs[j] + lost[j] /\ job[j].attempts <= Budget(j)
    /\ Waits(j) => job[j].attempts < Budget(j)

\* What a job has rested and has to wait is a second, also while its claim is lost, unless
\* an operator ordered it to start.
Rests(j) == (Waits(j) \/ job[j].status = "orphaned") /\ runs[j] > 0 /\ ~ordered[j]
Rested == \A j \in Jobs : Rests(j) => job[j].wait + rest[j] >= Second

PacingInv == TypeOK /\ Limited /\ Paced /\ Claiming /\ Counted /\ Rested

\* The initial state satisfies the invariant.
LEMMA PacingInit == PacingAssumption /\ Init => PacingInv
  <1> SUFFICES ASSUME PacingAssumption, Init PROVE PacingInv
    OBVIOUS
  <1>1. TypeOK
    BY PacingTypeInit
  <1>2. Limited /\ Claiming
    BY DEF Init, NoClaim, OpenClaim, PacingAssumption, Limited, Claiming
  <1>3. Paced
    <2> SUFFICES ASSUME NEW p \in Processes, NEW w \in 0..Window
                 PROVE  recent[p][w] = 0 /\ bucket[p].tokens = 0 /\ bucket[p].rate = 0 /\ bucket[p].since = 0
      BY DEF Paced, PacedBy, PacingAssumption
    <2> QED BY DEF Init, NoBucket
  <1>4. Counted /\ Rested
    <2>1. \A j \in Jobs : job[j].attempts = 0 /\ runs[j] = 0 /\ lost[j] = 0 /\ forced[j] = 0
      BY DEF Init
    <2>2. 0 < Most(1, MaxRetries) /\ Most(1, MaxRetries) \in Nat
      BY DEF Most, PacingAssumption
    <2>3. Counted
      <3>1. ASSUME NEW j \in Jobs
            PROVE  Budget(j) \in Nat /\ 0 < Budget(j)
        <4>1. Budget(j) = Most(1, MaxRetries) + 0
          BY <2>1 DEF Budget
        <4> QED BY <2>2, <4>1
      <3>2. ASSUME NEW j \in Jobs
            PROVE  /\ job[j].attempts = runs[j] + lost[j] /\ job[j].attempts <= Budget(j)
                   /\ job[j].attempts < Budget(j)
        BY <2>1, <3>1
      <3> QED BY <3>2 DEF Counted
    <2>4. Rested
      BY <2>1 DEF Rested, Rests
    <2> QED BY <2>3, <2>4
  <1> QED BY <1>1, <1>2, <1>3, <1>4 DEF PacingInv

\* Asking a bucket: what was given before, the refill, and the window to come.
LEMMA AskPaced ==
  ASSUME PacingAssumption, NEW b \in Bucket, NEW gave \in [0..Window -> Nat],
         b.tokens <= Second * b.rate, PacedBy(b, gave), NEW w \in 0..Window
  PROVE  gave[w] * Second + Refill(b) <= b.rate * Second + b.rate * w
  <1> DEFINE given == gave[w] * Second
             full == b.rate * Second
             window == b.rate * w
             due == b.rate * b.since
             refill == Refill(b)
             held == b.tokens
  <1>1. Second \in Nat \ {0} /\ Window \in Nat /\ w \in Nat
    BY DEF PacingAssumption
  <1>2. b.rate \in Nat /\ held \in Nat /\ b.since \in Nat /\ gave[w] \in Nat
    BY <1>1 DEF Bucket
  <1>3. full \in Nat /\ window \in Nat /\ due \in Nat
    BY <1>1, <1>2, Products
  <1>4. given \in Nat /\ (gave[w] = 0 => given = 0)
    BY <1>1, <1>2
  <1>5. refill \in Nat /\ refill <= full /\ refill <= held + due
    <2>1. Second * b.rate = full
      BY <1>1, <1>2, Products
    <2> QED BY <1>1, <2>1, RefillBounds
  <1>6. /\ w < b.since => gave[w] = 0
        /\ w >= b.since => given + held + due <= full + window
    BY DEF PacedBy
  <1>7. given + refill <= full + window
    <2> HIDE DEF given, full, window, due, refill, held
    <2> QED BY <1>1, <1>2, <1>3, <1>4, <1>5, <1>6
  <1> QED BY <1>7

\* The bucket and the history of p when p asks.
LEMMA AskedPaced ==
  ASSUME PacingAssumption, TypeOK, Paced, NEW p \in Processes, NEW rate \in Nat
  PROVE  PacedBy(BucketFor(p, rate), recent[p])
  <1>1. CASE bucket[p].made
    BY <1>1 DEF BucketFor, Paced
  <1>2. CASE ~bucket[p].made
    <2> DEFINE b == Made(rate)
    <2>1. /\ b.rate \in Nat /\ b.tokens = Second * b.rate /\ b.since = 0
          /\ Second \in Nat /\ Window \in Nat
      BY MadeType DEF Bucket, PacingAssumption
    <2> HIDE DEF b
    <2>2. \A w \in 0..Window : recent[p][w] = 0
      BY <1>2 DEF Paced, PacedBy
    <2>3. ASSUME NEW w \in 0..Window
          PROVE  recent[p][w] * Second + b.tokens + b.rate * b.since <= b.rate * Second + b.rate * w
      <3>1. recent[p][w] * Second = 0 /\ b.rate * b.since = 0
        BY <2>1, <2>2
      <3>2. b.rate * w \in Nat /\ b.rate * Second \in Nat /\ Second * b.rate = b.rate * Second
        BY <2>1
      <3> QED BY <2>1, <3>1, <3>2
    <2>4. PacedBy(b, recent[p])
      BY <2>2, <2>3 DEF PacedBy
    <2> QED BY <1>2, <2>4 DEF BucketFor, b
  <1> QED BY <1>1, <1>2

\* A bucket that was asked: granted or refused, it stays one and keeps its pace.
LEMMA AskKeepsPace ==
  ASSUME PacingAssumption, NEW b \in Bucket, b.made, NEW gave \in [0..Window -> Nat],
         b.tokens <= Second * b.rate, PacedBy(b, gave)
  PROVE  /\ AfterRefusal(b) \in Bucket /\ AfterRefusal(b).tokens <= Second * AfterRefusal(b).rate
         /\ PacedBy(AfterRefusal(b), gave)
         /\ Grants(b) => /\ AfterGrant(b) \in Bucket
                         /\ AfterGrant(b).tokens <= Second * AfterGrant(b).rate
                         /\ PacedBy(AfterGrant(b), [w \in 0..Window |-> gave[w] + 1])
  <1> DEFINE given(w) == gave[w] * Second
             full == b.rate * Second
             window(w) == b.rate * w
             refill == Refill(b)
  <1>1. Second \in Nat \ {0} /\ Window \in Nat /\ 0 \in 0..Second
    BY DEF PacingAssumption
  <1>2. b.rate \in Nat /\ full \in Nat /\ b.rate * 0 = 0 /\ Second * b.rate = full
    <2>1. b.rate \in Nat
      BY DEF Bucket
    <2> QED BY <1>1, <2>1, Products
  <1>3. refill \in Nat /\ refill <= full
    BY <1>1, <1>2, RefillBounds
  <1>4. ASSUME NEW w \in 0..Window
        PROVE  /\ given(w) + refill <= full + window(w)
               /\ given(w) \in Nat /\ window(w) \in Nat /\ w \in Nat
               /\ (gave[w] + 1) * Second = given(w) + Second
    <2>1. given(w) + refill <= full + window(w)
      BY AskPaced
    <2>2. gave[w] \in Nat /\ w \in Nat
      BY <1>1
    <2>3. (gave[w] + 1) * Second = given(w) + Second /\ given(w) \in Nat
      BY <1>1, <2>2
    <2>4. window(w) \in Nat
      BY <1>2, <2>2, Products
    <2> QED BY <2>1, <2>2, <2>3, <2>4
  <1>5. /\ AfterRefusal(b) \in Bucket /\ AfterRefusal(b).made /\ AfterRefusal(b).since = 0
        /\ AfterRefusal(b).rate = b.rate /\ AfterRefusal(b).tokens = Refill(b)
    BY <1>1, <1>3 DEF AfterRefusal, Bucket
  <1>8. AfterRefusal(b).tokens <= Second * AfterRefusal(b).rate
    BY <1>2, <1>3, <1>5
  <1>6. PacedBy(AfterRefusal(b), gave)
    <2>1. ASSUME NEW w \in 0..Window
          PROVE  given(w) + refill + b.rate * 0 <= full + window(w)
      <3> DEFINE g == given(w)
                 n == window(w)
      <3>1. g + refill <= full + n /\ g \in Nat /\ n \in Nat
        BY <1>4
      <3>2. g + refill + b.rate * 0 <= full + n
        <4> HIDE DEF g, n, full, refill
        <4> QED BY <1>2, <1>3, <3>1
      <3> QED BY <3>2
    <2> QED BY <1>4, <1>5, <2>1 DEF PacedBy
  <1>7. ASSUME Grants(b)
        PROVE  /\ AfterGrant(b) \in Bucket
               /\ AfterGrant(b).tokens <= Second * AfterGrant(b).rate
               /\ PacedBy(AfterGrant(b), [w \in 0..Window |-> gave[w] + 1])
    <2>1. Refill(b) - Second \in Nat /\ Refill(b) - Second <= Second * b.rate
      BY <1>1, <1>2, <1>3, <1>7 DEF Grants
    <2>2. /\ AfterGrant(b) \in Bucket /\ AfterGrant(b).made /\ AfterGrant(b).since = 0
          /\ AfterGrant(b).rate = b.rate /\ AfterGrant(b).tokens = Refill(b) - Second
      BY <1>1, <2>1 DEF AfterGrant, Bucket
    <2>3. PacedBy(AfterGrant(b), [w \in 0..Window |-> gave[w] + 1])
      <3>1. ASSUME NEW w \in 0..Window
            PROVE  (gave[w] + 1) * Second + (refill - Second) + b.rate * 0 <= full + window(w)
        <4> DEFINE g == given(w)
                   h == (gave[w] + 1) * Second
                   n == window(w)
        <4>1. g + refill <= full + n /\ g \in Nat /\ n \in Nat /\ h = g + Second
          BY <1>4
        <4>2. h + (refill - Second) + b.rate * 0 <= full + n
          <5> HIDE DEF g, h, n, full, refill
          <5> QED BY <1>1, <1>2, <1>3, <4>1
        <4> QED BY <4>2
      <3> QED BY <1>4, <2>2, <3>1 DEF PacedBy
    <2> QED BY <2>1, <2>2, <2>3
  <1> QED BY <1>5, <1>6, <1>7, <1>8

\* A tick: the bucket waits, every window moves.
Aged(b) == [b EXCEPT !.since = IF b.made THEN Least(Second, b.since + 1) ELSE 0]
Shifted(gave) == [w \in 0..Window |-> IF w = 0 THEN 0 ELSE gave[w - 1]]

\* A tick refills a bucket by its rate and moves every window by one.
LEMMA TickKeepsPace ==
  ASSUME PacingAssumption, NEW b \in Bucket, NEW gave \in [0..Window -> Nat],
         b.tokens <= Second * b.rate, PacedBy(b, gave)
  PROVE  /\ Aged(b) \in Bucket /\ Aged(b).tokens <= Second * Aged(b).rate
         /\ Shifted(gave) \in [0..Window -> Nat]
         /\ PacedBy(Aged(b), Shifted(gave))
  <1> DEFINE later == Aged(b).since
             full == b.rate * Second
             due == b.rate * b.since
             held == b.tokens
  <1>1. Second \in Nat \ {0} /\ Window \in Nat
    BY DEF PacingAssumption
  <1>2. /\ b.rate \in Nat /\ held \in Nat /\ b.since \in Nat /\ b.since <= Second
        /\ b.made \in BOOLEAN
    BY <1>1 DEF Bucket
  <1>3. full \in Nat /\ due \in Nat /\ held <= full
    BY <1>1, <1>2, Products
  <1>4. /\ later = (IF b.made THEN Least(Second, b.since + 1) ELSE 0)
        /\ later \in 0..Second /\ later \in Nat
        /\ Aged(b).made = b.made /\ Aged(b).rate = b.rate /\ Aged(b).tokens = held
        /\ Aged(b) \in Bucket
    BY <1>1, <1>2 DEF Aged, Bucket, Least
  <1>5. Aged(b).tokens <= Second * Aged(b).rate
    BY <1>4
  <1>6. ASSUME NEW w \in 0..Window
        PROVE  /\ w \in Nat /\ (w > 0 => w - 1 \in 0..Window)
               /\ Shifted(gave)[w] = (IF w = 0 THEN 0 ELSE gave[w - 1])
               /\ Shifted(gave)[w] \in Nat
    BY <1>1 DEF Shifted
  <1>7. ASSUME NEW w \in 0..Window, ~b.made \/ w < later
        PROVE  Shifted(gave)[w] = 0
    <2>1. CASE w = 0
      BY <1>6, <2>1
    <2>2. CASE w > 0
      <3>1. ~b.made \/ w - 1 < b.since
        <4>1. later \in Nat /\ later <= b.since + 1
          BY <1>1, <1>2, <1>4 DEF Least
        <4>2. w \in Nat /\ b.since \in Nat
          BY <1>2, <1>6
        <4> HIDE DEF later
        <4> QED BY <1>7, <4>1, <4>2
      <3>2. gave[w - 1] = 0
        BY <1>6, <2>2, <3>1 DEF PacedBy
      <3> QED BY <1>6, <2>2, <3>2
    <2> QED BY <1>6, <2>1, <2>2
  <1>8. ASSUME NEW w \in 0..Window, w >= later
        PROVE  Shifted(gave)[w] * Second + held + b.rate * later <= full + b.rate * w
    <2> DEFINE given == Shifted(gave)[w] * Second
               window == b.rate * w
               owed == b.rate * later
    <2>1. given \in Nat /\ window \in Nat /\ owed \in Nat /\ w \in Nat
      BY <1>1, <1>2, <1>4, <1>6, Products
    <2>2. CASE ~b.made
      <3>1. given = 0
        BY <1>1, <1>7, <2>2
      <3>2. owed = 0
        BY <1>2, <1>4, <2>2
      <3>3. given + held + owed <= full + window
        <4> HIDE DEF given, window, owed, full, held
        <4> QED BY <1>2, <1>3, <2>1, <3>1, <3>2
      <3> QED BY <3>3
    <2>3. CASE b.made
      <3> DEFINE before == b.rate * (w - 1)
                 gone == gave[w - 1] * Second
      <3>1. w > 0 /\ w - 1 \in 0..Window /\ w - 1 \in Nat
        BY <1>1, <1>2, <1>4, <1>6, <1>8, <2>1, <2>3 DEF Least
      <3>2. /\ given = gone /\ before \in Nat /\ window = before + b.rate
            /\ (w - 1 < b.since => gone = 0)
            /\ (w - 1 >= b.since => gone + held + due <= full + before)
        <4>1. given = gone
          BY <1>6, <3>1
        <4>2. before \in Nat /\ window = before + b.rate
          BY <1>2, <2>1, <3>1, Products
        <4>3. w - 1 < b.since => gone = 0
          BY <1>1, <3>1 DEF PacedBy
        <4>4. w - 1 >= b.since => gone + held + due <= full + before
          BY <3>1 DEF PacedBy
        <4> QED BY <4>1, <4>2, <4>3, <4>4
      <3>3. CASE b.since < Second
        <4>1. later = b.since + 1
          <5>1. Least(Second, b.since + 1) = b.since + 1
            BY <1>1, <1>2, <3>3 DEF Least
          <5> QED BY <1>4, <2>3, <5>1
        <4>2. owed = due + b.rate
          BY <1>2, <4>1, Products
        <4>3. w - 1 >= b.since
          BY <1>2, <1>8, <2>1, <4>1
        <4>4. given + held + due <= full + before
          BY <3>2, <4>3
        <4>5. given + held + owed <= full + window
          <5> DEFINE sum == given + held
          <5>1. sum \in Nat /\ b.rate \in Nat
            BY <1>2, <2>1
          <5> HIDE DEF given, window, owed, full, due, held, before, gone, later, sum
          <5>2. sum + (due + b.rate) <= full + (before + b.rate)
            BY <1>3, <3>2, <4>4, <5>1, BothGrow DEF sum
          <5> QED BY <3>2, <4>2, <5>2 DEF sum
        <4> QED BY <4>5
      <3>4. CASE b.since = Second
        <4>1. later = Second /\ owed = full /\ due = full
          BY <1>1, <1>2, <1>4, <2>3, <3>4 DEF Least
        <4>2. w = Second => window = full
          OBVIOUS
        <4>3. w >= Second
          BY <1>8, <4>1
        <4>4. given + held + owed <= full + window
          <5> HIDE DEF given, window, owed, full, due, held, before, gone, later
          <5>1. CASE w = Second
            BY <1>1, <1>2, <1>3, <2>1, <3>2, <3>4, <4>1, <4>2, <5>1
          <5>2. CASE w > Second
            BY <1>1, <1>2, <1>3, <2>1, <3>2, <3>4, <4>1, <5>2
          <5> QED BY <1>1, <2>1, <4>3, <5>1, <5>2
        <4> QED BY <4>4
      <3> QED BY <1>1, <1>2, <3>3, <3>4
    <2> QED BY <1>2, <2>2, <2>3
  <1>9. PacedBy(Aged(b), Shifted(gave))
    BY <1>4, <1>7, <1>8 DEF PacedBy
  <1>10. Shifted(gave) \in [0..Window -> Nat]
    BY <1>6 DEF Shifted
  <1> QED BY <1>4, <1>5, <1>9, <1>10

-----------------------------------------------------------------------------
(* Every step keeps the invariant.                                         *)

\* Every step keeps the buckets within their rate.
LEMMA BucketsStep ==
  ASSUME PacingAssumption, TypeOK, Limited, Paced, [Next]_vars
  PROVE  BucketsOK' /\ Paced'
  <1>1. bucket \in [Processes -> Bucket] /\ recent \in [Processes -> [0..Window -> Nat]]
    BY DEF TypeOK
  \* What becomes of p's bucket becomes of no other.
  <1>2. ASSUME NEW p \in Processes, NEW b \in Bucket, NEW gave \in [0..Window -> Nat],
               b.tokens <= Second * b.rate, PacedBy(b, gave),
               bucket' = [bucket EXCEPT ![p] = b], recent' = [recent EXCEPT ![p] = gave]
        PROVE  BucketsOK' /\ Paced'
    <2>1. \A q \in Processes :
            /\ bucket'[q] = (IF q = p THEN b ELSE bucket[q])
            /\ recent'[q] = (IF q = p THEN gave ELSE recent[q])
      BY <1>1, <1>2
    <2>2. bucket' \in [Processes -> Bucket] /\ recent' \in [Processes -> [0..Window -> Nat]]
      BY <1>1, <1>2
    <2>3. \A q \in Processes : bucket'[q].tokens <= Second * bucket'[q].rate
      BY <1>2, <2>1 DEF TypeOK
    <2>4. \A q \in Processes : PacedBy(bucket'[q], recent'[q])
      BY <1>2, <2>1 DEF Paced
    <2> QED BY <2>2, <2>3, <2>4 DEF BucketsOK, Paced, PacedBy
  <1>3. ASSUME NEW p \in Processes, Granted(p) \/ Refused(p)
        PROVE  BucketsOK' /\ Paced'
    <2> DEFINE b == BucketFor(p, claim.rate)
               given == [w \in 0..Window |-> recent[p][w] + 1]
    <2>1. claim.rate \in Nat
      BY <1>3, AskingClaim DEF Granted, Refused, Asks, Limited
    <2>2. b \in Bucket /\ b.made /\ b.tokens <= Second * b.rate /\ PacedBy(b, recent[p])
      BY <2>1, AskedBucket, AskedPaced
    <2>3. recent[p] \in [0..Window -> Nat] /\ given \in [0..Window -> Nat]
      BY <1>1
    <2>4. /\ AfterRefusal(b) \in Bucket /\ AfterRefusal(b).tokens <= Second * AfterRefusal(b).rate
          /\ PacedBy(AfterRefusal(b), recent[p])
          /\ Grants(b) => /\ AfterGrant(b) \in Bucket
                          /\ AfterGrant(b).tokens <= Second * AfterGrant(b).rate
                          /\ PacedBy(AfterGrant(b), given)
      <3> HIDE DEF b
      <3> QED BY <2>2, <2>3, AskKeepsPace
    <2>5. CASE Granted(p)
      <3>1. /\ Grants(b) /\ bucket' = [bucket EXCEPT ![p] = AfterGrant(b)]
            /\ recent' = [recent EXCEPT ![p] = given]
        BY <2>5 DEF Granted
      <3> HIDE DEF b, given
      <3> QED BY <1>2, <2>3, <2>4, <3>1
    <2>6. CASE Refused(p)
      <3>1. /\ bucket' = [bucket EXCEPT ![p] = AfterRefusal(b)]
            /\ recent' = [recent EXCEPT ![p] = recent[p]]
        BY <1>1, <2>6 DEF Refused
      <3> HIDE DEF b, given
      <3> QED BY <1>2, <2>3, <2>4, <3>1
    <2> QED BY <1>3, <2>5, <2>6
  <1>4. ASSUME NEW p \in Processes, Restart(p)
        PROVE  BucketsOK' /\ Paced'
    <2> DEFINE none == [w \in 0..Window |-> 0]
    <2>1. none \in [0..Window -> Nat] /\ Second \in Nat /\ Window \in Nat
      BY DEF PacingAssumption
    <2>2. NoBucket.tokens = 0 /\ NoBucket.rate = 0 /\ NoBucket.since = 0
      BY DEF NoBucket
    <2>3. NoBucket.tokens <= Second * NoBucket.rate
      BY <2>1, <2>2
    <2>4. PacedBy(NoBucket, none)
      <3>1. \A w \in 0..Window : none[w] * Second + 0 + 0 * 0 <= 0 * Second + 0 * w
        BY <2>1
      <3> QED BY <2>2, <3>1 DEF PacedBy
    <2>5. bucket' = [bucket EXCEPT ![p] = NoBucket] /\ recent' = [recent EXCEPT ![p] = none]
      BY <1>4 DEF Restart
    <2> QED BY <1>2, <2>1, <2>3, <2>4, <2>5, NoBucketType
  <1>5. ASSUME Tick PROVE BucketsOK' /\ Paced'
    <2>1. ASSUME NEW p \in Processes
          PROVE  /\ bucket'[p] = Aged(bucket[p]) /\ recent'[p] = Shifted(recent[p])
                 /\ Aged(bucket[p]) \in Bucket
                 /\ Aged(bucket[p]).tokens <= Second * Aged(bucket[p]).rate
                 /\ Shifted(recent[p]) \in [0..Window -> Nat]
                 /\ PacedBy(Aged(bucket[p]), Shifted(recent[p]))
      <3>1. bucket'[p] = Aged(bucket[p]) /\ recent'[p] = Shifted(recent[p])
        BY <1>5 DEF Tick, Aged, Shifted
      <3>2. /\ bucket[p] \in Bucket /\ recent[p] \in [0..Window -> Nat]
            /\ bucket[p].tokens <= Second * bucket[p].rate /\ PacedBy(bucket[p], recent[p])
        BY <1>1 DEF TypeOK, Paced
      <3> QED BY <3>1, <3>2, TickKeepsPace
    <2>2. bucket' \in [Processes -> Bucket]
      <3>1. bucket' = [p \in Processes |-> bucket'[p]]
        BY <1>5 DEF Tick
      <3> QED BY <2>1, <3>1
    <2>3. recent' \in [Processes -> [0..Window -> Nat]]
      <3>1. recent' = [p \in Processes |-> recent'[p]]
        BY <1>5 DEF Tick
      <3> QED BY <2>1, <3>1
    <2>4. \A p \in Processes : PacedBy(bucket'[p], recent'[p])
      BY <2>1
    <2>5. \A p \in Processes : bucket'[p].tokens <= Second * bucket'[p].rate
      BY <2>1
    <2> QED BY <2>2, <2>3, <2>4, <2>5 DEF BucketsOK, Paced, PacedBy
  <1>6. CASE UNCHANGED <<bucket, recent>>
    BY <1>6 DEF TypeOK, BucketsOK, Paced, PacedBy
  <1> QED BY <1>3, <1>4, <1>5, <1>6
          DEF Next, Claims, EndRun, PickJob, CommitClaim, ReplyLost, ClaimLost, Succeed, Fail, Promote,
              Reclaim, OperatorRetries, UpdateQueue, vars

\* The parts of the invariant that are about rows and claims.
RowsInv == RowsOK /\ Limited /\ Claiming /\ Counted /\ Rested

\* No open claim is the absence of one.
LEMMA NoClaimIsNone ==
  ASSUME PacingAssumption PROVE NoClaim \notin OpenClaim
  BY DEF PacingAssumption, NoClaim, OpenClaim

\* A claim, a claim or an answer that is lost and a restart keep what is known of the rows.
LEMMA ClaimSteps ==
  ASSUME PacingAssumption, TypeOK, RowsInv, NEW p \in Processes,
         Claims(p) \/ ReplyLost(p) \/ ClaimLost(p) \/ Restart(p)
  PROVE  RowsInv'
  <1> USE DEF RowsInv
  <1>1. ASSUME NEW j \in Jobs, PickJob(p, j) PROVE RowsInv'
    <2>1. queue.rate \in Rates /\ (queue.rate # NoLimit => queue.rate \in Nat)
      BY DEF RowsOK, NewQueues, PacingAssumption
    <2>2. /\ claim' \in OpenClaim /\ claim'.job = j
          /\ claim'.rate = queue.rate /\ claim'.granted = (queue.rate = NoLimit)
      BY <1>1, <2>1 DEF PickJob, OpenClaim
    <2>3. UNCHANGED <<queue, job, runs, rest, lost, forced, ordered, ops, faults>>
      BY <1>1 DEF PickJob
    <2>4. job[j].status = "queued" /\ job[j].wait = 0
      BY <1>1 DEF PickJob
    <2> QED BY <2>1, <2>2, <2>3, <2>4 DEF RowsOK, Limited, Claiming, Counted, Rested, Waits, Rests, Budget
  <1>2. CASE Granted(p)
    <2>1. claim \in OpenClaim
      BY <1>2, AskingClaim DEF Granted, Asks
    <2>2. claim' \in OpenClaim /\ claim'.job = claim.job /\ claim'.granted = TRUE
      BY <1>2, <2>1 DEF Granted, OpenClaim
    <2>3. UNCHANGED <<queue, job, runs, rest, lost, forced, ordered, ops, faults>>
      BY <1>2 DEF Granted
    <2> QED BY <2>1, <2>2, <2>3 DEF RowsOK, Limited, Claiming, Counted, Rested, Waits, Rests, Budget
  \* A step that ends the claim and leaves the rows alone.
  <1>3. ASSUME claim' = NoClaim, UNCHANGED <<queue, job, runs, rest, lost, forced, ordered, ops>>,
               faults' \in 0..MaxFaults
        PROVE  RowsInv'
    BY <1>3, NoClaimIsNone DEF RowsOK, Limited, Claiming, Counted, Rested, Waits, Rests, Budget
  <1>4. CASE Refused(p)
    <2>1. claim.job \in Jobs
      BY <1>4, AskingClaim DEF Refused, Asks
    <2>2. job[claim.job].attempts \in Nat
      BY <2>1 DEF RowsOK, JobRow
    <2>3. AttemptsAfterRefusal(job[claim.job].attempts + 1) = job[claim.job].attempts
      BY <2>2 DEF AttemptsAfterRefusal
    <2>4. job \in [Jobs -> JobRow] /\ faults \in 0..MaxFaults
      BY DEF RowsOK
    <2>5. [job[claim.job] EXCEPT !.attempts = job[claim.job].attempts] = job[claim.job]
      BY <2>1, <2>4 DEF JobRow
    <2>6. job' = [job EXCEPT ![claim.job].attempts = job[claim.job].attempts]
      BY <1>4, <2>3 DEF Refused
    <2>7. job' = job
      BY <2>1, <2>4, <2>5, <2>6
    <2>8. claim' = NoClaim /\ UNCHANGED <<queue, runs, rest, lost, forced, ordered, ops, faults>>
      BY <1>4 DEF Refused
    <2> QED BY <1>3, <2>4, <2>7, <2>8
  \* A claim that commits counts an attempt: a run, or one that nobody hears of.
  <1>5. CASE CommitClaim(p) \/ ReplyLost(p)
    <2>1. PICK j \in Jobs : claim \in OpenClaim /\ claim.job = j
      BY <1>5, AskingClaim DEF CommitClaim, ReplyLost
    <2> DEFINE status == IF CommitClaim(p) THEN "running" ELSE "orphaned"
               row == [status |-> status, attempts |-> job[j].attempts + 1, wait |-> 0]
    <2>2. /\ job \in [Jobs -> JobRow] /\ runs \in [Jobs -> Nat] /\ lost \in [Jobs -> Nat]
          /\ forced \in [Jobs -> Nat] /\ ordered \in [Jobs -> BOOLEAN]
          /\ job[j].attempts \in Nat /\ job[j].status = "queued" /\ job[j].wait = 0
          /\ MaxRetries \in Nat /\ faults \in 0..MaxFaults /\ MaxFaults \in Nat
      BY <2>1 DEF RowsOK, JobRow, Claiming, PacingAssumption
    <2>3. row \in JobRow /\ row.status \in {"running", "orphaned"} /\ row.status = status
          /\ row.attempts = job[j].attempts + 1 /\ row.wait = 0
      BY <2>2 DEF JobRow
    <2>4. /\ job' = [job EXCEPT ![j] = row] /\ claim' = NoClaim
          /\ UNCHANGED <<queue, rest, forced, ops>> /\ faults' \in 0..MaxFaults
      <3>1. CASE CommitClaim(p)
        BY <2>1, <2>2, <3>1 DEF CommitClaim
      <3>2. CASE ~CommitClaim(p) /\ ReplyLost(p)
        BY <2>1, <2>2, <3>2 DEF ReplyLost
      <3> QED BY <1>5, <3>1, <3>2
    <2>5. \/ /\ status = "running" /\ lost' = lost
             /\ runs' = [runs EXCEPT ![j] = runs[j] + 1] /\ ordered' = [ordered EXCEPT ![j] = FALSE]
          \/ /\ status = "orphaned" /\ runs' = runs /\ ordered' = ordered
             /\ lost' = [lost EXCEPT ![j] = lost[j] + 1]
      <3>1. CASE CommitClaim(p)
        BY <2>1, <3>1 DEF CommitClaim
      <3>2. CASE ~CommitClaim(p) /\ ReplyLost(p)
        BY <2>1, <3>2 DEF ReplyLost
      <3> QED BY <1>5, <3>1, <3>2
    <2> HIDE DEF row, status
    <2>6. /\ job' \in [Jobs -> JobRow] /\ job'[j] = row
          /\ runs' \in [Jobs -> Nat] /\ lost' \in [Jobs -> Nat] /\ ordered' \in [Jobs -> BOOLEAN]
          /\ runs'[j] + lost'[j] = runs[j] + lost[j] + 1
          /\ status = "orphaned" => runs'[j] = runs[j] /\ ordered'[j] = ordered[j]
          /\ \A k \in Jobs \ {j} : /\ job'[k] = job[k] /\ runs'[k] = runs[k]
                                   /\ lost'[k] = lost[k] /\ ordered'[k] = ordered[k]
      <3>1. /\ job' \in [Jobs -> JobRow] /\ job'[j] = row
            /\ \A k \in Jobs \ {j} : job'[k] = job[k]
        BY <2>1, <2>2, <2>3, <2>4
      <3>2. /\ runs' \in [Jobs -> Nat] /\ lost' \in [Jobs -> Nat]
            /\ runs'[j] + lost'[j] = runs[j] + lost[j] + 1
            /\ status = "orphaned" => runs'[j] = runs[j]
            /\ \A k \in Jobs \ {j} : runs'[k] = runs[k] /\ lost'[k] = lost[k]
        BY <2>1, <2>2, <2>5
      <3>3. /\ ordered' \in [Jobs -> BOOLEAN]
            /\ status = "orphaned" => ordered'[j] = ordered[j]
            /\ \A k \in Jobs \ {j} : ordered'[k] = ordered[k]
        <4>1. \/ ordered' = ordered
              \/ status # "orphaned" /\ ordered' = [ordered EXCEPT ![j] = FALSE]
          BY <2>5
        <4> QED BY <2>1, <2>2, <4>1
      <3> QED BY <3>1, <3>2, <3>3
    <2>7. RowsOK' /\ Limited' /\ Claiming'
      BY <2>4, <2>6, NoClaimIsNone DEF RowsOK, Limited, Claiming
    <2>8. Counted'
      <3>1. job[j].attempts = runs[j] + lost[j] /\ job[j].attempts < Budget(j)
        BY <2>1, <2>2 DEF Counted, Waits
      <3>2. Budget(j)' = Budget(j) /\ Budget(j) \in Nat
        BY <2>1, <2>2, <2>4 DEF Budget, Most
      <3>3. job'[j].attempts = runs'[j] + lost'[j] /\ job'[j].attempts <= Budget(j)'
        BY <2>1, <2>2, <2>3, <2>6, <3>1, <3>2
      <3> QED BY <2>3, <2>4, <2>6, <3>3 DEF Counted, Waits, Budget
    <2>9. Rested'
      <3>1. Rests(j)' => Rests(j) /\ job'[j].wait = job[j].wait
        BY <2>1, <2>2, <2>3, <2>6 DEF Rests, Waits
      <3> QED BY <2>1, <2>4, <2>6, <3>1 DEF Rested, Rests, Waits
    <2> QED BY <2>7, <2>8, <2>9
  <1>6. CASE ClaimLost(p) \/ Restart(p)
    <2>1. faults' \in 0..MaxFaults
      BY <1>6 DEF ClaimLost, Restart, RowsOK, PacingAssumption
    <2>2. /\ UNCHANGED <<queue, job, runs, rest, lost, forced, ordered, ops>>
          /\ (claim' = NoClaim \/ claim' = claim)
      BY <1>6 DEF ClaimLost, Restart
    <2>3. CASE claim' = claim
      BY <2>1, <2>2, <2>3 DEF RowsOK, Limited, Claiming, Counted, Rested, Waits, Rests, Budget
    <2> QED BY <1>3, <2>1, <2>2, <2>3
  <1> QED BY <1>1, <1>2, <1>4, <1>5, <1>6 DEF Claims

\* The end of an attempt, the promoter, the reaper and an operator keep what is known of the rows.
LEMMA RunSteps ==
  ASSUME PacingAssumption, TypeOK, RowsInv, NEW j \in Jobs,
         EndRun(j) \/ Promote(j) \/ Reclaim(j) \/ OperatorRetries(j)
  PROVE  RowsInv'
  <1> USE DEF RowsInv
  <1>1. job \in [Jobs -> JobRow] /\ rest \in [Jobs -> 0..Second] /\ Second \in Nat \ {0}
    BY DEF RowsOK, PacingAssumption
  \* What a step writes of the row of j, which is in no claim unless it stays ready.
  <1>2. ASSUME NEW row \in JobRow, NEW t \in 0..Second, job' = [job EXCEPT ![j] = row],
               rest' = [rest EXCEPT ![j] = t],
               UNCHANGED <<queue, claim, runs, lost, forced, ordered, ops, faults>>,
               job[j].status # "queued", row.attempts = job[j].attempts,
               row.status \in {"queued", "scheduled"} => row.attempts < Budget(j),
               row.status # "ended" /\ runs[j] > 0 /\ ~ordered[j] => row.wait + t >= Second
        PROVE  RowsInv'
    <2>1. /\ job' \in [Jobs -> JobRow] /\ rest' \in [Jobs -> 0..Second]
          /\ \A k \in Jobs : /\ job'[k] = (IF k = j THEN row ELSE job[k])
                             /\ rest'[k] = (IF k = j THEN t ELSE rest[k])
      BY <1>1, <1>2
    <2>2. RowsOK' /\ Limited'
      BY <1>2, <2>1 DEF RowsOK, Limited
    <2>3. Claiming'
      BY <1>2, <2>1 DEF Claiming, OpenClaim
    <2>4. Counted'
      BY <1>2, <2>1 DEF Counted, Waits, Budget
    <2>5. Rested'
      BY <1>2, <2>1 DEF Rested, Rests, Waits
    <2> QED BY <2>2, <2>3, <2>4, <2>5
  <1>3. job[j] \in JobRow /\ rest[j] \in 0..Second /\ 0 \in 0..Second
    BY <1>1
  <1>4. rest = [rest EXCEPT ![j] = rest[j]]
    BY <1>1
  <1>8. \A n \in Nat : n < MaxRetries => n < Budget(j)
    BY DEF Budget, Most, RowsOK, PacingAssumption
  <1>5. CASE Succeed(j)
    <2> DEFINE row == [job[j] EXCEPT !.status = "ended"]
    <2>1. row \in JobRow /\ row.attempts = job[j].attempts /\ row.status = "ended"
      BY <1>3 DEF JobRow
    <2>2. job' = [job EXCEPT ![j] = row] /\ rest' = [rest EXCEPT ![j] = rest[j]]
      BY <1>1, <1>4, <1>5 DEF Succeed
    <2>3. job[j].status = "running" /\ UNCHANGED <<queue, claim, runs, lost, forced, ordered, ops, faults>>
      BY <1>5 DEF Succeed
    <2> HIDE DEF row
    <2> QED BY <1>2, <1>3, <2>1, <2>2, <2>3
  <1>6. CASE Promote(j)
    <2> DEFINE row == [job[j] EXCEPT !.status = "queued"]
    <2>1. row \in JobRow /\ row.attempts = job[j].attempts /\ row.wait = job[j].wait
      BY <1>3 DEF JobRow
    <2>2. job' = [job EXCEPT ![j] = row] /\ rest' = [rest EXCEPT ![j] = rest[j]]
      BY <1>1, <1>4, <1>6 DEF Promote
    <2>3. job[j].status = "scheduled" /\ UNCHANGED <<queue, claim, runs, lost, forced, ordered, ops, faults>>
      BY <1>6 DEF Promote
    <2>4. /\ row.attempts < Budget(j)
          /\ runs[j] > 0 /\ ~ordered[j] => row.wait + rest[j] >= Second
      BY <2>1, <2>3 DEF Counted, Rested, Waits, Rests
    <2> HIDE DEF row
    <2> QED BY <1>2, <1>3, <2>1, <2>2, <2>3, <2>4
  <1>7. CASE Fail(j)
    <2>1. /\ job[j].status = "running" /\ UNCHANGED <<queue, claim, runs, lost, forced, ordered, ops, faults>>
          /\ rest' = [rest EXCEPT ![j] = 0]
      BY <1>7 DEF Fail
    <2>2. CASE job[j].attempts < MaxRetries
      <3> DEFINE n == Most(1, job[j].attempts)
      <3>1. PICK d \in Delays(PolicyOf(queue.policy), n) :
              job' = [job EXCEPT ![j].status = "scheduled", ![j].wait = d]
        BY <1>7, <2>2 DEF Fail
      <3>2. queue.policy \in Policies
        BY DEF RowsOK, NewQueues
      <3>3. d \in Nat /\ d >= Second
        <4> HIDE DEF n
        <4> QED BY <3>1, <3>2, DelaysFloor
      <3> DEFINE row == [job[j] EXCEPT !.status = "scheduled", !.wait = d]
      <3>4. row \in JobRow
        BY <1>3, <3>3 DEF JobRow
      <3>5. row.attempts = job[j].attempts /\ row.wait = d
        BY <1>3 DEF JobRow
      <3>6. job' = [job EXCEPT ![j] = row]
        BY <1>1, <3>1
      <3>7. row.attempts < Budget(j) /\ row.wait + 0 >= Second
        <4>1. job[j].attempts \in Nat /\ Second \in Nat
          BY <1>1, <1>3 DEF JobRow
        <4> HIDE DEF row, n
        <4> QED BY <1>8, <2>2, <3>3, <3>5, <4>1
      <3> HIDE DEF row, n
      <3> QED BY <1>2, <1>3, <2>1, <3>4, <3>5, <3>6, <3>7
    <2>3. CASE ~(job[j].attempts < MaxRetries)
      <3> DEFINE row == [job[j] EXCEPT !.status = "ended"]
      <3>1. row \in JobRow /\ row.attempts = job[j].attempts /\ row.status = "ended"
        BY <1>3 DEF JobRow
      <3>2. job' = [job EXCEPT ![j] = row]
        BY <1>1, <1>7, <2>3 DEF Fail
      <3> HIDE DEF row
      <3> QED BY <1>2, <1>3, <2>1, <3>1, <3>2
    <2> QED BY <2>2, <2>3
  <1>9. CASE Reclaim(j)
    <2> DEFINE status == IF job[j].attempts < MaxRetries THEN "queued" ELSE "ended"
               row == [job[j] EXCEPT !.status = status]
    <2>1. /\ row \in JobRow /\ row.attempts = job[j].attempts /\ row.wait = job[j].wait
          /\ row.status = status
      BY <1>3 DEF JobRow
    <2>2. job' = [job EXCEPT ![j] = row] /\ rest' = [rest EXCEPT ![j] = rest[j]]
      BY <1>1, <1>4, <1>9 DEF Reclaim
    <2>3. /\ job[j].status = "orphaned"
          /\ UNCHANGED <<queue, claim, runs, lost, forced, ordered, ops, faults>>
      BY <1>9 DEF Reclaim
    <2>4. row.status \in {"queued", "scheduled"} => row.attempts < Budget(j)
      BY <1>3, <1>8, <2>1 DEF JobRow
    <2>5. runs[j] > 0 /\ ~ordered[j] => row.wait + rest[j] >= Second
      BY <2>1, <2>3 DEF Rested, Rests
    <2> HIDE DEF row, status
    <2> QED BY <1>2, <1>3, <2>1, <2>2, <2>3, <2>4, <2>5
  <1>10. CASE OperatorRetries(j)
    <2> DEFINE row == [status |-> "queued", attempts |-> job[j].attempts, wait |-> 0]
    <2>1. /\ row \in JobRow /\ row.attempts = job[j].attempts /\ row.status = "queued"
          /\ job[j].attempts \in Nat
      BY <1>3 DEF JobRow
    <2>2. /\ job' = [job EXCEPT ![j] = row] /\ forced' = [forced EXCEPT ![j] = forced[j] + 1]
          /\ ordered' = [ordered EXCEPT ![j] = TRUE] /\ ops' = ops + 1 /\ ops < MaxOps
          /\ UNCHANGED <<queue, claim, runs, rest, lost, faults>> /\ job[j].status # "queued"
      BY <1>10 DEF OperatorRetries
    <2> HIDE DEF row
    <2>3. /\ forced \in [Jobs -> Nat] /\ ordered \in [Jobs -> BOOLEAN] /\ lost \in [Jobs -> Nat]
          /\ runs \in [Jobs -> Nat] /\ ops \in 0..MaxOps /\ MaxOps \in Nat /\ MaxRetries \in Nat
      BY DEF RowsOK, PacingAssumption
    <2>4. /\ job' \in [Jobs -> JobRow] /\ forced' \in [Jobs -> Nat]
          /\ ordered' \in [Jobs -> BOOLEAN] /\ ops' \in 0..MaxOps
          /\ job'[j] = row /\ forced'[j] = forced[j] + 1 /\ ordered'[j]
          /\ \A k \in Jobs \ {j} :
               job'[k] = job[k] /\ forced'[k] = forced[k] /\ ordered'[k] = ordered[k]
      BY <1>1, <2>1, <2>2, <2>3
    <2>5. RowsOK' /\ Limited'
      BY <2>2, <2>4 DEF RowsOK, Limited
    <2>6. Claiming'
      BY <2>2, <2>4 DEF Claiming, OpenClaim
    <2>7. Counted'
      <3>1. job[j].attempts = runs[j] + lost[j] /\ job[j].attempts <= Budget(j)
        BY DEF Counted
      <3>2. Budget(j)' = Budget(j) + 1 /\ Budget(j) \in Nat
        BY <2>3, <2>4 DEF Budget, Most
      <3> QED BY <2>1, <2>2, <2>4, <3>1, <3>2 DEF Counted, Waits, Budget
    <2>8. Rested'
      BY <2>2, <2>4 DEF Rested, Rests, Waits
    <2> QED BY <2>5, <2>6, <2>7, <2>8
  <1> QED BY <1>5, <1>6, <1>7, <1>9, <1>10 DEF EndRun

\* Time keeps what is known of the rows.
LEMMA TickRows ==
  ASSUME PacingAssumption, TypeOK, RowsInv, Tick
  PROVE  RowsInv'
  <1> USE DEF RowsInv
  <1>1. /\ job \in [Jobs -> JobRow] /\ rest \in [Jobs -> 0..Second] /\ Second \in Nat \ {0}
        /\ UNCHANGED <<queue, claim, runs, lost, forced, ordered, ops, faults>>
    BY DEF RowsOK, PacingAssumption, Tick
  <1>2. ASSUME NEW j \in Jobs
        PROVE  /\ job'[j] \in JobRow /\ rest'[j] \in 0..Second
               /\ job'[j].status = job[j].status /\ job'[j].attempts = job[j].attempts
               /\ job'[j].wait = (IF job[j].wait = 0 THEN 0 ELSE job[j].wait - 1)
               /\ rest'[j] = Least(Second, rest[j] + 1)
               /\ job[j].wait \in Nat
    <2> DEFINE left == IF job[j].wait = 0 THEN 0 ELSE job[j].wait - 1
    <2>1. job[j] \in JobRow /\ job[j].wait \in Nat /\ left \in Nat
      BY <1>1 DEF JobRow
    <2>2. job'[j] = [job[j] EXCEPT !.wait = left] /\ rest'[j] = Least(Second, rest[j] + 1)
      BY DEF Tick
    <2>3. rest'[j] \in 0..Second
      BY <1>1, <2>2 DEF Least
    <2>4. /\ [job[j] EXCEPT !.wait = left] \in JobRow
          /\ [job[j] EXCEPT !.wait = left].status = job[j].status
          /\ [job[j] EXCEPT !.wait = left].attempts = job[j].attempts
          /\ [job[j] EXCEPT !.wait = left].wait = left
      <3> HIDE DEF left
      <3> QED BY <2>1 DEF JobRow
    <2> QED BY <2>1, <2>2, <2>3, <2>4
  <1>3. job' \in [Jobs -> JobRow] /\ rest' \in [Jobs -> 0..Second]
    <2>1. job' = [j \in Jobs |-> job'[j]] /\ rest' = [j \in Jobs |-> rest'[j]]
      BY DEF Tick
    <2> QED BY <1>2, <2>1
  <1>4. RowsOK' /\ Limited'
    BY <1>1, <1>3 DEF RowsOK, Limited
  <1>5. Claiming'
    BY <1>1, <1>2 DEF Claiming, OpenClaim
  <1>6. Counted'
    BY <1>1, <1>2 DEF Counted, Waits, Budget
  <1>7. Rested'
    <2> SUFFICES ASSUME NEW j \in Jobs, job[j].wait + rest[j] >= Second
                 PROVE  job'[j].wait + rest'[j] >= Second
      BY <1>1, <1>2 DEF Rested, Rests, Waits
    <2> QED BY <1>1, <1>2 DEF Least
  <1> QED BY <1>4, <1>5, <1>6, <1>7

\* Every step keeps the invariant.
LEMMA PacingNext == PacingAssumption /\ PacingInv /\ [Next]_vars => PacingInv'
  <1> SUFFICES ASSUME PacingAssumption, PacingInv, [Next]_vars PROVE PacingInv'
    OBVIOUS
  <1>1. TypeOK /\ Limited /\ Paced /\ RowsInv
    BY TypeParts DEF PacingInv, RowsInv
  <1>2. BucketsOK' /\ Paced'
    BY <1>1, BucketsStep
  <1>3. RowsInv'
    <2>1. CASE UpdateQueue
      <3>1. queue' \in NewQueues
        BY <1>1, <2>1 DEF RowsInv, RowsOK, NewQueues, UpdateQueue
      <3>2. ops' \in 0..MaxOps
        BY <1>1, <2>1 DEF RowsInv, RowsOK, UpdateQueue, PacingAssumption
      <3>3. UNCHANGED <<job, claim, runs, rest, lost, forced, ordered, faults>>
        BY <2>1 DEF UpdateQueue
      <3> QED BY <1>1, <3>1, <3>2, <3>3
             DEF RowsInv, RowsOK, Limited, Claiming, Counted, Rested, Waits, Rests, Budget
    <2>2. CASE UNCHANGED vars
      BY <1>1, <2>2 DEF vars, RowsInv, RowsOK, Limited, Claiming, Counted, Rested, Waits, Rests, Budget
    <2> QED BY <1>1, <2>1, <2>2, ClaimSteps, RunSteps, TickRows DEF Next
  <1>4. TypeOK'
    <2>1. (TypeOK <=> BucketsOK /\ RowsOK)'
      BY TypeParts, PTL
    <2> QED BY <1>2, <1>3, <2>1 DEF RowsInv
  <1> QED BY <1>2, <1>3, <1>4 DEF PacingInv, RowsInv

-----------------------------------------------------------------------------
(* Theorems.                                                               *)

\* The inductive invariant holds in every state.
THEOREM PacingInvariant == PacingAssumption /\ Spec => []PacingInv
  <1> SUFFICES ASSUME PacingAssumption PROVE Spec => []PacingInv
    OBVIOUS
  <1>1. Init => PacingInv
    BY PacingInit
  <1>2. PacingInv /\ [Next]_vars => PacingInv'
    BY PacingNext
  <1> QED BY <1>1, <1>2, PTL DEF Spec

\* The rows, the buckets and their histories hold what the code can put there, and a
\* bucket never more than a second's worth of tokens (rate_limiter.py:10-24).
THEOREM PacingTypeCorrect == PacingAssumption /\ Spec => []TypeOK
  <1>1. PacingInv => TypeOK
    BY DEF PacingInv
  <1> QED BY <1>1, PacingInvariant, PTL

\* For any number of processes and jobs, any rates and any polling, a bucket gives at
\* most rate * w tokens within w seconds on top of a full bucket (rate_limiter.py:17-29).
THEOREM TokensWithinWindow == PacingAssumption /\ Spec => []WindowBounded
  <1> SUFFICES ASSUME PacingAssumption PROVE Spec => []WindowBounded
    OBVIOUS
  <1>1. PacingInv => WindowBounded
    <2> SUFFICES ASSUME PacingInv, NEW p \in Processes, NEW w \in 0..Window
                 PROVE  recent[p][w] * Second <= bucket[p].rate * Second + bucket[p].rate * w
      BY DEF WindowBounded
    <2>1. /\ bucket[p] \in Bucket /\ recent[p] \in [0..Window -> Nat]
          /\ bucket[p].tokens <= Second * bucket[p].rate /\ PacedBy(bucket[p], recent[p])
          /\ Second \in Nat \ {0} /\ Window \in Nat
      BY DEF PacingInv, TypeOK, Paced, PacingAssumption
    <2> DEFINE given == recent[p][w] * Second
               refill == Refill(bucket[p])
    <2>2. given + refill <= bucket[p].rate * Second + bucket[p].rate * w
      BY <2>1, AskPaced
    <2>3. refill \in Nat
      BY <2>1, RefillBounds
    <2>4. given \in Nat
      BY <2>1
    <2>5. bucket[p].rate * Second + bucket[p].rate * w \in Nat
      <3>1. bucket[p].rate \in Nat /\ w \in Nat
        BY <2>1 DEF Bucket
      <3>2. bucket[p].rate * Second \in Nat /\ bucket[p].rate * w \in Nat
        BY <2>1, <3>1, Products
      <3> QED BY <3>2
    <2>6. given <= bucket[p].rate * Second + bucket[p].rate * w
      <3> HIDE DEF given, refill
      <3> QED BY <2>2, <2>3, <2>4, <2>5
    <2> QED BY <2>6
  <1> QED BY <1>1, PacingInvariant, PTL

\* A claim that is refused or rolled back costs no attempt, one whose answer is lost costs
\* one, and no job is claimed more often than its retries and an operator's allow
\* (claimer.py:152-161, runner.py:191).
THEOREM StartsAreAttempts == PacingAssumption /\ Spec => []AttemptsAreRuns
  <1>1. PacingInv => AttemptsAreRuns
    BY DEF PacingInv, Counted, Budget, AttemptsAreRuns
  <1> QED BY <1>1, PacingInvariant, PTL

\* A failed job rests for a second before it is started again, under any policy and
\* any change of it and whatever claims of it are lost, unless an operator orders it
\* (retry.py:64, promoter.py:47, reaper.py:69).
THEOREM FailedJobsRest == PacingAssumption /\ Spec => BackoffHolds
  <1> SUFFICES ASSUME PacingAssumption PROVE Spec => BackoffHolds
    OBVIOUS
  <1>1. PacingInv /\ [Next]_vars =>
          [\A j \in Jobs : runs'[j] # runs[j] /\ runs[j] > 0 /\ ~ordered[j] => rest[j] = Second]_vars
    <2> SUFFICES ASSUME PacingInv, [Next]_vars, NEW j \in Jobs, runs'[j] # runs[j], runs[j] > 0,
                        ~ordered[j]
                 PROVE  rest[j] = Second
      OBVIOUS
    <2>1. PICK p \in Processes : CommitClaim(p)
      BY DEF Next, Claims, EndRun, PickJob, Granted, Refused, ReplyLost, ClaimLost, Restart,
             Succeed, Fail, Promote, Reclaim, OperatorRetries, UpdateQueue, Tick, vars
    <2>2. claim \in OpenClaim /\ claim.job \in Jobs
      BY <2>1, AskingClaim DEF CommitClaim, PacingInv
    <2>3. runs \in [Jobs -> Nat] /\ job \in [Jobs -> JobRow] /\ rest[j] \in 0..Second /\ Second \in Nat
      BY DEF PacingInv, TypeOK, PacingAssumption
    <2>4. claim.job = j
      BY <2>1, <2>2, <2>3 DEF CommitClaim
    <2>5. job[j].status = "queued" /\ job[j].wait = 0
      BY <2>2, <2>4 DEF PacingInv, Claiming
    <2>6. job[j].wait + rest[j] >= Second
      BY <2>5 DEF PacingInv, Rested, Rests, Waits
    <2> QED BY <2>3, <2>5, <2>6
  <1> QED BY <1>1, PacingInvariant, PTL DEF Spec, BackoffHolds
=============================================================================
