---------------------------- MODULE LiveFeedProofs ----------------------------
(***************************************************************************)
(* The safety invariants of LiveFeed for any number of tabs, sockets and   *)
(* broadcasts: types, who is in the list of connections, how many feeds a  *)
(* tab has, and how many connections a broadcast may leave out.            *)
(*                                                                         *)
(* The last needs two things: a count of what a broadcast has already been *)
(* pushed past (Walks), which its steps and every removal keep, and what a *)
(* removal does to the list (Skipped), from an induction over the list.    *)
(***************************************************************************)
EXTENDS LiveFeed, FiniteSetTheorems, WellFoundedInduction, TLAPS

-----------------------------------------------------------------------------
(* Induction over numbers, with a set in the place of a predicate.         *)

\* A set of numbers that is not empty has a least element.
LEMMA LeastElement ==
  ASSUME NEW T \in SUBSET Nat, T # {}
  PROVE  \E n \in T : \A k \in T : n <= k
  <1> DEFINE I == {0..n : n \in T}
             R == StrictSubsetOrdering(Nat)
  <1>1. I \subseteq FiniteSubsetsOf(Nat) /\ I # {}
    <2>1. ASSUME NEW n \in Nat
          PROVE  0..n \in FiniteSubsetsOf(Nat)
      BY FS_Interval DEF FiniteSubsetsOf
    <2> QED BY <2>1
  <1>2. PICK x \in I : \A y \in I : <<y, x>> \notin R
    <2>1. IsWellFoundedOn(R, FiniteSubsetsOf(Nat))
      BY FS_StrictSubsetOrderingWellFounded
    <2> HIDE DEF I, R
    <2> QED BY <1>1, <2>1, WFMin
  <1>3. PICK n \in T : x = 0..n
    BY <1>2
  <1>4. ASSUME NEW k \in T, k < n
        PROVE  FALSE
    <2>1. 0..k \in I /\ 0..k \in SUBSET Nat /\ 0..n \in SUBSET Nat
      BY <1>4
    <2>2. 0..k \subseteq 0..n /\ 0..k # 0..n
      <3>1. n \in 0..n /\ n \notin 0..k
        BY <1>4
      <3> QED BY <1>4, <3>1
    <2>3. <<0..k, 0..n>> \in R
      BY <2>1, <2>2 DEF StrictSubsetOrdering
    <2> QED BY <1>2, <1>3, <2>1, <2>3
  <1> QED BY <1>4

\* A set that has 0 and every successor up to n has all numbers up to n.
LEMMA UpTo ==
  ASSUME NEW T, NEW n \in Nat, 0 \in T, \A i \in 0..n : i \in T /\ i < n => i + 1 \in T
  PROVE  0..n \subseteq T
  <1> DEFINE M == (0..n) \ T
  <1> SUFFICES ASSUME M # {} PROVE FALSE
    OBVIOUS
  <1>1. PICK k \in M : \A i \in M : k <= i
    <2>1. M \in SUBSET Nat
      OBVIOUS
    <2> HIDE DEF M
    <2> QED BY <2>1, LeastElement
  <1>2. k - 1 \in 0..n /\ k - 1 < n /\ k - 1 \notin M
    BY <1>1
  <1> QED BY <1>1, <1>2

-----------------------------------------------------------------------------
(* The list without some of its elements.                                  *)

\* One step of the function in Kept, and the equation the function satisfies.
Step(q, D, f, i) ==
  IF i = 0 THEN <<>> ELSE IF q[i] \in D THEN f[i - 1] ELSE Append(f[i - 1], q[i])
Solves(q, D, n, f) == f = [i \in 0..n |-> Step(q, D, f, i)]

\* The function of the definition exists: it satisfies its own equation.
LEMMA KeptSolves ==
  ASSUME NEW S, NEW q \in Seq(S), NEW D
  PROVE  Solves(q, D, Len(q), Kept(q, D))
  <1> DEFINE T == {n \in Nat : \E f : Solves(q, D, n, f)}
  <1>1. 0 \in T
    <2>1. Solves(q, D, 0, [i \in 0..0 |-> <<>>])
      BY DEF Solves, Step
    <2> QED BY <2>1
  <1>2. ASSUME NEW n \in Nat, n \in T
        PROVE  n + 1 \in T
    <2>1. PICK f : Solves(q, D, n, f)
      BY <1>2
    <2> DEFINE g == [i \in 0..(n + 1) |-> IF i = n + 1 THEN Step(q, D, f, n + 1) ELSE f[i]]
    <2>2. \A i \in 0..n : f[i] = Step(q, D, f, i)
      BY <2>1 DEF Solves
    <2>3. ASSUME NEW i \in 0..(n + 1)
          PROVE  g[i] = Step(q, D, g, i)
      <3>1. i = 0 \/ i - 1 \in 0..n
        OBVIOUS
      <3>2. i = n + 1 \/ i \in 0..n
        OBVIOUS
      <3>3. \A k \in 0..n : g[k] = f[k]
        OBVIOUS
      <3> QED BY <2>2, <3>1, <3>2, <3>3 DEF Step
    <2>4. Solves(q, D, n + 1, g)
      <3> DEFINE h == [i \in 0..(n + 1) |-> Step(q, D, g, i)]
      <3>1. \A i \in 0..(n + 1) : g[i] = h[i]
        BY <2>3
      <3> QED BY <3>1 DEF Solves
    <2> QED BY <2>4
  <1>3. Len(q) \in T
    <2> HIDE DEF T
    <2>1. 0..Len(q) \subseteq T
      BY <1>1, <1>2, UpTo
    <2> QED BY <2>1
  <1>4. PICK f : Solves(q, D, Len(q), f)
    BY <1>3
  <1> QED BY <1>4 DEF Kept, Solves, Step

Distinct(q) == \A i, k \in DOMAIN q : q[i] = q[k] => i = k
After(q, a) == {q[i] : i \in a..Len(q)}

\* What the first i steps of the function keep of the list.
KeptSound(S, q, D, i) ==
  LET r == Kept(q, D)[i] IN
  /\ r \in Seq(S) /\ Len(r) <= i
  /\ ToSet(r) = {q[k] : k \in 1..i} \ D
  /\ \A j \in 1..Len(r) : \E k \in j..i : r[j] = q[k]
  /\ Distinct(r)

\* One more step of the function keeps what KeptSound says of it.
LEMMA KeptStep ==
  ASSUME NEW S, NEW q \in Seq(S), NEW D, Distinct(q),
         NEW i \in 0..Len(q), i < Len(q), KeptSound(S, q, D, i)
  PROVE  KeptSound(S, q, D, i + 1)
  <1> DEFINE r == Kept(q, D)[i]
             n == Kept(q, D)[i + 1]
             x == q[i + 1]
  <1>1. n = IF x \in D THEN r ELSE Append(r, x)
    <2>1. i + 1 \in 0..Len(q) /\ i + 1 # 0 /\ i + 1 - 1 = i
      OBVIOUS
    <2>2. Kept(q, D) = [k \in 0..Len(q) |-> Step(q, D, Kept(q, D), k)]
      BY KeptSolves DEF Solves
    <2>3. Kept(q, D)[i + 1] = Step(q, D, Kept(q, D), i + 1)
      BY <2>1, <2>2
    <2> QED BY <2>1, <2>3 DEF Step
  <1>2. r \in Seq(S) /\ Len(r) \in Nat /\ Len(r) <= i /\ x \in S /\ i \in Nat
    BY DEF KeptSound
  <1>3. {q[k] : k \in 1..(i + 1)} = {q[k] : k \in 1..i} \cup {x}
    <2>1. 1..(i + 1) = 1..i \cup {i + 1}
      OBVIOUS
    <2> QED BY <2>1
  <1>4. x \notin {q[k] : k \in 1..i}
    <2>1. \A k \in 1..i : k \in DOMAIN q /\ i + 1 \in DOMAIN q /\ k # i + 1
      OBVIOUS
    <2> QED BY <2>1 DEF Distinct
  <1>5. ToSet(r) = {q[k] : k \in 1..i} \ D /\ Distinct(r)
        /\ \A j \in 1..Len(r) : \E k \in j..i : r[j] = q[k]
    BY DEF KeptSound
  <1> HIDE DEF r, n, x
  <1>6. CASE x \in D
    <2>1. n = r
      BY <1>1, <1>6
    <2>2. \A j \in 1..Len(r) : \E k \in j..(i + 1) : r[j] = q[k]
      BY <1>2, <1>5
    <2>3. ToSet(r) = {q[k] : k \in 1..(i + 1)} \ D
      BY <1>3, <1>5, <1>6
    <2> QED BY <1>2, <1>5, <2>1, <2>2, <2>3 DEF KeptSound, n
  <1>7. CASE x \notin D
    <2>1. n = Append(r, x)
      BY <1>1, <1>7
    <2>2. n \in Seq(S) /\ Len(n) = Len(r) + 1 /\ n[Len(r) + 1] = x
          /\ \A j \in 1..Len(r) : n[j] = r[j]
      BY <1>2, <2>1
    <2>3. ToSet(n) = ToSet(r) \cup {x}
      <3>1. DOMAIN n = 1..(Len(r) + 1) /\ DOMAIN r = 1..Len(r)
        BY <1>2, <2>2
      <3> QED BY <1>2, <2>2, <3>1 DEF ToSet
    <2>4. ToSet(n) = {q[k] : k \in 1..(i + 1)} \ D
      BY <1>3, <1>5, <1>7, <2>3
    <2>5. ASSUME NEW j \in 1..Len(n)
          PROVE  \E k \in j..(i + 1) : n[j] = q[k]
      <3>1. CASE j = Len(r) + 1
        <4>1. i + 1 \in j..(i + 1)
          BY <1>2, <2>2, <3>1
        <4> QED BY <2>2, <3>1, <4>1 DEF x
      <3>2. CASE j # Len(r) + 1
        <4>1. j \in 1..Len(r) /\ n[j] = r[j]
          BY <1>2, <2>2, <3>2
        <4>2. PICK k \in j..i : r[j] = q[k]
          BY <1>5, <4>1
        <4> QED BY <1>2, <4>1, <4>2
      <3> QED BY <3>1, <3>2
    <2>6. Distinct(n)
      <3>1. \A j \in 1..Len(r) : r[j] # x
        <4>1. \A j \in 1..Len(r) : r[j] \in ToSet(r)
          BY <1>2 DEF ToSet
        <4> QED BY <1>4, <1>5, <4>1
      <3>2. DOMAIN n = 1..(Len(r) + 1) /\ DOMAIN r = 1..Len(r)
        BY <1>2, <2>2
      <3>3. \A j, k \in 1..Len(r) : r[j] = r[k] => j = k
        BY <1>5, <3>2 DEF Distinct
      <3>4. ASSUME NEW j \in 1..(Len(r) + 1), NEW k \in 1..(Len(r) + 1), n[j] = n[k]
            PROVE  j = k
        BY <1>2, <2>2, <3>1, <3>3, <3>4
      <3> QED BY <3>2, <3>4 DEF Distinct
    <2>7. Len(n) <= i + 1
      BY <1>2, <2>2
    <2> QED BY <2>2, <2>4, <2>5, <2>6, <2>7 DEF KeptSound, n
  <1> QED BY <1>6, <1>7

\* What is left of a list without repetitions when some of its elements are taken out.
LEMMA WithoutSound ==
  ASSUME NEW S, NEW q \in Seq(S), NEW D, Distinct(q)
  PROVE  KeptSound(S, q, D, Len(q))
  <1> DEFINE T == {i \in Nat : KeptSound(S, q, D, i)}
  <1>1. 0 \in T
    <2>1. Kept(q, D)[0] = <<>>
      <3>1. 0 \in 0..Len(q)
        OBVIOUS
      <3> QED BY <3>1, KeptSolves DEF Solves, Step
    <2>2. ToSet(<<>>) = {} /\ {q[k] : k \in 1..0} = {} /\ <<>> \in Seq(S) /\ Len(<<>>) <= 0
      BY DEF ToSet
    <2>3. Distinct(<<>>)
      BY DEF Distinct
    <2>4. \A j \in 1..Len(<<>>) : \E k \in j..0 : <<>>[j] = q[k]
      BY <2>2
    <2>5. ToSet(<<>>) = {q[k] : k \in 1..0} \ D
      BY <2>2
    <2> HIDE DEF T
    <2>6. KeptSound(S, q, D, 0)
      BY <2>1, <2>2, <2>3, <2>4, <2>5, Zenon DEF KeptSound
    <2> QED BY <2>6 DEF T
  <1>2. \A i \in 0..Len(q) : i \in T /\ i < Len(q) => i + 1 \in T
    BY KeptStep
  <1>3. Len(q) \in 0..Len(q) /\ Len(q) \in Nat
    OBVIOUS
  <1> HIDE DEF T
  <1>4. 0..Len(q) \subseteq T
    BY <1>1, <1>2, <1>3, UpTo
  <1> QED BY <1>3, <1>4 DEF T

\* A list without repetitions has, from a place on, as many elements as places.
LEMMA AfterCount ==
  ASSUME NEW S, NEW q \in Seq(S), Distinct(q), NEW a \in Nat \ {0}
  PROVE  /\ IsFiniteSet(After(q, a))
         /\ Cardinality(After(q, a)) = IF a <= Len(q) + 1 THEN Len(q) - a + 1 ELSE 0
  <1>1. IsFiniteSet(a..Len(q))
        /\ Cardinality(a..Len(q)) = IF a <= Len(q) + 1 THEN Len(q) - a + 1 ELSE 0
    <2>1. a \in Int /\ Len(q) \in Int /\ Len(q) >= 0 /\ a >= 1
      OBVIOUS
    <2>2. IsFiniteSet(a..Len(q)) /\ Cardinality(a..Len(q)) = IF a > Len(q) THEN 0 ELSE Len(q) - a + 1
      BY <2>1, FS_Interval
    <2> QED BY <2>1, <2>2
  <1> DEFINE f == [i \in a..Len(q) |-> q[i]]
  <1>2. f \in Bijection(a..Len(q), After(q, a))
    <2>1. f \in Surjection(a..Len(q), After(q, a))
      BY DEF Surjection, After
    <2>2. f \in Injection(a..Len(q), After(q, a))
      <3>1. \A i, k \in a..Len(q) : q[i] = q[k] => i = k
        <4>1. a..Len(q) \subseteq DOMAIN q
          OBVIOUS
        <4> QED BY <4>1 DEF Distinct
      <3> QED BY <2>1, <3>1 DEF Injection, Surjection, IsInjective
    <2> QED BY <2>1, <2>2 DEF Bijection
  <1> HIDE DEF f
  <1>3. ExistsBijection(a..Len(q), After(q, a))
    BY <1>2 DEF ExistsBijection
  <1> QED BY <1>1, <1>3, FS_Bijection

\* A list that grows by an element it does not have.
LEMMA AppendDistinct ==
  ASSUME NEW S, NEW q \in Seq(S), Distinct(q), NEW x \in S, x \notin ToSet(q)
  PROVE  ToSet(Append(q, x)) = ToSet(q) \cup {x} /\ Distinct(Append(q, x))
  <1> DEFINE n == Append(q, x)
  <1>1. /\ n \in Seq(S) /\ Len(n) = Len(q) + 1 /\ n[Len(q) + 1] = x
        /\ \A j \in 1..Len(q) : n[j] = q[j]
    OBVIOUS
  <1>2. DOMAIN n = 1..(Len(q) + 1) /\ DOMAIN q = 1..Len(q) /\ Len(q) \in Nat
    BY <1>1
  <1> HIDE DEF n
  <1>3. \A j \in 1..Len(q) : q[j] # x
    BY <1>2 DEF ToSet
  <1>4. ASSUME NEW j \in 1..(Len(q) + 1), NEW k \in 1..(Len(q) + 1), n[j] = n[k]
        PROVE  j = k
    <2>1. \A a, b \in 1..Len(q) : q[a] = q[b] => a = b
      BY <1>2 DEF Distinct
    <2> QED BY <1>1, <1>2, <1>3, <1>4, <2>1
  <1>5. ToSet(n) = ToSet(q) \cup {x}
    BY <1>1, <1>2 DEF ToSet
  <1>6. Distinct(n)
    BY <1>2, <1>4 DEF Distinct
  <1> QED BY <1>5, <1>6 DEF n

\* A list without repetitions has as many elements as places.
LEMMA ToSetCount ==
  ASSUME NEW S, NEW q \in Seq(S), Distinct(q)
  PROVE  IsFiniteSet(ToSet(q)) /\ Cardinality(ToSet(q)) = Len(q)
  <1>1. After(q, 1) = ToSet(q)
    BY DEF After, ToSet
  <1> QED BY <1>1, AfterCount

-----------------------------------------------------------------------------
(* The inductive invariant.                                                *)

Cast == [on: BOOLEAN, version: Nat, at: Nat, dead: SUBSET Sockets,
         start: SUBSET Sockets, sent: Seq(Sockets), left: SUBSET Sockets]

\* A broadcast is about a committed change and stands at a place of the list.
CastsSound ==
  \A c \in Casts : /\ cast[c].version <= MaxVersion
                   /\ cast[c].on => cast[c].at >= 1

\* A socket in use is some tab's, and the one a tab refers to is its own.
TabsOwn ==
  /\ \A s \in Sockets : sock[s].state # "unused" => sock[s].tab \in Tabs
  /\ \A t \in Tabs : tab[t].ref # NoSocket =>
       sock[tab[t].ref].tab = t /\ sock[tab[t].ref].state # "unused"

\* Sockets whose handler runs its loop; whose connection is gone; which were accepted.
Serving == {s \in Sockets : sock[s].state \in {"open", "dropped"}}
Gone == {s \in Sockets : sock[s].state \in {"dropped", "ended"}}
Known == {s \in Sockets : sock[s].state \notin {"unused", "accepting"}}

\* The list has every open connection once, and no broadcast purges one that is open.
Listing ==
  /\ Distinct(conns)
  /\ \A s \in Sockets : sock[s].state = "open" => s \in ToSet(conns)
  /\ ToSet(conns) \subseteq Serving
  /\ \A c \in Casts : cast[c].dead \subseteq Gone

\* The live connections of a tab.
Feeds(t) == {s \in Sockets : sock[s].tab = t /\ Live(s)}
FeedsCounted == \A t \in Tabs : IsFiniteSet(Feeds(t))

\* What a broadcast has been pushed past: on the list at its start, neither sent to nor
\* ahead of it any more.  It is never more than what left the list meanwhile.
Missed(c) == (cast[c].start \ ToSet(cast[c].sent)) \ After(conns, cast[c].at)
Walks(c) ==
  /\ IsFiniteSet(cast[c].start) /\ IsFiniteSet(cast[c].left)
  /\ cast[c].start \subseteq Known /\ cast[c].left \subseteq Known
  /\ cast[c].left \cap ToSet(conns) = {}
  /\ Cardinality(Missed(c)) <= Cardinality(cast[c].left)
Walked == \A c \in Casts : cast[c].on => Walks(c)

FeedInv ==
  /\ TypeOK /\ CastsSound /\ TabsOwn /\ Listing
  /\ FeedsCounted /\ FeedsAreLogins /\ Walked

-----------------------------------------------------------------------------
(* The types.                                                              *)

\* A tab that opens a connection takes an unused socket and leaves the others alone.
LEMMA OpensType ==
  ASSUME FeedAssumption, TypeOK, NEW t \in Tabs, NEW s, Opens(t, s)
  PROVE  /\ s \in Sockets /\ sock[s].state = "unused"
         /\ sock' \in [Sockets -> Socket]
         /\ \A x \in Sockets : sock'[x] = IF x = s THEN [tab |-> t, state |-> "accepting"] ELSE sock[x]
  <1>1. s \in Sockets /\ sock[s].state = "unused"
    BY DEF Opens, Unused
  <1>2. [tab |-> t, state |-> "accepting"] \in Socket
    BY DEF Socket
  <1> QED BY <1>1, <1>2 DEF Opens, TypeOK

\* A fetch that a tab starts keeps the type of the fetches.
LEMMA AsksType ==
  ASSUME TypeOK, NEW t \in Tabs, Asks(t)
  PROVE  fetch' \in [Tabs -> [Fetches -> Fetch]]
  <1>1. Slot(t) \in Fetches
    BY DEF Asks, Slot
  <1> DEFINE r == [fetch[t][Slot(t)] EXCEPT !.state = "asked"]
  <1>2. fetch[t][Slot(t)] \in Fetch
    BY <1>1 DEF TypeOK
  <1>3. r \in Fetch
    BY <1>2 DEF Fetch
  <1>4. fetch' = [fetch EXCEPT ![t] = [fetch[t] EXCEPT ![Slot(t)] = r]]
    BY DEF Asks
  <1> HIDE DEF r
  <1>5. [fetch[t] EXCEPT ![Slot(t)] = r] \in [Fetches -> Fetch]
    BY <1>1, <1>3 DEF TypeOK
  <1> QED BY <1>4, <1>5 DEF TypeOK

\* A connection that closes keeps its tab, and only its own handler is told.
LEMMA ClosesType ==
  ASSUME TypeOK, NEW s \in Sockets, Live(s), Closes(s)
  PROVE  /\ sock' \in [Sockets -> Socket] /\ inbox' \in [Sockets -> Nat]
         /\ \A x \in Sockets : sock'[x].tab = sock[x].tab
         /\ \A x \in Sockets : x # s => sock'[x] = sock[x]
         /\ sock'[s].state = IF sock[s].state = "open" THEN "dropped" ELSE "ended"
  <1> DEFINE r == [sock[s] EXCEPT !.state = IF sock[s].state = "open" THEN "dropped" ELSE "ended"]
  <1>1. r \in Socket /\ r.tab = sock[s].tab
        /\ r.state = IF sock[s].state = "open" THEN "dropped" ELSE "ended"
    BY DEF TypeOK, Socket
  <1>2. sock' = [sock EXCEPT ![s] = r]
    BY DEF Closes
  <1>3. sock \in [Sockets -> Socket] /\ inbox \in [Sockets -> Nat] /\ inbox' = [inbox EXCEPT ![s] = 0]
    BY DEF Closes, TypeOK
  <1> HIDE DEF r
  <1>4. /\ sock' \in [Sockets -> Socket] /\ sock'[s] = r
        /\ \A x \in Sockets : x # s => sock'[x] = sock[x]
    BY <1>1, <1>2, <1>3
  <1>5. inbox' \in [Sockets -> Nat]
    BY <1>3
  <1> QED BY <1>1, <1>4, <1>5

\* What a broadcast is told when connections leave the list.
LEMMA LosingSound ==
  ASSUME TypeOK, NEW D \in SUBSET Sockets
  PROVE  /\ Losing(D) \in [Casts -> Cast]
         /\ \A c \in Casts :
              /\ Losing(D)[c].on = cast[c].on /\ Losing(D)[c].version = cast[c].version
              /\ Losing(D)[c].at = cast[c].at /\ Losing(D)[c].dead = cast[c].dead
              /\ Losing(D)[c].start = cast[c].start /\ Losing(D)[c].sent = cast[c].sent
              /\ cast[c].on => Losing(D)[c].left = cast[c].left \cup (D \cap ToSet(conns))
  <1> SUFFICES ASSUME NEW c \in Casts
               PROVE  /\ Losing(D)[c] \in Cast
                      /\ Losing(D)[c].on = cast[c].on /\ Losing(D)[c].version = cast[c].version
                      /\ Losing(D)[c].at = cast[c].at /\ Losing(D)[c].dead = cast[c].dead
                      /\ Losing(D)[c].start = cast[c].start /\ Losing(D)[c].sent = cast[c].sent
                      /\ cast[c].on => Losing(D)[c].left = cast[c].left \cup (D \cap ToSet(conns))
    BY DEF Losing
  <1>1. cast[c] \in Cast
    BY DEF TypeOK, Cast
  <1>2. cast[c].left \cup (D \cap ToSet(conns)) \in SUBSET Sockets
    BY <1>1 DEF Cast
  <1> DEFINE e == [cast[c] EXCEPT !.left = cast[c].left \cup (D \cap ToSet(conns))]
  <1>3. Losing(D)[c] = IF cast[c].on THEN e ELSE cast[c]
    BY DEF Losing
  <1>4. e \in Cast
    BY <1>1, <1>2, Zenon DEF Cast
  <1>5. /\ e.on = cast[c].on /\ e.version = cast[c].version /\ e.at = cast[c].at
        /\ e.dead = cast[c].dead /\ e.start = cast[c].start /\ e.sent = cast[c].sent
        /\ e.left = cast[c].left \cup (D \cap ToSet(conns))
    BY <1>1 DEF Cast
  <1> HIDE DEF e
  <1> QED BY <1>1, <1>3, <1>4, <1>5

\* A broadcast that sends leaves the list alone and is done with one connection.
LEMMA SendSound ==
  ASSUME TypeOK, CastsSound, NEW c \in Casts, Send(c)
  PROVE  /\ cast[c].on /\ cast[c].at \in 1..Len(conns) /\ conns' = conns /\ sock' = sock /\ version' = version
         /\ At(c) \in Sockets /\ At(c) \in ToSet(conns)
         /\ cast' \in [Casts -> Cast]
         /\ \A d \in Casts : d # c => cast'[d] = cast[d]
         /\ cast'[c].on = cast[c].on /\ cast'[c].version = cast[c].version
         /\ cast'[c].at = cast[c].at + 1 /\ cast'[c].start = cast[c].start
         /\ cast'[c].sent = Append(cast[c].sent, At(c)) /\ cast'[c].left = cast[c].left
         /\ cast'[c].dead \subseteq cast[c].dead \cup ({At(c)} \cap {s \in Sockets : sock[s].state # "open"})
  <1>1. cast[c].on /\ cast[c].at \in 1..Len(conns)
    <2>1. cast[c].on /\ cast[c].at <= Len(conns)
      BY DEF Send
    <2>2. cast[c].at \in Nat /\ Len(conns) \in Nat
      BY DEF TypeOK
    <2> QED BY <2>1, <2>2 DEF CastsSound
  <1>2. At(c) \in Sockets /\ At(c) \in ToSet(conns)
    BY <1>1 DEF At, ToSet, TypeOK
  <1>3. conns' = conns /\ sock' = sock /\ version' = version
    BY DEF Send, ConnsAfter
  <1> DEFINE E(d) == [cast[c] EXCEPT !.at = cast[c].at + 1, !.sent = Append(cast[c].sent, At(c)), !.dead = d]
  <1>4. cast[c] \in Cast /\ cast \in [Casts -> Cast]
    BY DEF TypeOK, Cast
  <1>5. ASSUME NEW d \in SUBSET Sockets
        PROVE  /\ E(d) \in Cast
               /\ E(d).on = cast[c].on /\ E(d).version = cast[c].version /\ E(d).dead = d
               /\ E(d).at = cast[c].at + 1 /\ E(d).start = cast[c].start
               /\ E(d).sent = Append(cast[c].sent, At(c)) /\ E(d).left = cast[c].left
    <2>1. cast[c].at + 1 \in Nat /\ Append(cast[c].sent, At(c)) \in Seq(Sockets)
      BY <1>2, <1>4 DEF Cast
    <2>2. E(d) \in Cast
      BY <1>4, <2>1, Zenon DEF Cast
    <2> QED BY <1>4, <2>2 DEF Cast
  <1>6. PICK d \in SUBSET Sockets :
          /\ d \subseteq cast[c].dead \cup ({At(c)} \cap {s \in Sockets : sock[s].state # "open"})
          /\ cast' = [cast EXCEPT ![c] = E(d)]
    <2>1. cast[c].dead \in SUBSET Sockets
      BY <1>4 DEF Cast
    <2>2. CASE sock[At(c)].state = "open"
      <3>1. cast' = [cast EXCEPT ![c] = [cast[c] EXCEPT !.at = cast[c].at + 1,
                                                        !.sent = Append(cast[c].sent, At(c))]]
        BY <2>2 DEF Send
      <3>2. [cast[c] EXCEPT !.at = cast[c].at + 1, !.sent = Append(cast[c].sent, At(c))] = E(cast[c].dead)
        BY <1>4 DEF Cast
      <3> QED BY <2>1, <3>1, <3>2
    <2>3. CASE sock[At(c)].state # "open"
      <3>1. PICK raises \in BOOLEAN :
              cast' = [cast EXCEPT ![c] = E(IF raises THEN cast[c].dead \cup {At(c)} ELSE cast[c].dead)]
        BY <2>3 DEF Send
      <3> HIDE DEF E
      <3>2. CASE raises
        <4>1. cast' = [cast EXCEPT ![c] = E(cast[c].dead \cup {At(c)})]
          BY <3>1, <3>2
        <4> QED BY <1>2, <2>1, <2>3, <4>1
      <3>3. CASE ~raises
        <4>1. cast' = [cast EXCEPT ![c] = E(cast[c].dead)]
          BY <3>1, <3>3
        <4> QED BY <2>1, <4>1
      <3> QED BY <3>2, <3>3
    <2> QED BY <2>2, <2>3
  <1> HIDE DEF E
  <1> QED BY <1>1, <1>2, <1>3, <1>4, <1>5, <1>6

\* The list without some of its connections.
LEMMA WithoutType ==
  ASSUME TypeOK, Listing, NEW D
  PROVE  /\ Without(conns, D) \in Seq(Sockets) /\ Distinct(Without(conns, D))
         /\ ToSet(Without(conns, D)) = ToSet(conns) \ D
         /\ \A a \in Nat \ {0} : After(Without(conns, D), a) \subseteq After(conns, a)
  <1>1. conns \in Seq(Sockets) /\ Distinct(conns)
    BY DEF TypeOK, Listing
  <1>2. KeptSound(Sockets, conns, D, Len(conns))
    BY <1>1, WithoutSound
  <1> DEFINE r == Without(conns, D)
  <1>3. /\ r \in Seq(Sockets) /\ Len(r) <= Len(conns) /\ Distinct(r)
        /\ ToSet(r) = {conns[k] : k \in 1..Len(conns)} \ D
        /\ \A j \in 1..Len(r) : \E k \in j..Len(conns) : r[j] = conns[k]
    BY <1>2, Zenon DEF KeptSound, Without
  <1> HIDE DEF r
  <1>4. ToSet(conns) = {conns[k] : k \in 1..Len(conns)}
    BY <1>1 DEF ToSet
  <1>5. ASSUME NEW a \in Nat \ {0}
        PROVE  After(r, a) \subseteq After(conns, a)
    <2> SUFFICES ASSUME NEW j \in a..Len(r) PROVE r[j] \in After(conns, a)
      BY DEF After
    <2>1. j \in 1..Len(r)
      BY <1>3
    <2>2. PICK k \in j..Len(conns) : r[j] = conns[k]
      BY <1>3, <2>1
    <2>3. k \in a..Len(conns)
      BY <1>1, <1>3, <2>1, <2>2
    <2> QED BY <2>2, <2>3 DEF After
  <1> QED BY <1>3, <1>4, <1>5 DEF r

\* The initial state has the types, and no broadcast is under way.
LEMMA TypeInit ==
  ASSUME FeedAssumption, Init
  PROVE  TypeOK /\ CastsSound
  <1>1. NoCast \in Cast /\ ~NoCast.on /\ NoCast.version = 0
    BY DEF NoCast, Cast
  <1>2. cast \in [Casts -> Cast] /\ CastsSound
    BY <1>1 DEF Init, CastsSound, FeedAssumption
  <1>3. [tab |-> NoTab, state |-> "unused"] \in Socket
    BY DEF Socket
  <1>4. NoFetch \in Fetch
    BY DEF NoFetch, Fetch, FeedAssumption
  <1>5. version \in 0..MaxVersion /\ conns \in Seq(Sockets) /\ inbox \in [Sockets -> Nat]
        /\ owed \in [Tabs -> 0..MaxVersion]
    BY DEF Init, FeedAssumption
  <1>6. sock \in [Sockets -> Socket]
    BY <1>3 DEF Init
  <1>7. fetch \in [Tabs -> [Fetches -> Fetch]]
    BY <1>4 DEF Init
  <1>8. tab \in [Tabs -> [in: BOOLEAN, logins: 0..MaxLogins, ref: Sockets \cup {NoSocket}, timers: Nat]]
    BY DEF Init, FeedAssumption
  <1> QED BY <1>2, <1>5, <1>6, <1>7, <1>8, Zenon DEF TypeOK, Cast

TabRec == [in: BOOLEAN, logins: 0..MaxLogins, ref: Sockets \cup {NoSocket}, timers: Nat]

\* A login is counted, and the tab refers to its new connection.
LEMMA LoginTab ==
  ASSUME FeedAssumption, TypeOK, NEW t \in Tabs, NEW s, Login(t, s)
  PROVE  /\ tab' \in [Tabs -> TabRec] /\ \A u \in Tabs : u # t => tab'[u] = tab[u]
         /\ tab'[t].logins = tab[t].logins + 1 /\ tab'[t].timers = tab[t].timers /\ tab'[t].ref = s
  <1> DEFINE r == [tab[t] EXCEPT !.in = TRUE, !.logins = tab[t].logins + 1, !.ref = s]
  <1>1. s \in Sockets
    BY DEF Login, Opens, Unused
  <1>2. tab[t] \in TabRec /\ tab \in [Tabs -> TabRec]
    BY DEF TypeOK, TabRec
  <1>3. tab[t].logins + 1 \in 0..MaxLogins
    BY <1>2 DEF TabRec, Login, FeedAssumption
  <1>4. r \in TabRec
    BY <1>1, <1>2, <1>3, Zenon DEF TabRec
  <1>5. r.logins = tab[t].logins + 1 /\ r.timers = tab[t].timers /\ r.ref = s
    BY <1>2 DEF TabRec
  <1>6. tab' = [tab EXCEPT ![t] = r]
    BY DEF Login
  <1> HIDE DEF r
  <1> QED BY <1>2, <1>4, <1>5, <1>6

\* A reconnection spends a timer, and the tab refers to its new connection.
LEMMA ReconnectTab ==
  ASSUME FeedAssumption, TypeOK, NEW t \in Tabs, NEW s, Reconnect(t, s)
  PROVE  /\ tab' \in [Tabs -> TabRec] /\ \A u \in Tabs : u # t => tab'[u] = tab[u]
         /\ tab'[t].logins = tab[t].logins /\ tab'[t].timers = tab[t].timers - 1 /\ tab'[t].ref = s
  <1> DEFINE r == [tab[t] EXCEPT !.timers = tab[t].timers - 1, !.ref = s]
  <1>1. s \in Sockets
    BY DEF Reconnect, Opens, Unused
  <1>2. tab[t] \in TabRec /\ tab \in [Tabs -> TabRec]
    BY DEF TypeOK, TabRec
  <1>3. tab[t].timers - 1 \in Nat
    BY <1>2 DEF TabRec, Reconnect
  <1>4. r \in TabRec
    BY <1>1, <1>2, <1>3, Zenon DEF TabRec
  <1>5. r.logins = tab[t].logins /\ r.timers = tab[t].timers - 1 /\ r.ref = s
    BY <1>2 DEF TabRec
  <1>6. tab' = [tab EXCEPT ![t] = r]
    BY DEF Reconnect
  <1> HIDE DEF r
  <1> QED BY <1>2, <1>4, <1>5, <1>6

\* A logout: with a live socket it is a close, without one the feeds stay.
LEMMA LogoutTab ==
  ASSUME FeedAssumption, TypeOK, NEW t \in Tabs, Logout(t)
  PROVE  /\ tab' \in [Tabs -> TabRec] /\ \A u \in Tabs : u # t => tab'[u] = tab[u]
         /\ tab'[t].logins = tab[t].logins /\ tab'[t].ref = tab[t].ref
         /\ \/ /\ tab[t].ref # NoSocket /\ tab[t].ref \in Sockets /\ Live(tab[t].ref)
               /\ Closes(tab[t].ref) /\ tab'[t].timers = tab[t].timers + 1
            \/ sock' = sock /\ inbox' = inbox /\ tab'[t].timers = tab[t].timers
  <1>1. tab[t] \in TabRec /\ tab \in [Tabs -> TabRec]
    BY DEF TypeOK, TabRec
  <1>2. CASE tab[t].ref # NoSocket /\ Live(tab[t].ref)
    <2> DEFINE r == [tab[t] EXCEPT !.in = FALSE, !.timers = tab[t].timers + 1]
    <2>1. tab' = [tab EXCEPT ![t] = r] /\ Closes(tab[t].ref)
      BY <1>2 DEF Logout, Closed
    <2>2. tab[t].timers + 1 \in Nat
      BY <1>1 DEF TabRec
    <2>3. r \in TabRec
      BY <1>1, <2>2, Zenon DEF TabRec
    <2>4. r.logins = tab[t].logins /\ r.timers = tab[t].timers + 1 /\ r.ref = tab[t].ref
      BY <1>1 DEF TabRec
    <2>5. tab[t].ref \in Sockets
      BY <1>1, <1>2 DEF TabRec
    <2> HIDE DEF r
    <2> QED BY <1>1, <1>2, <2>1, <2>3, <2>4, <2>5
  <1>3. CASE ~(tab[t].ref # NoSocket /\ Live(tab[t].ref))
    <2> DEFINE r == [tab[t] EXCEPT !.in = FALSE]
    <2>1. tab' = [tab EXCEPT ![t] = r] /\ sock' = sock /\ inbox' = inbox
      BY <1>3 DEF Logout
    <2>2. r \in TabRec /\ r.logins = tab[t].logins /\ r.timers = tab[t].timers /\ r.ref = tab[t].ref
      BY <1>1 DEF TabRec
    <2> HIDE DEF r
    <2> QED BY <1>1, <2>1, <2>2
  <1> QED BY <1>2, <1>3

\* A connection that breaks sets a timer of its tab.
LEMMA DropTab ==
  ASSUME FeedAssumption, TypeOK, TabsOwn, NEW s \in Sockets, Drop(s)
  PROVE  LET t == sock[s].tab IN
         /\ t \in Tabs /\ Live(s) /\ Closes(s)
         /\ tab' \in [Tabs -> TabRec] /\ \A u \in Tabs : u # t => tab'[u] = tab[u]
         /\ tab'[t].logins = tab[t].logins /\ tab'[t].ref = tab[t].ref
         /\ tab'[t].timers = tab[t].timers + 1
  <1> DEFINE t == sock[s].tab
             r == [tab[t] EXCEPT !.timers = tab[t].timers + 1]
  <1>1. t \in Tabs /\ Live(s) /\ Closes(s)
    BY DEF Drop, Live, TabsOwn
  <1>2. tab[t] \in TabRec /\ tab \in [Tabs -> TabRec]
    BY <1>1 DEF TypeOK, TabRec
  <1>3. r \in TabRec /\ r.logins = tab[t].logins /\ r.ref = tab[t].ref
        /\ r.timers = tab[t].timers + 1
    BY <1>2 DEF TabRec
  <1>4. tab' = [tab EXCEPT ![t] = r]
    BY DEF Drop, Closed
  <1> HIDE DEF t, r
  <1>5. /\ tab' \in [Tabs -> TabRec] /\ \A u \in Tabs : u # t => tab'[u] = tab[u]
        /\ tab'[t].logins = tab[t].logins /\ tab'[t].ref = tab[t].ref
        /\ tab'[t].timers = tab[t].timers + 1
    BY <1>1, <1>2, <1>3, <1>4
  <1> QED BY <1>1, <1>5 DEF t

\* A request commits, and its broadcast starts at the head of the list.
LEMMA BroadcastCast ==
  ASSUME FeedAssumption, TypeOK, CastsSound, NEW c \in Casts, Broadcast(c)
  PROVE  /\ cast' \in [Casts -> Cast] /\ \A d \in Casts : d # c => cast'[d] = cast[d]
         /\ version' = version + 1 /\ version + 1 \in 0..MaxVersion /\ conns' = conns /\ sock' = sock
         /\ ~cast[c].on
         /\ \/ cast'[c] = cast[c]
            \/ /\ cast'[c].on /\ cast'[c].version = version + 1 /\ cast'[c].at = 1
               /\ cast'[c].start = ToSet(conns) /\ cast'[c].sent = <<>>
               /\ cast'[c].left = {} /\ cast'[c].dead = {}
  <1> DEFINE r == [NoCast EXCEPT !.on = TRUE, !.version = version + 1, !.at = 1, !.start = ToSet(conns)]
  <1>1. version + 1 \in 0..MaxVersion /\ version + 1 \in Nat
    BY DEF Broadcast, TypeOK, FeedAssumption
  <1>2. cast \in [Casts -> Cast]
    BY DEF TypeOK, Cast
  <1>3. ToSet(conns) \in SUBSET Sockets
    BY DEF TypeOK, ToSet
  <1>4. NoCast \in Cast
    BY DEF NoCast, Cast
  <1>5. r \in Cast
    BY <1>1, <1>3, <1>4, Zenon DEF Cast
  <1>6. /\ r.on /\ r.version = version + 1 /\ r.at = 1 /\ r.start = ToSet(conns)
        /\ r.sent = <<>> /\ r.left = {} /\ r.dead = {}
    BY DEF NoCast
  <1>7. cast' = (IF conns = <<>> THEN cast ELSE [cast EXCEPT ![c] = r]) /\ ~cast[c].on
        /\ version' = version + 1 /\ conns' = conns /\ sock' = sock
    BY DEF Broadcast
  <1> HIDE DEF r
  <1>8. CASE conns = <<>>
    BY <1>1, <1>2, <1>7, <1>8
  <1>9. CASE conns # <<>>
    BY <1>1, <1>2, <1>5, <1>6, <1>7, <1>9
  <1> QED BY <1>8, <1>9

\* A broadcast that ends purges its dead connections from the list.
LEMMA EndBroadcastCast ==
  ASSUME TypeOK, NEW c \in Casts, EndBroadcast(c)
  PROVE  /\ cast[c].dead \in SUBSET Sockets /\ cast' \in [Casts -> Cast] /\ cast'[c] = NoCast
         /\ \A d \in Casts : d # c => cast'[d] = Losing(cast[c].dead)[d]
         /\ conns' = Without(conns, cast[c].dead) /\ sock' = sock /\ version' = version
  <1>1. cast[c].dead \in SUBSET Sockets
    BY DEF TypeOK
  <1>2. Losing(cast[c].dead) \in [Casts -> Cast]
    BY <1>1, LosingSound
  <1>3. cast' = [Losing(cast[c].dead) EXCEPT ![c] = NoCast]
        /\ conns' = Without(conns, cast[c].dead) /\ sock' = sock /\ version' = version
    BY DEF EndBroadcast
  <1>4. NoCast \in Cast
    BY DEF NoCast, Cast
  <1> QED BY <1>1, <1>2, <1>3, <1>4

\* Every step keeps the types, and the version and the position of every broadcast.
LEMMA TypeNext ==
  ASSUME FeedAssumption, TypeOK, CastsSound, TabsOwn, Listing, [Next]_vars
  PROVE  TypeOK' /\ CastsSound'
  <1> DEFINE V == version' \in 0..MaxVersion
             C == conns' \in Seq(Sockets)
             S == sock' \in [Sockets -> Socket]
             I == inbox' \in [Sockets -> Nat]
             K == cast' \in [Casts -> Cast]
             T == tab' \in [Tabs -> TabRec]
             F == fetch' \in [Tabs -> [Fetches -> Fetch]]
             O == owed' \in [Tabs -> 0..MaxVersion]
  <1>1. /\ version' = version => V
        /\ conns' = conns => C
        /\ sock' = sock => S
        /\ inbox' = inbox => I
        /\ cast' = cast => K
        /\ tab' = tab => T
        /\ fetch' = fetch => F
        /\ owed' = owed => O
    BY DEF TypeOK, Cast, TabRec
  <1>2. V /\ C /\ S /\ I /\ K /\ T /\ F /\ O => TypeOK'
    BY DEF TypeOK, Cast, TabRec
  <1>3. version' = version /\ cast' = cast => CastsSound'
    BY DEF CastsSound
  <1> HIDE DEF V, C, S, I, K, T, F, O
  <1>4. ASSUME NEW t \in Tabs, NEW s, Login(t, s)
        PROVE  TypeOK' /\ CastsSound'
    <2>1. S /\ F /\ T
      BY <1>4, OpensType, AsksType, LoginTab DEF Login, S, F, T
    <2> QED BY <1>1, <1>2, <1>3, <1>4, <2>1 DEF Login
  <1>5. ASSUME NEW t \in Tabs, Logout(t)
        PROVE  TypeOK' /\ CastsSound'
    <2>1. T /\ S /\ I
      BY <1>1, <1>5, LogoutTab, ClosesType DEF T, S, I
    <2>2. O
      BY <1>5 DEF Logout, O, TypeOK, FeedAssumption
    <2> QED BY <1>1, <1>2, <1>3, <1>5, <2>1, <2>2 DEF Logout
  <1>6. ASSUME NEW t \in Tabs, NEW s, Reconnect(t, s)
        PROVE  TypeOK' /\ CastsSound'
    <2>1. S /\ T
      BY <1>6, OpensType, ReconnectTab DEF Reconnect, S, T
    <2> QED BY <1>1, <1>2, <1>3, <1>6, <2>1 DEF Reconnect
  <1>7. ASSUME NEW s \in Sockets, Drop(s)
        PROVE  TypeOK' /\ CastsSound'
    <2>1. T /\ S /\ I
      BY <1>7, DropTab, ClosesType DEF T, S, I
    <2> QED BY <1>1, <1>2, <1>3, <1>7, <2>1 DEF Drop
  <1>8. ASSUME NEW s \in Sockets, Accept(s)
        PROVE  TypeOK' /\ CastsSound'
    <2>1. C
      BY <1>8 DEF Accept, Joined, C, TypeOK
    <2>2. I
      BY <1>8 DEF Accept, Greeted, I, TypeOK
    <2>3. S
      <3>1. [sock[s] EXCEPT !.state = "open"] \in Socket
        <4>1. sock[s] \in Socket
          BY DEF TypeOK
        <4> QED BY <4>1 DEF Socket
      <3> QED BY <1>8, <3>1 DEF Accept, S, TypeOK
    <2> QED BY <1>1, <1>2, <1>3, <1>8, <2>1, <2>2, <2>3 DEF Accept, browser
  <1>9. ASSUME NEW s \in Sockets, EndHandler(s)
        PROVE  TypeOK' /\ CastsSound'
    <2>1. C
      BY <1>9, WithoutType DEF EndHandler, Disconnected, C
    <2>2. S
      <3>1. [sock[s] EXCEPT !.state = "ended"] \in Socket
        <4>1. sock[s] \in Socket
          BY DEF TypeOK
        <4> QED BY <4>1 DEF Socket
      <3> QED BY <1>9, <3>1 DEF EndHandler, S, TypeOK
    <2>3. {s} \in SUBSET Sockets /\ cast' = Losing({s}) /\ version' = version
      BY <1>9 DEF EndHandler
    <2>4. K /\ CastsSound'
      BY <2>3, LosingSound DEF K, CastsSound
    <2> QED BY <1>1, <1>2, <1>9, <2>1, <2>2, <2>4 DEF EndHandler, browser
  <1>10. ASSUME NEW s \in Sockets, Receive(s)
         PROVE  TypeOK' /\ CastsSound'
    <2>1. sock[s].tab \in Tabs
      BY <1>10 DEF Receive, TabsOwn
    <2>2. F
      BY <1>1, <1>10, <2>1, AsksType DEF Receive, F
    <2>3. I
      BY <1>10 DEF Receive, I, TypeOK
    <2> QED BY <1>1, <1>2, <1>3, <1>10, <2>2, <2>3 DEF Receive
  <1>11. ASSUME NEW t \in Tabs, NEW f \in Fetches, Read(t, f) \/ Show(t, f) \/ FetchFails(t, f)
         PROVE  TypeOK' /\ CastsSound'
    <2>1. PICK r \in Fetch : fetch' = [fetch EXCEPT ![t] = [fetch[t] EXCEPT ![f] = r]]
      <3>1. NoFetch \in Fetch
        BY DEF NoFetch, Fetch, FeedAssumption
      <3>2. [state |-> "answered", version |-> version] \in Fetch
        BY DEF Fetch, TypeOK
      <3> QED BY <1>11, <3>1, <3>2 DEF Read, Show, FetchFails
    <2>2. F
      <3>1. [fetch[t] EXCEPT ![f] = r] \in [Fetches -> Fetch]
        BY DEF TypeOK
      <3> QED BY <2>1, <3>1 DEF F, TypeOK
    <2>3. O
      <3>1. 0 \in 0..MaxVersion /\ owed[t] \in 0..MaxVersion
        BY DEF TypeOK, FeedAssumption
      <3>2. owed' = owed \/ \E v \in 0..MaxVersion : owed' = [owed EXCEPT ![t] = v]
        BY <1>11, <3>1 DEF Read, Show, FetchFails
      <3> QED BY <3>2 DEF O, TypeOK
    <2> QED BY <1>1, <1>2, <1>3, <1>11, <2>2, <2>3 DEF Read, Show, FetchFails, server
  <1>12. ASSUME NEW c \in Casts, Broadcast(c)
         PROVE  TypeOK' /\ CastsSound'
    <2>1. K /\ V
      BY <1>12, BroadcastCast DEF K, V
    <2>2. CastsSound'
      <3>1. \A d \in Casts : cast[d].version <= MaxVersion /\ (cast[d].on => cast[d].at >= 1)
        BY DEF CastsSound
      <3>2. version + 1 <= MaxVersion
        BY <1>12, BroadcastCast DEF FeedAssumption
      <3> QED BY <1>12, <3>1, <3>2, BroadcastCast DEF CastsSound
    <2> QED BY <1>1, <1>2, <1>12, <2>1, <2>2 DEF Broadcast, browser
  <1>13. ASSUME NEW c \in Casts, Send(c)
         PROVE  TypeOK' /\ CastsSound'
    <2>1. K
      BY <1>13, SendSound DEF K
    <2>2. CastsSound'
      <3>1. \A d \in Casts : /\ cast[d].version <= MaxVersion /\ (cast[d].on => cast[d].at >= 1)
                            /\ cast[d].at \in Nat
        BY DEF CastsSound, TypeOK
      <3> QED BY <1>13, <3>1, SendSound DEF CastsSound
    <2>3. I
      <3>1. inbox \in [Sockets -> Nat]
        BY DEF TypeOK
      <3>2. inbox' = inbox \/ inbox' = [inbox EXCEPT ![At(c)] = inbox[At(c)] + 1]
        BY <1>13 DEF Send
      <3>3. At(c) \in Sockets
        BY <1>13, SendSound
      <3> QED BY <3>1, <3>2, <3>3 DEF I
    <2>4. O
      <3>1. \A t \in Tabs : Owes(t, cast[c].version) \in 0..MaxVersion
        BY DEF Owes, CastsSound, TypeOK, FeedAssumption
      <3> DEFINE u == sock[At(c)].tab
      <3>2. CASE sock[At(c)].state = "open"
        <4>1. owed' = [owed EXCEPT ![u] = Owes(u, cast[c].version)]
          BY <1>13, <3>2 DEF Send
        <4>2. u \in Tabs /\ owed \in [Tabs -> 0..MaxVersion]
          BY <1>13, <3>2, SendSound DEF TabsOwn, TypeOK
        <4> HIDE DEF u
        <4> QED BY <3>1, <4>1, <4>2 DEF O
      <3>3. CASE sock[At(c)].state # "open"
        BY <1>1, <1>13, <3>3 DEF Send
      <3> QED BY <3>2, <3>3
    <2> QED BY <1>1, <1>2, <1>13, <2>1, <2>2, <2>3, <2>4, SendSound DEF Send, browser
  <1>14. ASSUME NEW c \in Casts, EndBroadcast(c)
         PROVE  TypeOK' /\ CastsSound'
    <2>1. K
      BY <1>14, EndBroadcastCast DEF K
    <2>2. C
      BY <1>14, WithoutType DEF EndBroadcast, C
    <2>3. CastsSound'
      <3>1. NoCast.version = 0 /\ ~NoCast.on
        BY DEF NoCast
      <3> QED BY <1>14, <3>1, EndBroadcastCast, LosingSound DEF CastsSound, FeedAssumption
    <2> QED BY <1>1, <1>2, <1>14, <2>1, <2>2, <2>3 DEF EndBroadcast, browser
  <1>15. CASE WorkerCommits
    <2>1. V
      BY <1>15 DEF WorkerCommits, V, TypeOK, FeedAssumption
    <2>2. CastsSound'
      BY <1>15 DEF WorkerCommits, CastsSound
    <2> QED BY <1>1, <1>2, <1>15, <2>1, <2>2 DEF WorkerCommits, browser
  <1>16. CASE UNCHANGED vars
    BY <1>1, <1>2, <1>3, <1>16 DEF vars, server, browser
  <1> QED BY <1>4, <1>5, <1>6, <1>7, <1>8, <1>9, <1>10, <1>11, <1>12, <1>13, <1>14, <1>15, <1>16
          DEF Next

-----------------------------------------------------------------------------
(* The feeds of a tab.                                                     *)

\* A handler that accepts leaves every other socket alone.
LEMMA AcceptSock ==
  ASSUME TypeOK, NEW s \in Sockets, Accept(s)
  PROVE  /\ sock[s].state = "accepting"
         /\ sock'[s].tab = sock[s].tab /\ sock'[s].state = "open"
         /\ \A x \in Sockets : x # s => sock'[x] = sock[x]
  <1>1. sock[s] \in Socket /\ sock \in [Sockets -> Socket]
    BY DEF TypeOK
  <1> DEFINE r == [sock[s] EXCEPT !.state = "open"]
  <1>2. r.tab = sock[s].tab /\ r.state = "open"
    BY <1>1 DEF Socket
  <1>3. sock' = [sock EXCEPT ![s] = r] /\ sock[s].state = "accepting"
    BY DEF Accept
  <1> HIDE DEF r
  <1> QED BY <1>1, <1>2, <1>3

\* A handler that ends leaves every other socket alone.
LEMMA EndHandlerSock ==
  ASSUME TypeOK, NEW s \in Sockets, EndHandler(s)
  PROVE  /\ sock[s].state = "dropped"
         /\ sock'[s].tab = sock[s].tab /\ sock'[s].state = "ended"
         /\ \A x \in Sockets : x # s => sock'[x] = sock[x]
  <1>1. sock[s] \in Socket /\ sock \in [Sockets -> Socket]
    BY DEF TypeOK
  <1> DEFINE r == [sock[s] EXCEPT !.state = "ended"]
  <1>2. r.tab = sock[s].tab /\ r.state = "ended"
    BY <1>1 DEF Socket
  <1>3. sock' = [sock EXCEPT ![s] = r] /\ sock[s].state = "dropped"
    BY DEF EndHandler
  <1> HIDE DEF r
  <1> QED BY <1>1, <1>2, <1>3

\* Every other action leaves the sockets and the references of the tabs alone.
LEMMA SocksKept ==
  ASSUME TypeOK, CastsSound, [Next]_vars,
         \A t \in Tabs : ~Login(t, Fresh) /\ ~Logout(t) /\ ~Reconnect(t, Fresh),
         \A s \in Sockets : ~Drop(s) /\ ~Accept(s) /\ ~EndHandler(s)
  PROVE  sock' = sock /\ tab' = tab
  <1>1. ASSUME NEW s \in Sockets, Receive(s)
        PROVE  sock' = sock /\ tab' = tab
    BY <1>1 DEF Receive
  <1>2. ASSUME NEW t \in Tabs, NEW f \in Fetches, Read(t, f) \/ Show(t, f) \/ FetchFails(t, f)
        PROVE  sock' = sock /\ tab' = tab
    BY <1>2 DEF Read, Show, FetchFails, server
  <1>3. ASSUME NEW c \in Casts, Broadcast(c) \/ Send(c) \/ EndBroadcast(c)
        PROVE  sock' = sock /\ tab' = tab
    BY <1>3 DEF Broadcast, Send, EndBroadcast, browser
  <1>4. CASE WorkerCommits
    BY <1>4 DEF WorkerCommits, browser
  <1>5. CASE UNCHANGED vars
    BY <1>5 DEF vars, server, browser
  <1> QED BY <1>1, <1>2, <1>3, <1>4, <1>5 DEF Next

\* Every step keeps sockets and tabs in agreement: a tab refers to one of its own.
LEMMA TabsNext ==
  ASSUME FeedAssumption, TypeOK, CastsSound, TabsOwn, [Next]_vars
  PROVE  TabsOwn'
  <1> DEFINE Own(s) == sock[s].state # "unused" => sock[s].tab \in Tabs
             Refs(t) == tab[t].ref # NoSocket => sock[tab[t].ref].tab = t /\ sock[tab[t].ref].state # "unused"
  <1>1. /\ \A s \in Sockets : Own(s)
        /\ \A t \in Tabs : Refs(t) /\ tab[t].ref \in Sockets \cup {NoSocket}
    BY DEF TabsOwn, TypeOK
  <1>2. ASSUME \A x \in Sockets : sock'[x].tab = sock[x].tab
                                  /\ (sock'[x].state = "unused" <=> sock[x].state = "unused"),
               \A t \in Tabs : tab'[t].ref = tab[t].ref
        PROVE  TabsOwn'
    BY <1>1, <1>2 DEF TabsOwn
  <1>3. ASSUME NEW t \in Tabs, NEW s, Login(t, s) \/ Reconnect(t, s)
        PROVE  TabsOwn'
    <2>1. Opens(t, s)
      BY <1>3 DEF Login, Reconnect
    <2>2. s \in Sockets /\ s # NoSocket /\ sock[s].state = "unused"
          /\ \A x \in Sockets : sock'[x] = IF x = s THEN [tab |-> t, state |-> "accepting"] ELSE sock[x]
      BY <2>1, OpensType DEF FeedAssumption
    <2>3. tab'[t].ref = s /\ \A u \in Tabs : u # t => tab'[u] = tab[u]
      BY <1>3, LoginTab, ReconnectTab
    <2> QED BY <1>1, <2>2, <2>3 DEF TabsOwn
  <1>4. ASSUME NEW s \in Sockets, Live(s), Closes(s), \A t \in Tabs : tab'[t].ref = tab[t].ref
        PROVE  TabsOwn'
    <2>1. \A x \in Sockets : sock'[x].tab = sock[x].tab
                             /\ (sock'[x].state = "unused" <=> sock[x].state = "unused")
      BY <1>4, ClosesType DEF Live
    <2> QED BY <1>2, <1>4, <2>1
  <1>5. ASSUME NEW t \in Tabs, Logout(t)
        PROVE  TabsOwn'
    <2>1. \A u \in Tabs : tab'[u].ref = tab[u].ref
      BY <1>5, LogoutTab
    <2>2. CASE tab[t].ref \in Sockets /\ Live(tab[t].ref) /\ Closes(tab[t].ref)
      BY <1>4, <2>1, <2>2
    <2>3. CASE sock' = sock
      BY <1>2, <2>1, <2>3
    <2> QED BY <1>5, <2>2, <2>3, LogoutTab
  <1>6. ASSUME NEW s \in Sockets, Drop(s)
        PROVE  TabsOwn'
    <2>1. Live(s) /\ Closes(s) /\ \A u \in Tabs : tab'[u].ref = tab[u].ref
      BY <1>6, DropTab
    <2> QED BY <1>4, <2>1
  <1>7. ASSUME NEW s \in Sockets, Accept(s) \/ EndHandler(s)
        PROVE  TabsOwn'
    <2>1. tab' = tab
      BY <1>7 DEF Accept, EndHandler, browser
    <2> QED BY <1>2, <1>7, <2>1, AcceptSock, EndHandlerSock
  <1> QED BY <1>2, <1>3, <1>5, <1>6, <1>7, SocksKept

\* A connection that is opened is one more feed of its tab, one that closes one less.
LEMMA FeedOpened ==
  ASSUME FeedAssumption, TypeOK, FeedsCounted, NEW t \in Tabs, NEW s, Opens(t, s), NEW u \in Tabs
  PROVE  /\ IsFiniteSet(Feeds(u)')
         /\ Cardinality(Feeds(u)') = IF u = t THEN Cardinality(Feeds(u)) + 1 ELSE Cardinality(Feeds(u))
  <1>1. s \in Sockets /\ sock[s].state = "unused"
        /\ \A x \in Sockets : sock'[x] = IF x = s THEN [tab |-> t, state |-> "accepting"] ELSE sock[x]
    BY OpensType
  <1>2. IsFiniteSet(Feeds(u))
    BY DEF FeedsCounted
  <1>3. s \notin Feeds(u)
    BY <1>1 DEF Feeds, Live
  <1>4. CASE u = t
    <2>1. Feeds(u)' = Feeds(u) \cup {s}
      BY <1>1, <1>4 DEF Feeds, Live
    <2> QED BY <1>2, <1>3, <1>4, <2>1, FS_AddElement
  <1>5. CASE u # t
    <2>1. Feeds(u)' = Feeds(u)
      BY <1>1, <1>5 DEF Feeds, Live
    <2> QED BY <1>2, <1>5, <2>1
  <1> QED BY <1>4, <1>5

\* A connection that closes is one feed of its tab less.
LEMMA FeedClosed ==
  ASSUME TypeOK, FeedsCounted, NEW s \in Sockets, Live(s), Closes(s), NEW u \in Tabs
  PROVE  /\ IsFiniteSet(Feeds(u)')
         /\ Cardinality(Feeds(u)') =
              IF u = sock[s].tab THEN Cardinality(Feeds(u)) - 1 ELSE Cardinality(Feeds(u))
  <1>1. /\ \A x \in Sockets : sock'[x].tab = sock[x].tab
        /\ \A x \in Sockets : x # s => sock'[x] = sock[x]
        /\ sock'[s].state \in {"dropped", "ended"}
    BY ClosesType
  <1>2. IsFiniteSet(Feeds(u))
    BY DEF FeedsCounted
  <1>3. Feeds(u)' = Feeds(u) \ {s}
    BY <1>1 DEF Feeds, Live
  <1>4. s \in Feeds(u) <=> u = sock[s].tab
    BY DEF Feeds
  <1> QED BY <1>2, <1>3, <1>4, FS_RemoveElement

\* Every step keeps the feeds and timers of a tab at its logins.
LEMMA FeedsNext ==
  ASSUME FeedAssumption, TypeOK, CastsSound, TabsOwn, FeedsCounted, FeedsAreLogins, [Next]_vars
  PROVE  FeedsCounted' /\ FeedsAreLogins'
  <1> DEFINE n(u) == Cardinality(Feeds(u))
  <1>1. ASSUME NEW u \in Tabs
        PROVE  /\ n(u) \in Nat /\ IsFiniteSet(Feeds(u)) /\ n(u) + tab[u].timers = tab[u].logins
               /\ tab[u].timers \in Nat /\ tab[u].logins \in Nat
    <2>1. IsFiniteSet(Feeds(u)) /\ n(u) + tab[u].timers = tab[u].logins
      BY DEF FeedsCounted, FeedsAreLogins, Feeds
    <2>2. tab[u].timers \in Nat /\ tab[u].logins \in Nat
      BY DEF TypeOK, FeedAssumption
    <2> QED BY <2>1, <2>2, FS_CardinalityType
  <1> SUFFICES ASSUME NEW u \in Tabs
               PROVE  IsFiniteSet(Feeds(u)') /\ Cardinality(Feeds(u)') + tab'[u].timers = tab'[u].logins
    BY DEF FeedsCounted, FeedsAreLogins, Feeds, Live
  <1> HIDE DEF n
  <1>2. ASSUME Feeds(u)' = Feeds(u), tab'[u].timers = tab[u].timers, tab'[u].logins = tab[u].logins
        PROVE  IsFiniteSet(Feeds(u)') /\ Cardinality(Feeds(u)') + tab'[u].timers = tab'[u].logins
    BY <1>1, <1>2 DEF n
  <1>3. ASSUME NEW t \in Tabs, NEW s, Login(t, s) \/ Reconnect(t, s)
        PROVE  IsFiniteSet(Feeds(u)') /\ Cardinality(Feeds(u)') + tab'[u].timers = tab'[u].logins
    <2>1. Opens(t, s)
      BY <1>3 DEF Login, Reconnect
    <2>2. /\ IsFiniteSet(Feeds(u)')
          /\ Cardinality(Feeds(u)') = IF u = t THEN n(u) + 1 ELSE n(u)
      BY <2>1, FeedOpened DEF n
    <2>3. \/ u # t /\ tab'[u] = tab[u]
          \/ u = t /\ tab'[u].logins = tab[u].logins + 1 /\ tab'[u].timers = tab[u].timers
          \/ u = t /\ tab'[u].logins = tab[u].logins /\ tab'[u].timers = tab[u].timers - 1
      <3>1. CASE Login(t, s)
        <4>1. /\ u # t => tab'[u] = tab[u]
              /\ tab'[t].logins = tab[t].logins + 1 /\ tab'[t].timers = tab[t].timers
          BY <3>1, LoginTab
        <4> QED BY <4>1
      <3>2. CASE Reconnect(t, s)
        <4>1. /\ u # t => tab'[u] = tab[u]
              /\ tab'[t].logins = tab[t].logins /\ tab'[t].timers = tab[t].timers - 1
          BY <3>2, ReconnectTab
        <4> QED BY <4>1
      <3> QED BY <1>3, <3>1, <3>2
    <2> DEFINE m == Cardinality(Feeds(u)')
    <2>4. m = IF u = t THEN n(u) + 1 ELSE n(u)
      BY <2>2
    <2> HIDE DEF m
    <2>5. m + tab'[u].timers = tab'[u].logins
      <3>1. /\ n(u) \in Nat /\ n(u) + tab[u].timers = tab[u].logins
            /\ tab[u].timers \in Nat /\ tab[u].logins \in Nat
        BY <1>1
      <3> QED BY <2>3, <2>4, <3>1
    <2> QED BY <2>2, <2>5 DEF m
  <1>4. ASSUME NEW s \in Sockets, Live(s), Closes(s), tab'[u].logins = tab[u].logins,
               tab'[u].timers = IF u = sock[s].tab THEN tab[u].timers + 1 ELSE tab[u].timers
        PROVE  IsFiniteSet(Feeds(u)') /\ Cardinality(Feeds(u)') + tab'[u].timers = tab'[u].logins
    <2>1. /\ IsFiniteSet(Feeds(u)')
          /\ Cardinality(Feeds(u)') = IF u = sock[s].tab THEN n(u) - 1 ELSE n(u)
      BY <1>4, FeedClosed DEF n
    <2> QED BY <1>1, <1>4, <2>1
  <1>5. ASSUME NEW t \in Tabs, Logout(t)
        PROVE  IsFiniteSet(Feeds(u)') /\ Cardinality(Feeds(u)') + tab'[u].timers = tab'[u].logins
    <2>1. tab'[u].logins = tab[u].logins /\ (u # t => tab'[u].timers = tab[u].timers)
      BY <1>5, LogoutTab
    <2>2. CASE /\ tab[t].ref # NoSocket /\ tab[t].ref \in Sockets /\ Live(tab[t].ref)
               /\ Closes(tab[t].ref) /\ tab'[t].timers = tab[t].timers + 1
      <3>1. sock[tab[t].ref].tab = t
        BY <2>2 DEF TabsOwn
      <3> QED BY <1>4, <2>1, <2>2, <3>1
    <2>3. CASE sock' = sock /\ tab'[t].timers = tab[t].timers
      <3>1. Feeds(u)' = Feeds(u)
        BY <2>3 DEF Feeds, Live
      <3> QED BY <1>2, <2>1, <2>3, <3>1
    <2> QED BY <1>5, <2>2, <2>3, LogoutTab
  <1>6. ASSUME NEW s \in Sockets, Drop(s)
        PROVE  IsFiniteSet(Feeds(u)') /\ Cardinality(Feeds(u)') + tab'[u].timers = tab'[u].logins
    BY <1>4, <1>6, DropTab
  <1>7. ASSUME NEW s \in Sockets, Accept(s) \/ EndHandler(s)
        PROVE  IsFiniteSet(Feeds(u)') /\ Cardinality(Feeds(u)') + tab'[u].timers = tab'[u].logins
    <2>1. tab' = tab
      BY <1>7 DEF Accept, EndHandler, browser
    <2>2. Feeds(u)' = Feeds(u)
      BY <1>7, AcceptSock, EndHandlerSock DEF Feeds, Live
    <2> QED BY <1>2, <2>1, <2>2
  <1>8. CASE sock' = sock /\ tab' = tab
    <2>1. Feeds(u)' = Feeds(u)
      BY <1>8 DEF Feeds, Live
    <2> QED BY <1>2, <1>8, <2>1
  <1> QED BY <1>3, <1>5, <1>6, <1>7, <1>8, SocksKept

-----------------------------------------------------------------------------
(* The list of connections.                                                *)

\* Every step keeps the list: no repetition, all open, none whose handler has ended.
LEMMA ListingNext ==
  ASSUME FeedAssumption, TypeOK, CastsSound, TabsOwn, Listing, [Next]_vars
  PROVE  Listing'
  <1>1. ASSUME \A c \in Casts : cast'[c].dead \subseteq cast[c].dead, conns' = conns,
               \A x \in Sockets : \/ sock'[x] = sock[x]
                                  \/ /\ sock[x].state \in {"unused", "accepting"}
                                     /\ sock'[x].state \in {"accepting", "ended"}
                                  \/ sock[x].state = "open" /\ sock'[x].state = "dropped"
        PROVE  Listing'
    BY <1>1 DEF Listing, Serving, Gone
  <1>2. ASSUME NEW D, conns' = Without(conns, D), \A c \in Casts : cast'[c].dead \subseteq Gone',
               \A x \in Sockets : \/ sock'[x] = sock[x] /\ (x \in D => sock[x].state # "open")
                                  \/ x \in D /\ sock'[x].state = "ended"
        PROVE  Listing'
    <2>1. Distinct(Without(conns, D)) /\ ToSet(Without(conns, D)) = ToSet(conns) \ D
      BY WithoutType
    <2>2. \A s \in Sockets : sock[s].state = "open" => s \in ToSet(conns)
      BY DEF Listing
    <2>3. ToSet(conns) \subseteq Serving
      BY DEF Listing
    <2>4. Distinct(conns') /\ ToSet(conns') = ToSet(conns) \ D
      BY <1>2, <2>1
    <2>5. \A s \in Sockets : sock'[s].state = "open" => s \in ToSet(conns')
      BY <1>2, <2>2, <2>4
    <2>6. ToSet(conns') \subseteq Serving'
      BY <1>2, <2>3, <2>4 DEF Serving
    <2> QED BY <1>2, <2>4, <2>5, <2>6 DEF Listing
  <1>3. ASSUME NEW t \in Tabs, NEW s, Login(t, s) \/ Reconnect(t, s)
        PROVE  Listing'
    <2>1. Opens(t, s) /\ conns' = conns /\ cast' = cast
      BY <1>3 DEF Login, Reconnect
    <2>2. \A x \in Sockets : \/ sock'[x] = sock[x]
                             \/ sock[x].state = "unused" /\ sock'[x].state = "accepting"
      <3>1. sock[s].state = "unused"
            /\ \A x \in Sockets : sock'[x] = IF x = s THEN [tab |-> t, state |-> "accepting"] ELSE sock[x]
        BY <2>1, OpensType
      <3> QED BY <3>1
    <2> QED BY <1>1, <2>1, <2>2
  <1>4. ASSUME NEW s \in Sockets, Live(s), Closes(s), conns' = conns, cast' = cast
        PROVE  Listing'
    <2>1. \A x \in Sockets : \/ sock'[x] = sock[x]
                             \/ sock[x].state = "accepting" /\ sock'[x].state = "ended"
                             \/ sock[x].state = "open" /\ sock'[x].state = "dropped"
      BY <1>4, ClosesType DEF Live
    <2> QED BY <1>1, <1>4, <2>1
  <1>5. ASSUME NEW t \in Tabs, Logout(t)
        PROVE  Listing'
    <2>1. conns' = conns /\ cast' = cast
      BY <1>5 DEF Logout
    <2>2. CASE tab[t].ref \in Sockets /\ Live(tab[t].ref) /\ Closes(tab[t].ref)
      BY <1>4, <2>1, <2>2
    <2>3. CASE sock' = sock
      BY <1>1, <2>1, <2>3
    <2> QED BY <1>5, <2>2, <2>3, LogoutTab
  <1>6. ASSUME NEW s \in Sockets, Drop(s)
        PROVE  Listing'
    <2>1. Live(s) /\ Closes(s) /\ conns' = conns /\ cast' = cast
      BY <1>6 DEF Drop
    <2> QED BY <1>4, <2>1
  <1>7. ASSUME NEW s \in Sockets, Accept(s)
        PROVE  Listing'
    <2>1. conns' = Append(conns, s) /\ cast' = cast
      BY <1>7 DEF Accept, Joined
    <2>2. /\ sock[s].state = "accepting" /\ sock'[s].state = "open"
          /\ \A x \in Sockets : x # s => sock'[x] = sock[x]
      BY <1>7, AcceptSock
    <2>3. s \notin ToSet(conns)
      BY <2>2 DEF Listing, Serving
    <2>4. conns \in Seq(Sockets) /\ Distinct(conns)
      BY DEF TypeOK, Listing
    <2>5. ToSet(conns') = ToSet(conns) \cup {s} /\ Distinct(conns')
      BY <2>1, <2>3, <2>4, AppendDistinct
    <2>6. \A x \in Sockets : sock'[x].state = "open" => x \in ToSet(conns')
      BY <2>2, <2>5 DEF Listing
    <2>7. ToSet(conns') \subseteq Serving'
      BY <2>2, <2>5 DEF Listing, Serving
    <2>8. \A c \in Casts : cast'[c].dead \subseteq Gone'
      BY <2>1, <2>2 DEF Listing, Gone
    <2> QED BY <2>5, <2>6, <2>7, <2>8 DEF Listing
  <1>8. ASSUME NEW s \in Sockets, EndHandler(s)
        PROVE  Listing'
    <2>1. conns' = Without(conns, {s}) /\ cast' = Losing({s}) /\ {s} \in SUBSET Sockets
      BY <1>8 DEF EndHandler, Disconnected
    <2>2. /\ sock[s].state = "dropped" /\ sock'[s].state = "ended"
          /\ \A x \in Sockets : x # s => sock'[x] = sock[x]
      BY <1>8, EndHandlerSock
    <2>3. \A c \in Casts : cast'[c].dead \subseteq Gone'
      <3>1. \A c \in Casts : cast'[c].dead \subseteq Gone
        BY <2>1, LosingSound DEF Listing
      <3>2. Gone \subseteq Gone'
        BY <2>2 DEF Gone
      <3> QED BY <3>1, <3>2
    <2>4. \A x \in Sockets : \/ sock'[x] = sock[x] /\ (x \in {s} => sock[x].state # "open")
                             \/ x \in {s} /\ sock'[x].state = "ended"
      BY <2>2
    <2> QED BY <1>2, <2>1, <2>3, <2>4
  <1>9. ASSUME NEW c \in Casts, Broadcast(c)
        PROVE  Listing'
    <2>1. /\ conns' = conns /\ sock' = sock
          /\ \A d \in Casts : cast'[d].dead \subseteq cast[d].dead
      BY <1>9, BroadcastCast
    <2> QED BY <1>1, <2>1
  <1>10. ASSUME NEW c \in Casts, Send(c)
         PROVE  Listing'
    <2>1. conns' = conns /\ sock' = sock /\ At(c) \in ToSet(conns)
          /\ \A d \in Casts : d # c => cast'[d] = cast[d]
      BY <1>10, SendSound
    <2>2. \A d \in Casts : cast'[d].dead \subseteq Gone
      <3>1. \A d \in Casts : cast[d].dead \subseteq Gone
        BY DEF Listing
      <3>2. {At(c)} \cap {s \in Sockets : sock[s].state # "open"} \subseteq Gone
        BY <2>1 DEF Listing, Serving, Gone
      <3>3. cast'[c].dead \subseteq Gone
        <4> SUFFICES ASSUME NEW x \in cast'[c].dead PROVE x \in Gone
          OBVIOUS
        <4>1. x \in cast[c].dead \/ x \in {At(c)} \cap {s \in Sockets : sock[s].state # "open"}
          BY <1>10, SendSound
        <4> QED BY <3>1, <3>2, <4>1
      <3> QED BY <2>1, <3>1, <3>3
    <2>3. Gone' = Gone /\ Serving' = Serving /\ ToSet(conns') = ToSet(conns)
      BY <2>1 DEF Gone, Serving
    <2> QED BY <2>1, <2>2, <2>3 DEF Listing
  <1>11. ASSUME NEW c \in Casts, EndBroadcast(c)
         PROVE  Listing'
    <2>1. /\ cast[c].dead \in SUBSET Sockets /\ cast'[c] = NoCast
          /\ \A d \in Casts : d # c => cast'[d] = Losing(cast[c].dead)[d]
          /\ conns' = Without(conns, cast[c].dead) /\ sock' = sock
      BY <1>11, EndBroadcastCast
    <2>2. \A d \in Casts : cast'[d].dead \subseteq Gone'
      <3>1. NoCast.dead = {}
        BY DEF NoCast
      <3>2. \A d \in Casts : d # c => cast'[d].dead = cast[d].dead
        BY <2>1, LosingSound
      <3> QED BY <2>1, <3>1, <3>2 DEF Listing, Gone
    <2>3. \A x \in cast[c].dead : sock[x].state # "open"
      BY DEF Listing, Gone
    <2> QED BY <1>2, <2>1, <2>2, <2>3
  <1>12. CASE conns' = conns /\ cast' = cast /\ sock' = sock
    BY <1>1, <1>12
  <1>13. ASSUME NEW s \in Sockets, Receive(s)
         PROVE  conns' = conns /\ cast' = cast /\ sock' = sock
    BY <1>13 DEF Receive
  <1>14. ASSUME NEW t \in Tabs, NEW f \in Fetches, Read(t, f) \/ Show(t, f) \/ FetchFails(t, f)
         PROVE  conns' = conns /\ cast' = cast /\ sock' = sock
    BY <1>14 DEF Read, Show, FetchFails, server
  <1>15. ASSUME WorkerCommits \/ UNCHANGED vars
         PROVE  conns' = conns /\ cast' = cast /\ sock' = sock
    BY <1>15 DEF WorkerCommits, vars, server
  <1> QED BY <1>3, <1>5, <1>6, <1>7, <1>8, <1>9, <1>10, <1>11, <1>12, <1>13, <1>14, <1>15 DEF Next

-----------------------------------------------------------------------------
(* What a broadcast leaves out.                                            *)

\* The cardinalities of the accounting are numbers.
LEMMA MissedCount ==
  ASSUME NEW c, Walks(c)
  PROVE  /\ IsFiniteSet(Missed(c)) /\ Cardinality(Missed(c)) \in Nat
         /\ Cardinality(cast[c].left) \in Nat
  <1>1. Missed(c) \in SUBSET cast[c].start
    BY DEF Missed
  <1>2. IsFiniteSet(Missed(c))
    BY <1>1, FS_Subset DEF Walks
  <1> QED BY <1>2, FS_CardinalityType DEF Walks

\* A connection that leaves the list pushes at most one other past a broadcast.
LEMMA Skipped ==
  ASSUME TypeOK, Listing, NEW D, NEW a \in Nat \ {0}
  PROVE  LET gap == After(conns, a) \ After(Without(conns, D), a)
         IN  /\ IsFiniteSet(gap) /\ IsFiniteSet(D \cap ToSet(conns))
             /\ Cardinality(gap) <= Cardinality(D \cap ToSet(conns))
  <1> DEFINE q == conns
             r == Without(conns, D)
             U == After(q, a)
             V == After(r, a)
             X == D \cap ToSet(q)
  <1>1. /\ q \in Seq(Sockets) /\ Distinct(q) /\ r \in Seq(Sockets) /\ Distinct(r)
        /\ V \subseteq U /\ ToSet(r) = ToSet(q) \ D
    BY WithoutType DEF TypeOK, Listing
  <1>2. Len(q) \in Nat /\ Len(r) \in Nat
    BY <1>1
  <1>3. IsFiniteSet(U) /\ Cardinality(U) = IF a <= Len(q) + 1 THEN Len(q) - a + 1 ELSE 0
    BY <1>1, AfterCount
  <1>4. IsFiniteSet(V) /\ Cardinality(V) = IF a <= Len(r) + 1 THEN Len(r) - a + 1 ELSE 0
    BY <1>1, AfterCount
  <1>5. IsFiniteSet(ToSet(q)) /\ Cardinality(ToSet(q)) = Len(q)
    BY <1>1, ToSetCount
  <1>6. Cardinality(ToSet(r)) = Len(r)
    BY <1>1, ToSetCount
  <1>7. IsFiniteSet(X) /\ Cardinality(X) = Len(q) - Len(r)
    <2>1. X \in SUBSET ToSet(q) /\ ToSet(q) \ D = ToSet(q) \ X /\ ToSet(q) \cap X = X
      OBVIOUS
    <2>2. IsFiniteSet(X) /\ Cardinality(X) \in Nat
      BY <1>5, <2>1, FS_Subset, FS_CardinalityType
    <2>3. Cardinality(ToSet(q) \ X) = Cardinality(ToSet(q)) - Cardinality(ToSet(q) \cap X)
      BY <1>5, FS_Difference
    <2>4. Cardinality(ToSet(q) \ X) = Len(r)
      BY <1>1, <1>6, <2>1
    <2> HIDE DEF q, r, X
    <2>5. Cardinality(ToSet(q) \cap X) = Cardinality(X)
      BY <2>1
    <2>6. Len(r) = Len(q) - Cardinality(X)
      BY <1>5, <2>3, <2>4, <2>5
    <2> QED BY <1>2, <2>2, <2>6
  <1>8. IsFiniteSet(U \ V) /\ Cardinality(U \ V) = Cardinality(U) - Cardinality(V)
    <2>1. U \cap V = V
      BY <1>1
    <2> HIDE DEF U, V
    <2>2. IsFiniteSet(U \ V) /\ Cardinality(U \ V) = Cardinality(U) - Cardinality(U \cap V)
      BY <1>3, FS_Difference
    <2> QED BY <2>1, <2>2
  <1> HIDE DEF q, r, U, V, X
  <1>9. Len(r) <= Len(q)
    <2>1. Cardinality(X) \in Nat
      BY <1>7, FS_CardinalityType
    <2> QED BY <1>2, <1>7, <2>1
  <1>10. Cardinality(U \ V) <= Cardinality(X)
    BY <1>2, <1>3, <1>4, <1>7, <1>8, <1>9
  <1> QED BY <1>7, <1>8, <1>10 DEF q, r, U, V, X

\* A broadcast whose list loses connections while it walks.
LEMMA WalksLosing ==
  ASSUME TypeOK, CastsSound, Listing, NEW c \in Casts, cast[c].on, Walks(c), NEW D \in SUBSET Sockets,
         cast'[c] = Losing(D)[c], conns' = Without(conns, D), Known \subseteq Known'
  PROVE  Walks(c)'
  <1> DEFINE a == cast[c].at
             X == D \cap ToSet(conns)
             L == cast[c].left
             gap == After(conns, a) \ After(Without(conns, D), a)
  <1>1. /\ cast'[c].at = a /\ cast'[c].start = cast[c].start /\ cast'[c].sent = cast[c].sent
        /\ cast'[c].left = L \cup X
    BY LosingSound
  <1>2. a \in Nat \ {0}
    BY DEF CastsSound, TypeOK
  <1>3. IsFiniteSet(gap) /\ IsFiniteSet(X) /\ Cardinality(gap) <= Cardinality(X)
    BY <1>2, Skipped
  <1>4. /\ IsFiniteSet(cast[c].start) /\ IsFiniteSet(L)
        /\ cast[c].start \subseteq Known /\ L \subseteq Known
        /\ L \cap ToSet(conns) = {} /\ Cardinality(Missed(c)) <= Cardinality(L)
    BY DEF Walks
  <1>5. IsFiniteSet(Missed(c)) /\ Cardinality(Missed(c)) \in Nat /\ Cardinality(L) \in Nat
    BY MissedCount
  <1>6. Cardinality(gap) \in Nat /\ Cardinality(X) \in Nat
    BY <1>3, FS_CardinalityType
  <1>7. IsFiniteSet(L \cup X) /\ Cardinality(L \cup X) = Cardinality(L) + Cardinality(X)
    <2>1. L \cap X = {}
      BY <1>4
    <2>2. IsFiniteSet(L \cup X)
          /\ Cardinality(L \cup X) = Cardinality(L) + Cardinality(X) - Cardinality(L \cap X)
      BY <1>3, <1>4, FS_Union
    <2> HIDE DEF L, X
    <2>3. Cardinality(L \cap X) = 0
      BY <2>1, FS_EmptySet
    <2> QED BY <1>5, <1>6, <2>2, <2>3
  <1>8. Missed(c)' \in SUBSET (Missed(c) \cup gap)
    <2>1. Missed(c)' = (cast'[c].start \ ToSet(cast'[c].sent)) \ After(conns', cast'[c].at)
      BY DEF Missed
    <2>2. Missed(c)' = (cast[c].start \ ToSet(cast[c].sent)) \ After(Without(conns, D), a)
      BY <1>1, <2>1
    <2> QED BY <2>2 DEF Missed
  <1>9. Cardinality(Missed(c)') <= Cardinality(Missed(c)) + Cardinality(gap)
    <2>1. IsFiniteSet(Missed(c) \cup gap)
          /\ Cardinality(Missed(c) \cup gap)
             = Cardinality(Missed(c)) + Cardinality(gap) - Cardinality(Missed(c) \cap gap)
      BY <1>3, <1>5, FS_Union
    <2>2. Cardinality(Missed(c) \cap gap) \in Nat
      <3>1. Missed(c) \cap gap \in SUBSET Missed(c)
        OBVIOUS
      <3> HIDE DEF gap
      <3> QED BY <1>5, <3>1, FS_Subset, FS_CardinalityType
    <2>3. Cardinality(Missed(c)') <= Cardinality(Missed(c) \cup gap)
          /\ Cardinality(Missed(c)') \in Nat
      BY <1>8, <2>1, FS_Subset, FS_CardinalityType
    <2> HIDE DEF gap
    <2> QED BY <1>5, <1>6, <2>1, <2>2, <2>3
  <1>10. Cardinality(Missed(c)') \in Nat
    <2>1. IsFiniteSet(Missed(c) \cup gap)
      BY <1>3, <1>5, FS_Union
    <2> HIDE DEF gap
    <2> QED BY <1>8, <2>1, FS_Subset, FS_CardinalityType
  <1> HIDE DEF gap
  <1>11. Cardinality(Missed(c)') <= Cardinality(L \cup X)
    <2> HIDE DEF L, X
    <2> QED BY <1>3, <1>4, <1>5, <1>6, <1>7, <1>9, <1>10
  <1>12. (L \cup X) \subseteq Known' /\ (L \cup X) \cap ToSet(conns') = {}
    <2>1. ToSet(Without(conns, D)) = ToSet(conns) \ D
      BY WithoutType
    <2>2. X \subseteq Known
      BY DEF Listing, Serving, Known
    <2> QED BY <1>4, <2>1, <2>2
  <1> QED BY <1>1, <1>4, <1>7, <1>11, <1>12 DEF Walks

\* A broadcast the step leaves alone, whose list and connections in use only grow.
LEMMA WalksKept ==
  ASSUME TypeOK, CastsSound, NEW c \in Casts, Walks(c), cast'[c] = cast[c], Known \subseteq Known',
         conns' = conns
  PROVE  Walks(c)'
  <1>1. Missed(c)' = Missed(c)
    BY DEF Missed, After
  <1> QED BY <1>1 DEF Walks

\* A connection that joins is ahead of every broadcast and was in none of them before.
LEMMA WalksJoined ==
  ASSUME TypeOK, CastsSound, Listing, NEW c \in Casts, cast[c].on, Walks(c), cast'[c] = cast[c],
         Known \subseteq Known', NEW s \in Sockets, s \notin Known, s \notin ToSet(conns),
         conns' = Append(conns, s)
  PROVE  Walks(c)'
  <1>1. conns \in Seq(Sockets) /\ Distinct(conns)
    BY DEF TypeOK, Listing
  <1>2. /\ conns' \in Seq(Sockets) /\ Len(conns') = Len(conns) + 1
        /\ \A j \in 1..Len(conns) : conns'[j] = conns[j]
    BY <1>1
  <1>3. cast[c].at \in Nat \ {0} /\ Len(conns) \in Nat
    BY <1>1 DEF CastsSound, TypeOK
  <1>4. After(conns, cast[c].at) \subseteq After(conns', cast[c].at)
    BY <1>2, <1>3 DEF After
  <1>5. Missed(c)' \in SUBSET Missed(c)
    <2>1. Missed(c)' = (cast'[c].start \ ToSet(cast'[c].sent)) \ After(conns', cast'[c].at)
      BY DEF Missed
    <2>2. Missed(c)' = (cast[c].start \ ToSet(cast[c].sent)) \ After(conns', cast[c].at)
      BY <2>1
    <2> QED BY <1>4, <2>2 DEF Missed
  <1>6. Cardinality(Missed(c)') <= Cardinality(cast[c].left)
    <2>1. /\ IsFiniteSet(Missed(c)) /\ Cardinality(Missed(c)) \in Nat
          /\ Cardinality(cast[c].left) \in Nat
      BY MissedCount
    <2>2. /\ Cardinality(Missed(c)') <= Cardinality(Missed(c))
          /\ Cardinality(Missed(c)') \in Nat
      BY <1>5, <2>1, FS_Subset, FS_CardinalityType
    <2> QED BY <2>1, <2>2 DEF Walks
  <1>7. cast[c].left \cap ToSet(conns') = {}
    <2>1. ToSet(conns') = ToSet(conns) \cup {s}
      BY <1>1, AppendDistinct
    <2> QED BY <2>1 DEF Walks
  <1> QED BY <1>6, <1>7 DEF Walks

\* A broadcast that sends: what was ahead of it is sent.
LEMMA WalksSend ==
  ASSUME TypeOK, CastsSound, NEW c \in Casts, Send(c), Walks(c), Known \subseteq Known'
  PROVE  Walks(c)'
  <1>1. /\ cast[c].at \in 1..Len(conns) /\ conns' = conns
        /\ cast'[c].at = cast[c].at + 1 /\ cast'[c].start = cast[c].start
        /\ cast'[c].sent = Append(cast[c].sent, At(c)) /\ cast'[c].left = cast[c].left
        /\ At(c) \in Sockets
    BY SendSound
  <1>2. ToSet(cast'[c].sent) = ToSet(cast[c].sent) \cup {At(c)}
    <2> DEFINE q == cast[c].sent
               n == Append(q, At(c))
    <2>1. q \in Seq(Sockets)
      BY DEF TypeOK
    <2>2. n[Len(q) + 1] = At(c) /\ \A j \in 1..Len(q) : n[j] = q[j]
      BY <1>1, <2>1
    <2>3. DOMAIN n = 1..(Len(q) + 1) /\ DOMAIN q = 1..Len(q) /\ Len(q) \in Nat
      BY <1>1, <2>1
    <2> HIDE DEF q, n
    <2>4. ToSet(n) = ToSet(q) \cup {At(c)}
      BY <2>2, <2>3 DEF ToSet
    <2> QED BY <1>1, <2>4 DEF q, n
  <1>3. After(conns, cast[c].at) = After(conns, cast[c].at + 1) \cup {At(c)}
    <2>1. cast[c].at..Len(conns) = ((cast[c].at + 1)..Len(conns)) \cup {cast[c].at}
      BY <1>1
    <2> QED BY <2>1 DEF After, At
  <1>4. Missed(c)' = Missed(c)
    <2>1. Missed(c)' = (cast'[c].start \ ToSet(cast'[c].sent)) \ After(conns', cast'[c].at)
      BY DEF Missed
    <2>2. Missed(c)' = (cast[c].start \ (ToSet(cast[c].sent) \cup {At(c)})) \ After(conns, cast[c].at + 1)
      BY <1>1, <1>2, <2>1
    <2> QED BY <1>3, <2>2 DEF Missed
  <1> QED BY <1>1, <1>4 DEF Walks

\* A broadcast that begins has the whole list ahead of it.
LEMMA WalksBegin ==
  ASSUME TypeOK, Listing, NEW c \in Casts, cast'[c].start = ToSet(conns), cast'[c].left = {},
         cast'[c].at = 1, cast'[c].sent = <<>>, conns' = conns, Known \subseteq Known'
  PROVE  Walks(c)'
  <1>1. conns \in Seq(Sockets) /\ Distinct(conns) /\ ToSet(conns) \subseteq Serving
    BY DEF TypeOK, Listing
  <1>2. After(conns, 1) = ToSet(conns)
    BY <1>1 DEF After, ToSet
  <1>3. Missed(c)' = {}
    <2>1. Missed(c)' = (cast'[c].start \ ToSet(cast'[c].sent)) \ After(conns', cast'[c].at)
      BY DEF Missed
    <2> QED BY <1>2, <2>1
  <1>4. IsFiniteSet(ToSet(conns)) /\ IsFiniteSet({}) /\ Cardinality({}) = 0
    BY <1>1, ToSetCount, FS_EmptySet
  <1>5. ToSet(conns) \subseteq Known
    BY <1>1 DEF Serving, Known
  <1> QED BY <1>3, <1>4, <1>5 DEF Walks

\* Every step keeps the accounting of every broadcast.
LEMMA WalkedNext ==
  ASSUME FeedAssumption, TypeOK, CastsSound, TabsOwn, Listing, Walked, [Next]_vars
  PROVE  Walked'
  <1>1. \A c \in Casts : cast[c].on => Walks(c)
    BY DEF Walked
  <1>2. ASSUME cast' = cast, conns' = conns, Known \subseteq Known'
        PROVE  Walked'
    BY <1>1, <1>2, WalksKept DEF Walked
  <1>3. ASSUME NEW t \in Tabs, NEW s, Login(t, s) \/ Reconnect(t, s)
        PROVE  Walked'
    <2>1. Opens(t, s) /\ conns' = conns /\ cast' = cast
      BY <1>3 DEF Login, Reconnect
    <2>2. sock[s].state = "unused" /\ \A x \in Sockets : x # s => sock'[x] = sock[x]
      BY <2>1, OpensType
    <2>3. Known \subseteq Known'
      BY <2>2 DEF Known
    <2> QED BY <1>2, <2>1, <2>3
  <1>4. ASSUME NEW s \in Sockets, Live(s), Closes(s)
        PROVE  Known \subseteq Known'
    <2>1. sock'[s].state \in {"dropped", "ended"} /\ \A x \in Sockets : x # s => sock'[x] = sock[x]
      BY <1>4, ClosesType
    <2> QED BY <2>1 DEF Known
  <1>5. ASSUME NEW t \in Tabs, Logout(t)
        PROVE  Walked'
    <2>1. conns' = conns /\ cast' = cast
      BY <1>5 DEF Logout
    <2>2. CASE tab[t].ref \in Sockets /\ Live(tab[t].ref) /\ Closes(tab[t].ref)
      BY <1>2, <1>4, <2>1, <2>2
    <2>3. CASE sock' = sock
      <3>1. Known' = Known
        BY <2>3 DEF Known
      <3> QED BY <1>2, <2>1, <3>1
    <2> QED BY <1>5, <2>2, <2>3, LogoutTab
  <1>6. ASSUME NEW s \in Sockets, Drop(s)
        PROVE  Walked'
    <2>1. Live(s) /\ Closes(s) /\ conns' = conns /\ cast' = cast
      BY <1>6 DEF Drop
    <2> QED BY <1>2, <1>4, <2>1
  <1>7. ASSUME NEW s \in Sockets, Accept(s)
        PROVE  Walked'
    <2>1. conns' = Append(conns, s) /\ cast' = cast
      BY <1>7 DEF Accept, Joined
    <2>2. /\ sock[s].state = "accepting" /\ sock'[s].state = "open"
          /\ \A x \in Sockets : x # s => sock'[x] = sock[x]
      BY <1>7, AcceptSock
    <2>3. s \notin Known /\ s \notin ToSet(conns) /\ Known \subseteq Known'
      BY <2>2 DEF Listing, Serving, Known
    <2>4. ASSUME NEW c \in Casts, cast'[c].on
          PROVE  Walks(c)'
      BY <1>1, <2>1, <2>3, <2>4, WalksJoined
    <2> QED BY <2>4 DEF Walked
  <1>8. ASSUME NEW s \in Sockets, EndHandler(s)
        PROVE  Walked'
    <2>1. conns' = Without(conns, {s}) /\ cast' = Losing({s}) /\ {s} \in SUBSET Sockets
      BY <1>8 DEF EndHandler, Disconnected
    <2>2. Known \subseteq Known'
      BY <1>8, EndHandlerSock DEF Known
    <2>3. ASSUME NEW c \in Casts, cast'[c].on
          PROVE  Walks(c)'
      <3>1. cast[c].on /\ cast'[c] = Losing({s})[c]
        BY <2>1, <2>3, LosingSound
      <3> QED BY <1>1, <2>1, <2>2, <3>1, WalksLosing
    <2> QED BY <2>3 DEF Walked
  <1>9. ASSUME NEW c \in Casts, Broadcast(c)
        PROVE  Walked'
    <2>1. /\ conns' = conns /\ sock' = sock /\ ~cast[c].on
          /\ \A d \in Casts : d # c => cast'[d] = cast[d]
          /\ \/ cast'[c] = cast[c]
             \/ /\ cast'[c].at = 1 /\ cast'[c].start = ToSet(conns)
                /\ cast'[c].sent = <<>> /\ cast'[c].left = {}
      BY <1>9, BroadcastCast
    <2>2. Known' = Known
      BY <2>1 DEF Known
    <2>3. ASSUME NEW d \in Casts, cast'[d].on
          PROVE  Walks(d)'
      <3>1. CASE cast'[d] = cast[d]
        BY <1>1, <2>1, <2>2, <2>3, <3>1, WalksKept
      <3>2. CASE cast'[d] # cast[d]
        BY <2>1, <2>2, <3>2, WalksBegin
      <3> QED BY <3>1, <3>2
    <2> QED BY <2>3 DEF Walked
  <1>10. ASSUME NEW c \in Casts, Send(c)
         PROVE  Walked'
    <2>1. /\ conns' = conns /\ sock' = sock /\ cast[c].on
          /\ \A d \in Casts : d # c => cast'[d] = cast[d]
      BY <1>10, SendSound
    <2>2. Known' = Known
      BY <2>1 DEF Known
    <2>3. ASSUME NEW d \in Casts, cast'[d].on
          PROVE  Walks(d)'
      <3>1. CASE d = c
        BY <1>1, <1>10, <2>1, <2>2, <3>1, WalksSend
      <3>2. CASE d # c
        BY <1>1, <2>1, <2>2, <2>3, <3>2, WalksKept
      <3> QED BY <3>1, <3>2
    <2> QED BY <2>3 DEF Walked
  <1>11. ASSUME NEW c \in Casts, EndBroadcast(c)
         PROVE  Walked'
    <2>1. /\ cast[c].dead \in SUBSET Sockets /\ cast'[c] = NoCast
          /\ \A d \in Casts : d # c => cast'[d] = Losing(cast[c].dead)[d]
          /\ conns' = Without(conns, cast[c].dead) /\ sock' = sock
      BY <1>11, EndBroadcastCast
    <2>2. Known' = Known /\ ~NoCast.on
      BY <2>1 DEF Known, NoCast
    <2>3. ASSUME NEW d \in Casts, cast'[d].on
          PROVE  Walks(d)'
      <3>1. d # c /\ cast[d].on /\ cast'[d] = Losing(cast[c].dead)[d]
        BY <2>1, <2>2, <2>3, LosingSound
      <3> QED BY <1>1, <2>1, <2>2, <3>1, WalksLosing
    <2> QED BY <2>3 DEF Walked
  <1>12. CASE conns' = conns /\ cast' = cast /\ sock' = sock
    <2>1. Known' = Known
      BY <1>12 DEF Known
    <2> QED BY <1>2, <1>12, <2>1
  <1>13. ASSUME NEW s \in Sockets, Receive(s)
         PROVE  conns' = conns /\ cast' = cast /\ sock' = sock
    BY <1>13 DEF Receive
  <1>14. ASSUME NEW t \in Tabs, NEW f \in Fetches, Read(t, f) \/ Show(t, f) \/ FetchFails(t, f)
         PROVE  conns' = conns /\ cast' = cast /\ sock' = sock
    BY <1>14 DEF Read, Show, FetchFails, server
  <1>15. ASSUME WorkerCommits \/ UNCHANGED vars
         PROVE  conns' = conns /\ cast' = cast /\ sock' = sock
    BY <1>15 DEF WorkerCommits, vars, server
  <1> QED BY <1>3, <1>5, <1>6, <1>7, <1>8, <1>9, <1>10, <1>11, <1>12, <1>13, <1>14, <1>15 DEF Next

-----------------------------------------------------------------------------
(* The theorems.                                                           *)

\* The inductive invariant holds initially.
LEMMA InvInit ==
  ASSUME FeedAssumption, Init
  PROVE  FeedInv
  <1>1. TypeOK /\ CastsSound
    BY TypeInit
  <1>2. \A s \in Sockets : sock[s].state = "unused"
    BY DEF Init
  <1>3. TabsOwn
    BY <1>2 DEF Init, TabsOwn
  <1>4. ToSet(conns) = {} /\ Distinct(conns)
    BY DEF Init, ToSet, Distinct
  <1>5. \A c \in Casts : cast[c] = NoCast /\ NoCast.dead = {} /\ ~NoCast.on
    BY DEF Init, NoCast
  <1>6. Listing /\ Walked
    BY <1>2, <1>4, <1>5 DEF Listing, Walked
  <1>7. ASSUME NEW t \in Tabs
        PROVE  /\ IsFiniteSet(Feeds(t))
               /\ Cardinality(Feeds(t)) + tab[t].timers = tab[t].logins
    <2>1. Feeds(t) = {} /\ IsFiniteSet({}) /\ Cardinality({}) = 0
      BY <1>2, FS_EmptySet DEF Feeds, Live
    <2>2. tab[t].timers = 0 /\ tab[t].logins = 0
      BY DEF Init
    <2> QED BY <2>1, <2>2
  <1>8. FeedsCounted /\ FeedsAreLogins
    BY <1>7 DEF FeedsCounted, FeedsAreLogins, Feeds
  <1> QED BY <1>1, <1>3, <1>6, <1>8 DEF FeedInv

\* The inductive invariant is kept by every step.
LEMMA InvNext ==
  ASSUME FeedAssumption, FeedInv, [Next]_vars
  PROVE  FeedInv'
  BY TypeNext, TabsNext, ListingNext, FeedsNext, WalkedNext DEF FeedInv

\* The inductive invariant holds in every reachable state.
LEMMA FeedInvariance == Spec => []FeedInv
  <1>1. Init => FeedInv
    BY InvInit, FeedAssumption
  <1>2. FeedInv /\ [Next]_vars => FeedInv'
    BY InvNext, FeedAssumption
  <1> QED BY <1>1, <1>2, PTL DEF Spec

\* The types, for every value of the constants: a timer of a reconnection is never spent
\* twice and no version shown is newer than the table (ws_manager.py, App.jsx:53-97).
THEOREM FeedTypeCorrect == Spec => []TypeOK
  <1>1. FeedInv => TypeOK
    BY DEF FeedInv
  <1> QED BY <1>1, FeedInvariance, PTL

\* Every login leaves exactly one feed behind, live or waiting for its timer, through any
\* sequence of drops, reconnections and logouts (App.jsx:53-97).
THEOREM FeedsCountLogins == Spec => []FeedsAreLogins
  <1>1. FeedInv => FeedsAreLogins
    BY DEF FeedInv
  <1> QED BY <1>1, FeedInvariance, PTL

\* The list of connections holds every open one, none whose handler has ended, and none
\* twice, whatever broadcasts purge meanwhile (ws_manager.py:18-43, ws.py:17-34).
THEOREM ListedServed == Spec => []ListedIsServed
  <1>1. FeedInv => ListedIsServed
    <2> SUFFICES ASSUME FeedInv PROVE ListedIsServed
      OBVIOUS
    <2>1. Listing /\ conns \in Seq(Sockets)
      BY DEF FeedInv, TypeOK
    <2>2. Cardinality(ToSet(conns)) = Len(conns)
      BY <2>1, ToSetCount DEF Listing
    <2> QED BY <2>1, <2>2 DEF Listing, ListedIsServed, Listed, Serving
  <1> QED BY <1>1, FeedInvariance, PTL

\* A broadcast leaves out at most one connection for every one that left the list while it
\* walked, however many broadcasts walk and purge at once (ws_manager.py:36-43).
THEOREM BroadcastSkips == Spec => []SkipsBounded
  <1>1. FeedInv => SkipsBounded
    <2> SUFFICES ASSUME FeedInv, NEW c \in Casts, cast[c].on, cast[c].at > Len(conns)
                 PROVE  Cardinality(cast[c].start \ ToSet(cast[c].sent)) <= Cardinality(cast[c].left)
      BY DEF SkipsBounded
    <2>1. Walks(c)
      BY DEF FeedInv, Walked
    <2>2. cast[c].at \in Nat /\ Len(conns) \in Nat
      BY DEF FeedInv, TypeOK
    <2>3. After(conns, cast[c].at) = {}
      BY <2>2 DEF After
    <2>4. Missed(c) = cast[c].start \ ToSet(cast[c].sent)
      BY <2>3 DEF Missed
    <2> QED BY <2>1, <2>4 DEF Walks
  <1> QED BY <1>1, FeedInvariance, PTL
=============================================================================
