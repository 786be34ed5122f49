---------------------- MODULE IdempotentOperationProofs ----------------------
(***************************************************************************)
(* For any number of attempts and operations: what is recorded is not      *)
(* repeated, and of the attempts that commit one performed each operation  *)
(* whose func() returned.                                                  *)
(***************************************************************************)
EXTENDS IdempotentOperation, TLAPS

\* What an attempt has done, flushed and found, against the committed records.
Consistent(a) ==
  /\ attempt[a].known \subseteq records
  /\ Performed(a) \cap attempt[a].known = {}
  /\ attempt[a].fresh \cap records = {}
  /\ attempt[a].pc \notin Open => attempt[a].fresh = {}
  /\ attempt[a].pc = "unused" => attempt[a].done = {} /\ attempt[a].lost = {}
  /\ attempt[a].pc \in {"ready", "call", "finalize"} => attempt[a].done = attempt[a].fresh
  /\ attempt[a].pc = "flush" => attempt[a].done = attempt[a].fresh \cup {attempt[a].at}
  /\ attempt[a].pc \in {"call", "flush"} => attempt[a].at \in Ops \ attempt[a].known
  /\ attempt[a].pc = "committed" => attempt[a].done \subseteq records

\* No two open transactions hold the same key.
FreshApart ==
  \A a, b \in Attempts : a # b => attempt[a].fresh \cap attempt[b].fresh = {}

\* Two attempts that committed have no effect in common whose func() returned.
DoneApart ==
  \A a, b \in Attempts :
    a # b /\ attempt[a].pc = "committed" /\ attempt[b].pc = "committed"
    => attempt[a].done \cap attempt[b].done = {}

Inv ==
  /\ TypeOK
  /\ \A a \in Attempts : Consistent(a)
  /\ FreshApart
  /\ DoneApart

-----------------------------------------------------------------------------
\* Init establishes the invariant: nothing is claimed, nothing recorded.
LEMMA InitInv == Init => Inv
<1> SUFFICES ASSUME Init PROVE Inv
  OBVIOUS
<1>1. Unused \in Attempt
  BY OperationAssumption DEF Unused, Attempt, Ops
<1>2. TypeOK
  BY <1>1, OperationAssumption DEF Init, TypeOK
<1>3. \A a \in Attempts : attempt[a] = Unused
  BY DEF Init
<1>4. \A a \in Attempts : Consistent(a)
  BY <1>3 DEF Consistent, Performed, Unused, Open, Init
<1>5. FreshApart /\ DoneApart
  BY <1>3 DEF FreshApart, DoneApart, Unused
<1> QED BY <1>2, <1>4, <1>5 DEF Inv

\* A step that gives one attempt a new record and only adds records keeps the
\* invariant when that attempt stays consistent, apart and kept once.
LEMMA StepOfOne ==
  ASSUME Inv, TypeOK',
         NEW a \in Attempts, NEW r \in Attempt, Becomes(a, r),
         records \subseteq records', Consistent(a)',
         \A b \in Attempts \ {a} : attempt[b].fresh \cap records' = {},
         \A b \in Attempts \ {a} : attempt[b].fresh \cap r.fresh = {},
         r.pc = "committed" =>
           \A b \in Attempts \ {a} : attempt[b].pc = "committed"
                                     => attempt[b].done \cap r.done = {}
  PROVE  Inv'
<1>1. attempt'[a] = r /\ \A b \in Attempts \ {a} : attempt'[b] = attempt[b]
  BY DEF Inv, TypeOK, Becomes
<1>2. \A b \in Attempts : Consistent(b)'
  <2> SUFFICES ASSUME NEW b \in Attempts \ {a} PROVE Consistent(b)'
    OBVIOUS
  <2>1. Consistent(b) /\ attempt'[b] = attempt[b] /\ attempt[b].fresh \cap records' = {}
    BY <1>1 DEF Inv
  <2> QED BY <2>1 DEF Consistent, Performed
<1>3. FreshApart'
  BY <1>1 DEF Inv, FreshApart
<1>4. DoneApart'
  BY <1>1 DEF Inv, DoneApart
<1> QED BY <1>2, <1>3, <1>4 DEF Inv

\* What an attempt keeps when its transaction ends.
LEMMA EndedType ==
  ASSUME OperationAssumption, NEW a \in Attempts, attempt[a] \in Attempt,
         NEW pc \in {"committed", "aborted", "crashed"}
  PROVE  /\ Ended(a, pc) \in Attempt
         /\ Ended(a, pc).pc = pc /\ Ended(a, pc).fresh = {}
         /\ Ended(a, pc).done = attempt[a].done /\ Ended(a, pc).lost = attempt[a].lost
         /\ Ended(a, pc).known = attempt[a].known
<1>1. 1 \in 1..(LastOp + 1)
  BY DEF OperationAssumption
<1>2. Ended(a, pc) \in Attempt
  BY <1>1, Zenon DEF Attempt, Ended
<1>3. /\ Ended(a, pc).pc = pc /\ Ended(a, pc).fresh = {}
      /\ Ended(a, pc).done = attempt[a].done /\ Ended(a, pc).lost = attempt[a].lost
      /\ Ended(a, pc).known = attempt[a].known
  BY DEF Attempt, Ended
<1> QED BY <1>2, <1>3

\* Every action keeps the invariant.
LEMMA NextInv == Inv /\ [Next]_vars => Inv'
<1> SUFFICES ASSUME Inv, [Next]_vars PROVE Inv'
  OBVIOUS
<1> USE OperationAssumption
<1>0. /\ attempt \in [Attempts -> Attempt] /\ records \in SUBSET Ops
      /\ \A a \in Attempts : attempt[a] \in Attempt /\ Consistent(a)
  BY DEF Inv, TypeOK
<1>1. CASE LeaseLost
  <2>1. TypeOK'
    BY <1>1 DEF LeaseLost, Inv, TypeOK
  <2>2. attempt' = attempt /\ records' = records
    BY <1>1 DEF LeaseLost
  <2>3. \A a \in Attempts : Consistent(a)'
    BY <2>2, <1>0 DEF Consistent, Performed
  <2>4. FreshApart' /\ DoneApart'
    BY <2>2 DEF Inv, FreshApart, DoneApart
  <2> QED BY <2>1, <2>3, <2>4 DEF Inv
<1>2. ASSUME NEW a \in Attempts, Claim(a) PROVE Inv'
  <2> DEFINE r == [Unused EXCEPT !.pc = "ready", !.known = records]
  <2>1. Unused \in Attempt
    BY DEF Unused, Attempt, Ops
  <2>2. r \in Attempt
    BY <2>1, <1>0, Zenon DEF Attempt, Open
  <2>3. /\ r.pc = "ready" /\ r.fresh = {} /\ r.known = records
        /\ r.done = {} /\ r.lost = {}
    BY DEF Unused
  <2>4. Becomes(a, r) /\ records' = records
    BY <1>2 DEF Claim
  <2> HIDE DEF r
  <2>5. attempt'[a] = r
    BY <2>4, <1>0 DEF Becomes
  <2>6. TypeOK'
    BY <1>2, <2>2, <2>4, <1>0 DEF Claim, Becomes, Inv, TypeOK
  <2>7. Consistent(a)'
    BY <2>3, <2>4, <2>5 DEF Consistent, Open, Performed
  <2>8. \A b \in Attempts \ {a} : attempt[b].fresh \cap records' = {}
    BY <2>4, <1>0 DEF Consistent
  <2> QED BY <2>3, <2>2, <2>4, <2>6, <2>7, <2>8, StepOfOne
<1>3. ASSUME NEW a \in Attempts, Check(a) PROVE Inv'
  <2>1. CASE Found(a, attempt[a].at)
    <3> DEFINE r == [attempt[a] EXCEPT !.at = attempt[a].at + 1]
    <3>2. /\ r.pc = attempt[a].pc /\ r.fresh = attempt[a].fresh /\ r.done = attempt[a].done
          /\ r.known = attempt[a].known /\ r.at = attempt[a].at + 1 /\ r.lost = attempt[a].lost
      BY <1>0 DEF Attempt
    <3>3. r \in Attempt
      BY <1>0, <1>3 DEF Attempt, Check
    <3>4. Becomes(a, r) /\ records' = records
      BY <1>3, <2>1 DEF Check
    <3> HIDE DEF r
    <3>5. attempt'[a] = r
      BY <3>4, <1>0 DEF Becomes
    <3>6. TypeOK'
      BY <1>3, <3>3, <3>4, <1>0 DEF Check, Becomes, Inv, TypeOK
    <3>7. Consistent(a)'
      BY <3>2, <3>4, <3>5, <1>0, <1>3 DEF Consistent, Open, Performed, Check
    <3>8. \A b \in Attempts \ {a} : /\ attempt[b].fresh \cap records' = {}
                                    /\ attempt[b].fresh \cap r.fresh = {}
      BY <3>2, <3>4, <1>0 DEF Consistent, Inv, FreshApart
    <3> QED BY <3>2, <3>3, <3>4, <3>6, <3>7, <3>8, <1>3, StepOfOne DEF Check
  <2>2. CASE ~Found(a, attempt[a].at)
    <3> DEFINE r == [attempt[a] EXCEPT !.pc = "call"]
    <3>3. /\ r.pc = "call" /\ r.fresh = attempt[a].fresh /\ r.done = attempt[a].done
          /\ r.known = attempt[a].known /\ r.lost = attempt[a].lost
          /\ r.at = attempt[a].at
      BY <1>0 DEF Attempt
    <3>4. r \in Attempt
      BY <1>0 DEF Attempt, Open
    <3>5. Becomes(a, r) /\ records' = records
      BY <1>3, <2>2 DEF Check, At
    <3> HIDE DEF r
    <3>6. attempt'[a] = r
      BY <3>5, <1>0 DEF Becomes
    <3>7. TypeOK'
      BY <1>3, <3>4, <3>5, <1>0 DEF Check, Becomes, Inv, TypeOK
    <3>8. attempt[a].at \in Ops
      BY <1>0, <1>3 DEF Attempt, Check, Ops
    <3>9. Consistent(a)'
      BY <2>2, <3>3, <3>5, <3>6, <3>8, <1>0, <1>3 DEF Consistent, Open, Performed, Check, Found
    <3>10. \A b \in Attempts \ {a} : /\ attempt[b].fresh \cap records' = {}
                                     /\ attempt[b].fresh \cap r.fresh = {}
      BY <3>3, <3>5, <1>0 DEF Consistent, Inv, FreshApart
    <3> QED BY <3>3, <3>4, <3>5, <3>7, <3>9, <3>10, StepOfOne
  <2> QED BY <2>1, <2>2
<1>4. ASSUME NEW a \in Attempts, Call(a) PROVE Inv'
  <2> DEFINE r == [attempt[a] EXCEPT !.pc = "flush", !.done = attempt[a].done \cup {attempt[a].at}]
  <2>1. attempt[a].pc = "call" /\ Becomes(a, r) /\ records' = records
    BY <1>4 DEF Call
  <2>2. attempt[a].at \in Ops /\ attempt[a].at \notin attempt[a].known
    BY <2>1, <1>0 DEF Consistent
  <2>3. /\ r.pc = "flush" /\ r.fresh = attempt[a].fresh /\ r.known = attempt[a].known
        /\ r.at = attempt[a].at /\ r.lost = attempt[a].lost
        /\ r.done = attempt[a].done \cup {attempt[a].at}
    BY <1>0 DEF Attempt
  <2>4. r \in Attempt
    BY <1>0, <2>2, Zenon DEF Attempt, Open
  <2> HIDE DEF r
  <2>5. attempt'[a] = r
    BY <2>1, <1>0 DEF Becomes
  <2>6. TypeOK'
    BY <1>4, <2>1, <2>4, <1>0 DEF Call, Becomes, Inv, TypeOK
  <2>7. Consistent(a)'
    BY <2>1, <2>2, <2>3, <2>5, <1>0 DEF Consistent, Open, Performed
  <2>8. \A b \in Attempts \ {a} : /\ attempt[b].fresh \cap records' = {}
                                  /\ attempt[b].fresh \cap r.fresh = {}
    BY <2>1, <2>3, <1>0 DEF Consistent, Inv, FreshApart
  <2> QED BY <2>1, <2>3, <2>4, <2>6, <2>7, <2>8, StepOfOne
<1>5. ASSUME NEW a \in Attempts, Flush(a) PROVE Inv'
  <2>1. attempt[a].pc = "flush" /\ records' = records /\ attempt[a].at \in Ops
    BY <1>5, <1>0 DEF Flush, Consistent
  <2>2. CASE Conflicts(a)
    <3> DEFINE r == Ended(a, "aborted")
    <3>1. /\ r.pc = "aborted" /\ r.fresh = {} /\ r.done = attempt[a].done
          /\ r.known = attempt[a].known /\ r.lost = attempt[a].lost
      BY <1>0, EndedType
    <3>2. r \in Attempt
      BY <1>0, EndedType
    <3>3. Becomes(a, r)
      BY <1>5, <2>2 DEF Flush
    <3> HIDE DEF r
    <3>4. attempt'[a] = r
      BY <3>3, <1>0 DEF Becomes
    <3>5. TypeOK'
      BY <1>5, <3>2, <3>3, <1>0 DEF Flush, Becomes, Inv, TypeOK
    <3>6. Consistent(a)'
      BY <2>1, <3>1, <3>4, <1>0 DEF Consistent, Open, Performed
    <3>7. \A b \in Attempts \ {a} : attempt[b].fresh \cap records' = {}
      BY <2>1, <1>0 DEF Consistent
    <3> QED BY <2>1, <3>1, <3>2, <3>3, <3>5, <3>6, <3>7, StepOfOne
  <2>3. CASE ~Conflicts(a)
    <3> DEFINE r == [attempt[a] EXCEPT !.pc = "ready", !.at = attempt[a].at + 1,
                                       !.fresh = attempt[a].fresh \cup {attempt[a].at}]
    <3>1. /\ r.pc = "ready" /\ r.fresh = attempt[a].fresh \cup {attempt[a].at}
          /\ r.done = attempt[a].done /\ r.lost = attempt[a].lost
          /\ r.known = attempt[a].known /\ r.at = attempt[a].at + 1
      BY <1>0 DEF Attempt
    <3>2. attempt[a].at + 1 \in 1..(LastOp + 1)
      BY <2>1 DEF Ops
    <3>3. r \in Attempt
      BY <1>0, <2>1, <3>2, Zenon DEF Attempt, Open
    <3>4. Becomes(a, r)
      BY <1>5, <2>3 DEF Flush
    <3> HIDE DEF r
    <3>5. attempt'[a] = r
      BY <3>4, <1>0 DEF Becomes
    <3>6. TypeOK'
      BY <1>5, <3>3, <3>4, <1>0 DEF Flush, Becomes, Inv, TypeOK
    <3>7. attempt[a].at \notin records
      BY <2>3 DEF Conflicts
    <3>8. Consistent(a)'
      <4>1. r.done = r.fresh /\ r.fresh \cap records = {}
        BY <2>1, <3>1, <3>7, <1>0 DEF Consistent
      <4>2. r.known \subseteq records /\ (r.done \cup r.lost) \cap r.known = {}
        BY <3>1, <1>0 DEF Consistent, Performed
      <4> QED BY <2>1, <3>1, <3>5, <4>1, <4>2 DEF Consistent, Open, Performed
    <3>9. ASSUME NEW b \in Attempts \ {a} PROVE attempt[b].fresh \cap r.fresh = {}
      <4>1. attempt[a].at \notin attempt[b].fresh
        BY <1>5, <1>0 DEF Flush, Blocked, IsOpen, Consistent
      <4> QED BY <4>1, <3>1 DEF Inv, FreshApart
    <3>10. \A b \in Attempts \ {a} : attempt[b].fresh \cap records' = {}
      BY <2>1, <1>0 DEF Consistent
    <3> QED BY <2>1, <3>1, <3>3, <3>4, <3>6, <3>8, <3>9, <3>10, StepOfOne
  <2> QED BY <2>2, <2>3
<1>6. ASSUME NEW a \in Attempts, HandlerEnds(a) PROVE Inv'
  <2> DEFINE r == At(a, "finalize")
  <2>1. /\ r.pc = "finalize" /\ r.fresh = attempt[a].fresh /\ r.done = attempt[a].done
        /\ r.known = attempt[a].known /\ r.lost = attempt[a].lost
        /\ r.at = attempt[a].at
    BY <1>0 DEF Attempt, At
  <2>2. r \in Attempt
    BY <1>0, Zenon DEF Attempt, At, Open
  <2>3. attempt[a].pc = "ready" /\ Becomes(a, r) /\ records' = records
    BY <1>6 DEF HandlerEnds
  <2> HIDE DEF r
  <2>4. attempt'[a] = r
    BY <2>3, <1>0 DEF Becomes
  <2>5. TypeOK'
    BY <1>6, <2>2, <2>3, <1>0 DEF HandlerEnds, Becomes, Inv, TypeOK
  <2>6. Consistent(a)'
    BY <2>1, <2>3, <2>4, <1>0 DEF Consistent, Open, Performed
  <2>7. \A b \in Attempts \ {a} : /\ attempt[b].fresh \cap records' = {}
                                  /\ attempt[b].fresh \cap r.fresh = {}
    BY <2>1, <2>3, <1>0 DEF Consistent, Inv, FreshApart
  <2> QED BY <2>1, <2>2, <2>3, <2>5, <2>6, <2>7, StepOfOne
<1>7. ASSUME NEW a \in Attempts, Finalize(a) PROVE Inv'
  <2> DEFINE r == Ended(a, "committed")
  <2>1. /\ r.pc = "committed" /\ r.fresh = {} /\ r.done = attempt[a].done
        /\ r.known = attempt[a].known /\ r.lost = attempt[a].lost
    BY <1>0, EndedType
  <2>2. r \in Attempt
    BY <1>0, EndedType
  <2>3. /\ attempt[a].pc = "finalize" /\ Becomes(a, r)
        /\ records' = records \cup attempt[a].fresh
    BY <1>7 DEF Finalize, Kept
  <2> HIDE DEF r
  <2>4. attempt'[a] = r
    BY <2>3, <1>0 DEF Becomes
  <2>5. records' \in SUBSET Ops
    BY <2>3, <1>0 DEF Attempt
  <2>6. attempt' \in [Attempts -> Attempt]
    BY <2>2, <2>3, <1>0 DEF Becomes
  <2>7. TypeOK'
    BY <1>7, <2>5, <2>6 DEF Finalize, Inv, TypeOK
  <2>8. attempt[a].done = attempt[a].fresh /\ attempt[a].fresh \cap records = {}
    BY <2>3, <1>0 DEF Consistent
  <2>9. Consistent(a)'
    BY <2>1, <2>3, <2>4, <2>8, <1>0 DEF Consistent, Open, Performed
  <2>10. \A b \in Attempts \ {a} : attempt[b].fresh \cap records' = {}
    BY <2>3, <1>0 DEF Consistent, Inv, FreshApart
  <2>11. \A b \in Attempts \ {a} :
           attempt[b].pc = "committed" => attempt[b].done \cap r.done = {}
    BY <2>1, <2>8, <1>0 DEF Consistent
  <2> QED BY <2>1, <2>2, <2>3, <2>7, <2>9, <2>10, <2>11, StepOfOne
<1>8. ASSUME NEW a \in Attempts, Crash(a) PROVE Inv'
  <2> DEFINE r == Ended(a, "crashed")
  <2>1. /\ r.pc = "crashed" /\ r.fresh = {} /\ r.done = attempt[a].done
        /\ r.known = attempt[a].known /\ r.lost = attempt[a].lost
    BY <1>0, EndedType
  <2>2. r \in Attempt
    BY <1>0, EndedType
  <2>3. Becomes(a, r) /\ records' = records
    BY <1>8 DEF Crash
  <2> HIDE DEF r
  <2>4. attempt'[a] = r
    BY <2>3, <1>0 DEF Becomes
  <2>5. TypeOK'
    BY <1>8, <2>2, <2>3, <1>0 DEF Crash, Becomes, Inv, TypeOK
  <2>6. Consistent(a)'
    BY <2>1, <2>3, <2>4, <1>0 DEF Consistent, Open, Performed
  <2>7. \A b \in Attempts \ {a} : attempt[b].fresh \cap records' = {}
    BY <2>3, <1>0 DEF Consistent
  <2> QED BY <2>1, <2>2, <2>3, <2>5, <2>6, <2>7, StepOfOne
<1>9. ASSUME NEW a \in Attempts, CallRaises(a) PROVE Inv'
  <2>1. PICK effect \in {{}, {attempt[a].at}}, caught \in BOOLEAN :
          Becomes(a, [attempt[a] EXCEPT !.lost = attempt[a].lost \cup effect,
                                        !.pc = IF caught THEN "ready" ELSE "finalize",
                                        !.at = IF caught THEN attempt[a].at + 1 ELSE attempt[a].at])
    BY <1>9 DEF CallRaises
  <2> DEFINE pc == IF caught THEN "ready" ELSE "finalize"
             at == IF caught THEN attempt[a].at + 1 ELSE attempt[a].at
             lost == attempt[a].lost \cup effect
             r == [attempt[a] EXCEPT !.lost = lost, !.pc = pc, !.at = at]
  <2>2. attempt[a].pc = "call" /\ records' = records /\ attempt[a].at \in Ops \ attempt[a].known
    BY <1>9, <1>0 DEF CallRaises, Consistent
  <2>3. pc \in {"ready", "finalize"} /\ at \in 1..(LastOp + 1) /\ lost \in SUBSET Ops
        /\ lost \cap attempt[a].known = {}
    <3>1. attempt[a].lost \in SUBSET Ops /\ attempt[a].lost \cap attempt[a].known = {}
      BY <1>0 DEF Attempt, Consistent, Performed
    <3>2. lost \in SUBSET Ops /\ lost \cap attempt[a].known = {}
      BY <2>2, <3>1
    <3>3. at \in 1..(LastOp + 1)
      BY <2>2 DEF Ops
    <3> QED BY <3>2, <3>3
  <2> HIDE DEF pc, at, lost
  <2>4. /\ r.pc = pc /\ r.fresh = attempt[a].fresh /\ r.known = attempt[a].known
        /\ r.done = attempt[a].done /\ r.lost = lost
    BY <1>0 DEF Attempt
  <2>5. r \in Attempt
    BY <1>0, <2>3, Zenon DEF Attempt, Open
  <2>6. Becomes(a, r)
    BY <2>1, Zenon DEF pc, at, lost
  <2> HIDE DEF r
  <2>7. attempt'[a] = r
    BY <2>6, <1>0 DEF Becomes
  <2>8. TypeOK'
    BY <1>9, <2>5, <2>6, <1>0 DEF CallRaises, Becomes, Inv, TypeOK
  <2>9. Consistent(a)'
    BY <2>2, <2>3, <2>4, <2>7, <1>0 DEF Consistent, Performed, Open
  <2>10. \A b \in Attempts \ {a} : /\ attempt[b].fresh \cap records' = {}
                                   /\ attempt[b].fresh \cap r.fresh = {}
    BY <2>2, <2>4, <1>0 DEF Consistent, Inv, FreshApart
  <2> QED BY <2>3, <2>4, <2>5, <2>2, <2>6, <2>8, <2>9, <2>10, StepOfOne
<1>10. CASE UNCHANGED vars
  BY <1>10 DEF vars, Inv, TypeOK, Consistent, Performed, FreshApart, DoneApart
<1> QED BY <1>1, <1>2, <1>3, <1>4, <1>5, <1>6, <1>7, <1>8, <1>9, <1>10 DEF Next

\* Every reachable state satisfies the invariant.
LEMMA Invariance == Spec => []Inv
<1> QED BY InitInv, NextInv, PTL DEF Spec

-----------------------------------------------------------------------------
\* The tables and the attempts keep their types, and a job runs exactly while
\* an attempt holds its lease.
THEOREM OperationTypeCorrect == Spec => []TypeOK
<1>1. Inv => TypeOK
  BY DEF Inv
<1> QED BY <1>1, Invariance, PTL

\* An attempt never performs an operation that was on record when it was claimed,
\* however the attempts before it ended.
THEOREM RecordedOnce == Spec => []RecordedNeverRepeated
<1>1. Inv => RecordedNeverRepeated
  BY DEF Inv, Consistent, RecordedNeverRepeated
<1> QED BY <1>1, Invariance, PTL

\* When two attempts that committed both performed an operation, its func() raised
\* in one of them, whatever handlers catch and whenever workers crash.
THEOREM CommittedOnce == Spec => []KeptOnce
<1>1. Inv => KeptOnce
  BY DEF Inv, DoneApart, KeptOnce, Performed
<1> QED BY <1>1, Invariance, PTL

\* What a committed attempt performed is on record, unless its func() raised.
THEOREM CommittedRecorded == Spec => []EffectsRecorded
<1>1. Inv => EffectsRecorded
  BY DEF Inv, Consistent, EffectsRecorded, Performed
<1> QED BY <1>1, Invariance, PTL
=============================================================================
