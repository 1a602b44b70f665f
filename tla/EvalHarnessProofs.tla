------------------------- MODULE EvalHarnessProofs -------------------------
(***************************************************************************)
(* Proofs about EvalHarness for any cases, caps, costs and expectations.    *)
(* The harness implements LLMStack, so that what is proved of the stack     *)
(* holds of every case.                                                     *)
(***************************************************************************)
EXTENDS EvalHarness, LLMStackProofs, FiniteSetTheorems

\* What is being scored: each finding takes at most one expectation, and an
\* expectation is either taken or still open.
Scoring ==
    /\ IsFiniteSet(open) /\ tp <= read
    /\ place \in {"between", "running"} => NotScoring
    /\ place = "scoring" =>
          /\ Len(results) < Len(Order)
          /\ tp + Cardinality(open) = Len(Expected[Current])

\* Every result accounts for all that its case expected.
ResultsAreComplete ==
    \A i \in 1..Len(results) :
        results[i].tp + results[i].fn = Len(Expected[Order[i]])

Untouched(c) == pc[c] = "ready" /\ total[c] = 0 /\ billed[c] = 0

\* Where the cases are: behind the harness, under it, and before it.
Past(i) ==
    /\ results[i].spend = total[Order[i]]
    /\ pc[Order[i]] \in Ended
    /\ results[i].status = "ok" => pc[Order[i]] = "done"

Sequential ==
    place # "crashed" =>
        /\ \A i \in 1..Len(results) : Past(i)
        /\ \A i \in (Len(results) + 2)..Len(Order) : Untouched(Order[i])
        /\ Len(results) < Len(Order) =>
              /\ place \in {"between", "reported"} => Untouched(Current)
              /\ place = "scoring" => pc[Current] = "done"

SpendBounds ==
    /\ TotalSoftCap
    /\ place \in {"running", "scoring"} => spend < TotalCap /\ Len(results) < Len(Order)

HarnessInv ==
    /\ Inv /\ HarnessTypeOK /\ Scoring
    /\ ResultsAreComplete /\ Sequential /\ SpendBounds

----------------------------------------------------------------------------
(* The harness drives the stack one case at a time.                        *)

LEMMA CurrentIsRun ==
    ASSUME HarnessTypeOK, Len(results) < Len(Order)
    PROVE  /\ Len(results) \in Nat /\ Len(results) + 1 \in 1..Len(Order)
           /\ Current \in Runs
  BY HarnessAssumption DEF HarnessTypeOK, Current

LEMMA DrivesTheStack ==
    ASSUME HarnessTypeOK, [HarnessNext]_<<vars, harness>>
    PROVE  [Next]_vars
<1>1. ASSUME Len(results) < Len(Order),
             Proceed(Current) \/ Refused(Current) \/ Errs(Current) \/ Completes(Current)
      PROVE  Next
  <2>1. Step(Current)
    BY <1>1 DEF Proceed, Refused, Errs, Completes, Step
  <2> QED
    BY <1>1, <2>1, CurrentIsRun DEF Next
<1>2. ASSUME StartCase \/ SetupFails \/ WriteReport \/ CleanupFails(Current)
             \/ ScoreNext(Current) \/ RecordSuccess(Current)
      PROVE  UNCHANGED vars
  BY <1>2 DEF StartCase, SetupFails, WriteReport, CleanupFails, ScoreNext, RecordSuccess
<1>3. ASSUME Killed
      PROVE  [Next]_vars
  BY <1>3 DEF Killed, Next
<1> QED
  BY <1>1, <1>2, <1>3 DEF HarnessNext, HarnessStep

\* What a run has recorded never reaches its cap and a call; said of the next
\* state, where it is needed.
LEMMA RecordedBelowCap ==
    ASSUME Inv', NEW r \in Runs
    PROVE  /\ total'[r] \in Nat
           /\ Cap > 0 => total'[r] <= (Cap - 1) + MaxCost
<1> USE StackAssumption
<1>1. /\ total'[r] \in Nat
      /\ pc'[r] \in {"storing", "returning"} => answer'[r].cost \in 0..MaxCost
      /\ Cap > 0 => OnRecord(r)' < Cap + MaxCost
  BY AnswerFacts DEF Inv, TypeOK, AnswerInHand, Money, RecordBelowCap
<1>2. Cap > 0 => total'[r] < Cap + MaxCost
  <2>1. CASE pc'[r] \in {"storing", "returning"}
    BY <1>1, <2>1 DEF OnRecord
  <2>2. CASE pc'[r] \notin {"storing", "returning"}
    BY <1>1, <2>2 DEF OnRecord
  <2> QED
    BY <2>1, <2>2
<1> QED
  BY <1>1, <1>2

----------------------------------------------------------------------------
(* A result is recorded.                                                   *)

Recorded(c, res) ==
    /\ results' = Append(results, res)
    /\ res \in Result /\ res.spend = total'[c]
    /\ res.tp + res.fn = Len(Expected[c])
    /\ spend' = spend + total'[c]
    /\ place' = "between"
    /\ ClearScore

LEMMA FailureIsRecorded ==
    ASSUME HarnessTypeOK, Inv', NEW c \in Runs, NEW status \in Failed,
           RecordFailure(c, status)
    PROVE  \E res : Recorded(c, res) /\ res.status # "ok"
<1> DEFINE res == [status |-> status, spend |-> total'[c], ms |-> 0, tp |-> 0, fp |-> 0,
                   fn |-> Len(Expected[c]), agree |-> 0, found |-> <<>>]
<1>1. total'[c] \in Nat /\ Len(Expected[c]) \in Nat
  BY HarnessAssumption DEF Inv, TypeOK
<1>2. res \in Result
  BY <1>1 DEF Result, Failed
<1>3. res.tp + res.fn = Len(Expected[c]) /\ res.spend = total'[c] /\ res.status # "ok"
  BY <1>1 DEF Failed
<1> QED
  BY <1>2, <1>3 DEF Recorded, RecordFailure, Count

LEMMA SuccessIsRecorded ==
    ASSUME HarnessTypeOK, Inv', Scoring, Len(results) < Len(Order), RecordSuccess(Current)
    PROVE  \E res : Recorded(Current, res)
<1>1. PICK ms \in MayTake[Current] :
         results' = Append(results,
             [status |-> "ok", spend |-> total[Current], ms |-> ms, tp |-> tp,
              fp |-> Len(found) - tp, fn |-> Cardinality(open), agree |-> agree,
              found |-> found])
  BY DEF RecordSuccess
<1> DEFINE res == [status |-> "ok", spend |-> total[Current], ms |-> ms, tp |-> tp,
                   fp |-> Len(found) - tp, fn |-> Cardinality(open), agree |-> agree,
                   found |-> found]
<1>2. Current \in Runs
  BY CurrentIsRun
<1>3. total'[Current] = total[Current] /\ total[Current] \in Nat
  BY <1>2 DEF RecordSuccess, vars, Inv, TypeOK
<1>4. ms \in Nat /\ Cardinality(open) \in Nat
  BY <1>2, HarnessAssumption, FS_CardinalityType DEF Scoring
<1>5. /\ found \in Seq(Prediction) /\ tp \in Nat /\ agree \in Nat
      /\ Len(found) \in Nat /\ tp <= Len(found)
  BY DEF HarnessTypeOK, Scoring, RecordSuccess
<1>6. Len(found) - tp \in Nat
  BY <1>5
<1>7. res \in Result
  BY <1>3, <1>4, <1>5, <1>6 DEF Result
<1>8. res.tp + res.fn = Len(Expected[Current]) /\ res.spend = total'[Current]
  BY <1>3 DEF Scoring, RecordSuccess
<1> QED
  BY <1>1, <1>7, <1>8 DEF Recorded, RecordSuccess, Count

LEMMA RecordFacts ==
    ASSUME HarnessTypeOK, NEW c, NEW res, Recorded(c, res)
    PROVE  /\ results' \in Seq(Result) /\ Len(results') = Len(results) + 1
           /\ Len(results) \in Nat
           /\ \A i \in 1..Len(results) : results'[i] = results[i]
           /\ results'[Len(results) + 1] = res
  BY DEF HarnessTypeOK, Recorded

\* Which steps record a result, and of which run.
LEMMA WhoRecords ==
    ASSUME HarnessInv, Inv', HarnessStep, results' # results
    PROVE  /\ Len(results) < Len(Order) /\ place \in {"running", "scoring"}
           /\ pc'[Current] \in Ended
           /\ \A q \in Runs \ {Current} :
                 pc'[q] = pc[q] /\ total'[q] = total[q] /\ billed'[q] = billed[q]
           /\ \E res : /\ Recorded(Current, res)
                       /\ res.status = "ok" => pc'[Current] = "done"
<1>1. Len(results) < Len(Order) /\ Current \in Runs /\ HarnessTypeOK /\ Scoring /\ TypeOK
  <2>1. Len(results) < Len(Order)
    BY DEF HarnessStep, StartCase, SetupFails, WriteReport
  <2> QED
    BY <2>1, CurrentIsRun DEF HarnessInv, Inv
<1>2. CASE Refused(Current) \/ Errs(Current)
  <2>1. PICK status \in Failed : RecordFailure(Current, status)
    BY <1>2 DEF Refused, Errs, Failed
  <2>2. PICK res : Recorded(Current, res) /\ res.status # "ok"
    BY <1>1, <2>1, FailureIsRecorded
  <2>3. Step(Current)
    BY <1>2 DEF Refused, Errs, Step
  <2>4. pc'[Current] = "failed"
    BY <1>1, <1>2 DEF Refused, Errs, Refuse, Fail, Goto, TypeOK
  <2> QED
    BY <1>1, <1>2, <2>2, <2>3, <2>4, StepIsLocal DEF Refused, Errs, Ended
<1>3. CASE CleanupFails(Current) \/ RecordSuccess(Current)
  <2>1. \E res : Recorded(Current, res)
    <3>1. CASE CleanupFails(Current)
      BY <1>1, <3>1, FailureIsRecorded DEF CleanupFails, Failed
    <3>2. CASE RecordSuccess(Current)
      BY <1>1, <3>2, SuccessIsRecorded
    <3> QED
      BY <1>3, <3>1, <3>2
  <2>2. UNCHANGED vars /\ place = "scoring"
    BY <1>3 DEF CleanupFails, RecordSuccess
  <2>3. pc[Current] = "done"
    BY <1>1, <2>2 DEF HarnessInv, Sequential
  <2> QED
    BY <1>1, <2>1, <2>2, <2>3 DEF vars, Ended
<1> QED
  BY <1>2, <1>3
     DEF HarnessStep, StartCase, SetupFails, WriteReport, Proceed, Completes, ScoreNext,
         harness

----------------------------------------------------------------------------
(* The invariant is kept.                                                  *)

LEMMA HarnessTypeStep ==
    ASSUME HarnessInv, Inv', [HarnessNext]_<<vars, harness>>
    PROVE  HarnessTypeOK' /\ Scoring'
<1>0. HarnessTypeOK /\ Scoring
  BY DEF HarnessInv
<1>1. CASE HarnessStep /\ results' # results
  <2>1. PICK res : Recorded(Current, res)
    BY <1>1, WhoRecords
  <2>2. Len(results) < Len(Order) /\ Current \in Runs /\ total'[Current] \in Nat
    BY <1>0, <1>1, WhoRecords, CurrentIsRun DEF Inv, TypeOK
  <2>3. /\ results' \in Seq(Result) /\ Len(results') = Len(results) + 1
        /\ Len(results) \in Nat /\ Len(Order) \in Nat
    BY <1>0, <2>1, RecordFacts, HarnessAssumption
  <2>4. IsFiniteSet({})
    BY FS_EmptySet
  <2>5. found' = <<>> /\ read' = 0 /\ open' = {} /\ tp' = 0 /\ agree' = 0
    BY <2>1 DEF Recorded, ClearScore
  <2>6. place' = "between" /\ spend' \in Nat
    BY <1>0, <2>1, <2>2 DEF Recorded, HarnessTypeOK
  <2>7. HarnessTypeOK'
    BY <2>2, <2>3, <2>5, <2>6 DEF HarnessTypeOK
  <2>8. Scoring'
    BY <2>4, <2>5, <2>6 DEF Scoring, NotScoring
  <2> QED
    BY <2>7, <2>8
<1>2. CASE StartCase \/ SetupFails \/ WriteReport \/ Killed \/ UNCHANGED <<vars, harness>>
  BY <1>0, <1>2
     DEF StartCase, SetupFails, WriteReport, MayStart, Killed, HarnessTypeOK, Scoring,
         NotScoring, harness, score, Current
<1>3. CASE Proceed(Current)
  BY <1>0, <1>3 DEF Proceed, HarnessTypeOK, Scoring, NotScoring, harness, score, Current
<1>4. CASE Len(results) < Len(Order) /\ Completes(Current)
  <2>1. /\ Current \in Runs /\ Expected[Current] \in Seq(Expectation)
        /\ MayReport[Current] \subseteq Seq(Prediction)
    BY <1>0, <1>4, CurrentIsRun, HarnessAssumption
  <2>2. /\ found' \in Seq(Prediction)
        /\ Len(Expected[Current]) \in Nat
        /\ open' = 1..Len(Expected[Current])
        /\ place = "running" /\ place' = "scoring"
        /\ UNCHANGED <<results, spend, read, tp, agree>>
    BY <1>4, <2>1 DEF Completes
  <2>3. /\ IsFiniteSet(open') /\ Cardinality(open') = Len(Expected[Current])
        /\ open' \in SUBSET Nat
    <3> DEFINE n == Len(Expected[Current])
    <3>1. n \in Nat /\ open' = 1..n
      BY <2>2
    <3>2. IsFiniteSet(1..n) /\ Cardinality(1..n) = IF 1 > n THEN 0 ELSE n - 1 + 1
      <4> HIDE DEF n
      <4> QED
        BY <3>1, FS_Interval
    <3>3. Cardinality(1..n) = n
      BY <3>1, <3>2
    <3> QED
      BY <3>1, <3>2, <3>3
  <2>4. NotScoring
    BY <1>0, <2>2 DEF Scoring
  <2>5. HarnessTypeOK'
    BY <1>0, <2>2, <2>3, <2>4 DEF HarnessTypeOK, NotScoring
  <2>6. Scoring'
    BY <1>4, <2>2, <2>3, <2>4 DEF Scoring, NotScoring, Current
  <2> QED
    BY <2>5, <2>6
<1>5. CASE ScoreNext(Current)
  <2>1. /\ place = "scoring" /\ place' = place
        /\ read \in Nat /\ read' = read + 1 /\ read + 1 \in 0..Len(found)
        /\ UNCHANGED <<vars, results, spend, found>>
    BY <1>0, <1>5 DEF ScoreNext, HarnessTypeOK
  <2>2. CASE UNCHANGED <<open, tp, agree>>
    BY <1>0, <2>1, <2>2 DEF HarnessTypeOK, Scoring, Current
  <2>3. CASE \E e \in Candidates(Current) :
                /\ Take(e) /\ tp' = tp + 1
                /\ agree' = agree + (IF found[read + 1].severity = Expected[Current][e].severity
                                     THEN 1 ELSE 0)
    <3>1. PICK e \in open :
             open' = open \ {e} /\ tp' = tp + 1 /\ agree' \in {agree, agree + 1}
      <4>1. PICK e \in Candidates(Current) :
               /\ Take(e) /\ tp' = tp + 1
               /\ agree' = agree + (IF found[read + 1].severity = Expected[Current][e].severity
                                    THEN 1 ELSE 0)
        BY <2>3
      <4>2. e \in open /\ open' = open \ {e}
        BY <4>1 DEF Candidates, Take
      <4>3. agree' \in {agree, agree + 1}
        BY <1>0, <4>1 DEF HarnessTypeOK
      <4> QED
        BY <4>1, <4>2, <4>3
    <3>2. /\ IsFiniteSet(open') /\ Cardinality(open') = Cardinality(open) - 1
          /\ Cardinality(open) \in Nat
      BY <1>0, <3>1, FS_RemoveElement, FS_CardinalityType DEF Scoring
    <3>3. tp \in Nat /\ agree \in 0..tp /\ open \in SUBSET Nat
      BY <1>0 DEF HarnessTypeOK
    <3>4. open' \in SUBSET Nat /\ tp' \in Nat /\ agree' \in 0..tp'
      BY <3>1, <3>3
    <3>5. HarnessTypeOK'
      BY <1>0, <2>1, <3>4 DEF HarnessTypeOK
    <3>6. Scoring'
      BY <1>0, <2>1, <3>1, <3>2, <3>3 DEF Scoring, Current
    <3> QED
      BY <3>5, <3>6
  <2> QED
    BY <1>5, <2>2, <2>3 DEF ScoreNext
<1>6. CASE HarnessStep /\ results' = results
  <2>1. ~(Refused(Current) \/ Errs(Current) \/ CleanupFails(Current) \/ RecordSuccess(Current))
    <3>1. \A rec : Append(results, rec) # results
      BY <1>0 DEF HarnessTypeOK
    <3> QED
      BY <1>6, <3>1 DEF Refused, Errs, CleanupFails, RecordSuccess, RecordFailure
  <2> QED
    BY <1>2, <1>3, <1>4, <1>5, <1>6, <2>1 DEF HarnessStep
<1> QED
  BY <1>1, <1>2, <1>6 DEF HarnessNext

LEMMA CompletenessStep ==
    ASSUME HarnessInv, Inv', [HarnessNext]_<<vars, harness>>
    PROVE  ResultsAreComplete'
<1>1. CASE results' = results
  BY <1>1 DEF HarnessInv, ResultsAreComplete
<1>2. CASE HarnessStep /\ results' # results
  <2>1. PICK res : Recorded(Current, res)
    BY <1>2, WhoRecords
  <2>2. /\ Len(results') = Len(results) + 1 /\ Len(results) \in Nat
        /\ \A i \in 1..Len(results) : results'[i] = results[i]
        /\ results'[Len(results) + 1] = res
    BY <2>1, RecordFacts DEF HarnessInv
  <2> QED
    BY <2>1, <2>2 DEF HarnessInv, ResultsAreComplete, Recorded, Current
<1> QED
  BY <1>1, <1>2 DEF HarnessNext, Killed, harness

LEMMA SpendBoundsStep ==
    ASSUME HarnessInv, Inv', [HarnessNext]_<<vars, harness>>
    PROVE  SpendBounds'
<1> USE StackAssumption, HarnessAssumption
<1>0. /\ HarnessTypeOK /\ SpendBounds /\ spend \in Nat
  BY DEF HarnessInv, HarnessTypeOK
<1>1. CASE HarnessStep /\ results' # results
  <2>1. PICK res : Recorded(Current, res)
    BY <1>1, WhoRecords
  <2>2. Len(results) < Len(Order) /\ Current \in Runs /\ spend < TotalCap
    BY <1>0, <1>1, WhoRecords, CurrentIsRun DEF SpendBounds
  <2>3. /\ total'[Current] \in Nat
        /\ Cap > 0 => total'[Current] <= (Cap - 1) + MaxCost
    BY <2>2, RecordedBelowCap
  <2>4. spend' = spend + total'[Current] /\ place' = "between"
    BY <2>1 DEF Recorded
  <2> QED
    BY <1>0, <2>2, <2>3, <2>4 DEF SpendBounds, TotalSoftCap
<1>2. CASE results' = results
  <2>1. spend' = spend
    <3>1. \A rec : Append(results, rec) # results
      BY <1>0 DEF HarnessTypeOK
    <3> QED
      BY <1>2, <3>1
         DEF HarnessNext, HarnessStep, StartCase, SetupFails, WriteReport, Proceed, Refused,
             Errs, Completes, CleanupFails, RecordFailure, ScoreNext, RecordSuccess, Killed,
             harness
  <2>2. place' \in {"running", "scoring"} =>
           place \in {"running", "scoring"} \/ StartCase
    BY DEF HarnessNext, HarnessStep, SetupFails, WriteReport, Proceed, Refused, Errs,
           Completes, CleanupFails, RecordFailure, ScoreNext, RecordSuccess, Killed, harness
  <2> QED
    BY <1>0, <1>2, <2>1, <2>2
       DEF SpendBounds, TotalSoftCap, StartCase, MayStart, TotalReached
<1> QED
  BY <1>1, <1>2 DEF HarnessNext, Killed, harness

\* The cases but the current one are where they were.
LEMMA OthersStay ==
    ASSUME HarnessInv, HarnessStep, Len(results) < Len(Order)
    PROVE  \A q \in Runs \ {Current} :
              pc'[q] = pc[q] /\ total'[q] = total[q] /\ billed'[q] = billed[q]
<1>0. Current \in Runs /\ TypeOK
  BY CurrentIsRun DEF HarnessInv, Inv
<1>1. Step(Current) \/ UNCHANGED vars
  BY DEF HarnessStep, StartCase, SetupFails, WriteReport, Proceed, Refused, Errs,
         Completes, CleanupFails, ScoreNext, RecordSuccess, Step
<1> QED
  BY <1>0, <1>1, StepIsLocal DEF vars

LEMMA SequentialStep ==
    ASSUME HarnessInv, Inv', [HarnessNext]_<<vars, harness>>
    PROVE  Sequential'
<1>0. /\ HarnessTypeOK /\ Sequential
      /\ Len(results) \in Nat /\ Len(Order) \in Nat /\ Len(results) <= Len(Order)
      /\ \A i \in 1..Len(Order) : Order[i] \in Runs
      /\ \A i, j \in 1..Len(Order) : Order[i] = Order[j] => i = j
  BY HarnessAssumption DEF HarnessInv, HarnessTypeOK
<1>1. CASE HarnessStep /\ results' # results
  <2>1. PICK res : Recorded(Current, res) /\ (res.status = "ok" => pc'[Current] = "done")
    BY <1>1, WhoRecords
  <2>2. /\ Len(results) < Len(Order) /\ place \in {"running", "scoring"}
        /\ pc'[Current] \in Ended
        /\ \A q \in Runs \ {Current} :
              pc'[q] = pc[q] /\ total'[q] = total[q] /\ billed'[q] = billed[q]
    BY <1>1, WhoRecords
  <2>3. /\ Len(results') = Len(results) + 1
        /\ \A i \in 1..Len(results) : results'[i] = results[i]
        /\ results'[Len(results) + 1] = res
    BY <1>0, <2>1, RecordFacts
  <2>4. Current = Order[Len(results) + 1] /\ Current \in Runs
    BY <1>0, <2>2, CurrentIsRun DEF Current
  <2>5. \A i \in 1..Len(Order) : i # Len(results) + 1 =>
           /\ Order[i] # Current
           /\ pc'[Order[i]] = pc[Order[i]] /\ total'[Order[i]] = total[Order[i]]
           /\ billed'[Order[i]] = billed[Order[i]]
    <3>1. Len(results) + 1 \in 1..Len(Order)
      BY <1>0, <2>2
    <3> QED
      BY <1>0, <2>2, <2>4, <3>1
  <2>6. \A i \in 1..Len(results') : Past(i)'
    <3>1. ASSUME NEW i \in 1..Len(results)
          PROVE  Past(i)'
      BY <1>0, <2>2, <2>3, <2>5, <3>1 DEF Sequential, Past
    <3>2. ASSUME NEW i \in 1..Len(results'), i = Len(results) + 1
          PROVE  Past(i)'
      BY <2>1, <2>2, <2>3, <2>4, <3>2 DEF Past, Recorded
    <3> QED
      BY <1>0, <2>3, <3>1, <3>2
  <2>7. \A i \in (Len(results) + 2)..Len(Order) : Untouched(Order[i])'
    BY <1>0, <2>2, <2>5 DEF Sequential, Untouched
  <2>8. place' = "between"
    BY <2>1 DEF Recorded
  <2>9. Len(results') < Len(Order) => Untouched(Current)'
    <3>1. ASSUME Len(results') < Len(Order)
          PROVE  Untouched(Current)'
      <4>1. Current' = Order[Len(results) + 2]
        BY <1>0, <2>3 DEF Current
      <4>2. Len(results) + 2 \in (Len(results) + 2)..Len(Order)
        BY <1>0, <2>3, <3>1
      <4> QED
        BY <2>7, <4>1, <4>2 DEF Untouched
    <3> QED
      BY <3>1
  <2>10. \A i \in (Len(results') + 2)..Len(Order) : Untouched(Order[i])'
    BY <1>0, <2>3, <2>7
  <2> QED
    BY <2>6, <2>8, <2>9, <2>10 DEF Sequential
<1>2. CASE HarnessStep /\ results' = results
  <2>1. CASE ~(Len(results) < Len(Order))
    <3>1. UNCHANGED <<pc, total, billed>>
      BY <1>2, <2>1 DEF HarnessStep, StartCase, SetupFails, WriteReport, vars
    <3> QED
      BY <1>0, <1>2, <2>1, <3>1
         DEF HarnessStep, StartCase, SetupFails, WriteReport, MayStart, Sequential, Past,
             Untouched, Current
  <2>2. CASE Len(results) < Len(Order)
    <3>1. \A q \in Runs \ {Current} :
             pc'[q] = pc[q] /\ total'[q] = total[q] /\ billed'[q] = billed[q]
      BY <1>2, <2>2, OthersStay
    <3>2. Current' = Current /\ Current = Order[Len(results) + 1]
      BY <1>2 DEF Current
    <3>3. \A i \in 1..Len(Order) : i # Len(results) + 1 => Order[i] \in Runs \ {Current}
      BY <1>0, <2>2, <3>2
    <3>4. place # "crashed"
      BY <1>2 DEF HarnessStep, StartCase, SetupFails, WriteReport, MayStart, Proceed,
         Refused, Errs, Completes, CleanupFails, ScoreNext, RecordSuccess
    <3>5. \A i \in 1..Len(results) : Past(i)'
      BY <1>0, <1>2, <2>2, <3>1, <3>3, <3>4 DEF Sequential, Past
    <3>6. \A i \in (Len(results) + 2)..Len(Order) : Untouched(Order[i])'
      BY <1>0, <2>2, <3>1, <3>3, <3>4 DEF Sequential, Untouched
    <3>7. place' \in {"between", "reported"} => place = "between" /\ UNCHANGED vars
      <4>1. \A rec : Append(results, rec) # results
        BY <1>0 DEF HarnessTypeOK
      <4> QED
        BY <1>2, <4>1
           DEF HarnessStep, StartCase, SetupFails, WriteReport, Proceed, Refused, Errs,
               Completes, CleanupFails, ScoreNext, RecordSuccess, RecordFailure, harness
    <3>8. place' \in {"between", "reported"} => Untouched(Current)'
      BY <1>0, <2>2, <3>2, <3>4, <3>7 DEF Sequential, Untouched, vars
    <3>9. place' = "scoring" => pc'[Current] = "done"
      <4>1. place' = "scoring" =>
               pc'[Current] = "done" \/ (place = "scoring" /\ UNCHANGED vars)
        <5>1. CASE StartCase \/ SetupFails \/ WriteReport
          BY <5>1 DEF StartCase, SetupFails, WriteReport
        <5>2. CASE Proceed(Current)
          BY <5>2 DEF Proceed, harness
        <5>3. CASE Refused(Current) \/ Errs(Current) \/ CleanupFails(Current)
          BY <5>3 DEF Refused, Errs, CleanupFails, RecordFailure
        <5>4. CASE Completes(Current)
          BY <5>4 DEF Completes
        <5>5. CASE ScoreNext(Current) \/ RecordSuccess(Current)
          BY <5>5 DEF ScoreNext, RecordSuccess
        <5> QED
          BY <1>2, <5>1, <5>2, <5>3, <5>4, <5>5 DEF HarnessStep
      <4> QED
        BY <1>0, <2>2, <3>4, <4>1 DEF Sequential, vars
    <3> QED
      BY <1>2, <3>2, <3>5, <3>6, <3>8, <3>9 DEF Sequential
  <2> QED
    BY <2>1, <2>2
<1>3. CASE Killed
  BY <1>3 DEF Killed, Sequential
<1>4. CASE UNCHANGED <<vars, harness>>
  BY <1>0, <1>4 DEF vars, harness, Sequential, Past, Untouched, Current
<1> QED
  BY <1>1, <1>2, <1>3, <1>4 DEF HarnessNext

----------------------------------------------------------------------------
\* The invariant of the harness holds in every behaviour.
THEOREM HarnessInvariance == HarnessSpec => []HarnessInv
<1>1. HarnessInit => HarnessInv
  <2> USE StackAssumption, HarnessAssumption
  <2>1. ASSUME HarnessInit
        PROVE  HarnessInv
    <3>1. Inv
      BY <2>1, StartsSolvent DEF HarnessInit
    <3>2. HarnessTypeOK /\ Scoring
      BY <2>1, FS_EmptySet DEF HarnessInit, HarnessTypeOK, Scoring, NotScoring
    <3>3. ResultsAreComplete
      BY <2>1 DEF HarnessInit, ResultsAreComplete
    <3>4. Sequential
      BY <2>1 DEF HarnessInit, Init, Sequential, Untouched, Current
    <3>5. SpendBounds
      BY <2>1 DEF HarnessInit, SpendBounds, TotalSoftCap
    <3> QED
      BY <3>1, <3>2, <3>3, <3>4, <3>5 DEF HarnessInv
  <2> QED
    BY <2>1
<1>2. HarnessInv /\ [HarnessNext]_<<vars, harness>> => HarnessInv'
  <2>1. ASSUME HarnessInv, [HarnessNext]_<<vars, harness>>
        PROVE  HarnessInv'
    <3>1. [Next]_vars
      BY <2>1, DrivesTheStack DEF HarnessInv
    <3>2. Inv'
      BY <2>1, <3>1, SpendStep DEF HarnessInv
    <3> QED
      BY <2>1, <3>2, HarnessTypeStep, CompletenessStep, SequentialStep,
         SpendBoundsStep DEF HarnessInv
  <2> QED
    BY <2>1
<1> QED
  BY <1>1, <1>2, PTL DEF HarnessSpec

\* Every case is a run of the LLM stack: what LLMStackProofs shows of runs holds
\* of the cases of the harness.
THEOREM HarnessImplementsStack == HarnessSpec => Spec
<1>1. HarnessInit => Init
  BY DEF HarnessInit
<1>2. HarnessInv /\ [HarnessNext]_<<vars, harness>> => [Next]_vars
  BY DrivesTheStack DEF HarnessInv
<1> QED
  BY <1>1, <1>2, HarnessInvariance, PTL DEF HarnessSpec, Spec

\* Every variable of the harness keeps its type.
THEOREM HarnessTypeCorrect == HarnessSpec => []HarnessTypeOK
<1>1. HarnessInv => HarnessTypeOK
  BY DEF HarnessInv
<1> QED
  BY <1>1, HarnessInvariance, PTL

\* What the harness records stays below the total cap, one case cap and a call.
THEOREM TotalSpendBelowSoftCap == HarnessSpec => []TotalSoftCap
<1>1. HarnessInv => TotalSoftCap
  BY DEF HarnessInv, SpendBounds
<1> QED
  BY <1>1, HarnessInvariance, PTL

\* No result claims more than its case was charged; a success hides what was sent
\* again for it and no more, a failure one call besides, and the cases that have not
\* started have cost nothing.
THEOREM HiddenSpend == HarnessSpec => []ResultsHideLittle
<1> DEFINE Hidden(i) == Worth(resent[Order[i]]) +
                           IF results[i].status = "ok" THEN 0 ELSE MaxCost
<1>1. HarnessInv => ResultsHideLittle
  <2>1. ASSUME HarnessInv, place # "crashed", NEW i \in 1..Len(Order)
        PROVE  IF i > Len(results) THEN i > Len(results) + 1 => billed[Order[i]] = 0
               ELSE billed[Order[i]] \in results[i].spend .. (results[i].spend + Hidden(i))
    <3>0. /\ Sequential /\ Len(results) \in Nat /\ Len(Order) \in Nat
          /\ Order[i] \in Runs /\ MaxCost \in Nat
      BY <2>1, HarnessAssumption, StackAssumption DEF HarnessInv, HarnessTypeOK
    <3>1. CASE i > Len(results)
      BY <2>1, <3>0, <3>1 DEF Sequential, Untouched
    <3>2. CASE i <= Len(results)
      <4> DEFINE c == Order[i]
                 W == Worth(resent[c])
      <4>1. Past(i) /\ c \in Runs
        BY <2>1, <3>0, <3>2 DEF Sequential
      <4>2. /\ total[c] \in Nat /\ billed[c] \in Nat /\ W \in Nat
            /\ OnRecord(c) = total[c] /\ OnRecord(c) <= billed[c]
            /\ pc[c] # "failed" => billed[c] <= OnRecord(c) + W
            /\ billed[c] <= OnRecord(c) + W + MaxCost
        BY <2>1, <4>1, MoneyFacts DEF HarnessInv, Inv, Past, Ended
      <4> HIDE DEF W, c
      <4>3. results[i].spend = total[c] /\ (results[i].status = "ok" => pc[c] = "done")
        BY <4>1 DEF Past, c
      <4>4. CASE results[i].status = "ok"
        BY <3>0, <3>2, <4>2, <4>3, <4>4 DEF c, W
      <4>5. CASE results[i].status # "ok"
        BY <3>0, <3>2, <4>2, <4>3, <4>5 DEF c, W
      <4> QED
        BY <4>4, <4>5
    <3> QED
      BY <3>0, <3>1, <3>2
  <2> QED
    BY <2>1 DEF ResultsHideLittle
<1> QED
  BY <1>1, HarnessInvariance, PTL

\* Each result accounts for every expectation of its case, as found or missed:
\* no expectation is matched twice and none gets lost.
THEOREM CompleteScores == HarnessSpec => []ResultsAreComplete
<1>1. HarnessInv => ResultsAreComplete
  BY DEF HarnessInv
<1> QED
  BY <1>1, HarnessInvariance, PTL
=============================================================================
