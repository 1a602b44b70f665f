--------------------------- MODULE EvalScoreProofs ---------------------------
(***************************************************************************)
(* What the report of an evaluation says is so, for any cases, findings and  *)
(* expectations: the greedy score is at least half of the best one, the     *)
(* sums add up, and the percentiles cover what they say.                    *)
(***************************************************************************)
EXTENDS EvalHarnessProofs, CountingFacts

----------------------------------------------------------------------------
(* Matchings.                                                              *)

Firsts(M)  == {p[1] : p \in M}
Seconds(M) == {p[2] : p \in M}

\* A matching that no pair can be added to.
Maximal(c, f, M) ==
    \A i \in 1..Len(f), e \in 1..Len(Expected[c]) :
        Matches(f[i], Expected[c][e]) => i \in Firsts(M) \/ e \in Seconds(M)

\* What GreedyIsHalfRight says of one score.
HalfRight(c, f, k) ==
    LET sizes == {Cardinality(M) : M \in Matchings(c, f)} IN
    (\E n \in sizes : k <= n) /\ (\A n \in sizes : n <= 2 * k)

LEMMA MatchingFacts ==
    ASSUME NEW c \in Runs, NEW f \in Seq(Prediction), NEW M \in Matchings(c, f)
    PROVE  /\ IsFiniteSet(M) /\ Cardinality(M) \in Nat
           /\ \A p \in M : /\ p = <<p[1], p[2]>>
                           /\ p[1] \in 1..Len(f) /\ p[2] \in 1..Len(Expected[c])
                           /\ Matches(f[p[1]], Expected[c][p[2]])
           /\ \A p, q \in M : p[1] = q[1] \/ p[2] = q[2] => p = q
<1>1. Len(f) \in Nat /\ Len(Expected[c]) \in Nat
  BY HarnessAssumption
<1>2. IsFiniteSet((1..Len(f)) \X (1..Len(Expected[c])))
  <2> DEFINE S == 1..Len(f)
             T == 1..Len(Expected[c])
  <2>1. IsFiniteSet(S) /\ IsFiniteSet(T)
    BY <1>1, FS_Interval
  <2> HIDE DEF S, T
  <2>2. IsFiniteSet(S \X T)
    BY <2>1, FS_Product
  <2> QED
    BY <2>2 DEF S, T
<1>3. M \in SUBSET ((1..Len(f)) \X (1..Len(Expected[c])))
  BY DEF Matchings
<1>4. IsFiniteSet(M) /\ Cardinality(M) \in Nat
  BY <1>2, <1>3, FS_Subset, FS_CardinalityType
<1>5. \A p \in M : p = <<p[1], p[2]>> /\ p[1] \in 1..Len(f) /\ p[2] \in 1..Len(Expected[c])
  BY <1>3
<1>6. \A p \in M : /\ Matches(f[p[1]], Expected[c][p[2]])
                   /\ \A q \in M : p # q => p[1] # q[1] /\ p[2] # q[2]
  BY DEF Matchings
<1> QED
  BY <1>4, <1>5, <1>6

\* Each pair of one matching meets a pair of a maximal one, and a pair of the
\* maximal one meets two others at the most.
LEMMA MaximalIsHalfRight ==
    ASSUME NEW c \in Runs, NEW f \in Seq(Prediction),
           NEW M \in Matchings(c, f), Maximal(c, f, M), NEW N \in Matchings(c, f)
    PROVE  Cardinality(N) <= 2 * Cardinality(M)
<1> DEFINE N1 == {q \in N : q[1] \in Firsts(M)}
           N2 == {q \in N : q[2] \in Seconds(M)}
           f1 == [q \in N1 |-> CHOOSE p \in M : p[1] = q[1]]
           f2 == [q \in N2 |-> CHOOSE p \in M : p[2] = q[2]]
<1>1. IsFiniteSet(M) /\ Cardinality(M) \in Nat /\ IsFiniteSet(N) /\ Cardinality(N) \in Nat
  BY MatchingFacts
<1>2. N = N1 \cup N2
  BY MatchingFacts DEF Maximal
<1>3. IsFiniteSet(N1) /\ Cardinality(N1) <= Cardinality(M) /\ Cardinality(N1) \in Nat
  <2>1. \A q \in N1 : f1[q] \in M /\ f1[q][1] = q[1]
    BY DEF Firsts
  <2>2. f1 \in [N1 -> M]
    BY <2>1
  <2>3. \A q, r \in N1 : f1[q] = f1[r] => q = r
    <3> HIDE DEF f1
    <3> QED
      BY <2>1, MatchingFacts
  <2>4. f1 \in Injection(N1, M)
    <3> HIDE DEF f1, N1
    <3> QED
      BY <2>2, <2>3, Fun_IsInj
  <2> HIDE DEF f1, N1
  <2> QED
    BY <1>1, <2>4, FS_Injection, FS_CardinalityType
<1>4. IsFiniteSet(N2) /\ Cardinality(N2) <= Cardinality(M) /\ Cardinality(N2) \in Nat
  <2>1. \A q \in N2 : f2[q] \in M /\ f2[q][2] = q[2]
    BY DEF Seconds
  <2>2. f2 \in [N2 -> M]
    BY <2>1
  <2>3. \A q, r \in N2 : f2[q] = f2[r] => q = r
    <3> HIDE DEF f2
    <3> QED
      BY <2>1, MatchingFacts
  <2>4. f2 \in Injection(N2, M)
    <3> HIDE DEF f2, N2
    <3> QED
      BY <2>2, <2>3, Fun_IsInj
  <2> HIDE DEF f2, N2
  <2> QED
    BY <1>1, <2>4, FS_Injection, FS_CardinalityType
<1>5. IsFiniteSet(N1 \cap N2) /\ Cardinality(N1 \cap N2) \in Nat
  <2> HIDE DEF N1, N2
  <2> QED
    BY <1>3, FS_Intersection, FS_CardinalityType
<1>6. Cardinality(N) = Cardinality(N1) + Cardinality(N2) - Cardinality(N1 \cap N2)
  <2> HIDE DEF N1, N2
  <2> QED
    BY <1>2, <1>3, <1>4, FS_Union
<1> HIDE DEF N1, N2
<1> QED
  BY <1>1, <1>3, <1>4, <1>5, <1>6

\* What the loop of _score has built: a matching of the findings it has read,
\* which leaves no finding alone that an open expectation would still match.
Built(c, f, n, rest, k) ==
    \E M \in Matchings(c, f) :
        /\ Cardinality(M) = k
        /\ rest = (1..Len(Expected[c])) \ Seconds(M)
        /\ \A p \in M : p[1] <= n
        /\ \A i \in 1..n : i \in Firsts(M) \/ \A e \in rest : ~Matches(f[i], Expected[c][e])

GreedyMatching == place = "scoring" => Built(Current, found, read, open, tp)

----------------------------------------------------------------------------
(* The loop of _score.                                                     *)

\* Before the first finding.
LEMMA NothingBuilt ==
    ASSUME NEW c \in Runs, NEW f \in Seq(Prediction)
    PROVE  Built(c, f, 0, 1..Len(Expected[c]), 0)
<1>1. {} \in Matchings(c, f)
  BY DEF Matchings
<1>2. Cardinality({}) = 0
  BY FS_EmptySet
<1> QED
  BY <1>1, <1>2 DEF Built, Seconds

\* A finding that no open expectation matches.
LEMMA BuiltBySkipping ==
    ASSUME NEW c \in Runs, NEW f \in Seq(Prediction), NEW n \in Nat, NEW rest, NEW k,
           Built(c, f, n, rest, k),
           \A e \in rest : ~Matches(f[n + 1], Expected[c][e])
    PROVE  Built(c, f, n + 1, rest, k)
<1>1. PICK M \in Matchings(c, f) :
         /\ Cardinality(M) = k
         /\ rest = (1..Len(Expected[c])) \ Seconds(M)
         /\ \A p \in M : p[1] <= n
         /\ \A i \in 1..n : i \in Firsts(M) \/ \A e \in rest : ~Matches(f[i], Expected[c][e])
  BY DEF Built
<1>2. \A p \in M : p[1] <= n + 1
  BY <1>1, MatchingFacts
<1>3. \A i \in 1..(n + 1) : i \in Firsts(M) \/ \A e \in rest : ~Matches(f[i], Expected[c][e])
  BY <1>1
<1> QED
  BY <1>1, <1>2, <1>3 DEF Built

\* A finding that takes an open expectation.
LEMMA BuiltByTaking ==
    ASSUME NEW c \in Runs, NEW f \in Seq(Prediction), NEW n \in Nat, n + 1 \in 1..Len(f),
           NEW rest, NEW k, Built(c, f, n, rest, k),
           NEW e \in rest, Matches(f[n + 1], Expected[c][e])
    PROVE  Built(c, f, n + 1, rest \ {e}, k + 1)
<1>1. PICK M \in Matchings(c, f) :
         /\ Cardinality(M) = k
         /\ rest = (1..Len(Expected[c])) \ Seconds(M)
         /\ \A p \in M : p[1] <= n
         /\ \A i \in 1..n : i \in Firsts(M) \/ \A x \in rest : ~Matches(f[i], Expected[c][x])
  BY DEF Built
<1> DEFINE P == M \cup {<<n + 1, e>>}
<1>2. /\ \A p \in M : p[1] # n + 1 /\ p[2] # e
      /\ e \in 1..Len(Expected[c])
  <2>1. \A p \in M : p[1] \in Nat
    BY MatchingFacts
  <2> QED
    BY <1>1, <2>1 DEF Seconds
<1>3. P \in Matchings(c, f)
  <2>1. P \in SUBSET ((1..Len(f)) \X (1..Len(Expected[c])))
    BY <1>2 DEF Matchings
  <2>2. \A p \in P : Matches(f[p[1]], Expected[c][p[2]])
    BY MatchingFacts
  <2>3. \A p, q \in P : p # q => p[1] # q[1] /\ p[2] # q[2]
    BY <1>2, MatchingFacts
  <2> QED
    BY <2>1, <2>2, <2>3 DEF Matchings
<1>4. Cardinality(P) = k + 1
  <2>1. IsFiniteSet(M) /\ <<n + 1, e>> \notin M
    BY <1>2, MatchingFacts
  <2> QED
    BY <1>1, <2>1, FS_AddElement
<1>5. /\ Seconds(P) = Seconds(M) \cup {e}
      /\ Firsts(P) = Firsts(M) \cup {n + 1}
  <2>1. <<n + 1, e>>[1] = n + 1 /\ <<n + 1, e>>[2] = e
    OBVIOUS
  <2> QED
    BY <2>1 DEF Seconds, Firsts
<1>6. rest \ {e} = (1..Len(Expected[c])) \ Seconds(P)
  BY <1>1, <1>5
<1>7. \A p \in P : p[1] <= n + 1
  <2>1. \A p \in M : p[1] \in Nat
    BY MatchingFacts
  <2> QED
    BY <1>1, <2>1
<1>8. \A i \in 1..(n + 1) :
         i \in Firsts(P) \/ \A x \in rest \ {e} : ~Matches(f[i], Expected[c][x])
  <2> HIDE DEF P
  <2> QED
    BY <1>1, <1>5
<1> HIDE DEF P
<1> QED
  BY <1>3, <1>4, <1>6, <1>7, <1>8 DEF Built

\* After the last finding nothing can be added, so that the score is at least
\* half of any other.
LEMMA BuiltIsHalfRight ==
    ASSUME NEW c \in Runs, NEW f \in Seq(Prediction), NEW rest, NEW k,
           Built(c, f, Len(f), rest, k)
    PROVE  HalfRight(c, f, k)
<1>1. PICK M \in Matchings(c, f) :
         /\ Cardinality(M) = k
         /\ rest = (1..Len(Expected[c])) \ Seconds(M)
         /\ \A i \in 1..Len(f) :
               i \in Firsts(M) \/ \A e \in rest : ~Matches(f[i], Expected[c][e])
  BY DEF Built
<1>2. Maximal(c, f, M)
  BY <1>1 DEF Maximal
<1>3. \A N \in Matchings(c, f) : Cardinality(N) <= 2 * k
  BY <1>1, <1>2, MaximalIsHalfRight
<1>4. k \in Nat
  BY <1>1, MatchingFacts
<1>5. k \in {Cardinality(N) : N \in Matchings(c, f)} /\ k <= k
  BY <1>1, <1>4
<1> QED
  BY <1>3, <1>5 DEF HalfRight

GreedyInv == GreedyMatching /\ GreedyIsHalfRight

LEMMA GreedyStep ==
    ASSUME HarnessInv, HarnessInv', GreedyInv, [HarnessNext]_<<vars, harness>>
    PROVE  GreedyInv'
<1>0. /\ HarnessTypeOK /\ Scoring /\ GreedyMatching /\ GreedyIsHalfRight
      /\ results \in Seq(Result) /\ Len(results) \in Nat
  BY DEF HarnessInv, HarnessTypeOK, GreedyInv
<1>1. CASE HarnessStep /\ results' # results
  <2>1. PICK res : Recorded(Current, res)
    BY <1>1, WhoRecords DEF HarnessInv
  <2>2. /\ Len(results') = Len(results) + 1
        /\ \A i \in 1..Len(results) : results'[i] = results[i]
        /\ results'[Len(results) + 1] = res /\ place' = "between"
    BY <1>0, <2>1, RecordFacts DEF Recorded
  <2>3. res.status = "ok" => HalfRight(Current, res.found, res.tp)
    <3>1. ASSUME res.status = "ok"
          PROVE  place = "scoring" /\ read = Len(found) /\ res.found = found /\ res.tp = tp
      <4>1. RecordSuccess(Current)
        <5>1. ASSUME NEW status \in Failed, RecordFailure(Current, status)
              PROVE  res.status # "ok"
          <6>1. results'[Len(results) + 1].status = status
            BY <1>0, <5>1 DEF RecordFailure
          <6> QED
            BY <2>2, <6>1 DEF Failed
        <5>2. ~(Refused(Current) \/ Errs(Current) \/ CleanupFails(Current))
          BY <3>1, <5>1 DEF Refused, Errs, CleanupFails, Failed
        <5> QED
          BY <1>1, <5>2
             DEF HarnessStep, StartCase, SetupFails, WriteReport, Proceed, Completes,
                 ScoreNext, harness
      <4>2. \E ms \in MayTake[Current] :
               results'[Len(results) + 1] =
                  [status |-> "ok", spend |-> total[Current], ms |-> ms, tp |-> tp,
                   fp |-> Len(found) - tp, fn |-> Cardinality(open), agree |-> agree,
                   found |-> found]
        BY <1>0, <4>1 DEF RecordSuccess
      <4> QED
        BY <2>2, <4>1, <4>2 DEF RecordSuccess
    <3>2. ASSUME res.status = "ok"
          PROVE  Built(Current, found, Len(found), open, tp)
      BY <1>0, <3>1, <3>2 DEF GreedyMatching
    <3>3. Current \in Runs /\ found \in Seq(Prediction)
      BY <1>0, <1>1, WhoRecords, CurrentIsRun DEF HarnessInv, HarnessTypeOK
    <3> QED
      BY <3>1, <3>2, <3>3, BuiltIsHalfRight
  <2>4. \A i \in 1..Len(results') : i \in 1..Len(results) \/ i = Len(results) + 1
    BY <1>0, <2>2
  <2>5. \A i \in 1..Len(results') : results'[i].status = "ok" =>
           HalfRight(Order[i], results'[i].found, results'[i].tp)
    BY <1>0, <2>2, <2>3, <2>4 DEF GreedyIsHalfRight, HalfRight, Current
  <2>6. GreedyIsHalfRight'
    BY <2>5 DEF GreedyIsHalfRight, HalfRight, Matchings, Matches
  <2> QED
    BY <2>2, <2>6 DEF GreedyInv, GreedyMatching
<1>2. CASE results' = results
  <2>1. GreedyIsHalfRight'
    BY <1>0, <1>2 DEF GreedyIsHalfRight, Matchings, Matches
  <2>2. GreedyMatching'
    <3>1. CASE StartCase \/ SetupFails \/ WriteReport \/ Killed
      BY <3>1 DEF StartCase, SetupFails, WriteReport, Killed, GreedyMatching
    <3>2. CASE UNCHANGED <<vars, harness>> \/ Proceed(Current)
      <4>1. UNCHANGED <<place, results, found, read, open, tp>>
        BY <3>2 DEF Proceed, harness, score
      <4> QED
        BY <1>0, <4>1 DEF GreedyMatching, Built, Matchings, Matches, Current
    <3>3. CASE Len(results) < Len(Order) /\ Completes(Current)
      <4>1. /\ Current \in Runs /\ found' \in Seq(Prediction) /\ Current' = Current
            /\ open' = 1..Len(Expected[Current]) /\ read' = 0 /\ tp' = 0
        BY <1>0, <1>2, <3>3, CurrentIsRun
           DEF Completes, Scoring, NotScoring, HarnessInv, HarnessTypeOK, Current
      <4> QED
        BY <4>1, NothingBuilt DEF GreedyMatching
    <3>4. CASE Len(results) < Len(Order) /\ ScoreNext(Current)
      <4>1. /\ Current \in Runs /\ Current' = Current
            /\ found \in Seq(Prediction) /\ found' = found
            /\ read \in Nat /\ read' = read + 1 /\ read + 1 \in 1..Len(found)
            /\ Built(Current, found, read, open, tp)
        BY <1>0, <1>2, <3>4, CurrentIsRun DEF ScoreNext, HarnessTypeOK, GreedyMatching, Current
      <4>2. CASE Candidates(Current) = {} /\ UNCHANGED <<open, tp>>
        <5>1. \A e \in open : ~Matches(found[read + 1], Expected[Current][e])
          BY <4>2 DEF Candidates
        <5>2. Built(Current, found, read + 1, open, tp)
          BY <4>1, <5>1, BuiltBySkipping
        <5> QED
          BY <4>1, <4>2, <5>2 DEF GreedyMatching
      <4>3. CASE \E e \in Candidates(Current) : Take(e) /\ tp' = tp + 1
        <5>1. PICK e \in open : /\ Matches(found[read + 1], Expected[Current][e])
                                /\ open' = open \ {e} /\ tp' = tp + 1
          BY <4>3 DEF Candidates, Take
        <5>2. Built(Current, found, read + 1, open \ {e}, tp + 1)
          BY <4>1, <5>1, BuiltByTaking
        <5> QED
          BY <4>1, <5>1, <5>2 DEF GreedyMatching
      <4> QED
        BY <3>4, <4>2, <4>3 DEF ScoreNext
    <3>5. ~(Refused(Current) \/ Errs(Current) \/ CleanupFails(Current) \/ RecordSuccess(Current))
      <4>1. \A rec : Append(results, rec) # results
        BY <1>0
      <4> QED
        BY <1>2, <4>1 DEF Refused, Errs, CleanupFails, RecordSuccess, RecordFailure
    <3> QED
      BY <3>1, <3>2, <3>3, <3>4, <3>5 DEF HarnessNext, HarnessStep
  <2> QED
    BY <2>1, <2>2 DEF GreedyInv
<1> QED
  BY <1>1, <1>2 DEF HarnessNext, Killed, harness

\* The score of a case is at least half of the best possible one, and never more
\* than it, whatever the order of the findings.
THEOREM GreedyScoreIsHalfRight == HarnessSpec => []GreedyIsHalfRight
<1>1. HarnessInit => GreedyInv
  BY DEF HarnessInit, GreedyInv, GreedyMatching, GreedyIsHalfRight
<1>2. HarnessInv /\ HarnessInv' /\ GreedyInv /\ [HarnessNext]_<<vars, harness>> => GreedyInv'
  BY GreedyStep
<1>3. GreedyInv => GreedyIsHalfRight
  BY DEF GreedyInv
<1> QED
  BY <1>1, <1>2, <1>3, HarnessInvariance, PTL DEF HarnessSpec

----------------------------------------------------------------------------
(* Sums.                                                                   *)

\* A sum is the last of its partial sums.
PartialSums(col, f) ==
    /\ f \in [0..Len(col) -> Nat] /\ f[0] = 0
    /\ \A k \in 1..Len(col) : f[k] = f[k - 1] + col[k]

LEMMA SumHasPartials ==
    ASSUME NEW col \in Seq(Nat)
    PROVE  \E f : PartialSums(col, f) /\ SumOf(col) = f[Len(col)]
<1> DEFINE n == Len(col)
           step == [p \in (1..n) \X Nat |-> p[2] + col[p[1]]]
           Solves(f) == f = [k \in 0..n |-> IF k = 0 THEN 0 ELSE f[k - 1] + col[k]]
           sum == CHOOSE f : Solves(f)
<1>0. n \in Nat /\ \A k \in 1..n : col[k] \in Nat
  OBVIOUS
<1>1. step \in [(1..n) \X Nat -> Nat]
  BY <1>0
<1>2. \A k \in 1..n, x \in Nat : step[<<k, x>>] = x + col[k]
  OBVIOUS
<1>3. SumOf(col) = sum[n]
  BY DEF SumOf
<1> HIDE DEF n, step
<1>4. PICK f \in [0..n -> Nat] : f[0] = 0 /\ \A k \in 1..n : f[k] = step[<<k, f[k - 1]>>]
  <2> DEFINE X == Nat
             base == 0
  <2>1. base \in X /\ step \in [(1..n) \X X -> X]
    BY <1>1
  <2> HIDE DEF X, base
  <2>2. \E f : Recursion(X, base, n, step, f)
    BY <1>0, <2>1, RecursionExists
  <2> QED
    BY <2>2 DEF X, base, Recursion
<1>5. Solves(f)
  <2>1. \A k \in 1..n : f[k - 1] \in Nat
    BY <1>0, <1>4, SMTT(30)
  <2>2. \A k \in 1..n : f[k] = f[k - 1] + col[k]
    BY <1>2, <1>4, <2>1
  <2>3. \A k \in 0..n : f[k] = IF k = 0 THEN 0 ELSE f[k - 1] + col[k]
    BY <1>0, <1>4, <2>2
  <2> QED
    BY <1>4, <2>3
<1>6. Solves(sum)
  <2> HIDE DEF Solves
  <2> QED
    BY <1>5
<1>7. /\ DOMAIN sum = 0..n /\ sum[0] = 0
      /\ \A k \in 1..n : sum[k] = sum[k - 1] + col[k]
  <2> HIDE DEF sum
  <2> QED
    BY <1>0, <1>6
<1> HIDE DEF sum
<1>8. \A k \in 0..n : sum[k] \in Nat
  <2> DEFINE T == {k \in 0..n : sum[k] \in Nat}
  <2>1. 0 \in T
    BY <1>0, <1>7
  <2>2. ASSUME NEW k \in 0..(n - 1), k \in T
        PROVE  k + 1 \in T
    <3>1. k + 1 \in 1..n /\ (k + 1) - 1 = k
      BY <1>0
    <3>2. sum[k + 1] = sum[k] + col[k + 1]
      BY <1>7, <3>1
    <3> QED
      BY <1>0, <2>2, <3>1, <3>2
  <2> HIDE DEF T
  <2>3. \A k \in 0..n : k \in T
    BY <1>0, <2>1, <2>2, NatIteration
  <2> QED
    BY <2>3 DEF T
<1>9. sum \in [0..n -> Nat]
  <2>1. sum = [k \in 0..n |-> sum[k]]
    BY <1>6
  <2> QED
    BY <1>8, <2>1
<1> QED
  BY <1>3, <1>7, <1>9 DEF PartialSums, n

LEMMA SumIsNatural ==
    ASSUME NEW col \in Seq(Nat)
    PROVE  SumOf(col) \in Nat
<1>1. PICK f : PartialSums(col, f) /\ SumOf(col) = f[Len(col)]
  BY SumHasPartials
<1> QED
  BY <1>1 DEF PartialSums

\* Columns that add up line by line add up.
LEMMA SumsAdd ==
    ASSUME NEW a \in Seq(Nat), NEW b \in Seq(Nat), NEW c \in Seq(Nat),
           Len(a) = Len(c), Len(b) = Len(c), \A i \in 1..Len(c) : a[i] + b[i] = c[i]
    PROVE  SumOf(a) + SumOf(b) = SumOf(c)
<1>1. PICK f : PartialSums(a, f) /\ SumOf(a) = f[Len(a)]
  BY SumHasPartials
<1>2. PICK g : PartialSums(b, g) /\ SumOf(b) = g[Len(b)]
  BY SumHasPartials
<1>3. PICK h : PartialSums(c, h) /\ SumOf(c) = h[Len(c)]
  BY SumHasPartials
<1> DEFINE n == Len(c)
           T == {k \in 0..n : f[k] + g[k] = h[k]}
<1>4. /\ n \in Nat
      /\ \A i \in 1..n : a[i] \in Nat /\ b[i] \in Nat /\ a[i] + b[i] = c[i]
  OBVIOUS
<1>5. /\ f \in [0..n -> Nat] /\ g \in [0..n -> Nat] /\ h \in [0..n -> Nat]
      /\ f[0] = 0 /\ g[0] = 0 /\ h[0] = 0
      /\ \A k \in 1..n : /\ f[k] = f[k - 1] + a[k] /\ g[k] = g[k - 1] + b[k]
                         /\ h[k] = h[k - 1] + c[k]
  BY <1>1, <1>2, <1>3 DEF PartialSums
<1>6. 0 \in T
  BY <1>4, <1>5
<1>7. ASSUME NEW k \in 0..(n - 1), k \in T
      PROVE  k + 1 \in T
  <2>1. k + 1 \in 1..n /\ (k + 1) - 1 = k
    BY <1>4
  <2>2. /\ f[k + 1] = f[k] + a[k + 1] /\ g[k + 1] = g[k] + b[k + 1]
        /\ h[k + 1] = h[k] + c[k + 1]
    BY <1>5, <2>1
  <2>3. f[k] \in Nat /\ g[k] \in Nat /\ h[k] = f[k] + g[k]
    BY <1>4, <1>5, <1>7
  <2>4. a[k + 1] \in Nat /\ b[k + 1] \in Nat /\ c[k + 1] = a[k + 1] + b[k + 1]
    BY <1>4, <2>1
  <2> DEFINE p == f[k]
             q == g[k]
             x == a[k + 1]
             y == b[k + 1]
  <2>5. p \in Nat /\ q \in Nat /\ x \in Nat /\ y \in Nat
    BY <2>3, <2>4
  <2>6. f[k + 1] + g[k + 1] = h[k + 1]
    <3>1. f[k + 1] + g[k + 1] = (p + x) + (q + y) /\ h[k + 1] = (p + q) + (x + y)
      BY <2>2, <2>3, <2>4, Zenon
    <3> HIDE DEF p, q, x, y
    <3>2. (p + x) + (q + y) = (p + q) + (x + y)
      BY <2>5
    <3> QED
      BY <3>1, <3>2, Zenon
  <2> QED
    BY <1>4, <2>1, <2>6
<1>8. n \in T
  <2> HIDE DEF T, n
  <2>1. \A k \in 0..n : k \in T
    BY <1>4, <1>6, <1>7, NatIteration
  <2> QED
    BY <1>4, <2>1
<1> QED
  BY <1>1, <1>2, <1>3, <1>8

\* The sum of a column that is nowhere greater is not greater.
LEMMA SumsCompare ==
    ASSUME NEW a \in Seq(Nat), NEW c \in Seq(Nat),
           Len(a) = Len(c), \A i \in 1..Len(c) : a[i] <= c[i]
    PROVE  SumOf(a) <= SumOf(c)
<1> DEFINE b == [i \in 1..Len(c) |-> c[i] - a[i]]
<1>1. b \in Seq(Nat) /\ Len(b) = Len(c) /\ \A i \in 1..Len(c) : a[i] + b[i] = c[i]
  <2>1. \A i \in 1..Len(c) : a[i] \in Nat /\ c[i] \in Nat /\ c[i] - a[i] \in Nat
    OBVIOUS
  <2>2. b \in [1..Len(c) -> Nat] /\ Len(c) \in Nat
    BY <2>1
  <2> QED
    BY <2>1, <2>2
<1> HIDE DEF b
<1>2. SumOf(a) + SumOf(b) = SumOf(c)
  BY <1>1, SumsAdd
<1>3. SumOf(a) \in Nat /\ SumOf(b) \in Nat /\ SumOf(c) \in Nat
  BY <1>1, SumIsNatural
<1> QED
  BY <1>2, <1>3

\* One line more.
LEMMA SumGrows ==
    ASSUME NEW a \in Seq(Nat), NEW c \in Seq(Nat),
           Len(c) = Len(a) + 1, \A i \in 1..Len(a) : c[i] = a[i]
    PROVE  SumOf(c) = SumOf(a) + c[Len(c)]
<1>1. PICK f : PartialSums(a, f) /\ SumOf(a) = f[Len(a)]
  BY SumHasPartials
<1>2. PICK g : PartialSums(c, g) /\ SumOf(c) = g[Len(c)]
  BY SumHasPartials
<1> DEFINE n == Len(a)
           T == {k \in 0..n : f[k] = g[k]}
<1>3. n \in Nat /\ Len(c) = n + 1
  OBVIOUS
<1>4. /\ f \in [0..n -> Nat] /\ g \in [0..(n + 1) -> Nat] /\ f[0] = 0 /\ g[0] = 0
      /\ \A k \in 1..n : f[k] = f[k - 1] + a[k]
      /\ \A k \in 1..(n + 1) : g[k] = g[k - 1] + c[k]
  BY <1>1, <1>2 DEF PartialSums
<1>5. 0 \in T /\ \A k \in 0..(n - 1) : k \in T => k + 1 \in T
  <2>1. \A k \in 1..n : g[k] = g[k - 1] + a[k]
    BY <1>3, <1>4
  <2> QED
    BY <1>3, <1>4, <2>1
<1>6. n \in T
  <2> HIDE DEF T, n
  <2>1. \A k \in 0..n : k \in T
    BY <1>3, <1>5, NatIteration
  <2> QED
    BY <1>3, <2>1
<1>7. g[n + 1] = g[n] + c[n + 1]
  BY <1>3, <1>4
<1> QED
  BY <1>1, <1>2, <1>3, <1>6, <1>7

----------------------------------------------------------------------------
(* The report.                                                             *)

\* A success claims no more than it found, and what it claims with the right
\* severity is part of what it claims.
ScoredResults ==
    \A i \in Ok : /\ results[i].tp + results[i].fp = Len(results[i].found)
                  /\ results[i].agree <= results[i].tp

Spends == [i \in 1..Len(results) |-> results[i].spend]

ReportInv ==
    /\ ScoredResults
    /\ spend = SumOf(Spends)
    /\ place = "reported" => (Len(results) < Len(Order) => spend >= TotalCap)

LEMMA SpendsFacts ==
    ASSUME HarnessTypeOK
    PROVE  /\ Spends \in Seq(Nat) /\ Len(Spends) = Len(results)
           /\ Len(results) \in Nat /\ \A i \in 1..Len(results) : results[i] \in Result
<1>1. Len(results) \in Nat /\ \A i \in 1..Len(results) : results[i] \in Result
  BY DEF HarnessTypeOK
<1>2. Spends \in [1..Len(results) -> Nat]
  BY <1>1 DEF Spends, Result
<1> QED
  BY <1>1, <1>2

\* A result is recorded.
LEMMA ReportStep ==
    ASSUME HarnessInv, HarnessInv', ReportInv, [HarnessNext]_<<vars, harness>>
    PROVE  ReportInv'
<1>0. /\ HarnessTypeOK /\ results \in Seq(Result) /\ Len(results) \in Nat /\ spend \in Nat
      /\ ReportInv
  BY DEF HarnessInv, HarnessTypeOK
<1>1. CASE HarnessStep /\ results' # results
  <2>1. PICK res : Recorded(Current, res)
    BY <1>1, WhoRecords DEF HarnessInv
  <2>2. /\ Len(results') = Len(results) + 1
        /\ \A i \in 1..Len(results) : results'[i] = results[i]
        /\ results'[Len(results) + 1] = res /\ res.spend = total'[Current]
        /\ place' = "between" /\ spend' = spend + total'[Current]
    BY <1>0, <2>1, RecordFacts DEF Recorded
  <2>3. res.status = "ok" => res.tp + res.fp = Len(res.found) /\ res.agree <= res.tp
    <3>1. ASSUME NEW status \in Failed, RecordFailure(Current, status)
          PROVE  res.status # "ok"
      <4>1. results'[Len(results) + 1].status = status
        BY <1>0, <3>1 DEF RecordFailure
      <4> QED
        BY <2>2, <4>1 DEF Failed
    <3>2. CASE RecordSuccess(Current)
      <4>1. \E ms \in MayTake[Current] :
               res = [status |-> "ok", spend |-> total[Current], ms |-> ms, tp |-> tp,
                      fp |-> Len(found) - tp, fn |-> Cardinality(open), agree |-> agree,
                      found |-> found]
        BY <1>0, <2>2, <3>2 DEF RecordSuccess
      <4>2. tp \in Nat /\ agree \in 0..tp /\ Len(found) \in Nat
        BY <1>0 DEF HarnessTypeOK
      <4> QED
        BY <4>1, <4>2
    <3>3. CASE Refused(Current) \/ Errs(Current) \/ CleanupFails(Current)
      BY <3>1, <3>3 DEF Refused, Errs, CleanupFails, Failed
    <3> QED
      BY <1>1, <3>2, <3>3
         DEF HarnessStep, StartCase, SetupFails, WriteReport, Proceed, Completes,
             ScoreNext, harness
  <2>4. \A i \in 1..Len(results') : i \in 1..Len(results) \/ i = Len(results) + 1
    BY <1>0, <2>2
  <2>5. ScoredResults'
    <3>1. ASSUME NEW i \in Ok'
          PROVE  /\ results'[i].tp + results'[i].fp = Len(results'[i].found)
                 /\ results'[i].agree <= results'[i].tp
      <4>1. i \in 1..Len(results') /\ results'[i].status = "ok"
        BY DEF Ok
      <4>2. i \in 1..Len(results) => i \in Ok /\ results'[i] = results[i]
        BY <2>2, <4>1 DEF Ok
      <4> QED
        BY <1>0, <2>2, <2>3, <2>4, <4>1, <4>2 DEF ReportInv, ScoredResults
    <3> QED
      BY <3>1 DEF ScoredResults
  <2>6. spend' = SumOf(Spends')
    <3>1. /\ Spends \in Seq(Nat) /\ Len(Spends) = Len(results)
          /\ Spends' \in Seq(Nat) /\ Len(Spends') = Len(results')
      <4>1. \A i \in 1..Len(results') : results'[i].spend \in Nat
        <5>1. results' \in Seq(Result)
          BY DEF HarnessInv, HarnessTypeOK
        <5>2. \A i \in 1..Len(results') : results'[i] \in Result
          BY <5>1
        <5> QED
          BY <5>2 DEF Result
      <4>2. Spends' \in [1..Len(results') -> Nat] /\ Len(results') \in Nat
        BY <1>0, <2>2, <4>1 DEF Spends
      <4>3. Spends' \in Seq(Nat) /\ Len(Spends') = Len(results')
        BY <4>2
      <4> QED
        BY <1>0, <4>3, SpendsFacts
    <3>2. \A i \in 1..Len(results) : Spends'[i] = Spends[i]
      BY <2>2, <2>4, <1>0 DEF Spends
    <3>3. Spends'[Len(results) + 1] = total'[Current]
      BY <1>0, <2>2 DEF Spends
    <3> HIDE DEF Spends
    <3>4. SumOf(Spends') = SumOf(Spends) + Spends'[Len(Spends')]
      BY <2>2, <3>1, <3>2, SumGrows
    <3> QED
      BY <1>0, <2>2, <3>1, <3>3, <3>4 DEF ReportInv
  <2> QED
    BY <2>2, <2>5, <2>6 DEF ReportInv
<1>2. CASE results' = results
  <2>1. spend' = spend
    <3>1. \A rec : Append(results, rec) # results
      BY <1>0
    <3> QED
      BY <1>2, <3>1
         DEF HarnessNext, HarnessStep, StartCase, SetupFails, WriteReport, Proceed, Refused,
             Errs, Completes, CleanupFails, RecordFailure, ScoreNext, RecordSuccess, Killed,
             harness
  <2>2. ScoredResults' /\ SumOf(Spends)' = SumOf(Spends)
    BY <1>0, <1>2 DEF ReportInv, ScoredResults, Ok, Spends
  <2>3. place' = "reported" => place = "reported" \/ (~MayStart /\ place = "between")
    <3>1. CASE WriteReport
      BY <3>1 DEF WriteReport
    <3>2. CASE UNCHANGED <<vars, harness>> \/ Proceed(Current)
      BY <3>2 DEF harness, Proceed
    <3>3. CASE StartCase \/ SetupFails \/ Killed
      BY <3>3 DEF StartCase, SetupFails, Killed
    <3>4. CASE Refused(Current) \/ Errs(Current) \/ CleanupFails(Current)
      BY <3>4 DEF Refused, Errs, CleanupFails, RecordFailure
    <3>5. CASE Completes(Current) \/ ScoreNext(Current) \/ RecordSuccess(Current)
      BY <3>5 DEF Completes, ScoreNext, RecordSuccess
    <3> QED
      BY <3>1, <3>2, <3>3, <3>4, <3>5 DEF HarnessNext, HarnessStep
  <2>4. TotalCap \in Nat
    BY HarnessAssumption
  <2> QED
    BY <1>0, <1>2, <2>1, <2>2, <2>3, <2>4 DEF ReportInv, MayStart, TotalReached
<1> QED
  BY <1>1, <1>2 DEF HarnessNext, Killed, harness

\* What OverOk sums, line by line.
OkColumn(col) == [i \in 1..Len(results) |-> IF i \in Ok THEN col[i] ELSE 0]

LEMMA OkColumnFacts ==
    ASSUME HarnessTypeOK, NEW col \in [1..Len(results) -> Nat]
    PROVE  /\ OkColumn(col) \in Seq(Nat) /\ Len(OkColumn(col)) = Len(results)
           /\ OverOk(col) = SumOf(OkColumn(col)) /\ OverOk(col) \in Nat
<1>1. Len(results) \in Nat
  BY DEF HarnessTypeOK
<1>2. OkColumn(col) \in [1..Len(results) -> Nat]
  BY <1>1 DEF OkColumn
<1>3. OkColumn(col) \in Seq(Nat) /\ Len(OkColumn(col)) = Len(results)
  BY <1>1, <1>2
<1>4. OverOk(col) = SumOf(OkColumn(col))
  BY DEF OverOk, OkColumn
<1> QED
  BY <1>3, <1>4, SumIsNatural

\* The cases that did not fail are those that the report counts.
LEMMA OkMeansNotFailed ==
    ASSUME HarnessTypeOK, NEW col \in [1..Len(results) -> Nat]
    PROVE  OverSuccesses(col) = OverOk(col)
<1>1. \A i \in 1..Len(results) : results[i].status \in Failed <=> i \notin Ok
  <2>1. \A i \in 1..Len(results) : results[i] \in Result
    BY DEF HarnessTypeOK
  <2> QED
    BY <2>1 DEF Result, Ok, Failed
<1>2. [i \in 1..Len(results) |-> IF results[i].status \in Failed THEN 0 ELSE col[i]]
         = OkColumn(col)
  BY <1>1 DEF OkColumn
<1> QED
  BY <1>2, OkColumnFacts DEF OverSuccesses

OkAdds(a, b, c) == \A i \in Ok : a[i] + b[i] = c[i]

LEMMA OkColumnsAdd ==
    ASSUME HarnessTypeOK, NEW a \in [1..Len(results) -> Nat],
           NEW b \in [1..Len(results) -> Nat], NEW c \in [1..Len(results) -> Nat],
           OkAdds(a, b, c)
    PROVE  OverOk(a) + OverOk(b) = OverOk(c)
<1>1. \A i \in 1..Len(results) : OkColumn(a)[i] + OkColumn(b)[i] = OkColumn(c)[i]
  BY DEF OkColumn, OkAdds
<1> QED
  BY <1>1, OkColumnFacts, SumsAdd

LEMMA OkColumnsCompare ==
    ASSUME HarnessTypeOK, NEW a \in [1..Len(results) -> Nat],
           NEW c \in [1..Len(results) -> Nat], \A i \in Ok : a[i] <= c[i]
    PROVE  OverOk(a) <= OverOk(c)
<1>1. \A i \in 1..Len(results) : OkColumn(a)[i] <= OkColumn(c)[i]
  BY DEF OkColumn
<1> QED
  BY <1>1, OkColumnFacts, SumsCompare

\* The numbers of a report are about the cases that did not fail: what was found and
\* what was missed add up to what they expected, and what was found and what was
\* wrong to what they said; the spend is that of all, and only the cap ends the loop
\* early.
THEOREM TheReportAddsUp == HarnessSpec => []ReportAddsUp
<1>1. HarnessInit => ReportInv
  <2>1. ASSUME HarnessInit
        PROVE  ReportInv
    <3>1. results = <<>> /\ Len(results) = 0 /\ spend = 0 /\ place = "between"
      BY <2>1 DEF HarnessInit
    <3>2. Spends \in Seq(Nat) /\ Len(Spends) = 0
      BY <3>1 DEF Spends
    <3>3. PICK f : PartialSums(Spends, f) /\ SumOf(Spends) = f[Len(Spends)]
      BY <3>2, SumHasPartials
    <3>4. SumOf(Spends) = 0
      BY <3>2, <3>3 DEF PartialSums
    <3>5. ScoredResults
      BY <3>1 DEF ScoredResults, Ok
    <3> QED
      BY <3>1, <3>4, <3>5 DEF ReportInv
  <2> QED
    BY <2>1
<1>2. HarnessInv /\ HarnessInv' /\ ReportInv /\ [HarnessNext]_<<vars, harness>> => ReportInv'
  BY ReportStep
<1>3. HarnessInv /\ ReportInv => ReportAddsUp
  <2>1. ASSUME HarnessInv, ReportInv, place = "reported"
        PROVE  /\ Summary.tp + Summary.fn =
                     OverSuccesses([i \in 1..Len(results) |-> Len(Expected[Order[i]])])
               /\ Summary.tp + Summary.fp =
                     OverSuccesses([i \in 1..Len(results) |-> Len(results[i].found)])
               /\ Summary.agree <= Summary.tp
               /\ Summary.spend = spend
               /\ Len(results) < Len(Order) => spend >= TotalCap
    <3> DEFINE n   == Len(results)
               tps == [i \in 1..n |-> results[i].tp]
               fps == [i \in 1..n |-> results[i].fp]
               fns == [i \in 1..n |-> results[i].fn]
               agrees == [i \in 1..n |-> results[i].agree]
               expects == [i \in 1..n |-> Len(Expected[Order[i]])]
               finds == [i \in 1..n |-> Len(results[i].found)]
    <3>0. /\ HarnessTypeOK /\ n \in Nat /\ n <= Len(Order)
          /\ \A i \in 1..n : results[i] \in Result
          /\ \A i \in Ok : i \in 1..n
      BY <2>1, SpendsFacts DEF HarnessInv, HarnessTypeOK, Ok
    <3>1. /\ tps \in [1..n -> Nat] /\ fps \in [1..n -> Nat] /\ fns \in [1..n -> Nat]
          /\ agrees \in [1..n -> Nat]
      BY <3>0 DEF Result
    <3>2. expects \in [1..n -> Nat]
      BY <3>0, HarnessAssumption
    <3>3. finds \in [1..n -> Nat]
      BY <3>0 DEF Result
    <3>4. /\ Summary.tp = OverOk(tps) /\ Summary.fp = OverOk(fps)
          /\ Summary.fn = OverOk(fns) /\ Summary.agree = OverOk(agrees)
          /\ Summary.spend = SumOf(Spends)
      BY DEF Summary, Spends
    <3>5. \A i \in Ok : /\ tps[i] + fns[i] = expects[i] /\ tps[i] + fps[i] = finds[i]
                        /\ agrees[i] <= tps[i]
      BY <2>1, <3>0 DEF HarnessInv, ResultsAreComplete, ReportInv, ScoredResults
    <3> HIDE DEF tps, fps, fns, agrees, expects, finds
    <3>6. OverOk(tps) + OverOk(fns) = OverOk(expects)
      <4>1. OkAdds(tps, fns, expects)
        BY <3>5 DEF OkAdds
      <4> QED
        BY <3>0, <3>1, <3>2, <4>1, OkColumnsAdd
    <3>7. OverOk(tps) + OverOk(fps) = OverOk(finds)
      <4>1. OkAdds(tps, fps, finds)
        BY <3>5 DEF OkAdds
      <4> QED
        BY <3>0, <3>1, <3>3, <4>1, OkColumnsAdd
    <3>8. OverOk(agrees) <= OverOk(tps)
      BY <3>0, <3>1, <3>5, OkColumnsCompare
    <3>9. OverSuccesses(expects) = OverOk(expects) /\ OverSuccesses(finds) = OverOk(finds)
      BY <3>0, <3>2, <3>3, OkMeansNotFailed
    <3> QED
      BY <2>1, <3>4, <3>6, <3>7, <3>8, <3>9 DEF ReportInv, expects, finds
  <2> QED
    BY <2>1 DEF ReportAddsUp
<1> QED
  BY <1>1, <1>2, <1>3, HarnessInvariance, PTL DEF HarnessSpec

----------------------------------------------------------------------------
(* Percentiles.                                                            *)

\* A listing of the cases by their numbers.
Ascends(p, f, D) ==
    /\ p \in [1..Cardinality(D) -> D]
    /\ \A j, k \in 1..Cardinality(D) :
          (p[j] = p[k] => j = k) /\ (j < k => f[p[j]] <= f[p[k]])

LEMMA SortedFacts ==
    ASSUME NEW D \in SUBSET Nat, IsFiniteSet(D), NEW f \in [D -> Nat]
    PROVE  \E p : Ascends(p, f, D) /\ Sorted(f) = [k \in DOMAIN p |-> f[p[k]]]
<1> DEFINE R == Sooner(f)
           n == Cardinality(D)
           p == Listed(R, D)
<1>1. DOMAIN f = D
  OBVIOUS
<1>2. \A i, j \in DOMAIN f : <<i, j>> \in R <=> f[i] < f[j] \/ (f[i] = f[j] /\ i < j)
  BY DEF Sooner
<1>3. \A i \in D : i \in Nat /\ f[i] \in Nat
  OBVIOUS
<1>4. Sorted(f) = [k \in DOMAIN p |-> f[p[k]]]
  BY <1>1 DEF Sorted
<1> HIDE DEF R
<1>5. Orders(R, D)
  <2>1. \A i \in D : <<i, i>> \notin R
    BY <1>1, <1>2, <1>3
  <2>2. \A i, j \in D : i # j => <<i, j>> \in R \/ <<j, i>> \in R
    BY <1>1, <1>2, <1>3
  <2>3. \A i, j, k \in D : <<i, j>> \in R /\ <<j, k>> \in R => <<i, k>> \in R
    BY <1>1, <1>2, <1>3
  <2> QED
    BY <2>1, <2>2, <2>3 DEF Orders
<1>6. /\ p \in [1..n -> D]
      /\ \A j, k \in 1..n : /\ p[j] = p[k] => j = k
                            /\ j < k <=> <<p[j], p[k]>> \in R
  BY <1>5, ListedFacts
<1> HIDE DEF p
<1>7. ASSUME NEW j \in 1..n, NEW k \in 1..n, j < k
      PROVE  f[p[j]] <= f[p[k]]
  <2>1. p[j] \in D /\ p[k] \in D /\ <<p[j], p[k]>> \in R
    BY <1>6, <1>7
  <2>2. f[p[j]] < f[p[k]] \/ f[p[j]] = f[p[k]]
    BY <1>1, <1>2, <2>1
  <2>3. f[p[j]] \in Nat /\ f[p[k]] \in Nat
    BY <1>3, <2>1
  <2> QED
    BY <2>2, <2>3
<1>8. Ascends(p, f, D)
  BY <1>6, <1>7 DEF Ascends
<1> QED
  BY <1>4, <1>8

\* Of the numbers in a list that is sorted, the first k are not greater than the
\* k-th.
LEMMA TheFirstAreNotGreater ==
    ASSUME NEW D \in SUBSET Nat, IsFiniteSet(D), NEW f \in [D -> Nat],
           NEW p, Ascends(p, f, D), NEW k \in 1..Cardinality(D)
    PROVE  /\ p[k] \in D
           /\ Cardinality({i \in D : f[i] <= f[p[k]]}) \in Nat
           /\ k <= Cardinality({i \in D : f[i] <= f[p[k]]})
<1> DEFINE n == Cardinality(D)
           S == 1..n
           F == 1..k
           G == {i \in D : f[i] <= f[p[k]]}
           g == [j \in F |-> p[j]]
<1>1. n \in Nat /\ k \in S /\ F \in SUBSET S
  BY FS_CardinalityType
<1>2. IsFiniteSet(S) /\ Cardinality(S) = n /\ IsFiniteSet(F) /\ Cardinality(F) = k
  BY <1>1, FS_Interval
<1>3. /\ p \in [S -> D] /\ \A a, b \in S : p[a] = p[b] => a = b
      /\ \A j \in S : j < k => f[p[j]] <= f[p[k]]
  <2>1. p \in [S -> D]
    BY DEF Ascends
  <2>2. \A a, b \in S : p[a] = p[b] => a = b
    BY DEF Ascends
  <2>3. \A a, b \in S : a < b => f[p[a]] <= f[p[b]]
    BY DEF Ascends
  <2> QED
    BY <1>1, <2>1, <2>2, <2>3
<1>4. \A j \in S : p[j] \in D /\ f[p[j]] \in Nat
  BY <1>3
<1>5. \A j \in F : j \in S /\ (j < k \/ j = k)
  BY <1>1
<1> HIDE DEF S, F
<1>6. \A j \in F : p[j] \in G
  BY <1>1, <1>3, <1>4, <1>5
<1>7. IsFiniteSet(G) /\ Cardinality(G) \in Nat
  <2>1. G \in SUBSET D
    OBVIOUS
  <2> HIDE DEF G
  <2> QED
    BY <2>1, FS_Subset, FS_CardinalityType
<1>8. k <= Cardinality(G)
  <2> HIDE DEF G
  <2>1. g \in [F -> G] /\ \A j \in F : g[j] = p[j]
    BY <1>6
  <2> HIDE DEF g
  <2>2. \A a, b \in F : g[a] = g[b] => a = b
    BY <1>3, <1>5, <2>1
  <2>3. g \in Injection(F, G)
    BY <2>1, <2>2, Fun_IsInj
  <2> QED
    BY <1>2, <1>7, <2>3, FS_Injection
<1> QED
  BY <1>1, <1>4, <1>7, <1>8

\* What PercentilesCover says of one percentile.
Covers(f, D, pct) ==
    /\ \E i \in D : f[i] = Percentile(f, pct)
    /\ 100 * Cardinality({i \in D : f[i] <= Percentile(f, pct)}) >= pct * Cardinality(D)

LEMMA PercentileFacts ==
    ASSUME NEW D \in SUBSET Nat, IsFiniteSet(D), D # {}, NEW f \in [D -> Nat],
           NEW pct \in {50, 95}
    PROVE  Covers(f, D, pct)
<1> DEFINE n == Cardinality(D)
           k == (n * pct) \div 100
           at == (IF k < n THEN k ELSE n - 1) + 1
<1>1. n \in Nat /\ n > 0
  BY FS_CardinalityType, FS_EmptySet
<1>2. at \in 1..n /\ 100 * at >= pct * n
  <2> HIDE DEF n
  <2>1. CASE pct = 50
    BY <1>1, <2>1
  <2>2. CASE pct = 95
    BY <1>1, <2>2
  <2> QED
    BY <2>1, <2>2
<1>3. PICK p : Ascends(p, f, D) /\ Sorted(f) = [j \in DOMAIN p |-> f[p[j]]]
  BY SortedFacts
<1>4. DOMAIN f = D /\ DOMAIN p = 1..n
  BY <1>3 DEF Ascends
<1>5. Percentile(f, pct) = f[p[at]]
  <2>1. Percentile(f, pct) = Sorted(f)[at]
    BY <1>1, <1>4 DEF Percentile
  <2> HIDE DEF at
  <2> QED
    BY <1>2, <1>3, <1>4, <2>1
<1> HIDE DEF at
<1>6. /\ p[at] \in D /\ Cardinality({i \in D : f[i] <= f[p[at]]}) \in Nat
      /\ at <= Cardinality({i \in D : f[i] <= f[p[at]]})
  BY <1>2, <1>3, TheFirstAreNotGreater
<1>7. 100 * Cardinality({i \in D : f[i] <= f[p[at]]}) >= pct * n
  <2> DEFINE c == Cardinality({i \in D : f[i] <= f[p[at]]})
  <2>1. c \in Nat /\ at <= c /\ at \in Nat
    BY <1>1, <1>2, <1>6
  <2> HIDE DEF c, n
  <2>2. 100 * c >= pct * n
    BY <1>1, <1>2, <2>1
  <2> QED
    BY <2>2 DEF c
<1> QED
  BY <1>5, <1>6, <1>7, ZenonT(90) DEF Covers

\* The latencies of the report are those of cases, and at least as many of the
\* successful cases as the percentile says took no longer.
THEOREM PercentilesAreRight == HarnessSpec => []PercentilesCover
<1>1. HarnessInv => PercentilesCover
  <2>1. ASSUME HarnessInv, NEW pct \in {50, 95}, Ok # {}
        PROVE  LET ms == [i \in Ok |-> results[i].ms] IN
               /\ \E i \in Ok : ms[i] = Percentile(ms, pct)
               /\ 100 * Cardinality({i \in Ok : ms[i] <= Percentile(ms, pct)})
                     >= pct * Cardinality(Ok)
    <3> DEFINE ms == [i \in Ok |-> results[i].ms]
    <3>1. Len(results) \in Nat /\ \A i \in 1..Len(results) : results[i] \in Result
      BY <2>1, SpendsFacts DEF HarnessInv
    <3>2. Ok \in SUBSET Nat /\ IsFiniteSet(Ok)
      <4> DEFINE T == 1..Len(results)
      <4>1. Ok \in SUBSET T /\ T \in SUBSET Nat /\ IsFiniteSet(T)
        BY <3>1, FS_Interval DEF Ok
      <4> HIDE DEF T
      <4> QED
        BY <4>1, FS_Subset
    <3>3. ms \in [Ok -> Nat]
      BY <3>1 DEF Ok, Result
    <3> HIDE DEF ms
    <3>4. Covers(ms, Ok, pct)
      BY <2>1, <3>2, <3>3, PercentileFacts
    <3> QED
      BY <3>4 DEF ms, Covers
  <2> QED
    BY <2>1 DEF PercentilesCover
<1> QED
  BY <1>1, HarnessInvariance, PTL
=============================================================================
