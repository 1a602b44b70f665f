---------------------------- MODULE EvalHarness ----------------------------
(***************************************************************************)
(* The evaluation harness, scripts/run_evals.py: the cases of the eval set  *)
(* one after the other, each as a review with an LLM stack of its own over  *)
(* a cache file that they share, so a Run of LLMStack is a case here.  A    *)
(* case has a spend cap; the harness has another, looked at between cases.  *)
(* Findings are matched greedily with what the case expects, and a report   *)
(* is written when all is over.                                             *)
(***************************************************************************)
EXTENDS LLMStack, Listing, Sequences

CONSTANTS
    Order,       \* the cases in the order of the eval set, after --filter
    TotalCap,    \* --total-cap; --per-case-cap is Cap
    Words,       \* what a message can mention
    Categories, Severities,
    Expected,    \* Expected[c]: expected_findings of case c
    MayReport,   \* MayReport[c]: the lists of findings the critique may return
    MayTake      \* MayTake[c]: the durations a case may have, in ms

Expectation == [category : Categories, severity : Severities, must : SUBSET Words]
Prediction  == [category : Categories, severity : Severities, says : SUBSET Words]

ASSUME HarnessAssumption ==
    /\ Order \in Seq(Runs) /\ \A i, j \in 1..Len(Order) : Order[i] = Order[j] => i = j
    /\ TotalCap \in Nat
    /\ Expected \in [Runs -> Seq(Expectation)]
    /\ MayReport \in [Runs -> SUBSET Seq(Prediction)]
    /\ MayTake \in [Runs -> SUBSET Nat]

VARIABLES
    place,    \* where main() is
    results,  \* case_results
    spend,    \* total_spend
    found,    \* the findings that are being scored
    read,     \* how many of them the loop of _score has seen
    open,     \* unmatched_idx
    tp,       \* matched_predictions
    agree     \* severity_agreements

score   == <<found, read, open, tp, agree>>
harness == <<place, results, spend, score>>

Failed == {"error", "budget_exceeded"}
Result == [status : {"ok"} \cup Failed, spend : Nat, ms : Nat,
           tp : Nat, fp : Nat, fn : Nat, agree : Nat, found : Seq(Prediction)]

HarnessTypeOK ==
    /\ place \in {"between", "running", "scoring", "reported", "crashed"}
    /\ results \in Seq(Result) /\ Len(results) <= Len(Order)
    /\ spend \in Nat
    /\ found \in Seq(Prediction) /\ read \in 0..Len(found)
    /\ open \in SUBSET Nat
    /\ tp \in Nat /\ agree \in 0..tp

NotScoring == found = <<>> /\ read = 0 /\ open = {} /\ tp = 0 /\ agree = 0

HarnessInit ==
    /\ Init
    /\ place = "between"
    /\ results = <<>> /\ spend = 0
    /\ NotScoring

Current == Order[Len(results) + 1]

----------------------------------------------------------------------------
(* main: the loop over the cases.                                          *)

\* Mutant of TotalReached: the cap is reached only when it is exceeded.
TotalExceeded == spend > TotalCap

TotalReached == spend >= TotalCap

\* A case is left, and the total cap lets it run.
MayStart == place = "between" /\ Len(results) < Len(Order) /\ ~TotalReached

\* The stack of the case is built.
StartCase ==
    /\ MayStart
    /\ place' = "running"
    /\ UNCHANGED <<vars, results, spend, score>>

\* The client or the cache file cannot be opened.  This is outside the try of
\* _run_case: the exception ends the harness, and its report is never written.
SetupFails ==
    /\ MayStart
    /\ place' = "crashed"
    /\ UNCHANGED <<vars, results, spend, score>>

Count(c, status) == spend' = spend + total'[c]

ClearScore == found' = <<>> /\ read' = 0 /\ open' = {} /\ tp' = 0 /\ agree' = 0

\* A failed case is a result too, with all it expects as missed.
RecordFailure(c, status) ==
    /\ results' = Append(results,
          [status |-> status, spend |-> total'[c], ms |-> 0, tp |-> 0, fp |-> 0,
           fn |-> Len(Expected[c]), agree |-> 0, found |-> <<>>])
    /\ Count(c, status)
    /\ place' = "between"
    /\ ClearScore

\* The review of the case goes on.
Proceed(c) ==
    /\ place = "running"
    /\ Step(c)
    /\ pc'[c] \notin Ended
    /\ UNCHANGED harness

Refused(c) ==
    /\ place = "running"
    /\ Refuse(c)
    /\ RecordFailure(c, "budget_exceeded")

\* What raises in a case: the workspace, a node, the provider, the cache file,
\* or an answer that no node can use.
Errs(c) ==
    /\ place = "running"
    /\ AskFails(c) \/ SQLiteFails(c) \/ Return(c) \/ Raise(c)
    /\ pc'[c] = "failed"
    /\ RecordFailure(c, "error")

\* The last LLM call has been made, and the rest of the graph cannot fail: the
\* nodes after the critique store nothing and post nothing here.
Completes(c) ==
    /\ place = "running"
    /\ Return(c)
    /\ pc'[c] = "done"
    /\ found' \in MayReport[c]
    /\ open' = 1..Len(Expected[c])
    /\ place' = "scoring"
    /\ UNCHANGED <<results, spend, read, tp, agree>>

\* The temporary workspace cannot be removed, which is still inside the try.
CleanupFails(c) ==
    /\ place = "scoring" /\ read = 0
    /\ UNCHANGED vars
    /\ RecordFailure(c, "error")

----------------------------------------------------------------------------
(* _score and _aggregate.                                                  *)

\* Category and words must agree; the severity is only counted.
Matches(pred, exp) == pred.category = exp.category /\ exp.must \subseteq pred.says

Candidates(c) == {e \in open : Matches(found[read + 1], Expected[c][e])}

\* Mutant of Take: an expectation stays open once it is matched.
TakeAndKeep(e) == UNCHANGED open

Take(e) == open' = open \ {e}

\* Mutant of ScoreNext: the loop over the expectations is not left at a match.
ScoreNextWithoutBreak(c) ==
    /\ place = "scoring" /\ read < Len(found)
    /\ read' = read + 1
    /\ open' = open \ Candidates(c)
    /\ tp' = tp + Cardinality(Candidates(c))
    /\ UNCHANGED <<vars, place, results, spend, found, agree>>

\* The next finding takes the first open expectation that it matches.
ScoreNext(c) ==
    /\ place = "scoring" /\ read < Len(found)
    /\ read' = read + 1
    /\ \/ Candidates(c) = {} /\ UNCHANGED <<open, tp, agree>>
       \/ \E e \in Candidates(c) :
             /\ \A x \in Candidates(c) : e <= x
             /\ Take(e)
             /\ tp' = tp + 1
             /\ agree' = agree + (IF found[read + 1].severity = Expected[c][e].severity
                                  THEN 1 ELSE 0)
    /\ UNCHANGED <<vars, place, results, spend, found>>

\* Mutant of RecordSuccess: the spend was read before the review.
RecordSuccessForFree(c) ==
    /\ place = "scoring" /\ read = Len(found)
    /\ \E ms \in MayTake[c] :
          results' = Append(results,
             [status |-> "ok", spend |-> 0, ms |-> ms, tp |-> tp,
              fp |-> Len(found) - tp, fn |-> Cardinality(open), agree |-> agree,
              found |-> found])
    /\ UNCHANGED vars
    /\ Count(c, "ok")
    /\ place' = "between"
    /\ ClearScore

RecordSuccess(c) ==
    /\ place = "scoring" /\ read = Len(found)
    /\ \E ms \in MayTake[c] :
          results' = Append(results,
             [status |-> "ok", spend |-> total[c], ms |-> ms, tp |-> tp,
              fp |-> Len(found) - tp, fn |-> Cardinality(open), agree |-> agree,
              found |-> found])
    /\ UNCHANGED vars
    /\ Count(c, "ok")
    /\ place' = "between"
    /\ ClearScore

\* Mutant of Ok: every result is taken for a success.
EveryResult == 1..Len(results)

Ok == {i \in 1..Len(results) : results[i].status = "ok"}

\* sum() of a column of numbers.
SumOf(col) ==
    LET sum[n \in 0..Len(col)] == IF n = 0 THEN 0 ELSE sum[n - 1] + col[n]
    IN  sum[Len(col)]

OverOk(col) == SumOf([i \in 1..Len(results) |-> IF i \in Ok THEN col[i] ELSE 0])

\* The metrics are those of the successful cases, the spend is that of all.
Summary ==
    [tp |-> OverOk([i \in 1..Len(results) |-> results[i].tp]),
     fp |-> OverOk([i \in 1..Len(results) |-> results[i].fp]),
     fn |-> OverOk([i \in 1..Len(results) |-> results[i].fn]),
     agree |-> OverOk([i \in 1..Len(results) |-> results[i].agree]),
     spend |-> SumOf([i \in 1..Len(results) |-> results[i].spend])]

\* sorted(): by value, and equal ones as they came.
Sooner(f) == {q \in (DOMAIN f) \X (DOMAIN f) :
                 f[q[1]] < f[q[2]] \/ (f[q[1]] = f[q[2]] /\ q[1] < q[2])}

Sorted(f) == LET p == Listed(Sooner(f), DOMAIN f) IN [k \in DOMAIN p |-> f[p[k]]]

\* Mutant of Percentile: the index is that of counting from one.
PercentileFromOne(f, pct) ==
    LET n == Cardinality(DOMAIN f)
        k == (n * pct) \div 100
    IN  IF n = 0 THEN 0 ELSE Sorted(f)[IF k = 0 THEN 1 ELSE k]

Percentile(f, pct) ==
    LET n == Cardinality(DOMAIN f)
        k == (n * pct) \div 100
    IN  IF n = 0 THEN 0 ELSE Sorted(f)[(IF k < n THEN k ELSE n - 1) + 1]

\* The loop has ended, by itself or at the total cap, and the report is written.
WriteReport ==
    /\ place = "between" /\ ~MayStart
    /\ place' \in {"reported", "crashed"}
    /\ UNCHANGED <<vars, results, spend, score>>

\* The process is stopped.
Killed ==
    /\ place \notin {"reported", "crashed"}
    /\ place' = "crashed"
    /\ \/ Stop
       \/ (\A c \in Runs : pc[c] \in Ended) /\ UNCHANGED vars
    /\ UNCHANGED <<results, spend, score>>

HarnessStep ==
    \/ StartCase \/ SetupFails \/ WriteReport
    \/ /\ Len(results) < Len(Order)
       /\ \/ Proceed(Current) \/ Refused(Current) \/ Errs(Current) \/ Completes(Current)
          \/ CleanupFails(Current) \/ ScoreNext(Current) \/ RecordSuccess(Current)

HarnessNext == HarnessStep \/ Killed

HarnessSpec == HarnessInit /\ [][HarnessNext]_<<vars, harness>>

\* The harness runs on: its calls have timeouts, as in LLMStack.
HarnessFairSpec == HarnessSpec /\ WF_<<vars, harness>>(HarnessStep)

----------------------------------------------------------------------------
(* Properties.                                                             *)

\* --total-cap is soft twice over: the last case starts below it, and may cross
\* its own cap by one call.
TotalSoftCap ==
    TotalCap > 0 /\ Cap > 0 => spend <= (TotalCap - 1) + (Cap - 1) + MaxCost

\* What the total cap cannot see.  No result claims more than its case was charged.
\* A success hides the requests that the SDK sent again for it, a failure one more,
\* the paid call that it failed in, and a case that has not run has cost nothing.
ResultsHideLittle ==
    place # "crashed" =>
        \A i \in 1..Len(Order) :
            LET bill == billed[Order[i]]
                hidden == Worth(resent[Order[i]]) +
                             IF results[i].status = "ok" THEN 0 ELSE MaxCost IN
            IF i > Len(results) THEN i > Len(results) + 1 => bill = 0
            ELSE bill \in results[i].spend .. (results[i].spend + hidden)

\* The sum of a column over the cases that did not fail.
OverSuccesses(col) ==
    SumOf([i \in 1..Len(results) |-> IF results[i].status \in Failed THEN 0 ELSE col[i]])

\* Nothing is counted twice and nothing is dropped between the loop and its report:
\* the metrics are about what the cases that did not fail expected and found, and of
\* the others nothing leaks into them; the spend of the report is that of all, and
\* the one that was held against the cap.
ReportAddsUp ==
    place = "reported" =>
        /\ Summary.tp + Summary.fn =
              OverSuccesses([i \in 1..Len(results) |-> Len(Expected[Order[i]])])
        /\ Summary.tp + Summary.fp =
              OverSuccesses([i \in 1..Len(results) |-> Len(results[i].found)])
        /\ Summary.agree <= Summary.tp
        /\ Summary.spend = spend
        /\ Len(results) < Len(Order) => spend >= TotalCap

\* The pairs of a finding and an expectation that one could match at the most.
Matchings(c, f) ==
    {M \in SUBSET ((1..Len(f)) \X (1..Len(Expected[c]))) :
        \A p \in M : /\ Matches(f[p[1]], Expected[c][p[2]])
                     /\ \A q \in M : p # q => p[1] # q[1] /\ p[2] # q[2]}

\* The score depends on the order of the findings: a greedy match may miss up to
\* half of what could be matched, and never claims more.
GreedyIsHalfRight ==
    \A i \in 1..Len(results) : results[i].status = "ok" =>
        LET sizes == {Cardinality(M) : M \in Matchings(Order[i], results[i].found)} IN
        /\ \E n \in sizes : results[i].tp <= n
        /\ \A n \in sizes : n <= 2 * results[i].tp

\* The latencies of the report are measured ones, and as many of the cases as
\* the percentile says took no longer.
PercentilesCover ==
    LET ms == [i \in Ok |-> results[i].ms] IN
    \A pct \in {50, 95} : Ok # {} =>
        /\ \E i \in Ok : ms[i] = Percentile(ms, pct)
        /\ 100 * Cardinality({i \in Ok : ms[i] <= Percentile(ms, pct)})
              >= pct * Cardinality(Ok)

\* The harness ends, with a report or without.
HarnessEnds == <>(place \in {"reported", "crashed"})
=============================================================================
