--------------------------- MODULE LLMStackProofs ---------------------------
(***************************************************************************)
(* Proofs about LLMStack for any number of runs, requests and calls, any    *)
(* cap and any bound on the cost of a call.                                 *)
(***************************************************************************)
EXTENDS LLMStack, TLAPS

\* A run has a response in its hands exactly while it stores or returns it.
AnswerInHand ==
    \A r \in Runs : (answer[r] # Nothing) <=> (pc[r] \in {"storing", "returning"})

\* A run on its way to the provider was let through by the budget check.
CheckedRuns == \A r \in Runs : pc[r] \in {"lookup", "asking"} => total[r] < Cap

\* The SDK sends the request of a call again Retries times and not more, and the
\* count begins anew with each call.
BoundedResends ==
    \A r \in Runs : resent[r] <= Retries * (call[r] - 1) + tries[r]

\* The record has the cap of the bill, and needs nothing of the bill for it: the
\* response in a run's hands is paid from below the cap.
RecordBelowCap ==
    \A r \in Runs : Cap > 0 => OnRecord(r) < Cap + MaxCost

\* SoftCap is inductive only with the others: what the cap check says of the total
\* must be known of the bill, and still when the provider is asked.
Money == CheckedRuns /\ BoundedResends /\ RecordBelowCap /\ SpendIsRecorded /\ SoftCap

Inv == TypeOK /\ AnswerInHand /\ Money

\* The price of requests, one by one.
LEMMA WorthFacts ==
    /\ Worth(0) = 0
    /\ \A n \in Nat : Worth(n) \in Nat /\ Worth(n + 1) = Worth(n) + MaxCost
  BY StackAssumption DEF Worth

\* The requests that n calls may send again, call by call.
LEMMA RetryFacts ==
    /\ Retries * Calls \in Nat
    /\ \A n \in Nat : Retries * n \in Nat /\ Retries * (n + 1) = Retries * n + Retries
    /\ \A n \in 1..Calls : Retries * (n - 1) + Retries <= Retries * Calls
<1>1. \A n \in Nat : Retries * n \in Nat /\ Retries * (n + 1) = Retries * n + Retries
  BY StackAssumption
<1>2. ASSUME NEW n \in 1..Calls
      PROVE  Retries * (n - 1) + Retries <= Retries * Calls
  <2>1. n - 1 \in Nat /\ Calls - n \in Nat /\ n \in Nat /\ Calls \in Nat
    BY StackAssumption
  <2>2. Retries * (n - 1) + Retries = Retries * n
    BY <1>1, <2>1
  <2>3. Retries * Calls = Retries * n + Retries * (Calls - n)
    BY <2>1, StackAssumption
  <2> QED
    BY <1>1, <2>1, <2>2, <2>3
<1> QED
  BY <1>1, <1>2, StackAssumption

\* What the responses of the provider, the cache and the stack are.
LEMMA AnswerFacts ==
    \A x \in Answers : /\ x # Nothing /\ x.cost \in 0..MaxCost /\ x.usable \in BOOLEAN
                       /\ Free(x) \in Answers /\ Free(x).cost = 0
  BY StackAssumption, NothingAssumption DEF Answers, Free

LEMMA TypeStep ==
    ASSUME TypeOK, AnswerInHand, [Next]_vars
    PROVE  TypeOK' /\ AnswerInHand'
<1> USE StackAssumption DEF TypeOK, AnswerInHand, InCall, Ended, Goto, Fail, NoRequest, vars
<1>0. \A r \in Runs : Key(r) \in Requests
  BY DEF Key
<1>1. ASSUME NEW r \in Runs, CheckBudget(r) \/ Refuse(r) \/ Raise(r)
      PROVE  TypeOK' /\ AnswerInHand'
  BY <1>1 DEF CheckBudget, Refuse, Raise
<1>2. ASSUME NEW r \in Runs, Lookup(r)
      PROVE  TypeOK' /\ AnswerInHand'
  <2>1. CASE Hit(r)
    <3>1. cache[Key(r)] \in Answers
      BY <1>0, <2>1 DEF Hit
    <3>2. Free(cache[Key(r)]) \in Answers /\ Free(cache[Key(r)]) # Nothing
      BY <3>1, AnswerFacts
    <3> HIDE DEF Ended
    <3> QED
      BY <1>2, <2>1, <3>2 DEF Hit, Lookup
  <2>2. CASE Miss(r)
    BY <1>2, <2>2 DEF Miss, Lookup
  <2> QED
    BY <1>2, <2>1, <2>2 DEF Lookup
<1>3. ASSUME NEW r \in Runs, Ask(r)
      PROVE  TypeOK' /\ AnswerInHand'
  <2>1. PICK resp \in Answers :
           /\ answer' = [answer EXCEPT ![r] = resp]
           /\ billed' = [billed EXCEPT ![r] = @ + resp.cost]
    BY <1>3 DEF Ask
  <2>2. resp # Nothing /\ resp.cost \in Nat
    BY AnswerFacts
  <2> QED
    BY <1>3, <2>1, <2>2, SMTT(30) DEF Ask
<1>4. ASSUME NEW r \in Runs, AskFails(r)
      PROVE  TypeOK' /\ AnswerInHand'
  BY <1>4, SMTT(30) DEF AskFails
<1>5. ASSUME NEW r \in Runs, Store(r) \/ SQLiteFails(r)
      PROVE  TypeOK' /\ AnswerInHand'
  <2>1. CASE Store(r)
    <3>1. answer[r] \in Answers \cup {Nothing} /\ Key(r) \in Requests
      BY <1>0
    <3> QED
      BY <2>1, <3>1, SMTT(30) DEF Store
  <2>2. CASE SQLiteFails(r)
    BY <2>2, SMTT(30) DEF SQLiteFails
  <2> QED
    BY <1>5, <2>1, <2>2
<1>6. ASSUME NEW r \in Runs, Return(r)
      PROVE  TypeOK' /\ AnswerInHand'
  <2>1. answer[r] \in Answers /\ answer[r].cost \in Nat
    BY <1>6, AnswerFacts DEF Return
  <2>2. /\ pc[r] = "returning" /\ pc \in [Runs -> {"ready"} \cup InCall \cup Ended]
        /\ \/ pc' = [pc EXCEPT ![r] = "failed"]
           \/ pc' = [pc EXCEPT ![r] = "done"]
           \/ pc' = [pc EXCEPT ![r] = "ready"]
        /\ answer \in [Runs -> Answers \cup {Nothing}]
        /\ answer' = [answer EXCEPT ![r] = Nothing]
    BY <1>6 DEF Return, NextCall
  <2>3. call' \in [Runs -> 1..Calls] /\ tries' \in [Runs -> 0..Retries]
    <3>0. tries' = tries \/ tries' = [tries EXCEPT ![r] = 0]
      BY <1>6 DEF Return, NextCall
    <3>1. \/ call' = call
          \/ call[r] # Calls /\ call' = [call EXCEPT ![r] = call[r] + 1]
      BY <1>6 DEF Return, NextCall
    <3>2. call \in [Runs -> 1..Calls] /\ call[r] \in 1..Calls
      OBVIOUS
    <3>3. ASSUME call[r] # Calls, call' = [call EXCEPT ![r] = call[r] + 1]
          PROVE  call' \in [Runs -> 1..Calls]
      <4>1. call[r] + 1 \in 1..Calls
        BY <3>2, <3>3
      <4> QED
        BY <3>2, <3>3, <4>1
    <3>4. tries' \in [Runs -> 0..Retries]
      <4>1. 0 \in 0..Retries /\ tries \in [Runs -> 0..Retries]
        OBVIOUS
      <4> QED
        BY <3>0, <4>1
    <3> QED
      BY <3>1, <3>2, <3>3, <3>4
  <2>4. total' \in [Runs -> Nat]
    BY <1>6, <2>1 DEF Return
  <2>5. pc' \in [Runs -> {"ready"} \cup InCall \cup Ended] /\ AnswerInHand'
    BY <2>2
  <2>6. answer' \in [Runs -> Answers \cup {Nothing}] /\ UNCHANGED <<cache, billed, resent>>
    BY <1>6 DEF Return
  <2> QED
    BY <2>3, <2>4, <2>5, <2>6
<1>7. ASSUME Stop \/ UNCHANGED vars
      PROVE  TypeOK' /\ AnswerInHand'
  BY <1>7 DEF Stop
<1>8. ASSUME NEW r \in Runs, SendAgain(r)
      PROVE  TypeOK' /\ AnswerInHand'
  BY <1>8, SMTT(30) DEF SendAgain
<1> QED
  BY <1>1, <1>2, <1>3, <1>4, <1>5, <1>6, <1>7, <1>8 DEF Next, Step

\* What Money says of one run, with the prices as numbers.
LEMMA MoneyFacts ==
    ASSUME TypeOK, AnswerInHand, Money, NEW r \in Runs
    PROVE  /\ total[r] \in Nat /\ billed[r] \in Nat /\ resent[r] \in Nat
           /\ call[r] \in 1..Calls /\ tries[r] \in 0..Retries
           /\ pc[r] \in {"storing", "returning"} =>
                 /\ answer[r] \in Answers /\ answer[r].cost \in 0..MaxCost
                 /\ OnRecord(r) = total[r] + answer[r].cost
           /\ pc[r] \notin {"storing", "returning"} => OnRecord(r) = total[r]
           /\ OnRecord(r) \in Nat /\ OnRecord(r) <= billed[r]
           /\ pc[r] # "failed" => billed[r] <= OnRecord(r) + Worth(resent[r])
           /\ billed[r] <= OnRecord(r) + Worth(resent[r]) + MaxCost
           /\ Cap > 0 => /\ OnRecord(r) < Cap + MaxCost
                         /\ billed[r] < Cap + MaxCost + Worth(resent[r])
           /\ Worth(resent[r]) \in Nat
           /\ resent[r] <= Retries * (call[r] - 1) + tries[r]
<1> USE StackAssumption
<1>1. /\ total[r] \in Nat /\ billed[r] \in Nat /\ resent[r] \in Nat
      /\ call[r] \in 1..Calls /\ tries[r] \in 0..Retries
      /\ pc[r] \in {"storing", "returning"} => answer[r] \in Answers
  BY DEF TypeOK, AnswerInHand
<1>2. pc[r] \in {"storing", "returning"} => answer[r].cost \in 0..MaxCost
  BY <1>1, AnswerFacts
<1>3. Worth(resent[r]) \in Nat
  BY <1>1, WorthFacts
<1>4. /\ pc[r] \in {"storing", "returning"} => OnRecord(r) = total[r] + answer[r].cost
      /\ pc[r] \notin {"storing", "returning"} => OnRecord(r) = total[r]
      /\ OnRecord(r) \in Nat
  BY <1>1, <1>2 DEF OnRecord
<1>5. billed[r] \in OnRecord(r) ..
         (OnRecord(r) + (Worth(resent[r]) + IF pc[r] = "failed" THEN MaxCost ELSE 0))
  BY DEF Money, SpendIsRecorded
<1>6. /\ OnRecord(r) <= billed[r]
      /\ pc[r] # "failed" => billed[r] <= OnRecord(r) + Worth(resent[r])
      /\ billed[r] <= OnRecord(r) + Worth(resent[r]) + MaxCost
  BY <1>1, <1>3, <1>4, <1>5
<1>7. /\ Cap > 0 => OnRecord(r) < Cap + MaxCost /\ billed[r] < Cap + MaxCost + Worth(resent[r])
      /\ resent[r] <= Retries * (call[r] - 1) + tries[r]
  BY DEF Money, RecordBelowCap, SoftCap, BoundedResends
<1> QED
  BY <1>1, <1>2, <1>3, <1>4, <1>6, <1>7

\* The same the other way round, of the next state: what has to be shown of a run.
Solvent(r) ==
    /\ pc[r] \in {"lookup", "asking"} => total[r] < Cap
    /\ resent[r] <= Retries * (call[r] - 1) + tries[r]
    /\ Cap > 0 => /\ OnRecord(r) < Cap + MaxCost
                  /\ billed[r] < Cap + MaxCost + Worth(resent[r])
    /\ OnRecord(r) <= billed[r]
    /\ pc[r] # "failed" => billed[r] <= OnRecord(r) + Worth(resent[r])
    /\ billed[r] <= OnRecord(r) + Worth(resent[r]) + MaxCost

LEMMA MoneyOfRuns == TypeOK /\ AnswerInHand /\ (\A r \in Runs : Solvent(r)) => Money
<1> SUFFICES ASSUME TypeOK, AnswerInHand, \A r \in Runs : Solvent(r)
             PROVE  Money
  OBVIOUS
<1> USE StackAssumption
<1>1. CheckedRuns /\ BoundedResends /\ RecordBelowCap
  BY DEF Solvent, CheckedRuns, BoundedResends, RecordBelowCap
<1>2. ASSUME NEW r \in Runs
      PROVE  /\ billed[r] \in OnRecord(r) ..
                (OnRecord(r) + (Worth(resent[r]) + IF pc[r] = "failed" THEN MaxCost ELSE 0))
             /\ resent[r] <= Retries * Calls
  <2>1. /\ total[r] \in Nat /\ billed[r] \in Nat /\ resent[r] \in Nat
        /\ call[r] \in 1..Calls /\ tries[r] \in 0..Retries
        /\ pc[r] \in {"storing", "returning"} => answer[r] \in Answers
    BY DEF TypeOK, AnswerInHand
  <2>2. OnRecord(r) \in Nat /\ Worth(resent[r]) \in Nat
    <3>1. pc[r] \in {"storing", "returning"} => answer[r].cost \in 0..MaxCost
      BY <2>1, AnswerFacts
    <3>2. OnRecord(r) \in Nat
      BY <2>1, <3>1 DEF OnRecord
    <3> QED
      BY <2>1, <3>2, WorthFacts
  <2>3. billed[r] \in OnRecord(r) ..
           (OnRecord(r) + (Worth(resent[r]) + IF pc[r] = "failed" THEN MaxCost ELSE 0))
    BY <2>1, <2>2 DEF Solvent
  <2>4. Retries * (call[r] - 1) \in Nat /\ Retries * Calls \in Nat
    <3>1. call[r] - 1 \in Nat
      BY <2>1
    <3> QED
      BY <3>1, RetryFacts
  <2>5. Retries * (call[r] - 1) + Retries <= Retries * Calls
    BY <2>1, RetryFacts
  <2>6. resent[r] <= Retries * (call[r] - 1) + tries[r]
    BY DEF Solvent
  <2> DEFINE S == Retries * (call[r] - 1)
             T == Retries * Calls
  <2> HIDE DEF S, T
  <2>7. resent[r] <= T
    BY <2>1, <2>4, <2>5, <2>6 DEF S, T
  <2> QED
    BY <2>3, <2>7 DEF T
<1> QED
  BY <1>1, <1>2 DEF Money, SpendIsRecorded, SoftCap, Solvent

\* Nothing about the money of a run that a step leaves alone.
LEMMA SolventStays ==
    ASSUME TypeOK, AnswerInHand, Money, NEW q \in Runs,
           pc'[q] = pc[q], call'[q] = call[q], tries'[q] = tries[q], total'[q] = total[q],
           answer'[q] = answer[q], billed'[q] = billed[q], resent'[q] = resent[q]
    PROVE  Solvent(q)'
<1>1. OnRecord(q)' = OnRecord(q)
  BY DEF OnRecord
<1>2. Worth(resent[q])' = Worth(resent[q])
  BY DEF Worth
<1> QED
  BY <1>1, <1>2, MoneyFacts DEF Solvent, Money, CheckedRuns

\* A step of one run leaves the others alone.
LEMMA StepIsLocal ==
    ASSUME TypeOK, NEW r \in Runs, Step(r)
    PROVE  \A q \in Runs \ {r} :
              /\ pc'[q] = pc[q] /\ call'[q] = call[q] /\ tries'[q] = tries[q]
              /\ answer'[q] = answer[q] /\ total'[q] = total[q]
              /\ billed'[q] = billed[q] /\ resent'[q] = resent[q]
<1> USE DEF Goto, Fail, NoRequest
<1>0. /\ pc \in [Runs -> {"ready"} \cup InCall \cup Ended] /\ call \in [Runs -> 1..Calls]
      /\ tries \in [Runs -> 0..Retries] /\ answer \in [Runs -> Answers \cup {Nothing}]
      /\ total \in [Runs -> Nat] /\ billed \in [Runs -> Nat] /\ resent \in [Runs -> Nat]
  BY DEF TypeOK
<1>1. CASE Lookup(r)
  BY <1>0, <1>1 DEF Lookup, Hit, Miss
<1>2. CASE Return(r)
  <2>1. /\ \E l \in {"failed", "done", "ready"} : pc' = [pc EXCEPT ![r] = l]
        /\ \A q \in Runs \ {r} : call'[q] = call[q] /\ tries'[q] = tries[q]
    BY <1>0, <1>2 DEF Return, NextCall
  <2> QED
    BY <1>0, <1>2, <2>1 DEF Return
<1>3. CASE CheckBudget(r) \/ Refuse(r) \/ Raise(r)
  BY <1>0, <1>3 DEF CheckBudget, Refuse, Raise
<1>4. CASE SendAgain(r) \/ Ask(r) \/ AskFails(r)
  BY <1>0, <1>4 DEF SendAgain, Ask, AskFails
<1>5. CASE Store(r) \/ SQLiteFails(r)
  BY <1>0, <1>5 DEF Store, SQLiteFails
<1> QED
  BY <1>1, <1>2, <1>3, <1>4, <1>5 DEF Step

\* One more request is paid by a run that has recorded t, was charged b, and may
\* have sent again what is worth w.
LEMMA OneMoreRequest ==
    ASSUME NEW t \in Nat, NEW b \in Nat, NEW w \in Nat, NEW c \in 0..MaxCost,
           t < Cap, t <= b, b <= t + w
    PROVE  /\ t + c <= b + c /\ b + c <= t + c + w /\ b + c <= t + c + w + MaxCost
           /\ t <= b + c /\ b + c <= t + w + MaxCost /\ b + c <= t + (w + MaxCost)
           /\ b + c <= t + (w + MaxCost) + MaxCost
           /\ t + c < Cap + MaxCost /\ t < Cap + MaxCost
           /\ b + c < Cap + MaxCost + w /\ b + c < Cap + MaxCost + (w + MaxCost)
<1>1. Cap \in Nat /\ MaxCost \in Nat /\ c \in Nat /\ c <= MaxCost
  BY StackAssumption
<1> QED
  BY <1>1

\* A run that had an answer of cost c in its hands has lost it.
LEMMA OneAnswerLess ==
    ASSUME NEW t \in Nat, NEW b \in Nat, NEW w \in Nat, NEW c \in 0..MaxCost,
           t + c <= b, b <= t + c + w
    PROVE  t <= b /\ b <= t + w + MaxCost /\ (t + c < Cap + MaxCost => t < Cap + MaxCost)
<1>1. Cap \in Nat /\ MaxCost \in Nat /\ c \in Nat /\ c <= MaxCost
  BY StackAssumption
<1> QED
  BY <1>1

LEMMA LostFacts ==
    ASSUME TypeOK, AnswerInHand, Money, NEW r \in Runs, pc[r] # "failed"
    PROVE  /\ total[r] <= billed[r] /\ billed[r] <= total[r] + Worth(resent[r]) + MaxCost
           /\ Cap > 0 => total[r] < Cap + MaxCost
<1> DEFINE W == Worth(resent[r])
<1>1. /\ total[r] \in Nat /\ billed[r] \in Nat /\ W \in Nat
      /\ OnRecord(r) <= billed[r] /\ billed[r] <= OnRecord(r) + W
      /\ Cap > 0 => OnRecord(r) < Cap + MaxCost
  BY MoneyFacts
<1>2. \E c \in 0..MaxCost : OnRecord(r) = total[r] + c
  <2>1. CASE pc[r] \in {"storing", "returning"}
    BY <2>1, MoneyFacts
  <2>2. CASE pc[r] \notin {"storing", "returning"}
    <3>1. OnRecord(r) = total[r] /\ total[r] = total[r] + 0 /\ 0 \in 0..MaxCost
      BY <1>1, <2>2, MoneyFacts, StackAssumption
    <3> QED
      BY <3>1
  <2> QED
    BY <2>1, <2>2
<1> HIDE DEF W
<1>3. PICK c \in 0..MaxCost : OnRecord(r) = total[r] + c
  BY <1>2
<1>4. total[r] <= billed[r] /\ billed[r] <= total[r] + W + MaxCost
  BY <1>1, <1>3, OneAnswerLess
<1>5. Cap > 0 => total[r] < Cap + MaxCost
  BY <1>1, <1>3, OneAnswerLess
<1> QED
  BY <1>4, <1>5 DEF W

\* A step of a run keeps its money in order.
LEMMA SolventStep ==
    ASSUME TypeOK, AnswerInHand, Money, NEW r \in Runs, Step(r)
    PROVE  Solvent(r)'
<1> USE StackAssumption DEF Goto, Fail, NoRequest
<1>0. /\ pc \in [Runs -> {"ready"} \cup InCall \cup Ended] /\ call \in [Runs -> 1..Calls]
      /\ tries \in [Runs -> 0..Retries] /\ answer \in [Runs -> Answers \cup {Nothing}]
      /\ total \in [Runs -> Nat] /\ billed \in [Runs -> Nat] /\ resent \in [Runs -> Nat]
  BY DEF TypeOK
<1> DEFINE W == Worth(resent[r])
           S == Retries * (call[r] - 1)
<1>a. /\ total[r] \in Nat /\ billed[r] \in Nat /\ resent[r] \in Nat /\ W \in Nat
      /\ tries[r] \in 0..Retries /\ call[r] \in 1..Calls
      /\ pc[r] \in {"storing", "returning"} =>
            answer[r].cost \in 0..MaxCost /\ OnRecord(r) = total[r] + answer[r].cost
      /\ pc[r] \notin {"storing", "returning"} => OnRecord(r) = total[r]
      /\ OnRecord(r) \in Nat /\ OnRecord(r) <= billed[r]
      /\ pc[r] # "failed" => billed[r] <= OnRecord(r) + W
      /\ Cap > 0 => OnRecord(r) < Cap + MaxCost /\ billed[r] < Cap + MaxCost + W
      /\ pc[r] \in {"lookup", "asking"} => total[r] < Cap
      /\ resent[r] <= S + tries[r]
  BY MoneyFacts DEF Money, CheckedRuns
<1>b. S \in Nat
  <2>0. call[r] \in 1..Calls
    BY <1>a
  <2>1. call[r] - 1 \in Nat
    BY <2>0
  <2> QED
    BY <2>1, RetryFacts
\* Of a step that sends nothing again, in plain numbers.
<1>c. ASSUME UNCHANGED <<resent, tries, call>>, OnRecord(r)' <= billed'[r],
             pc'[r] # "failed" => billed'[r] <= OnRecord(r)' + W,
             billed'[r] <= OnRecord(r)' + W + MaxCost,
             Cap > 0 => OnRecord(r)' < Cap + MaxCost /\ billed'[r] < Cap + MaxCost + W,
             pc'[r] \in {"lookup", "asking"} => total'[r] < Cap
      PROVE  Solvent(r)'
  <2>1. Worth(resent[r])' = W
    BY <1>c DEF Worth
  <2>2. resent'[r] <= Retries * (call'[r] - 1) + tries'[r]
    BY <1>a, <1>c
  <2> HIDE DEF W
  <2> QED
    BY <1>c, <2>1, <2>2 DEF Solvent
<1> HIDE DEF W, S
<1>1. CASE CheckBudget(r) \/ Refuse(r) \/ Raise(r)
  <2>1. /\ pc[r] = "ready" /\ pc'[r] \in {"lookup", "failed"}
        /\ pc'[r] = "lookup" => total[r] < Cap
        /\ UNCHANGED <<total, billed, resent, tries, call>>
    BY <1>0, <1>1 DEF CheckBudget, Refuse, Raise, UnderCap
  <2>2. OnRecord(r)' = total[r]
    BY <1>a, <2>1 DEF OnRecord
  <2> QED
    BY <1>a, <1>c, <2>1, <2>2
<1>2. CASE Lookup(r)
  <2>1. /\ pc[r] = "lookup" /\ pc'[r] \in {"asking", "returning"}
        /\ UNCHANGED <<total, billed, resent, tries, call>>
    BY <1>0, <1>2 DEF Lookup, Hit, Miss
  <2>2. OnRecord(r)' = total[r]
    <3>1. CASE Hit(r)
      <4>1. cache[Key(r)] \in Answers
        BY <3>1 DEF Hit, TypeOK, Key
      <4>2. answer'[r] = Free(cache[Key(r)]) /\ Free(cache[Key(r)]).cost = 0
        BY <1>0, <3>1, <4>1, AnswerFacts DEF Hit
      <4> QED
        BY <1>a, <2>1, <4>2 DEF OnRecord
    <3>2. CASE Miss(r)
      BY <1>0, <2>1, <3>2 DEF Miss, OnRecord
    <3> QED
      BY <1>2, <3>1, <3>2 DEF Lookup
  <2> QED
    BY <1>a, <1>c, <2>1, <2>2
\* Of a run that is asking.
<1>d. ASSUME pc[r] = "asking"
      PROVE  /\ total[r] \in Nat /\ billed[r] \in Nat /\ W \in Nat /\ total[r] < Cap
             /\ total[r] <= billed[r] /\ billed[r] <= total[r] + W
  BY <1>a, <1>d
\* The steps that may reach beyond the cap, from below it, by one request each.
<1>3. CASE SendAgain(r)
  <2>1. PICK c \in 0..MaxCost : billed' = [billed EXCEPT ![r] = @ + c]
    BY <1>3 DEF SendAgain
  <2>2. /\ pc[r] = "asking" /\ pc' = pc /\ total' = total /\ call' = call
        /\ tries'[r] = tries[r] + 1 /\ resent'[r] = resent[r] + 1
    BY <1>0, <1>3 DEF SendAgain
  <2>3. OnRecord(r)' = total[r]
    BY <1>a, <2>2 DEF OnRecord
  <2>4. Worth(resent[r])' = W + MaxCost
    BY <1>a, <2>2, WorthFacts DEF Worth, W
  <2>5. billed'[r] = billed[r] + c
    BY <1>0, <2>1
  <2>6. resent'[r] <= Retries * (call'[r] - 1) + tries'[r]
    <3>1. Retries * (call'[r] - 1) = S
      BY <2>2 DEF S
    <3>2. resent[r] \in Nat /\ tries[r] \in Nat /\ resent[r] <= S + tries[r]
      BY <1>a
    <3>3. resent[r] + 1 <= S + (tries[r] + 1)
      BY <1>b, <3>2
    <3> QED
      BY <2>2, <3>1, <3>3
  <2>7. /\ total[r] <= billed[r] + c /\ billed[r] + c <= total[r] + (W + MaxCost)
        /\ billed[r] + c <= total[r] + (W + MaxCost) + MaxCost
        /\ total[r] < Cap + MaxCost /\ billed[r] + c < Cap + MaxCost + (W + MaxCost)
        /\ total[r] < Cap
    BY <1>d, <2>1, <2>2, OneMoreRequest
  <2> QED
    BY <2>2, <2>3, <2>4, <2>5, <2>6, <2>7 DEF Solvent
<1>4. CASE Ask(r)
  <2>1. PICK resp \in Answers :
           /\ answer' = [answer EXCEPT ![r] = resp]
           /\ billed' = [billed EXCEPT ![r] = @ + resp.cost]
    BY <1>4 DEF Ask
  <2>2. PICK c \in 0..MaxCost : c = resp.cost
    BY AnswerFacts
  <2>3. /\ pc[r] = "asking" /\ pc'[r] = "storing"
        /\ UNCHANGED <<total, resent, tries, call>>
    BY <1>0, <1>4 DEF Ask
  <2>4. OnRecord(r)' = total[r] + c /\ billed'[r] = billed[r] + c
    BY <1>0, <2>1, <2>2, <2>3 DEF OnRecord
  <2>5. /\ total[r] + c <= billed[r] + c /\ billed[r] + c <= total[r] + c + W
        /\ billed[r] + c <= total[r] + c + W + MaxCost
        /\ total[r] + c < Cap + MaxCost /\ billed[r] + c < Cap + MaxCost + W
    BY <1>d, <2>2, <2>3, OneMoreRequest
  <2> QED
    BY <1>c, <2>3, <2>4, <2>5
<1>5. CASE AskFails(r)
  <2>1. PICK c \in 0..MaxCost : billed' = [billed EXCEPT ![r] = @ + c]
    BY <1>5 DEF AskFails
  <2>2. /\ pc[r] = "asking" /\ pc'[r] = "failed"
        /\ UNCHANGED <<total, resent, tries, call>>
    BY <1>0, <1>5 DEF AskFails
  <2>3. OnRecord(r)' = total[r] /\ billed'[r] = billed[r] + c
    BY <1>0, <1>d, <2>1, <2>2 DEF OnRecord
  <2>4. /\ total[r] <= billed[r] + c /\ billed[r] + c <= total[r] + W + MaxCost
        /\ total[r] < Cap + MaxCost /\ billed[r] + c < Cap + MaxCost + W
    BY <1>d, <2>1, <2>2, OneMoreRequest
  <2> QED
    BY <1>c, <2>2, <2>3, <2>4
<1>6. CASE Store(r)
  <2>1. /\ pc[r] = "storing" /\ pc'[r] = "returning" /\ answer' = answer
        /\ UNCHANGED <<total, billed, resent, tries, call>>
    BY <1>0, <1>6 DEF Store
  <2>2. OnRecord(r)' = OnRecord(r)
    BY <1>a, <2>1 DEF OnRecord
  <2> QED
    BY <1>a, <1>c, <2>1, <2>2
<1>7. CASE SQLiteFails(r)
  <2>1. /\ pc[r] \in {"lookup", "storing"} /\ pc'[r] = "failed"
        /\ UNCHANGED <<total, billed, resent, tries, call>>
    BY <1>0, <1>7 DEF SQLiteFails
  <2>2. OnRecord(r)' = total[r]
    BY <1>a, <2>1 DEF OnRecord
  <2>3. /\ total[r] <= billed[r] /\ billed[r] <= total[r] + W + MaxCost
        /\ Cap > 0 => total[r] < Cap + MaxCost /\ billed[r] < Cap + MaxCost + W
    BY <1>a, <2>1, LostFacts DEF W
  <2> QED
    BY <1>c, <2>1, <2>2, <2>3
<1>8. CASE Return(r)
  <2>1. /\ pc[r] = "returning" /\ pc'[r] \in {"failed", "done", "ready"}
        /\ total'[r] = total[r] + answer[r].cost /\ UNCHANGED <<billed, resent>>
    BY <1>0, <1>8 DEF Return, NextCall
  <2>2. OnRecord(r)' = OnRecord(r)
    <3>1. /\ total[r] \in Nat /\ answer[r].cost \in Nat
          /\ OnRecord(r) = total[r] + answer[r].cost
      BY <1>a, <2>1
    <3>2. OnRecord(r)' = total'[r]
      BY <2>1, <3>1 DEF OnRecord
    <3> QED
      BY <2>1, <3>1, <3>2
  <2>3. Worth(resent[r])' = W
    BY <2>1 DEF Worth, W
  <2>4. resent'[r] <= Retries * (call'[r] - 1) + tries'[r]
    <3>1. CASE UNCHANGED <<call, tries>>
      BY <1>a, <2>1, <3>1 DEF S
    <3>2. CASE call'[r] = call[r] + 1 /\ tries'[r] = 0
      <4> DEFINE n == call[r] - 1
      <4>1. n \in Nat /\ call'[r] - 1 = n + 1
        <5>1. call[r] \in Nat /\ call[r] >= 1
          BY <1>a
        <5> QED
          BY <3>2, <5>1
      <4>2. Retries * (n + 1) = Retries * n + Retries /\ S = Retries * n
        BY <4>1, RetryFacts DEF S
      <4>3. Retries * (call'[r] - 1) = S + Retries
        BY <4>1, <4>2
      <4> QED
        <5>1. /\ resent[r] \in Nat /\ tries[r] \in Nat /\ tries[r] <= Retries
              /\ resent[r] <= S + tries[r]
          BY <1>a
        <5>2. resent[r] <= S + Retries
          BY <1>b, <5>1
        <5> QED
          BY <1>b, <2>1, <3>2, <4>3, <5>2
    <3> QED
      BY <1>0, <1>8, <3>1, <3>2 DEF Return, NextCall
  <2>5. /\ OnRecord(r) <= billed[r] /\ billed[r] <= OnRecord(r) + W
        /\ billed[r] <= OnRecord(r) + W + MaxCost
        /\ Cap > 0 => OnRecord(r) < Cap + MaxCost /\ billed[r] < Cap + MaxCost + W
    <3>1. /\ OnRecord(r) \in Nat /\ billed[r] \in Nat /\ W \in Nat
          /\ billed[r] <= OnRecord(r) + W
      BY <1>a, <2>1
    <3> QED
      BY <1>a, <3>1
  <2> QED
    BY <2>1, <2>2, <2>3, <2>4, <2>5 DEF Solvent
<1> QED
  BY <1>1, <1>2, <1>3, <1>4, <1>5, <1>6, <1>7, <1>8 DEF Step

LEMMA SpendStep ==
    ASSUME Inv, [Next]_vars
    PROVE  Inv'
<1>0. TypeOK /\ AnswerInHand /\ Money /\ TypeOK' /\ AnswerInHand'
  BY TypeStep DEF Inv
<1>1. ASSUME NEW r \in Runs, Step(r)
      PROVE  \A q \in Runs : Solvent(q)'
  BY <1>0, <1>1, StepIsLocal, SolventStep, SolventStays
<1>2. ASSUME Stop
      PROVE  \A q \in Runs : Solvent(q)'
  <2>1. TAKE q \in Runs
  <2>2. CASE pc[q] \in Ended
    <3>1. /\ pc'[q] = pc[q] /\ answer'[q] = Nothing /\ answer[q] = Nothing
          /\ UNCHANGED <<call, tries, total, billed, resent>>
      BY <1>0, <1>2, <2>2 DEF Stop, NoRequest, AnswerInHand, Ended, TypeOK
    <3> QED
      BY <1>0, <3>1, SolventStays
  <2>3. CASE pc[q] \notin Ended
    <3>1. pc[q] # "failed" /\ pc'[q] = "failed"
          /\ UNCHANGED <<call, tries, total, billed, resent>>
      BY <1>2, <2>3 DEF Stop, NoRequest, Ended
    <3>2. OnRecord(q)' = total[q] /\ Worth(resent[q])' = Worth(resent[q])
      <4>1. total[q] \in Nat
        BY <1>0, MoneyFacts
      <4> QED
        BY <3>1, <4>1 DEF OnRecord, Worth
    <3>3. /\ resent'[q] <= Retries * (call'[q] - 1) + tries'[q]
          /\ Cap > 0 => billed[q] < Cap + MaxCost + Worth(resent[q])
      BY <1>0, <3>1, MoneyFacts
    <3>4. /\ total[q] <= billed[q] /\ billed[q] <= total[q] + Worth(resent[q]) + MaxCost
          /\ Cap > 0 => total[q] < Cap + MaxCost
      BY <1>0, <3>1, LostFacts
    <3> QED
      BY <3>1, <3>2, <3>3, <3>4 DEF Solvent
  <2> QED
    BY <2>2, <2>3
<1>3. ASSUME UNCHANGED vars
      PROVE  \A q \in Runs : Solvent(q)'
  BY <1>0, <1>3, SolventStays DEF vars
<1>4. \A q \in Runs : Solvent(q)'
  BY <1>1, <1>2, <1>3 DEF Next
<1>5. (TypeOK /\ AnswerInHand /\ (\A r \in Runs : Solvent(r)))' => Money'
  BY MoneyOfRuns, PTL
<1>6. Money'
  BY <1>0, <1>4, <1>5
<1> QED
  BY <1>0, <1>6 DEF Inv

----------------------------------------------------------------------------
LEMMA StartsSolvent ==
    ASSUME Init
    PROVE  Inv
<1> USE StackAssumption
<1>1. TypeOK /\ AnswerInHand
  BY DEF Init, TypeOK, AnswerInHand
<1>2. ASSUME NEW r \in Runs
      PROVE  Solvent(r)
  <2>1. /\ pc[r] = "ready" /\ total[r] = 0 /\ billed[r] = 0 /\ resent[r] = 0
        /\ call[r] = 1 /\ tries[r] = 0
    BY DEF Init
  <2>2. Worth(resent[r]) = 0 /\ OnRecord(r) = 0
    BY <2>1, WorthFacts DEF OnRecord
  <2> QED
    BY <2>1, <2>2 DEF Solvent
<1> QED
  BY <1>1, <1>2, MoneyOfRuns DEF Inv

\* The budget of a run is kept in every behaviour of the stack.
THEOREM Invariance == Spec => []Inv
<1>1. Init => Inv
  BY StartsSolvent
<1>2. Inv /\ [Next]_vars => Inv'
  BY SpendStep
<1> QED
  BY <1>1, <1>2, PTL DEF Spec

\* Every variable keeps its type.
THEOREM TypeCorrect == Spec => []TypeOK
<1>1. Inv => TypeOK
  BY DEF Inv
<1> QED
  BY <1>1, Invariance, PTL

\* Whatever fails, however runs share the cache and however often the SDK tries, a
\* run is charged less than its cap, one call, and what was sent again, which is no
\* more than Retries requests for each of its calls.
THEOREM SpendBelowSoftCap == Spec => []SoftCap
<1>1. Inv => SoftCap
  BY DEF Inv, Money
<1> QED
  BY <1>1, Invariance, PTL

\* A run is charged what it has recorded, and beyond that no more than the requests
\* that were sent again and, if it has failed, one call.
THEOREM RecordedSpend == Spec => []SpendIsRecorded
<1>1. Inv => SpendIsRecorded
  BY DEF Inv, Money
<1> QED
  BY <1>1, Invariance, PTL

\* A cached answer that no node can use is never replaced once no run is past
\* its lookup.
THEOREM PoisonStays == Spec => PoisonIsPermanent
<1>1. ASSUME Inv, [Next]_vars, NEW k \in Requests, Poisoned(k)
      PROVE  Poisoned(k)'
  <2> USE StackAssumption DEF Goto, Fail, NoRequest, vars, Poisoned
  <2>0. /\ pc \in [Runs -> {"ready"} \cup InCall \cup Ended]
        /\ cache \in [Requests -> Answers \cup {Nothing}]
        /\ call \in [Runs -> 1..Calls]
    BY <1>1 DEF Inv, TypeOK
  <2>1. ASSUME NEW r \in Runs, CheckBudget(r) \/ Refuse(r) \/ Raise(r)
        PROVE  Poisoned(k)'
    BY <1>1, <2>0, <2>1 DEF CheckBudget, Refuse, Raise, Key
  <2>2. ASSUME NEW r \in Runs, Lookup(r)
        PROVE  Poisoned(k)'
    BY <1>1, <2>0, <2>2 DEF Lookup, Hit, Miss, Key
  <2>3. ASSUME NEW r \in Runs, SendAgain(r) \/ Ask(r) \/ AskFails(r)
        PROVE  Poisoned(k)'
    BY <1>1, <2>0, <2>3 DEF SendAgain, Ask, AskFails, Key
  <2>4. ASSUME NEW r \in Runs, Store(r) \/ SQLiteFails(r)
        PROVE  Poisoned(k)'
    BY <1>1, <2>0, <2>4 DEF Store, SQLiteFails, Key
  <2>5. ASSUME NEW r \in Runs, Return(r)
        PROVE  Poisoned(k)'
    <3>1. /\ \E l \in {"failed", "done", "ready"} : pc' = [pc EXCEPT ![r] = l]
          /\ \A q \in Runs \ {r} : call'[q] = call[q]
          /\ cache' = cache
      BY <2>0, <2>5 DEF Return, NextCall
    <3> QED
      BY <1>1, <2>0, <3>1 DEF Key
  <2>6. ASSUME Stop \/ UNCHANGED vars
        PROVE  Poisoned(k)'
    BY <1>1, <2>0, <2>6 DEF Stop, Key, Ended
  <2> QED
    BY <1>1, <2>1, <2>2, <2>3, <2>4, <2>5, <2>6 DEF Next, Step
<1>2. Inv /\ [Next]_vars => [\A k \in Requests : Poisoned(k) => Poisoned(k)']_vars
  BY <1>1
<1> QED
  BY <1>2, Invariance, PTL DEF Spec, PoisonIsPermanent
=============================================================================
