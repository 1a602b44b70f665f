------------------------------ MODULE LLMStack ------------------------------
(***************************************************************************)
(* The LLM client stack of a review: BudgetedLLMClient (budget.py) around   *)
(* SQLiteCacheLLMClient (cache.py) around AnthropicLLMClient                *)
(* (anthropic_client.py), used by the plan and critique nodes.              *)
(*                                                                          *)
(* Every review run builds its own stack, so the spend is the run's own;    *)
(* the runs of a process share one cache file and reach it from threads of  *)
(* their own, and a lookup, the paid call and the store are separate        *)
(* transactions.  The client of the SDK sends a request again that was not  *)
(* answered, a few times, and whoever waits for complete() does not see it. *)
(* A node makes one call, then validates the answer: an answer that is not  *)
(* a usable tool call ends the run, but only after it went through the      *)
(* cache.                                                                   *)
(***************************************************************************)
EXTENDS Naturals

CONSTANTS
    Runs,      \* review runs that share a cache file
    Requests,  \* distinct requests: the cache keys
    Prompt,    \* Prompt[r][n]: the request of call n of run r
    Calls,     \* LLM calls of a run: plan, then critique
    Cap,       \* cap_usd, in units of cost
    MaxCost,   \* the dearest single request
    Retries,   \* how often the SDK sends the request of a call again
    Nothing    \* no answer

ASSUME StackAssumption ==
    /\ Calls \in Nat \ {0} /\ Cap \in Nat /\ MaxCost \in Nat /\ Retries \in Nat
    /\ Prompt \in [Runs -> [1..Calls -> Requests]]

Answers == [cost : 0..MaxCost, usable : BOOLEAN]

ASSUME NothingAssumption == Nothing \notin Answers

VARIABLES
    pc,      \* pc[r]: where run r is in complete()
    call,    \* call[r]: the number of its current call
    tries,   \* tries[r]: how often the SDK has sent that call's request again
    answer,  \* answer[r]: the response in its hands
    total,   \* total[r]: total_spend_usd of its BudgetedLLMClient
    cache,   \* cache[k]: the stored response for request k
    billed,  \* history: billed[r] is what the provider charged for run r
    resent   \* history: resent[r] counts the requests that run r sent again

vars == <<pc, call, tries, answer, total, cache, billed, resent>>

InCall == {"lookup", "asking", "storing", "returning"}
Ended  == {"done", "failed"}

TypeOK ==
    /\ pc \in [Runs -> {"ready"} \cup InCall \cup Ended]
    /\ call \in [Runs -> 1..Calls]
    /\ tries \in [Runs -> 0..Retries]
    /\ answer \in [Runs -> Answers \cup {Nothing}]
    /\ total \in [Runs -> Nat]
    /\ cache \in [Requests -> Answers \cup {Nothing}]
    /\ billed \in [Runs -> Nat]
    /\ resent \in [Runs -> Nat]

Init ==
    /\ pc = [r \in Runs |-> "ready"]
    /\ call = [r \in Runs |-> 1]
    /\ tries = [r \in Runs |-> 0]
    /\ answer = [r \in Runs |-> Nothing]
    /\ total = [r \in Runs |-> 0]
    /\ cache = [k \in Requests |-> Nothing]
    /\ billed = [r \in Runs |-> 0]
    /\ resent = [r \in Runs |-> 0]

Key(r) == Prompt[r][call[r]]

Goto(r, l) == pc' = [pc EXCEPT ![r] = l]
NoRequest == UNCHANGED <<tries, billed, resent>>
Fail(r) == Goto(r, "failed") /\ answer' = [answer EXCEPT ![r] = Nothing]

----------------------------------------------------------------------------
(* BudgetedLLMClient.complete, before the inner call.                      *)

\* Mutant of UnderCap: the cap is checked with the wrong comparison.
AtMostCap(r) == total[r] <= Cap

UnderCap(r) == total[r] < Cap

CheckBudget(r) ==
    /\ pc[r] = "ready"
    /\ UnderCap(r)
    /\ Goto(r, "lookup")
    /\ UNCHANGED <<call, answer, total, cache>> /\ NoRequest

\* BudgetExceededError; nothing asks whether the call would have been free.
Refuse(r) ==
    /\ pc[r] = "ready"
    /\ ~UnderCap(r)
    /\ Fail(r)
    /\ UNCHANGED <<call, total, cache>> /\ NoRequest

(* SQLiteCacheLLMClient.complete.                                          *)

\* A hit is the stored response with its usage set to zero.
Free(resp) == [resp EXCEPT !.cost = 0]

\* Mutant of Hit: the stored usage is returned with the response.
HitAtFullPrice(r) ==
    /\ cache[Key(r)] # Nothing
    /\ answer' = [answer EXCEPT ![r] = cache[Key(r)]]
    /\ Goto(r, "returning")

Hit(r) ==
    /\ cache[Key(r)] # Nothing
    /\ answer' = [answer EXCEPT ![r] = Free(cache[Key(r)])]
    /\ Goto(r, "returning")

Miss(r) ==
    /\ cache[Key(r)] = Nothing
    /\ Goto(r, "asking")
    /\ UNCHANGED answer

\* Mutant of Lookup: a stored answer that no node can use counts as a miss.
LookupUsable(r) ==
    /\ pc[r] = "lookup"
    /\ IF cache[Key(r)] # Nothing /\ ~cache[Key(r)].usable
       THEN Goto(r, "asking") /\ UNCHANGED answer
       ELSE Hit(r) \/ Miss(r)
    /\ UNCHANGED <<call, total, cache>> /\ NoRequest

Lookup(r) ==
    /\ pc[r] = "lookup"
    /\ Hit(r) \/ Miss(r)
    /\ UNCHANGED <<call, total, cache>> /\ NoRequest

\* messages.create: an attempt gets no answer, for a time-out, a lost connection, a
\* rate limit or an error of the server, and is made again.  It may have been served
\* and charged, and its usage is not in the response that is returned at last.
SendAgain(r) ==
    /\ pc[r] = "asking" /\ tries[r] < Retries
    /\ tries' = [tries EXCEPT ![r] = @ + 1]
    /\ resent' = [resent EXCEPT ![r] = @ + 1]
    /\ \E c \in 0..MaxCost : billed' = [billed EXCEPT ![r] = @ + c]
    /\ UNCHANGED <<pc, call, answer, total, cache>>

\* The provider answers, and charges the run for this attempt too; the model may
\* not have called the tool it was told to call.
Ask(r) ==
    /\ pc[r] = "asking"
    /\ \E resp \in Answers :
          /\ answer' = [answer EXCEPT ![r] = resp]
          /\ billed' = [billed EXCEPT ![r] = @ + resp.cost]
    /\ Goto(r, "storing")
    /\ UNCHANGED <<call, tries, total, cache, resent>>

\* The request raises: refused, which is not sent again, or not answered at the
\* last attempt, which may have been served and charged like those before it.
AskFails(r) ==
    /\ pc[r] = "asking"
    /\ \E c \in 0..MaxCost : billed' = [billed EXCEPT ![r] = @ + c]
    /\ Fail(r)
    /\ UNCHANGED <<call, tries, total, cache, resent>>

\* INSERT OR REPLACE: of two runs that missed together the last one stays.
Store(r) ==
    /\ pc[r] = "storing"
    /\ cache' = [cache EXCEPT ![Key(r)] = answer[r]]
    /\ Goto(r, "returning")
    /\ UNCHANGED <<call, answer, total>> /\ NoRequest

\* Mutant of SQLiteFails: a failed store is ignored and the call is made again.
SQLiteFailsQuietly(r) ==
    /\ pc[r] \in {"lookup", "storing"}
    /\ Goto(r, "ready")
    /\ UNCHANGED <<call, answer, total, cache>> /\ NoRequest

\* The cache file cannot be read or written ("database is locked", a full
\* disk): the exception leaves the stack, and with it a paid response.
SQLiteFails(r) ==
    /\ pc[r] \in {"lookup", "storing"}
    /\ Fail(r)
    /\ UNCHANGED <<call, total, cache>> /\ NoRequest

----------------------------------------------------------------------------
(* BudgetedLLMClient.complete, after the inner call, and the calling node.  *)

NextCall(r) ==
    /\ Goto(r, "ready")
    /\ call' = [call EXCEPT ![r] = @ + 1]
    /\ tries' = [tries EXCEPT ![r] = 0]

\* Mutant of Return: the node does not validate the answer.
ReturnAnything(r) ==
    /\ pc[r] = "returning"
    /\ total' = [total EXCEPT ![r] = @ + answer[r].cost]
    /\ answer' = [answer EXCEPT ![r] = Nothing]
    /\ IF call[r] = Calls THEN Goto(r, "done") /\ UNCHANGED <<call, tries>>
       ELSE NextCall(r)
    /\ UNCHANGED <<cache, billed, resent>>

\* Mutant of Return: the last call is not recognised as the last.
ReturnOnceMore(r) ==
    /\ pc[r] = "returning"
    /\ total' = [total EXCEPT ![r] = @ + answer[r].cost]
    /\ answer' = [answer EXCEPT ![r] = Nothing]
    /\ IF ~answer[r].usable THEN Goto(r, "failed") /\ UNCHANGED <<call, tries>>
       ELSE NextCall(r)
    /\ UNCHANGED <<cache, billed, resent>>

\* The spend is added before the node sees the answer.  A node that finds no
\* usable tool call raises ValueError; otherwise the run goes on to its next
\* call, or has made its last one.
Return(r) ==
    /\ pc[r] = "returning"
    /\ total' = [total EXCEPT ![r] = @ + answer[r].cost]
    /\ answer' = [answer EXCEPT ![r] = Nothing]
    /\ IF ~answer[r].usable THEN Goto(r, "failed") /\ UNCHANGED <<call, tries>>
       ELSE IF call[r] = Calls THEN Goto(r, "done") /\ UNCHANGED <<call, tries>>
       ELSE NextCall(r)
    /\ UNCHANGED <<cache, billed, resent>>

\* A node that raises with no call under way: before the first call, or between
\* two of them.
Raise(r) ==
    /\ pc[r] = "ready"
    /\ Fail(r)
    /\ UNCHANGED <<call, total, cache>> /\ NoRequest

\* The process stops; the cache file stays.
Stop ==
    /\ \E r \in Runs : pc[r] \notin Ended
    /\ pc' = [r \in Runs |-> IF pc[r] \in Ended THEN pc[r] ELSE "failed"]
    /\ answer' = [r \in Runs |-> Nothing]
    /\ UNCHANGED <<call, total, cache>> /\ NoRequest

Step(r) ==
    \/ CheckBudget(r) \/ Refuse(r)
    \/ Lookup(r) \/ SendAgain(r) \/ Ask(r) \/ AskFails(r) \/ Store(r) \/ SQLiteFails(r)
    \/ Return(r) \/ Raise(r)

Next == Stop \/ \E r \in Runs : Step(r)

Spec == Init /\ [][Next]_vars

\* Each run has a thread of its own, and the calls it waits for have timeouts.
FairSpec == Spec /\ \A r \in Runs : WF_vars(Step(r))
----------------------------------------------------------------------------
(* Properties.                                                             *)

\* What run r has recorded, and the response that it is just handing up the stack.
OnRecord(r) ==
    total[r] + IF pc[r] \in {"storing", "returning"} THEN answer[r].cost ELSE 0

\* The most that n requests cost.
Worth(n) == MaxCost * n

\* The cap is soft: the call that crosses it completes and none follows.  What a
\* run is charged stays below the cap, one call, and one more for each request
\* that the SDK sent again, of which the cap sees nothing.  The bill, not the
\* recorded total: a store that fails loses the record of a paid call, and the cap
\* still holds because it also ends the run.
SoftCap ==
    \A r \in Runs :
        /\ Cap > 0 => billed[r] < Cap + MaxCost + Worth(resent[r])
        /\ resent[r] <= Retries * Calls

\* No more is recorded than was charged: a hit is free.  And the record misses
\* nothing but the requests that were sent again and, of a run that has failed, the
\* one that it failed in: a run pays for its own misses only, and as long as the SDK
\* sends nothing again no paid call of a run that goes on is forgotten.
SpendIsRecorded ==
    \A r \in Runs :
        LET lost == Worth(resent[r]) + IF pc[r] = "failed" THEN MaxCost ELSE 0
        IN  billed[r] \in OnRecord(r) .. (OnRecord(r) + lost)

\* A request whose cached answer no node can use, with no paid call under way
\* that might replace it.
Poisoned(k) ==
    /\ cache[k] # Nothing /\ ~cache[k].usable
    /\ \A r \in Runs : pc[r] \in {"asking", "storing"} => Key(r) # k

\* The cache keeps what the model said, valid or not, and nothing ever evicts
\* it: a poisoned request stays poisoned, and the same review fails for ever.
PoisonIsPermanent ==
    [][\A k \in Requests : Poisoned(k) => Poisoned(k)']_vars

\* A run never gets past a poisoned request: it ends as a failure.
PoisonIsFatal ==
    \A r \in Runs : (pc[r] = "ready" /\ Poisoned(Key(r))) ~> (pc[r] = "failed")

\* Every run ends.
EveryRunEnds == \A r \in Runs : <>(pc[r] \in Ended)
=============================================================================
