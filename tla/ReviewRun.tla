----------------------------- MODULE ReviewRun -----------------------------
(***************************************************************************)
(* The reviews of one pull request: what _run_review does once the webhook  *)
(* has scheduled it (api/dispatch.py), node by node along the graph of      *)
(* graph.py, with GitHub's side of the two requests a review makes.         *)
(*                                                                          *)
(* Reviews run concurrently in the thread pool.  They share the pull        *)
(* request, whose head moves under them, its comments, and the memories.    *)
(* What the LLM and the tools answer is left open; LLMStack and MemoryLoop  *)
(* model those calls.                                                       *)
(***************************************************************************)
EXTENDS Naturals, Sequences, FiniteSets

CONSTANTS
    Runs,      \* reviews of the pull request, one for each webhook
    Tools,     \* the tools in the registry
    MaxCalls,  \* MaxCalls[r]: bound on the calls in the plan of r
    Findings,  \* what can be found
    MayFind,   \* MayFind[r]: what the critique of r may find
    Life,      \* how long GitHub lets an installation token live
    Buffer,    \* REFRESH_BUFFER_SECONDS
    Wire       \* how long after its token was picked a request may be served

\* auth.py:39: the buffer exists so that a token does not expire on the wire.
ASSUME ReviewAssumption ==
    /\ Life \in Nat /\ Buffer \in Nat /\ Wire \in Nat
    /\ Wire <= Buffer /\ Wire < Life
    /\ MaxCalls \in [Runs -> Nat]
    /\ MayFind \in [Runs -> SUBSET Findings]

VARIABLES
    head,      \* the head of the pull request: 0 before it is opened
    trigger,   \* trigger[r]: the head that r's webhook announced
    node,      \* node[r]: where review r is
    diff,      \* diff[r]: state.raw_diff, the head it was taken at; 0: none
    filled,    \* filled[r]: which of state.diff, plan, review_body are not None
    plan,      \* plan[r]: state.plan.calls
    results,   \* results[r]: state.tool_results
    findings,  \* findings[r]: state.findings
    body,      \* body[r]: the findings state.review_body shows
    status,    \* status[r]: state.post_status
    left,      \* left[r]: time to the expiry of r's cached token
    wire,      \* wire[r]: time r's request may still take
    served,    \* served[r]: GitHub created the comment of r's request
    memories,  \* committed memories, <<review, diff, finding>>
    comments   \* the comments on the pull request, in their order

pull  == <<head, trigger, comments>>
state == <<diff, filled, plan, results, findings, body, status>>
token == <<left, wire, served>>
vars  == <<pull, node, state, token, memories>>

InFlight == {"fetching", "posting"}
Nodes == {"fetch_diff", "parse_diff", "plan", "run_tool", "critique",
          "write_memory", "format_review", "post_comment"} \cup InFlight
Over  == {"end", "raised", "misused", "stopped"}
Place == {"waiting", "queued"} \cup Nodes \cup Over

Result  == [tool : Tools, ok : BOOLEAN]
Comment == [run : Runs, diff : Nat, findings : SUBSET Findings]

TypeOK ==
    /\ head \in Nat
    /\ trigger \in [Runs -> Nat]
    /\ node \in [Runs -> Place]
    /\ diff \in [Runs -> Nat]
    /\ filled \in [Runs -> SUBSET {"diff", "plan", "review_body"}]
    /\ plan \in [Runs -> Seq(Tools)]
    /\ results \in [Runs -> Seq(Result)]
    /\ findings \in [Runs -> SUBSET Findings]
    /\ body \in [Runs -> SUBSET Findings]
    /\ status \in [Runs -> {"pending", "success", "failed"}]
    /\ left \in [Runs -> 0..Life]
    /\ wire \in [Runs -> 0..Wire]
    /\ served \in [Runs -> BOOLEAN]
    /\ memories \subseteq Runs \X Nat \X Findings
    /\ comments \in Seq(Comment)

\* AgentState's defaults, and a fresh GitHubAppAuth for every review.
Init ==
    /\ head = 0 /\ trigger = [r \in Runs |-> 0]
    /\ node = [r \in Runs |-> "waiting"]
    /\ diff = [r \in Runs |-> 0]
    /\ filled = [r \in Runs |-> {}]
    /\ plan = [r \in Runs |-> <<>>]
    /\ results = [r \in Runs |-> <<>>]
    /\ findings = [r \in Runs |-> {}]
    /\ body = [r \in Runs |-> {}]
    /\ status = [r \in Runs |-> "pending"]
    /\ left = [r \in Runs |-> 0]
    /\ wire = [r \in Runs |-> 0]
    /\ served = [r \in Runs |-> FALSE]
    /\ memories = {}
    /\ comments = <<>>

----------------------------------------------------------------------------
(* The graph.                                                              *)

\* Mutant of After: the findings are stored once the comment is out.
AfterCommentFirst ==
    [fetching |-> "parse_diff", parse_diff |-> "plan", plan |-> "run_tool",
     run_tool |-> "critique", critique |-> "format_review",
     format_review |-> "post_comment", posting |-> "write_memory",
     write_memory |-> "end"]

\* Mutant of After: tools are run on the diff before the plan is made.
AfterToolsFirst ==
    [fetching |-> "parse_diff", parse_diff |-> "run_tool", run_tool |-> "plan",
     plan |-> "critique", critique |-> "write_memory",
     write_memory |-> "format_review", format_review |-> "post_comment",
     posting |-> "end"]

\* The edges of graph.py; the graph starts when the diff is there.
After ==
    [fetching |-> "parse_diff", parse_diff |-> "plan", plan |-> "run_tool",
     run_tool |-> "critique", critique |-> "write_memory",
     write_memory |-> "format_review", format_review |-> "post_comment",
     posting |-> "end"]

Goto(r, n) == node' = [node EXCEPT ![r] = n]
Done(r) == Goto(r, After[node[r]])
Fill(r, field) == filled' = [filled EXCEPT ![r] = @ \cup {field}]

\* What the None checks at the head of the nodes ask for.
HasInput(r) ==
    CASE node[r] \in {"plan", "critique"} -> "diff" \in filled[r]
      [] node[r] = "run_tool"             -> "plan" \in filled[r]
      [] node[r] = "post_comment"         -> "review_body" \in filled[r]
      [] OTHER                            -> TRUE

At(r, n) == node[r] = n /\ HasInput(r)

\* An exception of anything a review does before it posts: GitHub refuses the
\* diff, a key is missing, the workspace or the diff cannot be read, the budget,
\* the LLM, its answer, an embedding or the database fails, or ("did parse_diff
\* run?") a node does not find its input.  A tool of the plan that the registry
\* lacks raises too; every caller registers all four.
Raise(r) ==
    /\ node[r] \in Nodes
    /\ node[r] \in {"post_comment", "posting"} => ~HasInput(r)
    /\ Goto(r, IF HasInput(r) THEN "raised" ELSE "misused")
    /\ UNCHANGED <<pull, state, token, memories>>

\* The process stops.
Stop(r) ==
    /\ node[r] \in Nodes \cup {"queued"}
    /\ Goto(r, "stopped")
    /\ UNCHANGED <<pull, state, token, memories>>

----------------------------------------------------------------------------
(* GitHub: pushes, time, tokens.                                           *)

\* A pull request is opened or pushed to, or reopened as it is, and the webhook
\* of the event schedules review r.
Push(r) ==
    /\ node[r] = "waiting"
    /\ head' \in {head + 1} \cup ({head} \ {0})
    /\ trigger' = [trigger EXCEPT ![r] = head']
    /\ Goto(r, "queued")
    /\ UNCHANGED <<comments, state, token, memories>>

\* Time passes for every token and every request; a request that has had its
\* time is over before time goes on.
Tick ==
    /\ \A r \in Runs : node[r] \in InFlight => wire[r] > 0
    /\ left' = [r \in Runs |-> IF left[r] = 0 THEN 0 ELSE left[r] - 1]
    /\ wire' = [r \in Runs |-> IF wire[r] = 0 THEN 0 ELSE wire[r] - 1]
    /\ UNCHANGED <<pull, node, state, served, memories>>

\* Mutant of Reusable: a token is used until it expires.
ReusableToTheEnd(r) == left[r] > 0

\* expires_at - now > REFRESH_BUFFER_SECONDS.
Reusable(r) == left[r] > Buffer

Sending == [fetch_diff |-> "fetching", post_comment |-> "posting"]

\* installation_token, with the exchange of the app's JWT when there is no
\* token or it is about to expire; then the request goes out.
Send(r) ==
    /\ node[r] \in DOMAIN Sending /\ HasInput(r)
    /\ left' = [left EXCEPT ![r] = IF Reusable(r) THEN @ ELSE Life]
    /\ wire' = [wire EXCEPT ![r] = Wire]
    /\ served' = [served EXCEPT ![r] = FALSE]
    /\ Goto(r, Sending[node[r]])
    /\ UNCHANGED <<pull, state, memories>>

\* GitHubAuthError: the exchange is refused or does not get through.
RefreshFails(r) ==
    /\ node[r] \in DOMAIN Sending /\ HasInput(r) /\ ~Reusable(r)
    /\ Goto(r, "raised")
    /\ UNCHANGED <<pull, state, token, memories>>

----------------------------------------------------------------------------
(* The nodes.                                                              *)

\* A thread takes the task.
Start(r) ==
    /\ node[r] = "queued"
    /\ Goto(r, "fetch_diff")
    /\ UNCHANGED <<pull, state, token, memories>>

\* GitHub answers with the diff of the head of that moment, the stack is built
\* and the workspace filled.
FetchDiff(r) ==
    /\ At(r, "fetching")
    /\ diff' = [diff EXCEPT ![r] = head]
    /\ Done(r)
    /\ UNCHANGED <<pull, filled, plan, results, findings, body, status, token, memories>>

ParseDiff(r) ==
    /\ At(r, "parse_diff")
    /\ Fill(r, "diff")
    /\ Done(r)
    /\ UNCHANGED <<pull, diff, plan, results, findings, body, status, token, memories>>

Plan(r) ==
    /\ At(r, "plan")
    /\ \E n \in 0..MaxCalls[r] : \E p \in [1..n -> Tools] : plan' = [plan EXCEPT ![r] = p]
    /\ Fill(r, "plan")
    /\ Done(r)
    /\ UNCHANGED <<pull, diff, results, findings, body, status, token, memories>>

\* Mutant of RunTool: the first tool that raises ends the loop.
RunToolToTheFirstError(r) ==
    /\ At(r, "run_tool") /\ Len(results[r]) < Len(plan[r])
    /\ \E ok \in BOOLEAN :
          /\ results' = [results EXCEPT ![r] =
                            Append(@, [tool |-> plan[r][Len(results[r]) + 1], ok |-> ok])]
          /\ IF ok THEN UNCHANGED node ELSE Done(r)
    /\ UNCHANGED <<pull, diff, filled, plan, findings, body, status, token, memories>>

\* Mutant of RunTool: the results of tools that raised come before the others.
RunToolErrorsFirst(r) ==
    /\ At(r, "run_tool") /\ Len(results[r]) < Len(plan[r])
    /\ \E ok \in BOOLEAN :
          LET result == [tool |-> plan[r][Len(results[r]) + 1], ok |-> ok] IN
          results' = [results EXCEPT ![r] = IF ok THEN Append(@, result) ELSE <<result>> \o @]
    /\ UNCHANGED <<pull, node, diff, filled, plan, findings, body, status, token, memories>>

\* The next call of the plan; what it raises becomes its result.
RunTool(r) ==
    /\ At(r, "run_tool") /\ Len(results[r]) < Len(plan[r])
    /\ \E ok \in BOOLEAN :
          results' = [results EXCEPT ![r] =
                         Append(@, [tool |-> plan[r][Len(results[r]) + 1], ok |-> ok])]
    /\ UNCHANGED <<pull, node, diff, filled, plan, findings, body, status, token, memories>>

ToolsDone(r) ==
    /\ At(r, "run_tool") /\ Len(results[r]) >= Len(plan[r])
    /\ Done(r)
    /\ UNCHANGED <<pull, state, token, memories>>

Critique(r) ==
    /\ At(r, "critique")
    /\ \E F \in SUBSET MayFind[r] : findings' = [findings EXCEPT ![r] = F]
    /\ Done(r)
    /\ UNCHANGED <<pull, diff, filled, plan, results, body, status, token, memories>>

\* Nothing for no findings.  Otherwise one transaction; the answer to its commit
\* may be lost, and then the review raises although the findings are stored.
WriteMemory(r) ==
    /\ At(r, "write_memory")
    /\ memories' = memories \cup {r} \X {diff[r]} \X findings[r]
    /\ \/ Done(r)
       \/ findings[r] # {} /\ Goto(r, "raised")
    /\ UNCHANGED <<pull, state, token>>

FormatReview(r) ==
    /\ At(r, "format_review")
    /\ body' = [body EXCEPT ![r] = findings[r]]
    /\ Fill(r, "review_body")
    /\ Done(r)
    /\ UNCHANGED <<pull, diff, plan, results, findings, status, token, memories>>

\* GitHub creates the comment of the request it has received.  A comment that
\* is created just after its sender stopped is counted as one before.
CreateComment(r) ==
    /\ At(r, "posting") /\ ~served[r]
    /\ comments' = Append(comments, [run |-> r, diff |-> diff[r], findings |-> body[r]])
    /\ served' = [served EXCEPT ![r] = TRUE]
    /\ UNCHANGED <<head, trigger, node, state, left, wire, memories>>

Report(r, s) ==
    /\ status' = [status EXCEPT ![r] = s]
    /\ UNCHANGED <<pull, diff, filled, plan, results, findings, body, token, memories>>

\* 201 with the comment's URL.
PostSucceeds(r) ==
    /\ At(r, "posting") /\ served[r]
    /\ Done(r)
    /\ Report(r, "success")

\* Mutant of PostFails: a timeout is taken for success.
PostFailsUnnoticed(r) ==
    /\ At(r, "posting")
    /\ Done(r)
    /\ Report(r, IF wire[r] = 0 THEN "success" ELSE "failed")

\* Mutant of PostFails: the comment is posted again.
PostFailsAndRetries(r) ==
    /\ At(r, "posting")
    /\ Goto(r, "post_comment")
    /\ Report(r, "failed")

\* Mutant of PostFails: a failure is reported as SKIPPED.
PostFailsAsSkipped(r) ==
    /\ At(r, "posting")
    /\ Done(r)
    /\ Report(r, "skipped")

\* GitHubAPIError, which the poster turns into FAILED: no answer in time or an
\* error of the connection, with or without the comment, or a refusal.
PostFails(r) ==
    /\ At(r, "posting")
    /\ Done(r)
    /\ Report(r, "failed")

\* The body of the 201 is not JSON with an html_url.
PostUnreadable(r) ==
    /\ At(r, "posting") /\ served[r]
    /\ Goto(r, "raised")
    /\ UNCHANGED <<pull, state, token, memories>>

----------------------------------------------------------------------------
Own(r) ==
    \/ Start(r) \/ Send(r) \/ RefreshFails(r) \/ Raise(r)
    \/ FetchDiff(r) \/ ParseDiff(r) \/ Plan(r) \/ RunTool(r) \/ ToolsDone(r)
    \/ Critique(r) \/ WriteMemory(r) \/ FormatReview(r)
    \/ PostSucceeds(r) \/ PostFails(r) \/ PostUnreadable(r)

Next ==
    \/ \E r \in Runs : Push(r) \/ Own(r) \/ CreateComment(r) \/ Stop(r)
    \/ Tick

Spec == Init /\ [][Next]_vars

\* A review goes on: its HTTP calls, its LLM calls and its tools have timeouts,
\* and the kernel's keepalives end a dead connection to the database.  Nothing
\* is assumed of GitHub, of time or of the process.
FairSpec == Spec /\ \A r \in Runs : WF_vars(Own(r))
----------------------------------------------------------------------------
(* Properties.                                                             *)

\* What a comment says stays available to the memory loop: each finding in it
\* was stored before, with the diff that the comment is about.
CommentsAreRemembered ==
    \A i \in 1..Len(comments) : \A f \in comments[i].findings :
        <<comments[i].run, comments[i].diff, f>> \in memories

\* A request is never served with an expired token, however long the LLM and
\* the tools took since the token was fetched.
TokenOutlivesRequest ==
    \A r \in Runs : node[r] \in InFlight => left[r] > 0

\* No node is reached before the nodes that fill its part of the state.
NodesFindTheirInput == \A r \in Runs : node[r] # "misused"

\* The critique sees one result for each call of the plan, in the plan's order,
\* whichever tools failed: missing evidence would read as "no findings".
EvidenceIsComplete ==
    \A r \in Runs :
        node[r] \in {"critique", "write_memory", "format_review",
                     "post_comment", "posting", "end"} =>
            /\ Len(results[r]) = Len(plan[r])
            /\ \A k \in 1..Len(plan[r]) : results[r][k].tool = plan[r][k]

\* A review that reports SUCCESS left a comment with its findings, on a diff no
\* older than the push that asked for it.
SuccessIsOnThePull ==
    \A r \in Runs : status[r] = "success" =>
        \E i \in 1..Len(comments) :
            /\ comments[i].run = r /\ comments[i].findings = findings[r]
            /\ comments[i].diff >= trigger[r]

\* A review that was scheduled ends: the thread it holds is given back.
EveryReviewEnds == \A r \in Runs : node[r] = "queued" ~> node[r] \in Over

\* posting.py says that a poster must not raise, and poster.py that
\* GitHubAPIError is translated so that posters never raise.  The exchange of a
\* token that fails and an unreadable 201 raise something else.
PosterNeverRaises ==
    [][\A r \in Runs : node[r] \in {"post_comment", "posting"} => node'[r] # "raised"]_vars

----------------------------------------------------------------------------
(* What WebhookDispatch assumes of a review, ReviewPromise says of reviews. *)

PhaseOf(n) == IF n = "waiting" THEN "idle"
              ELSE IF n = "queued" THEN "claimed"
              ELSE IF n \in Nodes THEN "reviewing" ELSE "over"

Phase == [r \in Runs |-> PhaseOf(node[r])]

Posted == [r \in Runs |-> Cardinality({i \in 1..Len(comments) : comments[i].run = r})]

Promise == INSTANCE ReviewPromise WITH Deliveries <- Runs, phase <- Phase, comments <- Posted

\* A review comments at most once, while it runs, although the answer of the
\* request that creates the comment may be lost; and it does not start again.
ReviewsAsPromised == Promise!Spec
=============================================================================
