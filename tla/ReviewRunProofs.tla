-------------------------- MODULE ReviewRunProofs --------------------------
(***************************************************************************)
(* Proofs about ReviewRun for any number of reviews and tools, any findings,*)
(* and any token life, buffer and wire time that satisfy ReviewAssumption.  *)
(***************************************************************************)
EXTENDS ReviewRun, FiniteSetTheorems, TLAPS

----------------------------------------------------------------------------
(* The inductive invariant: what holds of a review from some node on.      *)

FromWrite  == {"format_review", "post_comment", "posting", "end"}
FromFormat == {"post_comment", "posting", "end"}
FromTools  == {"critique", "write_memory"} \cup FromWrite
FromPlan   == {"run_tool"} \cup FromTools
FromParse  == {"plan"} \cup FromPlan
FromFetch  == {"parse_diff"} \cup FromParse
UpToPlan   == {"waiting", "queued", "fetch_diff", "fetching", "parse_diff", "plan"}

\* The token outlasts the time its request may still take.
TokenLasts == \A r \in Runs : node[r] \in InFlight => wire[r] < left[r]

Inputs ==
    \A r \in Runs :
        /\ node[r] # "misused"
        /\ node[r] \in FromParse => "diff" \in filled[r]
        /\ node[r] \in FromPlan => "plan" \in filled[r]
        /\ node[r] \in FromFormat => "review_body" \in filled[r]

Evidence ==
    \A r \in Runs :
        /\ node[r] \in UpToPlan => results[r] = <<>>
        /\ node[r] = "run_tool" => Len(results[r]) <= Len(plan[r])
        /\ node[r] \in FromPlan => \A k \in 1..Len(results[r]) : results[r][k].tool = plan[r][k]
        /\ node[r] \in FromTools => Len(results[r]) = Len(plan[r])

Fresh ==
    \A r \in Runs :
        /\ node[r] # "waiting" => trigger[r] <= head
        /\ node[r] \in FromFetch => trigger[r] <= diff[r]

Written ==
    \A r \in Runs :
        /\ node[r] \in FromWrite => {r} \X {diff[r]} \X findings[r] \subseteq memories
        /\ node[r] \in FromFormat => body[r] = findings[r]

OnThePull(r) ==
    \E i \in 1..Len(comments) :
        /\ comments[i].run = r /\ comments[i].findings = findings[r]
        /\ comments[i].diff = diff[r]

Reported ==
    \A r \in Runs :
        /\ node[r] = "posting" /\ served[r] => OnThePull(r)
        /\ status[r] = "success" => node[r] = "end" /\ OnThePull(r)

Inv == /\ TypeOK /\ TokenLasts /\ Inputs /\ Evidence /\ Fresh
       /\ Written /\ Reported /\ CommentsAreRemembered

----------------------------------------------------------------------------
(* Type correctness.                                                       *)

\* Where the edges of the graph lead.
LEMMA Edges ==
    /\ After["fetching"] = "parse_diff" /\ After["parse_diff"] = "plan"
    /\ After["plan"] = "run_tool" /\ After["run_tool"] = "critique"
    /\ After["critique"] = "write_memory" /\ After["write_memory"] = "format_review"
    /\ After["format_review"] = "post_comment" /\ After["posting"] = "end"
  BY DEF After

LEMMA Requests ==
    /\ DOMAIN Sending = {"fetch_diff", "post_comment"}
    /\ Sending["fetch_diff"] = "fetching" /\ Sending["post_comment"] = "posting"
  BY DEF Sending

LEMMA Places ==
    /\ Nodes \subseteq Place /\ Over \subseteq Place /\ {"waiting", "queued"} \subseteq Place
    /\ \A n \in {"fetch_diff", "parse_diff", "plan", "run_tool", "critique",
                 "write_memory", "format_review", "post_comment", "fetching",
                 "posting", "end", "raised", "misused", "stopped"} : n \in Place
  BY DEF Place, Nodes, Over, InFlight

LEMMA GotoType ==
    ASSUME TypeOK, NEW r \in Runs, NEW n \in Place, Goto(r, n)
    PROVE  node' \in [Runs -> Place]
  BY DEF TypeOK, Goto

LEMMA TypeStep ==
    ASSUME TypeOK, [Next]_vars
    PROVE  TypeOK'
<1> USE Edges, Places
<1>1. ASSUME NEW r \in Runs, Push(r) PROVE TypeOK'
  <2>1. node' \in [Runs -> Place]
    BY <1>1, GotoType DEF Push
  <2>3. head' \in Nat
    BY <1>1 DEF Push, TypeOK
  <2>2. trigger' \in [Runs -> Nat]
    BY <1>1, <2>3 DEF Push, TypeOK
  <2> QED
    BY <1>1, <2>1, <2>2, <2>3 DEF Push, TypeOK, state, token
<1>2. ASSUME NEW r \in Runs, Start(r) PROVE TypeOK'
  <2>1. node' \in [Runs -> Place]
    BY <1>2, GotoType DEF Start
  <2> QED
    BY <1>2, <2>1 DEF Start, TypeOK, pull, state, token
<1>3. ASSUME NEW r \in Runs, Send(r) PROVE TypeOK'
  <2>1. node' \in [Runs -> Place]
    BY <1>3, GotoType, Requests DEF Send
  <2>2. /\ left' \in [Runs -> 0..Life] /\ wire' \in [Runs -> 0..Wire]
        /\ served' \in [Runs -> BOOLEAN]
    BY <1>3, ReviewAssumption DEF Send, TypeOK
  <2> QED
    BY <1>3, <2>1, <2>2 DEF Send, TypeOK, pull, state
<1>4. ASSUME NEW r \in Runs, RefreshFails(r) \/ Raise(r) \/ Stop(r) \/ PostUnreadable(r) \/ ToolsDone(r)
      PROVE  TypeOK'
  <2>1. node' \in [Runs -> Place]
    BY <1>4, GotoType DEF RefreshFails, Raise, Stop, PostUnreadable, ToolsDone, At, Done
  <2> QED
    BY <1>4, <2>1 DEF RefreshFails, Raise, Stop, PostUnreadable, ToolsDone, TypeOK, pull, state, token
<1>5. ASSUME NEW r \in Runs, FetchDiff(r) PROVE TypeOK'
  <2>1. node' \in [Runs -> Place]
    BY <1>5, GotoType DEF FetchDiff, At, Done
  <2>2. diff' \in [Runs -> Nat]
    BY <1>5 DEF FetchDiff, TypeOK
  <2> QED
    BY <1>5, <2>1, <2>2 DEF FetchDiff, TypeOK, pull, token
<1>6. ASSUME NEW r \in Runs, ParseDiff(r) PROVE TypeOK'
  <2>1. node' \in [Runs -> Place]
    BY <1>6, GotoType DEF ParseDiff, At, Done
  <2>2. filled' \in [Runs -> SUBSET {"diff", "plan", "review_body"}]
    BY <1>6 DEF ParseDiff, Fill, TypeOK
  <2> QED
    BY <1>6, <2>1, <2>2 DEF ParseDiff, TypeOK, pull, token
<1>7. ASSUME NEW r \in Runs, Plan(r) PROVE TypeOK'
  <2>1. node' \in [Runs -> Place]
    BY <1>7, GotoType DEF Plan, At, Done
  <2>2. filled' \in [Runs -> SUBSET {"diff", "plan", "review_body"}]
    BY <1>7 DEF Plan, Fill, TypeOK
  <2>3. PICK n \in 0..MaxCalls[r] :
           \E p \in [1..n -> Tools] : plan' = [plan EXCEPT ![r] = p]
    BY <1>7 DEF Plan
  <2>4. [1..n -> Tools] \subseteq Seq(Tools)
    BY ReviewAssumption
  <2>5. plan' \in [Runs -> Seq(Tools)]
    BY <2>3, <2>4 DEF TypeOK
  <2> QED
    BY <1>7, <2>1, <2>2, <2>5 DEF Plan, TypeOK, pull, token
<1>8. ASSUME NEW r \in Runs, RunTool(r) PROVE TypeOK'
  <2>1. PICK ok \in BOOLEAN :
           results' = [results EXCEPT ![r] =
                          Append(@, [tool |-> plan[r][Len(results[r]) + 1], ok |-> ok])]
    BY <1>8 DEF RunTool
  <2>2. plan[r] \in Seq(Tools) /\ results[r] \in Seq(Result)
    BY DEF TypeOK
  <2>3. Len(results[r]) + 1 \in 1..Len(plan[r])
    BY <1>8, <2>2 DEF RunTool
  <2>4. [tool |-> plan[r][Len(results[r]) + 1], ok |-> ok] \in Result
    BY <2>2, <2>3 DEF Result
  <2>5. Append(results[r], [tool |-> plan[r][Len(results[r]) + 1], ok |-> ok]) \in Seq(Result)
    BY <2>2, <2>4
  <2>6. results' \in [Runs -> Seq(Result)]
    BY <2>1, <2>5 DEF TypeOK
  <2> QED
    BY <1>8, <2>6 DEF RunTool, TypeOK, pull, token
<1>9. ASSUME NEW r \in Runs, Critique(r) PROVE TypeOK'
  <2>1. node' \in [Runs -> Place]
    BY <1>9, GotoType DEF Critique, At, Done
  <2>2. PICK F \in SUBSET MayFind[r] : findings' = [findings EXCEPT ![r] = F]
    BY <1>9 DEF Critique
  <2>3. MayFind[r] \in SUBSET Findings
    BY ReviewAssumption
  <2>4. F \in SUBSET Findings
    BY <2>2, <2>3
  <2>5. findings' \in [Runs -> SUBSET Findings]
    BY <2>2, <2>4 DEF TypeOK
  <2> QED
    BY <1>9, <2>1, <2>5 DEF Critique, TypeOK, pull, token
<1>10. ASSUME NEW r \in Runs, WriteMemory(r) PROVE TypeOK'
  <2>1. node' \in [Runs -> Place]
    BY <1>10, GotoType DEF WriteMemory, At, Done
  <2>2. diff[r] \in Nat /\ findings[r] \subseteq Findings
    BY DEF TypeOK
  <2>3. {r} \X {diff[r]} \X findings[r] \subseteq Runs \X Nat \X Findings
    BY <2>2
  <2>4. memories' \subseteq Runs \X Nat \X Findings
    BY <1>10, <2>3 DEF WriteMemory, TypeOK
  <2> QED
    BY <1>10, <2>1, <2>4 DEF WriteMemory, TypeOK, pull, state, token
<1>11. ASSUME NEW r \in Runs, FormatReview(r) PROVE TypeOK'
  <2>1. node' \in [Runs -> Place]
    BY <1>11, GotoType DEF FormatReview, At, Done
  <2>2. filled' \in [Runs -> SUBSET {"diff", "plan", "review_body"}]
    BY <1>11 DEF FormatReview, Fill, TypeOK
  <2>3. body' \in [Runs -> SUBSET Findings]
    BY <1>11 DEF FormatReview, TypeOK
  <2> QED
    BY <1>11, <2>1, <2>2, <2>3 DEF FormatReview, TypeOK, pull, token
<1>12. ASSUME NEW r \in Runs, CreateComment(r) PROVE TypeOK'
  <2>1. [run |-> r, diff |-> diff[r], findings |-> body[r]] \in Comment
    BY DEF TypeOK, Comment
  <2>2. comments' \in Seq(Comment)
    BY <1>12, <2>1 DEF CreateComment, TypeOK
  <2>3. served' \in [Runs -> BOOLEAN]
    BY <1>12 DEF CreateComment, TypeOK
  <2> QED
    BY <1>12, <2>2, <2>3 DEF CreateComment, TypeOK, state
<1>13. ASSUME NEW r \in Runs, PostSucceeds(r) \/ PostFails(r) PROVE TypeOK'
  <2>1. node' \in [Runs -> Place]
    BY <1>13, GotoType DEF PostSucceeds, PostFails, At, Done
  <2>2. status' \in [Runs -> {"pending", "success", "failed"}]
    BY <1>13 DEF PostSucceeds, PostFails, Report, TypeOK
  <2> QED
    BY <1>13, <2>1, <2>2 DEF PostSucceeds, PostFails, Report, TypeOK, pull, token
<1>14. CASE Tick
  <2>1. left' \in [Runs -> 0..Life] /\ wire' \in [Runs -> 0..Wire]
    BY <1>14, ReviewAssumption, SMTT(30) DEF Tick, TypeOK
  <2> QED
    BY <1>14, <2>1 DEF Tick, TypeOK, pull, state
<1>15. CASE UNCHANGED vars
  BY <1>15 DEF vars, TypeOK, pull, state, token
<1> QED
  BY <1>1, <1>2, <1>3, <1>4, <1>5, <1>6, <1>7, <1>8, <1>9, <1>10, <1>11, <1>12,
     <1>13, <1>14, <1>15 DEF Next, Own

----------------------------------------------------------------------------
LEMMA TokenStep ==
    ASSUME TypeOK, TokenLasts, [Next]_vars
    PROVE  TokenLasts'
<1> SUFFICES ASSUME NEW q \in Runs, node'[q] \in InFlight PROVE wire'[q] < left'[q]
  BY DEF TokenLasts
<1> USE Edges, Requests DEF InFlight, Goto, Done, At
<1>0. /\ node \in [Runs -> Place] /\ wire \in [Runs -> 0..Wire] /\ left \in [Runs -> 0..Life]
      /\ node[q] \in InFlight => wire[q] < left[q]
  BY DEF TypeOK, TokenLasts
<1>1. ASSUME NEW r \in Runs, Send(r) PROVE wire'[q] < left'[q]
  BY <1>0, <1>1, ReviewAssumption DEF Send, Reusable
<1>2. ASSUME NEW r \in Runs, Push(r) \/ Start(r) \/ RefreshFails(r) \/ Raise(r) \/ Stop(r)
      PROVE wire'[q] < left'[q]
  BY <1>0, <1>2 DEF Push, Start, RefreshFails, Raise, Stop, token
<1>3. ASSUME NEW r \in Runs, FetchDiff(r) \/ ParseDiff(r) \/ Plan(r) \/ RunTool(r) \/ ToolsDone(r)
      PROVE wire'[q] < left'[q]
  BY <1>0, <1>3 DEF FetchDiff, ParseDiff, Plan, RunTool, ToolsDone, token
<1>4. ASSUME NEW r \in Runs, Critique(r) \/ WriteMemory(r) \/ FormatReview(r)
      PROVE wire'[q] < left'[q]
  BY <1>0, <1>4 DEF Critique, WriteMemory, FormatReview, token
<1>5. ASSUME NEW r \in Runs, CreateComment(r) \/ PostSucceeds(r) \/ PostFails(r) \/ PostUnreadable(r)
      PROVE wire'[q] < left'[q]
  BY <1>0, <1>5 DEF CreateComment, PostSucceeds, PostFails, PostUnreadable, Report, token
<1>6. CASE Tick
  BY <1>0, <1>6, ReviewAssumption DEF Tick
<1>7. CASE UNCHANGED vars
  BY <1>0, <1>7 DEF vars, token
<1> QED
  BY <1>1, <1>2, <1>3, <1>4, <1>5, <1>6, <1>7 DEF Next, Own

----------------------------------------------------------------------------
(* The other invariants.                                                   *)

LEMMA InputStep ==
    ASSUME TypeOK, Inputs, [Next]_vars
    PROVE  Inputs'
<1> DEFINE Ready(q) == /\ node[q] # "misused"
                       /\ node[q] \in FromParse => "diff" \in filled[q]
                       /\ node[q] \in FromPlan => "plan" \in filled[q]
                       /\ node[q] \in FromFormat => "review_body" \in filled[q]
<1> SUFFICES ASSUME NEW q \in Runs PROVE Ready(q)'
  BY DEF Inputs
<1> USE Edges, Requests DEF FromFetch, FromParse, FromPlan, FromTools, FromWrite, FromFormat, Goto, Done, At
<1>0. /\ node \in [Runs -> Place] /\ filled \in [Runs -> SUBSET {"diff", "plan", "review_body"}]
      /\ \A r \in Runs : Ready(r)
  BY DEF TypeOK, Inputs
<1>1. \A r \in Runs : node[r] \in Nodes => HasInput(r)
  BY <1>0 DEF HasInput, Nodes, InFlight
<1>2. ASSUME NEW r \in Runs, Push(r) \/ Start(r) \/ Send(r) \/ RefreshFails(r) \/ Raise(r) \/ Stop(r)
      PROVE  Ready(q)'
  BY <1>0, <1>1, <1>2 DEF Push, Start, Send, RefreshFails, Raise, Stop, state
<1>3. ASSUME NEW r \in Runs, ParseDiff(r) \/ Plan(r) \/ FormatReview(r)
      PROVE  Ready(q)'
  BY <1>0, <1>3 DEF ParseDiff, Plan, FormatReview, Fill
<1>4. ASSUME NEW r \in Runs, FetchDiff(r) \/ RunTool(r) \/ ToolsDone(r) \/ Critique(r) \/ WriteMemory(r)
      PROVE  Ready(q)'
  BY <1>0, <1>4 DEF FetchDiff, RunTool, ToolsDone, Critique, WriteMemory, state
<1>5. ASSUME NEW r \in Runs, CreateComment(r) \/ PostSucceeds(r) \/ PostFails(r) \/ PostUnreadable(r)
      PROVE  Ready(q)'
  BY <1>0, <1>5 DEF CreateComment, PostSucceeds, PostFails, PostUnreadable, Report, state
<1>6. CASE Tick \/ UNCHANGED vars
  BY <1>0, <1>6 DEF Tick, vars, state
<1> QED
  BY <1>2, <1>3, <1>4, <1>5, <1>6 DEF Next, Own

LEMMA FreshStep ==
    ASSUME TypeOK, Fresh, [Next]_vars
    PROVE  Fresh'
<1> DEFINE Good(q) == /\ node[q] # "waiting" => trigger[q] <= head
                      /\ node[q] \in FromFetch => trigger[q] <= diff[q]
<1> SUFFICES ASSUME NEW q \in Runs PROVE Good(q)'
  BY DEF Fresh
<1> USE Edges, Requests DEF FromFetch, FromParse, FromPlan, FromTools, FromWrite, FromFormat, Goto, Done, At
<1>0. /\ node \in [Runs -> Place] /\ trigger \in [Runs -> Nat] /\ diff \in [Runs -> Nat]
      /\ head \in Nat /\ \A r \in Runs : Good(r)
  BY DEF TypeOK, Fresh
<1>1. ASSUME NEW r \in Runs, Push(r) PROVE Good(q)'
  BY <1>0, <1>1 DEF Push, state
<1>2. ASSUME NEW r \in Runs, Start(r) \/ Send(r) \/ RefreshFails(r) \/ Raise(r) \/ Stop(r)
      PROVE  Good(q)'
  BY <1>0, <1>2 DEF Start, Send, RefreshFails, Raise, Stop, state, pull, Nodes, InFlight
<1>3. ASSUME NEW r \in Runs, FetchDiff(r) PROVE Good(q)'
  BY <1>0, <1>3 DEF FetchDiff, pull
<1>4. ASSUME NEW r \in Runs, ParseDiff(r) \/ Plan(r) \/ RunTool(r) \/ ToolsDone(r) \/ Critique(r)
      PROVE  Good(q)'
  BY <1>0, <1>4 DEF ParseDiff, Plan, RunTool, ToolsDone, Critique, state, pull
<1>5. ASSUME NEW r \in Runs, WriteMemory(r) \/ FormatReview(r) \/ CreateComment(r)
                           \/ PostSucceeds(r) \/ PostFails(r) \/ PostUnreadable(r)
      PROVE  Good(q)'
  BY <1>0, <1>5 DEF WriteMemory, FormatReview, CreateComment, PostSucceeds, PostFails,
     PostUnreadable, Report, state, pull
<1>6. CASE Tick \/ UNCHANGED vars
  BY <1>0, <1>6 DEF Tick, vars, state, pull
<1> QED
  BY <1>1, <1>2, <1>3, <1>4, <1>5, <1>6 DEF Next, Own

LEMMA WrittenStep ==
    ASSUME TypeOK, Written, [Next]_vars
    PROVE  Written'
<1> DEFINE Good(q) ==
      /\ node[q] \in FromWrite => {q} \X {diff[q]} \X findings[q] \subseteq memories
      /\ node[q] \in FromFormat => body[q] = findings[q]
<1> SUFFICES ASSUME NEW q \in Runs PROVE Good(q)'
  BY DEF Written
<1> USE Edges, Requests DEF FromFetch, FromParse, FromPlan, FromTools, FromWrite, FromFormat, Goto, Done, At
<1>0. /\ node \in [Runs -> Place] /\ diff \in [Runs -> Nat]
      /\ findings \in [Runs -> SUBSET Findings] /\ body \in [Runs -> SUBSET Findings]
      /\ \A r \in Runs : Good(r)
  BY DEF TypeOK, Written
<1>1. ASSUME NEW r \in Runs, Push(r) \/ Start(r) \/ Send(r) \/ RefreshFails(r) \/ Raise(r) \/ Stop(r)
      PROVE  Good(q)'
  BY <1>0, <1>1 DEF Push, Start, Send, RefreshFails, Raise, Stop, state
<1>2. ASSUME NEW r \in Runs, FetchDiff(r) PROVE Good(q)'
  BY <1>0, <1>2 DEF FetchDiff
<1>3. ASSUME NEW r \in Runs, ParseDiff(r) \/ Plan(r) \/ RunTool(r) \/ ToolsDone(r)
      PROVE  Good(q)'
  BY <1>0, <1>3 DEF ParseDiff, Plan, RunTool, ToolsDone, state
<1>4. ASSUME NEW r \in Runs, Critique(r) PROVE Good(q)'
  BY <1>0, <1>4 DEF Critique
<1>5. ASSUME NEW r \in Runs, WriteMemory(r) PROVE Good(q)'
  BY <1>0, <1>5 DEF WriteMemory, state
<1>6. ASSUME NEW r \in Runs, FormatReview(r) PROVE Good(q)'
  BY <1>0, <1>6 DEF FormatReview
<1>7. ASSUME NEW r \in Runs, CreateComment(r) \/ PostSucceeds(r) \/ PostFails(r) \/ PostUnreadable(r)
      PROVE  Good(q)'
  BY <1>0, <1>7 DEF CreateComment, PostSucceeds, PostFails, PostUnreadable, Report, state
<1>8. CASE Tick \/ UNCHANGED vars
  BY <1>0, <1>8 DEF Tick, vars, state
<1> QED
  BY <1>1, <1>2, <1>3, <1>4, <1>5, <1>6, <1>7, <1>8 DEF Next, Own

LEMMA EvidenceStep ==
    ASSUME TypeOK, Evidence, [Next]_vars
    PROVE  Evidence'
<1> DEFINE Good(q) ==
      /\ node[q] \in UpToPlan => results[q] = <<>>
      /\ node[q] = "run_tool" => Len(results[q]) <= Len(plan[q])
      /\ node[q] \in FromPlan => \A k \in 1..Len(results[q]) : results[q][k].tool = plan[q][k]
      /\ node[q] \in FromTools => Len(results[q]) = Len(plan[q])
<1> SUFFICES ASSUME NEW q \in Runs PROVE Good(q)'
  BY DEF Evidence
<1> USE Edges, Requests DEF UpToPlan, FromPlan, FromTools, FromWrite, Goto, Done, At
<1>0. /\ node \in [Runs -> Place] /\ plan \in [Runs -> Seq(Tools)]
      /\ results \in [Runs -> Seq(Result)] /\ \A r \in Runs : Good(r)
  BY DEF TypeOK, Evidence
<1> HIDE DEF Good
<1>a. ASSUME results' = results, plan' = plan, node'[q] = node[q] PROVE Good(q)'
  BY <1>0, <1>a DEF Good
<1>b. ASSUME results' = results, plan' = plan, node[q] \in UpToPlan, node'[q] \in UpToPlan
      PROVE  Good(q)'
  BY <1>0, <1>b DEF Good
<1>c. ASSUME results' = results, plan' = plan, node[q] \in FromTools, node'[q] \in FromTools
      PROVE  Good(q)'
  BY <1>0, <1>c DEF Good
<1>d. ASSUME results' = results, plan' = plan, node'[q] \in Over \ {"end"} PROVE Good(q)'
  BY <1>0, <1>d DEF Good, Over
<1>1. ASSUME NEW r \in Runs, Push(r) \/ Start(r) \/ Send(r) \/ RefreshFails(r) \/ Raise(r) \/ Stop(r)
      PROVE  Good(q)'
  <2>1. results' = results /\ plan' = plan
    BY <1>1 DEF Push, Start, Send, RefreshFails, Raise, Stop, state
  <2>2. \/ node'[q] = node[q]
        \/ node[q] \in UpToPlan /\ node'[q] \in UpToPlan
        \/ node[q] \in FromTools /\ node'[q] \in FromTools
        \/ node'[q] \in Over \ {"end"}
    BY <1>0, <1>1 DEF Push, Start, Send, RefreshFails, Raise, Stop, Over
  <2> QED
    BY <1>a, <1>b, <1>c, <1>d, <2>1, <2>2
<1>2. ASSUME NEW r \in Runs, FetchDiff(r) \/ ParseDiff(r)
      PROVE  Good(q)'
  <2>1. \/ node'[q] = node[q]
        \/ node[q] \in UpToPlan /\ node'[q] \in UpToPlan
    BY <1>0, <1>2 DEF FetchDiff, ParseDiff
  <2> QED
    BY <1>a, <1>b, <1>2, <2>1 DEF FetchDiff, ParseDiff
<1>3. ASSUME NEW r \in Runs, Plan(r) PROVE Good(q)'
  <2>1. PICK n \in 0..MaxCalls[r] :
           \E p \in [1..n -> Tools] : plan' = [plan EXCEPT ![r] = p]
    BY <1>3 DEF Plan
  <2>2. results[r] = <<>> /\ results' = results
    BY <1>0, <1>3 DEF Plan, Good
  <2>3. CASE q = r
    <3>1. plan'[r] \in [1..n -> Tools] /\ n \in Nat
      BY <1>0, <2>1, ReviewAssumption
    <3>2. Len(plan'[r]) \in Nat
      BY <3>1
    <3>3. node'[r] = "run_tool"
      BY <1>0, <1>3 DEF Plan
    <3>4. Len(results'[r]) = 0
      BY <2>2
    <3> QED
      BY <2>3, <3>2, <3>3, <3>4 DEF Good
  <2>4. CASE q # r
    <3>1. node'[q] = node[q] /\ plan'[q] = plan[q]
      BY <1>0, <1>3, <2>1, <2>4 DEF Plan
    <3> QED
      BY <1>0, <2>2, <3>1 DEF Good
  <2> QED
    BY <2>3, <2>4
<1>4. ASSUME NEW r \in Runs, RunTool(r) PROVE Good(q)'
  <2> DEFINE call(ok) == [tool |-> plan[r][Len(results[r]) + 1], ok |-> ok]
  <2>1. PICK ok \in BOOLEAN : results' = [results EXCEPT ![r] = Append(@, call(ok))]
    BY <1>4 DEF RunTool
  <2>2. /\ node[r] = "run_tool" /\ node' = node /\ plan' = plan
        /\ Len(results[r]) < Len(plan[r])
    BY <1>4 DEF RunTool
  <2>3. Len(results[r]) + 1 \in 1..Len(plan[r]) /\ Len(results[r]) \in Nat
    BY <1>0, <2>2
  <2>4. call(ok) \in Result /\ call(ok).tool = plan[r][Len(results[r]) + 1]
    BY <1>0, <2>3 DEF Result
  <2> HIDE DEF call
  <2>5. CASE q = r
    <3>1. results'[r] = Append(results[r], call(ok))
      BY <1>0, <2>1
    <3>2. /\ Len(results'[r]) = Len(results[r]) + 1
          /\ \A k \in 1..Len(results[r]) : results'[r][k] = results[r][k]
          /\ results'[r][Len(results[r]) + 1] = call(ok)
      BY <1>0, <2>4, <3>1
    <3>3. \A k \in 1..Len(results[r]) : results[r][k].tool = plan[r][k]
      BY <1>0, <2>2 DEF Good
    <3>4. ASSUME NEW k \in 1..Len(results'[r]) PROVE results'[r][k].tool = plan[r][k]
      <4>1. CASE k \in 1..Len(results[r])
        BY <3>2, <3>3, <4>1
      <4>2. CASE k = Len(results[r]) + 1
        BY <2>4, <3>2, <4>2
      <4> QED
        BY <2>3, <3>2, <4>1, <4>2
    <3>5. Len(results'[r]) <= Len(plan[r])
      BY <2>3, <3>2
    <3> QED
      BY <2>2, <2>5, <3>4, <3>5 DEF Good
  <2>6. CASE q # r
    BY <1>0, <2>1, <2>2, <2>6 DEF Good
  <2> QED
    BY <2>5, <2>6
<1>5. ASSUME NEW r \in Runs, ToolsDone(r) PROVE Good(q)'
  <2>1. results' = results /\ plan' = plan
    BY <1>5 DEF ToolsDone, state
  <2>2. CASE q = r
    <3>1. node[r] = "run_tool" /\ node'[r] = "critique" /\ Len(results[r]) >= Len(plan[r])
      BY <1>0, <1>5 DEF ToolsDone
    <3>2. Len(results[r]) <= Len(plan[r]) /\ Len(results[r]) \in Nat /\ Len(plan[r]) \in Nat
      BY <1>0, <3>1 DEF Good
    <3>3. Len(results[r]) = Len(plan[r])
      BY <3>1, <3>2
    <3> QED
      BY <1>0, <2>1, <2>2, <3>1, <3>3 DEF Good
  <2>3. CASE q # r
    BY <1>0, <1>5, <1>a, <2>1, <2>3 DEF ToolsDone
  <2> QED
    BY <2>2, <2>3
<1>6. ASSUME NEW r \in Runs, Critique(r) \/ WriteMemory(r) \/ FormatReview(r)
      PROVE  Good(q)'
  <2>1. results' = results /\ plan' = plan
    BY <1>6 DEF Critique, WriteMemory, FormatReview, state
  <2>2. \/ node'[q] = node[q]
        \/ node[q] \in FromTools /\ node'[q] \in FromTools
        \/ node'[q] \in Over \ {"end"}
    BY <1>0, <1>6 DEF Critique, WriteMemory, FormatReview, Over
  <2> QED
    BY <1>a, <1>c, <1>d, <2>1, <2>2
<1>7. ASSUME NEW r \in Runs, CreateComment(r) \/ PostSucceeds(r) \/ PostFails(r) \/ PostUnreadable(r)
      PROVE  Good(q)'
  <2>1. results' = results /\ plan' = plan
    BY <1>7 DEF CreateComment, PostSucceeds, PostFails, PostUnreadable, Report, state
  <2>2. \/ node'[q] = node[q]
        \/ node[q] \in FromTools /\ node'[q] \in FromTools
        \/ node'[q] \in Over \ {"end"}
    BY <1>0, <1>7 DEF CreateComment, PostSucceeds, PostFails, PostUnreadable, state, Over
  <2> QED
    BY <1>a, <1>c, <1>d, <2>1, <2>2
<1>8. CASE Tick \/ UNCHANGED vars
  BY <1>8, <1>a DEF Tick, vars, state
<1> QED
  BY <1>1, <1>2, <1>3, <1>4, <1>5, <1>6, <1>7, <1>8 DEF Next, Own

LEMMA ReportedStep ==
    ASSUME TypeOK, Written, Reported, [Next]_vars
    PROVE  Reported'
<1> DEFINE Good(q) ==
      /\ node[q] = "posting" /\ served[q] => OnThePull(q)
      /\ status[q] = "success" => node[q] = "end" /\ OnThePull(q)
<1> SUFFICES ASSUME NEW q \in Runs PROVE Good(q)'
  BY DEF Reported
<1> USE Edges, Requests DEF Goto, Done, At
<1>0. /\ node \in [Runs -> Place] /\ diff \in [Runs -> Nat] /\ served \in [Runs -> BOOLEAN]
      /\ findings \in [Runs -> SUBSET Findings] /\ status \in [Runs -> {"pending", "success", "failed"}]
      /\ comments \in Seq(Comment) /\ \A r \in Runs : Good(r)
  BY DEF TypeOK, Reported
<1> HIDE DEF Good
<1>a. ASSUME comments' = comments, findings'[q] = findings[q], diff'[q] = diff[q], OnThePull(q)
      PROVE  OnThePull(q)'
  BY <1>a DEF OnThePull
<1>b. ASSUME comments' = comments, findings'[q] = findings[q], diff'[q] = diff[q],
             node'[q] = node[q], served'[q] = served[q], status'[q] = status[q]
      PROVE  Good(q)'
  BY <1>0, <1>a, <1>b DEF Good
<1>c. ASSUME node[q] # "end", node'[q] # "posting", status'[q] = status[q]
      PROVE  Good(q)'
  BY <1>0, <1>c DEF Good
<1>1. ASSUME NEW r \in Runs, Push(r) \/ Start(r) \/ RefreshFails(r) \/ Raise(r) \/ Stop(r)
      PROVE  Good(q)'
  BY <1>0, <1>1, <1>b, <1>c DEF Push, Start, RefreshFails, Raise, Stop, state, token, pull,
     Nodes, InFlight
<1>2. ASSUME NEW r \in Runs, Send(r) PROVE Good(q)'
  <2>1. /\ status' = status /\ comments' = comments /\ findings' = findings /\ diff' = diff
        /\ node[r] # "end" /\ served'[r] = FALSE
        /\ q # r => node'[q] = node[q] /\ served'[q] = served[q]
    BY <1>0, <1>2 DEF Send, state, pull
  <2> QED
    BY <1>0, <1>b, <2>1 DEF Good
<1>3. ASSUME NEW r \in Runs, FetchDiff(r) \/ Critique(r) PROVE Good(q)'
  <2>1. CASE q = r
    BY <1>0, <1>3, <1>c, <2>1 DEF FetchDiff, Critique
  <2>2. CASE q # r
    BY <1>0, <1>3, <1>b, <2>2 DEF FetchDiff, Critique, token, pull
  <2> QED
    BY <2>1, <2>2
<1>4. ASSUME NEW r \in Runs, ParseDiff(r) \/ Plan(r) \/ RunTool(r) \/ ToolsDone(r)
      PROVE  Good(q)'
  <2>1. /\ status' = status /\ comments' = comments /\ findings' = findings
        /\ diff' = diff /\ served' = served
    BY <1>4 DEF ParseDiff, Plan, RunTool, ToolsDone, state, token, pull
  <2>2. \/ node'[q] = node[q]
        \/ node[q] # "end" /\ node'[q] # "posting"
    BY <1>0, <1>4 DEF ParseDiff, Plan, RunTool, ToolsDone
  <2> QED
    BY <1>b, <1>c, <2>1, <2>2
<1>6. ASSUME NEW r \in Runs, WriteMemory(r) \/ FormatReview(r) PROVE Good(q)'
  <2>1. /\ status' = status /\ comments' = comments /\ findings' = findings
        /\ diff' = diff /\ served' = served
    BY <1>6 DEF WriteMemory, FormatReview, state, token, pull
  <2>2. \/ node'[q] = node[q]
        \/ node[q] # "end" /\ node'[q] # "posting"
    BY <1>0, <1>6 DEF WriteMemory, FormatReview
  <2> QED
    BY <1>b, <1>c, <2>1, <2>2
<1>7. ASSUME NEW r \in Runs, CreateComment(r) PROVE Good(q)'
  <2> DEFINE new == [run |-> r, diff |-> diff[r], findings |-> body[r]]
  <2>1. /\ node[r] = "posting" /\ comments' = Append(comments, new)
        /\ served' = [served EXCEPT ![r] = TRUE]
        /\ node' = node /\ diff' = diff /\ findings' = findings /\ status' = status
    BY <1>7 DEF CreateComment, state
  <2>2. /\ Len(comments') = Len(comments) + 1 /\ Len(comments) \in Nat
        /\ comments'[Len(comments) + 1] = new
        /\ \A i \in 1..Len(comments) : comments'[i] = comments[i]
    BY <1>0, <2>1
  <2>3. body[r] = findings[r]
    BY <2>1 DEF Written, FromFormat
  <2>4. OnThePull(r)'
    BY <2>1, <2>2, <2>3 DEF OnThePull
  <2>5. ASSUME OnThePull(q) PROVE OnThePull(q)'
    BY <2>1, <2>2, <2>5 DEF OnThePull
  <2> QED
    BY <1>0, <2>1, <2>4, <2>5 DEF Good
<1>8. ASSUME NEW r \in Runs, PostSucceeds(r) \/ PostFails(r) PROVE Good(q)'
  <2>1. /\ comments' = comments /\ findings' = findings /\ diff' = diff /\ served' = served
        /\ node[r] = "posting" /\ node'[r] = "end"
        /\ q # r => node'[q] = node[q] /\ status'[q] = status[q]
        /\ status'[r] = "success" => served[r]
    BY <1>0, <1>8 DEF PostSucceeds, PostFails, Report, token, pull
  <2>2. OnThePull(q) => OnThePull(q)'
    BY <1>a, <2>1
  <2> QED
    BY <1>0, <1>b, <2>1, <2>2 DEF Good
<1>9. ASSUME NEW r \in Runs, PostUnreadable(r) PROVE Good(q)'
  BY <1>0, <1>9, <1>b, <1>c DEF PostUnreadable, state, token, pull
<1>10. CASE Tick \/ UNCHANGED vars
  BY <1>10, <1>b DEF Tick, vars, state, token, pull
<1> QED
  BY <1>1, <1>2, <1>3, <1>4, <1>6, <1>7, <1>8, <1>9, <1>10 DEF Next, Own

LEMMA RememberedStep ==
    ASSUME TypeOK, Written, CommentsAreRemembered, [Next]_vars
    PROVE  CommentsAreRemembered'
<1>1. ASSUME NEW r \in Runs, CreateComment(r) PROVE CommentsAreRemembered'
  <2> DEFINE new == [run |-> r, diff |-> diff[r], findings |-> body[r]]
  <2>1. node[r] = "posting" /\ comments' = Append(comments, new) /\ memories' = memories
    BY <1>1 DEF CreateComment, At
  <2>2. /\ Len(comments') = Len(comments) + 1 /\ Len(comments) \in Nat
        /\ comments'[Len(comments) + 1] = new
        /\ \A i \in 1..Len(comments) : comments'[i] = comments[i]
    BY <2>1 DEF TypeOK
  <2>3. \A f \in body[r] : <<r, diff[r], f>> \in memories
    BY <2>1 DEF Written, FromFormat, FromWrite
  <2>4. \A f \in new.findings : <<new.run, new.diff, f>> \in memories'
    BY <2>1, <2>3
  <2> HIDE DEF new
  <2>5. ASSUME NEW i \in 1..Len(comments')
        PROVE  \A f \in comments'[i].findings :
                  <<comments'[i].run, comments'[i].diff, f>> \in memories'
    <3>1. CASE i \in 1..Len(comments)
      BY <2>1, <2>2, <3>1 DEF CommentsAreRemembered
    <3>2. CASE i = Len(comments) + 1
      BY <2>2, <2>4, <3>2
    <3> QED
      BY <2>2, <3>1, <3>2
  <2> QED
    BY <2>5 DEF CommentsAreRemembered
<1>2. ASSUME comments' = comments, memories \subseteq memories' PROVE CommentsAreRemembered'
  BY <1>2 DEF CommentsAreRemembered
<1>3. ASSUME NEW r \in Runs, Push(r) \/ Start(r) \/ Send(r) \/ RefreshFails(r) \/ Raise(r) \/ Stop(r)
      PROVE  CommentsAreRemembered'
  BY <1>2, <1>3 DEF Push, Start, Send, RefreshFails, Raise, Stop, pull
<1>4. ASSUME NEW r \in Runs, FetchDiff(r) \/ ParseDiff(r) \/ Plan(r) \/ RunTool(r) \/ ToolsDone(r)
      PROVE  CommentsAreRemembered'
  BY <1>2, <1>4 DEF FetchDiff, ParseDiff, Plan, RunTool, ToolsDone, pull
<1>5. ASSUME NEW r \in Runs, Critique(r) \/ WriteMemory(r) \/ FormatReview(r)
      PROVE  CommentsAreRemembered'
  BY <1>2, <1>5 DEF Critique, WriteMemory, FormatReview, pull
<1>6. ASSUME NEW r \in Runs, PostSucceeds(r) \/ PostFails(r) \/ PostUnreadable(r)
      PROVE  CommentsAreRemembered'
  BY <1>2, <1>6 DEF PostSucceeds, PostFails, PostUnreadable, Report, pull
<1>7. CASE Tick \/ UNCHANGED vars
  BY <1>2, <1>7 DEF Tick, vars, pull
<1> QED
  BY <1>1, <1>3, <1>4, <1>5, <1>6, <1>7 DEF Next, Own

----------------------------------------------------------------------------
(* The theorems.                                                           *)

\* Inv holds in every reachable state: each of its conjuncts is preserved by
\* every step, given the ones before it.
THEOREM Invariance == Spec => []Inv
<1>1. Init => Inv
  BY ReviewAssumption DEF Init, Inv, TypeOK, TokenLasts, Inputs, Evidence, Fresh, Written, Reported,
     CommentsAreRemembered, Place, Nodes, Over, InFlight, FromFetch, FromParse, FromPlan,
     FromTools, FromWrite, FromFormat
<1>2. Inv /\ [Next]_vars => Inv'
  BY TypeStep, TokenStep, InputStep, EvidenceStep, FreshStep, WrittenStep, ReportedStep,
     RememberedStep DEF Inv
<1> QED
  BY <1>1, <1>2, PTL DEF Spec

\* Every variable keeps its type: in particular no review leaves the graph.
THEOREM TypeCorrect == Spec => []TypeOK
  BY Invariance, PTL DEF Inv

\* The buffer of GitHubAppAuth outlasts a request whatever time the LLM and the
\* tools take between two of them.
THEOREM TokensAreValid == Spec => []TokenOutlivesRequest
<1>1. Inv => TokenOutlivesRequest
  BY ReviewAssumption DEF Inv, TypeOK, TokenLasts, TokenOutlivesRequest
<1> QED
  BY <1>1, Invariance, PTL

\* The edges of graph.py never bring a review to a node before its input.
THEOREM InputsAreThere == Spec => []NodesFindTheirInput
<1>1. Inv => NodesFindTheirInput
  BY DEF Inv, Inputs, NodesFindTheirInput
<1> QED
  BY <1>1, Invariance, PTL

\* The critique gets a result for every call of the plan, in its order.
THEOREM AllTheEvidence == Spec => []EvidenceIsComplete
<1>1. Inv => EvidenceIsComplete
  BY DEF Inv, Evidence, EvidenceIsComplete, FromPlan, FromTools, FromWrite
<1> QED
  BY <1>1, Invariance, PTL

\* What is commented was stored before.
THEOREM Remembered == Spec => []CommentsAreRemembered
  BY Invariance, PTL DEF Inv

\* SUCCESS means a comment on a diff that has the push.
THEOREM SuccessIsTrue == Spec => []SuccessIsOnThePull
<1>1. Inv => SuccessIsOnThePull
  BY ZenonT(30) DEF Inv, TypeOK, Reported, Fresh, OnThePull, SuccessIsOnThePull, FromFetch, FromParse,
     FromPlan, FromTools, FromWrite, FromFormat
<1> QED
  BY <1>1, Invariance, PTL

----------------------------------------------------------------------------
(* ReviewRun implements ReviewPromise.  With the refinement of              *)
(* WebhookDispatchProofs it says that the service keeps one promise from    *)
(* the webhook to the comment.                                              *)

Mine(r) == {i \in 1..Len(comments) : comments[i].run = r}

\* A review whose request has not created its comment has no comment: it sends
\* one such request and never comes back to send another.
Silent(r) ==
    \/ node[r] \in {"waiting", "queued"} \cup (Nodes \ {"posting"})
    \/ node[r] = "posting" /\ ~served[r]

NoCommentYet == \A r \in Runs : Silent(r) => Mine(r) = {}

----------------------------------------------------------------------------
(* The invariant of the refinement.                                        *)

\* A step that leaves the comments alone and makes no review silent again.
LEMMA SilenceKept ==
    ASSUME NoCommentYet, comments' = comments,
           \A q \in Runs : Silent(q)' => Silent(q)
    PROVE  NoCommentYet'
  BY DEF NoCommentYet, Mine

\* The comment that a step creates is of one review, and its first.
LEMMA CommentAdded ==
    ASSUME TypeOK, NoCommentYet, NEW r \in Runs, CreateComment(r)
    PROVE  /\ Mine(r) = {} /\ Mine(r)' = {Len(comments) + 1}
           /\ \A q \in Runs \ {r} : Mine(q)' = Mine(q)
           /\ node[r] = "posting"
<1> DEFINE new == [run |-> r, diff |-> diff[r], findings |-> body[r]]
<1>1. /\ node[r] = "posting" /\ ~served[r] /\ comments' = Append(comments, new)
  BY DEF CreateComment, At
<1>2. /\ Len(comments') = Len(comments) + 1 /\ Len(comments) \in Nat
      /\ comments'[Len(comments) + 1] = new
      /\ \A i \in 1..Len(comments) : comments'[i] = comments[i]
  BY <1>1 DEF TypeOK
<1>3. new.run = r
  OBVIOUS
<1>4. Mine(r) = {}
  BY <1>1 DEF NoCommentYet, Silent
<1> HIDE DEF new
<1>5. Mine(r)' = {Len(comments) + 1}
  BY <1>2, <1>3, <1>4 DEF Mine
<1>6. ASSUME NEW q \in Runs \ {r} PROVE Mine(q)' = Mine(q)
  BY <1>2, <1>3, <1>6 DEF Mine
<1> QED
  BY <1>1, <1>4, <1>5, <1>6

LEMMA SilenceStep ==
    ASSUME TypeOK, NoCommentYet, [Next]_vars
    PROVE  NoCommentYet'
<1> USE Edges, Requests DEF Goto, Done, At
<1>0. node \in [Runs -> Place] /\ served \in [Runs -> BOOLEAN]
  BY DEF TypeOK
<1>1. ASSUME NEW r \in Runs,
             Push(r) \/ Start(r) \/ RefreshFails(r) \/ Raise(r) \/ Stop(r) \/ PostUnreadable(r)
      PROVE  NoCommentYet'
  <2>1. comments' = comments /\ served' = served
    BY <1>1 DEF Push, Start, RefreshFails, Raise, Stop, PostUnreadable, pull, token
  <2>2. ASSUME NEW q \in Runs, Silent(q)' PROVE Silent(q)
    BY <1>0, <1>1, <2>1, <2>2 DEF Push, Start, RefreshFails, Raise, Stop, PostUnreadable,
       Silent, Nodes, InFlight
  <2> QED
    BY <2>1, <2>2, SilenceKept
<1>2. ASSUME NEW r \in Runs, Send(r)
      PROVE  NoCommentYet'
  <2>1. comments' = comments
    BY <1>2 DEF Send, pull
  <2>2. ASSUME NEW q \in Runs, Silent(q)' PROVE Silent(q)
    BY <1>0, <1>2, <2>2 DEF Send, Silent, Nodes, InFlight
  <2> QED
    BY <2>1, <2>2, SilenceKept
<1>3. ASSUME NEW r \in Runs, FetchDiff(r) \/ ParseDiff(r) \/ Plan(r) \/ RunTool(r) \/ ToolsDone(r)
                             \/ Critique(r) \/ WriteMemory(r) \/ FormatReview(r)
      PROVE  NoCommentYet'
  <2>1. comments' = comments /\ served' = served
    BY <1>3 DEF FetchDiff, ParseDiff, Plan, RunTool, ToolsDone, Critique, WriteMemory,
       FormatReview, pull, token
  <2>2. node[r] \in Nodes \ {"posting"} /\ \A q \in Runs \ {r} : node'[q] = node[q]
    BY <1>0, <1>3 DEF FetchDiff, ParseDiff, Plan, RunTool, ToolsDone, Critique, WriteMemory,
       FormatReview, Nodes, InFlight
  <2>3. ASSUME NEW q \in Runs, Silent(q)' PROVE Silent(q)
    BY <2>1, <2>2, <2>3 DEF Silent
  <2> QED
    BY <2>1, <2>3, SilenceKept
<1>4. ASSUME NEW r \in Runs, CreateComment(r)
      PROVE  NoCommentYet'
  <2>1. node' = node /\ served' = [served EXCEPT ![r] = TRUE] /\ node[r] = "posting"
    BY <1>4 DEF CreateComment
  <2>2. ~Silent(r)' /\ \A q \in Runs \ {r} : Silent(q)' => Silent(q)
    BY <1>0, <2>1 DEF Silent, Nodes
  <2> QED
    BY <1>4, <2>2, CommentAdded DEF NoCommentYet
<1>5. ASSUME NEW r \in Runs, PostSucceeds(r) \/ PostFails(r)
      PROVE  NoCommentYet'
  <2>1. comments' = comments /\ served' = served
    BY <1>5 DEF PostSucceeds, PostFails, Report, pull, token
  <2>2. ASSUME NEW q \in Runs, Silent(q)' PROVE Silent(q)
    BY <1>0, <1>5, <2>1, <2>2 DEF PostSucceeds, PostFails, Silent, Nodes, InFlight
  <2> QED
    BY <2>1, <2>2, SilenceKept
<1>6. CASE Tick \/ UNCHANGED vars
  <2>1. comments' = comments /\ served' = served /\ node' = node
    BY <1>6 DEF Tick, vars, pull, token
  <2> QED
    BY <2>1, SilenceKept DEF Silent
<1> QED
  BY <1>1, <1>2, <1>3, <1>4, <1>5, <1>6 DEF Next, Own

\* A comment comes from a request that has been served: none before it.
THEOREM Silence == Spec => []NoCommentYet
<1>1. Init => NoCommentYet
  BY DEF Init, NoCommentYet, Mine
<1>2. TypeOK /\ NoCommentYet /\ [Next]_vars => NoCommentYet'
  BY SilenceStep
<1> QED
  BY <1>1, <1>2, TypeCorrect, PTL DEF Spec

----------------------------------------------------------------------------
(* The steps.                                                              *)

LEMMA PhaseFacts ==
    /\ PhaseOf("waiting") = "idle" /\ PhaseOf("queued") = "claimed"
    /\ \A n \in Nodes : PhaseOf(n) = "reviewing"
    /\ \A n \in Over : PhaseOf(n) = "over"
  BY DEF PhaseOf, Nodes, Over, InFlight

\* One review moves, and no comment is made.
LEMMA PhaseMoves ==
    ASSUME TypeOK, NEW r \in Runs, NEW n, Goto(r, n), comments' = comments
    PROVE  /\ Phase' = [Phase EXCEPT ![r] = PhaseOf(n)]
           /\ Posted' = Posted
<1>1. Phase' = [q \in Runs |-> IF q = r THEN PhaseOf(n) ELSE PhaseOf(node[q])]
  BY DEF Phase, Goto, TypeOK
<1> QED
  BY <1>1 DEF Phase, Posted

LEMMA Stays ==
    ASSUME TypeOK, NEW r \in Runs, NEW n \in Nodes, node[r] \in Nodes, Goto(r, n),
           comments' = comments
    PROVE  UNCHANGED Promise!vars
<1>1. PhaseOf(n) = Phase[r]
  BY PhaseFacts DEF Phase
<1>2. Phase' = Phase
  BY <1>1, PhaseMoves DEF Phase
<1> QED
  BY <1>2, PhaseMoves DEF Promise!vars

LEMMA Leaves ==
    ASSUME TypeOK, NEW r \in Runs, NEW n \in Over, Goto(r, n), comments' = comments
    PROVE  Promise!End
<1>1. Phase' = [Phase EXCEPT ![r] = "over"]
  BY PhaseFacts, PhaseMoves
<1>2. Phase' = [q \in Runs |-> IF q \in {r} THEN "over" ELSE Phase[q]]
  BY <1>1 DEF Phase
<1> QED
  BY <1>2, PhaseMoves DEF Promise!End

LEMMA StepRefines ==
    ASSUME TypeOK, NoCommentYet, [Next]_vars
    PROVE  [Promise!Next]_(Promise!vars)
<1> USE Edges, Requests DEF Done, At
<1>1. ASSUME NEW r \in Runs, Push(r)
      PROVE  Promise!Claim(r)
  <2>1. Goto(r, "queued") /\ comments' = comments /\ node[r] = "waiting"
    BY <1>1 DEF Push
  <2>2. Phase[r] = "idle"
    BY <2>1, PhaseFacts DEF Phase
  <2> QED
    BY <2>1, <2>2, PhaseFacts, PhaseMoves DEF Promise!Claim, Promise!Move
<1>2. ASSUME NEW r \in Runs, Start(r)
      PROVE  Promise!Review(r)
  <2>1. Goto(r, "fetch_diff") /\ comments' = comments /\ node[r] = "queued" /\ "fetch_diff" \in Nodes
    BY <1>2 DEF Start, pull, Nodes
  <2>2. Phase[r] = "claimed"
    BY <2>1, PhaseFacts DEF Phase
  <2> QED
    BY <2>1, <2>2, PhaseFacts, PhaseMoves DEF Promise!Review, Promise!Move
<1>3. ASSUME NEW r \in Runs, Send(r)
      PROVE  UNCHANGED Promise!vars
  <2>1. comments' = comments /\ node[r] \in Nodes
    BY <1>3 DEF Send, pull, Nodes
  <2>2. \E n \in Nodes : Goto(r, n)
    BY <1>3 DEF Send, Nodes, InFlight
  <2> QED
    BY <2>1, <2>2, Stays
<1>4. ASSUME NEW r \in Runs, RefreshFails(r) \/ Raise(r) \/ Stop(r) \/ PostUnreadable(r)
                             \/ PostSucceeds(r) \/ PostFails(r)
      PROVE  Promise!End
  <2>1. comments' = comments
    BY <1>4 DEF RefreshFails, Raise, Stop, PostUnreadable, PostSucceeds, PostFails, Report, pull
  <2>2. \E n \in Over : Goto(r, n)
    BY <1>4 DEF RefreshFails, Raise, Stop, PostUnreadable, PostSucceeds, PostFails, Over
  <2> QED
    BY <2>1, <2>2, Leaves
<1>5. ASSUME NEW r \in Runs, FetchDiff(r) \/ ParseDiff(r) \/ Plan(r) \/ ToolsDone(r)
                             \/ Critique(r) \/ FormatReview(r)
      PROVE  UNCHANGED Promise!vars
  <2>1. comments' = comments /\ node[r] \in Nodes
    BY <1>5 DEF FetchDiff, ParseDiff, Plan, ToolsDone, Critique, FormatReview, pull, Nodes, InFlight
  <2>2. \E n \in Nodes : Goto(r, n)
    BY <1>5 DEF FetchDiff, ParseDiff, Plan, ToolsDone, Critique, FormatReview, Nodes
  <2> QED
    BY <2>1, <2>2, Stays
\* A commit whose answer is lost ends the review.
<1>6. ASSUME NEW r \in Runs, WriteMemory(r)
      PROVE  Promise!End \/ UNCHANGED Promise!vars
  <2>1. comments' = comments /\ node[r] \in Nodes
    BY <1>6 DEF WriteMemory, pull, Nodes
  <2>2. Goto(r, "format_review") \/ Goto(r, "raised")
    BY <1>6 DEF WriteMemory
  <2>3. "format_review" \in Nodes /\ "raised" \in Over
    BY DEF Nodes, Over
  <2> QED
    BY <2>1, <2>2, <2>3, Stays, Leaves
<1>7. ASSUME NEW r \in Runs, CreateComment(r)
      PROVE  Promise!Comment(r)
  <2>1. /\ Mine(r) = {} /\ Mine(r)' = {Len(comments) + 1} /\ node[r] = "posting"
        /\ \A q \in Runs \ {r} : Mine(q)' = Mine(q)
    BY <1>7, CommentAdded
  <2>2. Posted = [q \in Runs |-> Cardinality(Mine(q))]
        /\ Posted' = [q \in Runs |-> Cardinality(Mine(q)')]
    BY DEF Posted, Mine
  <2>3. Posted[r] = 0 /\ Cardinality(Mine(r)') = 1
    <3>1. Cardinality({}) = 0 /\ Cardinality({Len(comments) + 1}) = 1
      BY FS_EmptySet, FS_Singleton
    <3>2. Cardinality(Mine(r)) = 0
      BY <2>1, <3>1
    <3>3. Cardinality(Mine(r)') = 1
      BY <2>1, <3>1
    <3> QED
      BY <2>2, <3>2, <3>3
  <2>4. Posted' = [Posted EXCEPT ![r] = 1]
    BY <2>1, <2>2, <2>3
  <2>5. Phase' = Phase /\ Phase[r] = "reviewing"
    BY <1>7, <2>1, PhaseFacts DEF CreateComment, Phase, Nodes, InFlight
  <2> QED
    BY <2>3, <2>4, <2>5 DEF Promise!Comment
<1>8. CASE (\E r \in Runs : RunTool(r)) \/ Tick \/ UNCHANGED vars
  <2>1. node' = node /\ comments' = comments
    BY <1>8 DEF RunTool, Tick, vars, pull
  <2> QED
    BY <2>1 DEF Phase, Posted, Promise!vars
<1> QED
  BY <1>1, <1>2, <1>3, <1>4, <1>5, <1>6, <1>7, <1>8 DEF Next, Own, Promise!Next

\* The reviews of a pull request keep the promise: whatever is lost, fails or
\* stops, each comments at most once, while it runs, and does not start again.
THEOREM KeepsItsPromise == Spec => ReviewsAsPromised
<1>1. Init => Promise!Init
  <2>1. ASSUME Init PROVE Phase = [r \in Runs |-> "idle"] /\ Posted = [r \in Runs |-> 0]
    <3>1. \A r \in Runs : node[r] = "waiting" /\ Mine(r) = {}
      BY <2>1 DEF Init, Mine
    <3> QED
      BY <3>1, PhaseFacts, FS_EmptySet DEF Phase, Posted, Mine
  <2> QED
    BY <2>1 DEF Promise!Init
<1>2. TypeOK /\ NoCommentYet /\ [Next]_vars => [Promise!Next]_(Promise!vars)
  BY StepRefines
<1> QED
  BY <1>1, <1>2, Silence, TypeCorrect, PTL DEF Spec, ReviewsAsPromised, Promise!Spec
=============================================================================
