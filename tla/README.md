# TotalPR in TLA+

TotalPR reviews GitHub pull requests: a FastAPI service on Fly.io takes webhooks, and a
background task fetches the diff, asks Claude twice, runs a few tools, stores its findings in
Postgres and posts one comment. These modules model what can go wrong *between* those parts:
repeated deliveries, stopped processes, lost answers, concurrent reviews, tokens that age,
money spent on calls that fail, people and reviews that write the same table, containers that
outlive their clients, and what becomes of a diff on its way to the tools.

Every definition is translated from the source; `PROJECT.json` maps it to its lines. Paths
below are relative to the repository; `sentry/` stands for `src/sentry/`.

1. [Inventory](#1-inventory)
2. [The modules](#2-the-modules)
3. [What the runs check](#3-what-the-runs-check)
4. [Fairness](#4-fairness)
5. [What is proved](#5-what-is-proved)
6. [Where code and docs disagree](#6-where-code-and-docs-disagree)
7. [What is not modelled](#7-what-is-not-modelled)
8. [Plan](#8-plan)

## 1. Inventory

| component | state it keeps | operations | module |
|---|---|---|---|
| Webhook endpoint, `sentry/api/main.py`, `fly.toml` | settings read once per process; the handlers and tasks in memory | `POST /webhook`, process start and stop | `WebhookDispatch` |
| Delivery deduper, `sentry/dedupe.py` | one Redis key per delivery, with a TTL | `mark_seen` (SET NX EX), or the null deduper | `WebhookDispatch` |
| Dispatch, `sentry/api/dispatch.py` | the queue and the threads of the background pool | `should_dispatch`, `dispatch_pull_request`, `_run_review` | `WebhookDispatch` (from outside), `ReviewRun` (from inside) |
| Review graph, `sentry/graph.py`, `sentry/nodes/` | `AgentState` | seven nodes in a row | `ReviewRun` |
| GitHub client and poster, `sentry/github/client.py`, `poster.py`, `sentry/posting.py` | none | fetch the diff, post the comment | `ReviewRun` |
| GitHub authentication, `sentry/github/auth.py` | one cached installation token | `installation_token` | `ReviewRun` |
| LLM stack, `sentry/budget.py`, `cache.py`, `anthropic_client.py` | spend of a run; a SQLite file shared by runs | `complete` | `LLMStack` |
| Memory, `sentry/memory.py`, `embedding.py`, `migrations/` | the table `memories` | `store_findings`, `retrieve_similar`, `label`, `list_unlabeled` | `MemoryLoop` |
| Labelling CLI, `scripts/label_memory.py` | the list it read when it started | label, skip, quit | `MemoryLoop` |
| Workspace, `sentry/workspace.py` | a temporary directory | `materialize_workspace` | `ReviewData` |
| Tools, `sentry/tools/` | a container, which may outlive its client | one docker command or HTTP request | `ReviewData`; a success or an error in `ReviewRun` |
| Telemetry, `sentry/telemetry.py` | spans nobody reads back | `with_span` | only that it re-raises |
| Evaluation harness, `scripts/run_evals.py` | results and spend so far | one case after the other | `EvalHarness` |
| Other scripts | the eval file | repair and check of its diffs, smoke run, schema | `fix_eval_set_headers.py` in `ReviewData`, the others not |

How they interact. GitHub calls the webhook with a delivery id; the handler reserves the id in
Redis and hands the payload to Starlette's thread pool. A pool thread runs `_run_review`: it
creates its *own* authenticator, client, LLM stack and memory store, so reviews share only what
is outside the process object: the pull request, the SQLite cache file, the Postgres table and
the threads. The nodes communicate through `AgentState` and check with `is None` that the node
before them ran. People label memories from a command line; the labels come back in the prompts
of later reviews. The evaluation harness runs the same graph over the same kind of LLM stack, one
case after the other, with a cap of its own over all of them; it stores and posts nothing.

What is hard, and which property answers it, is listed line by line under `hazards` in
`PROJECT.json`. The main groups:

* **Repetition and loss.** GitHub repeats deliveries; a SET, a commit or a POST may take effect
  and its answer be lost. A delivery must be reviewed once, a comment posted once, a batch
  stored once; none of these has an acknowledgement that survives.
* **Crashes.** Fly stops idle machines and replaces them on a redeploy. Nothing but Redis,
  SQLite and Postgres survives.
* **Staleness.** The kill switch is read at process start, the diff when the task runs, the
  unlabelled memories when the session starts, the token before minutes of LLM calls.
* **Partial failure.** A paid call whose answer cannot be cached, findings stored whose comment
  fails, a tool that raises in the middle of a plan, a tool that dies having said half of it.
* **Limits.** Two soft budgets, one inside the other; a small pool, a TTL against a retry window, a
  refresh buffer, the index of a percentile.
* **Two readings of one text.** A hunk is read by its header and by its body, a line ends in one way
  for diff and in more for Python, an exit code means one thing to Ruff and another to ripgrep.

What makes the components correct: a delivery is reserved, reviewed and commented on at most
once, and is settled; the kill switch holds on every instance; a run is charged less than its
cap plus one call, and what the SDK sends again for it; a batch of findings is stored whole or not; a
prompt quotes verdicts of people and nothing else; a token never expires on the wire; the critique sees the complete evidence;
SUCCESS means that the comment is there; a review ends. What the tools see is what the diff shows
of the new files, what the critique is told of a tool is so, and the comment does not depend on the
order in which the LLM lists its findings. An evaluation spends less than its total cap plus one
case, and its report accounts for every case it ran.

## 2. The modules

```
ReviewPromise  <---implements---  WebhookDispatch <-- MCWebhookDispatch
      ^                                 ^------------ WebhookDispatchProofs
      |
      +--------implements---------  ReviewRun       <-- MCReviewRun
                                        ^------------ ReviewRunProofs
                                    MemoryLoop      <-- MCMemoryLoop, MemoryLoopProofs
Listing  <------------------------  ReviewData      <-- MCReviewData, ReviewDataProofs
   ^ ^-------- CountingFacts <------------------------- (ReviewDataProofs, EvalScoreProofs)
   |
LLMStack       <---implements---  EvalHarness     <-- MCEvalHarness
   ^ ^------------ MCLLMStack                     \
   |-------------- LLMStackProofs <----------------- EvalHarnessProofs <-- EvalScoreProofs
```

`WebhookDispatch` treats a review as a job that may post one comment and ends; `ReviewRun` opens
the job. The two meet in `ReviewPromise`, the abstract statement of what a delivery (or the review
it causes) may do: *idle, claimed, reviewing, over*, with at most one comment, posted while
reviewing. `ReviewRun` in turn leaves open what the LLM and the database answer; `LLMStack` and
`MemoryLoop` open those calls, with several runs at once; `ReviewData` opens the data, one review at
a time. `Listing` is what `sorted()` and a loop that appends have in common, the elements of a set
from first to last; `CountingFacts` has the lemmas about it. `EvalHarness` EXTENDS `LLMStack` and drives its actions, so that it implements it by
construction of its steps, which is proved.

### WebhookDispatch

One record of `stage` and `host` per *attempt* (an HTTP request of GitHub's) and one key per
*delivery*, so that repetition is several attempts with the same `Of[a]`.

| state | code |
|---|---|
| `stage[a]`, `host[a]` | where the handler or the task of the attempt is, and in whose memory |
| `expiry[d]` | the Redis key `webhook:delivery:<id>` and its EX |
| `up`, `enabled[i]`, `flag` | running machines; `settings.reviews_enabled` of each; the Fly secret |
| `sent`, `firstSent[d]`, `now` | what GitHub has sent, and when |
| `claimed`, `commented` | history |

| action | code |
|---|---|
| `Reject`, `Ignore` | 401, 400, and events other than `pull_request` |
| `RedisUnreachable`, `MarkSeen` | `dedupe.mark_seen`: raises before the SET, or SET NX EX takes effect and the answer is True, False, or lost. redis-py then raises, or sends the SET again and is told of its own key |
| `Schedule`, `AnswerDuplicate` | `background.add_task` and the 200, or `duplicate: True` |
| `StartDispatch` | a pool thread runs `should_dispatch` with the settings of its process |
| `PostComment`, `FinishReview` | the inside of `_run_review`, and its end with or without an exception |
| `Crash`, `Restart`, `SetSecret` | a machine stops or starts; `fly secrets set` |
| `Send`, `Lose`, `Tick` | GitHub, the network, the clock |

The handler is `async` and awaits only the body; `mark_seen` blocks the event loop. So an instance
has one handler at a time past the body (`Idle`), and the interleavings are those of *instances*.
What `X-GitHub-Event` and the body say is a record of four fields per delivery.

### ReviewRun

The reviews of one pull request. `node[r]` walks along `After`, the edges of `graph.py`; `filled[r]`
is the set of the fields of `AgentState` that are not `None`, and `HasInput` what the nodes check.
One action per node, and for the loop of `run_tool` one step per call. `Raise` is the exception of
any node and of `_run_review` before the graph; a node that does not find its input ends in
`misused`, so that the properties can tell the two apart. GitHub's side is separate: `Push` moves
the head, `CreateComment` creates the comment of a request under way, and the answer comes later
or never (`PostSucceeds`, `PostFails`, `PostUnreadable`). `left[r]` is the remaining life of the
cached token, `wire[r]` the time a request may still take; `Tick` counts both down.

Diffs are heads (numbers that grow), tools and findings small sets.

### LLMStack

`pc[r]` follows `complete()` down and up the stack: budget check, lookup, provider call, store,
return, and the validation in the node. `total[r]` is `total_spend_usd`, `billed[r]` what the
provider charged, which the program cannot see. A response is its cost and whether a node can use
it. Money is counted in units. `messages.create` is not one request: `Anthropic(api_key=key)` has the
SDK's default retries, and after a timeout, a lost connection or an error of the server it sends the
request again (`SendAgain`, at most `Retries` times a call, `tries[r]` so far). Each attempt may have
been served and charged, and the usage in the response is that of the last one; `resent[r]` is history
and counts them. `AskFails` may charge too, `SQLiteFails` loses a paid response. `Raise` is what ends a run between its calls: a node, a tool,
Postgres.

### MemoryLoop

A row is named by its review and its place in the batch. Each method of `MemoryStore` is a
transaction of its own: `Begin`, one `Insert` per finding, `Commit`, whose answer may be lost.
`Retrieve` returns any `K` or fewer labelled rows of the repository: the HNSW index is approximate
and is filtered after the search, so the code promises no more. `List` takes the `Limit` oldest
unlabelled rows and `Label` updates a row by id.

### EvalHarness

`scripts/run_evals.py`, over the actions of `LLMStack`: a `Run` is a case, `Cap` is
`--per-case-cap`, and the cases share one cache file.

| state | code |
|---|---|
| `place` | between two cases, in a case, scoring it, at the report, or stopped |
| `results`, `spend` | `case_results`, `total_spend` |
| `found`, `read`, `open`, `tp`, `agree` | the locals of `_score`: findings, how many are matched so far, `unmatched_idx`, the counts |

| action | code |
|---|---|
| `StartCase`, `SetupFails` | the head of the loop and of `_run_case`; opening the client or the cache is outside the `try` |
| `Proceed`, `Refused`, `Errs`, `Completes`, `CleanupFails` | the review of the case goes on, hits its cap, raises, answers; the workspace cannot be removed |
| `ScoreNext`, `RecordSuccess` | one finding of `_score`; the record of the case |
| `WriteReport`, `Killed` | `_aggregate` and the report file; the process is stopped |

An expectation is a category, a severity and a set of words a message must mention, which is all
that `_matches` reads; a finding is the same with the words it does mention. `SumOf` is Python's
`sum`, and `Percentile` keeps the truncated and capped index into `sorted()` of the durations.

### ReviewData

What one review does with its text, in the order in which it does it: the repair of an edited diff
(`fix_eval_set_headers.py`, for the eval set only), the workspace, the calls of the plan, the
comment.

A line of text is the list of *pieces* that `str.splitlines()` makes of it: one, or more where it
holds a form feed or its like. A piece is a sequence of characters, the first of them the sign
(`Space`, `+`, `-`, or `NoSign` of an empty line). A
hunk has a start, the two counts of its header, and a body, and nothing makes the counts agree with
the body. What unidiff makes of that is external, and is modelled by how the code depends on it: an
empty line counts as context, a hunk ends where the counts are first met, a body that does not meet
them or holds a line of no known sign raises, and what follows a hunk is dropped if it is empty and
ends the file if not. A hunk without a body takes whatever comes next for its first line and raises,
so that it is read only at the end of the diff.

| state | code |
|---|---|
| `input` | the diff, whether it is repaired first, whether there is a docker, the plan's calls, the findings |
| `diff`, `written`, `ws` | the diff as it is now, how many of its files are written, the files |
| `box`, `orphans` | the container of the call under way; those whose client was killed |
| `answers`, `body` | `tool_results`, and what there had been to find; the findings in the order of the comment |

| action | code |
|---|---|
| `FixHeaders` | `fix_diff`, hunk by hunk |
| `PatchSetFails`, `WriteFile`, `WriteFails`, `WorkspaceDone` | `materialize_workspace` |
| `Refuse`, `NoDocker`, `StartContainer`, `TakeOutput`, `Timeout` | a tool's early returns, `FileNotFoundError`, `subprocess.run` and its two ends |
| `ContainerEnds`, `OrphanEnds` | containers, which end when they like, in any way their tool ends |
| `LookUpDocs` | the request to PyPI |
| `FormatReview` | `format_review` |

Both `content_lines` and the findings of one severity are `Listed(R, D)`: the elements of `D`, each at
the place that the number of its predecessors in `R` gives it. For the workspace these are the places
of the kept pieces, hunk, line and piece, in the order of the three loops (`Earlier`); for the comment,
the indices of the findings by key and, where the key does not tell, by index (`Ahead`).

Each answer keeps what the container really had to say (`dirty`, `out`, `rc`), which the program
cannot see, so that the property can compare it with what the critique is told.

### ReviewPromise

Abstract; see above. It maps to `WebhookDispatch` through `Phase` and `Comments` (the phase of
a delivery is that of the attempt that reserved it) and to `ReviewRun` through `Phase` and
`Posted`. Both refinements are model-checked and proved.

## 3. What the runs check

| run | cfg | distinct states | shows |
|---|---|---|---|
| `dispatch_safety` | `WebhookDispatch.cfg` | 171 492 | `AtMostOneClaim`, `KillSwitchHolds`, `KeyComesFromAPullRequest`, `OffStaysOff`; `KeepsThePromise`: the service implements `ReviewPromise` |
| `dispatch_liveness` | `WebhookDispatchLive.cfg` | 44 480 | `EveryClaimSettles` with one thread per instance |
| `dispatch_without_redis` | `WebhookDispatchNull.cfg` | 39 464 | the same with the null deduper, where every repetition is queued |
| `dispatch_failed_delivery` | `WebhookDispatchDup.cfg` | violated | `DuplicateWasDispatched`, section 6 |
| `llm_spend` | `LLMStack.cfg` | 3 773 574 | `SoftCap`, `SpendIsRecorded`, `PoisonIsPermanent` |
| `llm_progress` | `LLMStackLive.cfg` | 623 380 | `EveryRunEnds`, `PoisonIsFatal` |
| `memory_loop` | `MemoryLoop.cfg` | 242 204 | `BatchIsAtomic`, `OutcomesAreVerdicts`, `OnlyLateVerdictsAreOffered` |
| `memory_verdicts` | `MemoryLoopVerdicts.cfg` | violated | `VerdictsStand`, section 6 |
| `review_run` | `ReviewRun.cfg` | 710 127 | `CommentsAreRemembered`, `TokenOutlivesRequest`, `NodesFindTheirInput`, `EvidenceIsComplete`, `SuccessIsOnThePull`, `EveryReviewEnds`; `ReviewsAsPromised`: the review implements `ReviewPromise` |
| `review_poster` | `ReviewRunPoster.cfg` | violated | `PosterNeverRaises`, section 6 |
| `eval_harness` | `EvalHarness.cfg` | 937 116 | `TotalSoftCap`, `ResultsHideLittle`, `ReportAddsUp`, `GreedyIsHalfRight`, `PercentilesCover`, `HarnessEnds` |
| `review_data` | `ReviewData.cfg` | 75 982 | `WorkspaceIsThePostImage`, `RepairIsFinal`, `AnswersAreTrue`, `BodyIsCanonical`, `ToolsFinish` |

Each module also has one type invariant, `TypeOK`, `HarnessTypeOK` or `DataTypeOK`. Each property of a passing run has a mutant in
the module it is about, placed before the definition it changes ("Mutant of ..."): a plausible
mistake in the code that makes the run fail. For instance `KeyPresentForTheWindow` (the TTL is the
retry window itself) breaks `AtMostOneClaim`, and `ReusableToTheEnd` (no refresh buffer) breaks
`TokenOutlivesRequest`.

The less obvious results:

* `SoftCap` is about the bill and not about `total_spend_usd`. A paid response that the cache
  cannot store is missing from the total, and the cap holds all the same because the exception
  that loses it also ends the run. Nor does the SDK report the attempts it makes again: the cap is
  softer by one call for each of them (at most four for the two calls of a run), and `SpendIsRecorded`
  says that they, and the request a failed run failed in, are all that the record can miss.
* `OffStaysOff` is the other half of the kill switch. `KillSwitchHolds` asks an instance for its own
  settings, which are stale until it is replaced. When every instance has read that reviews are off and
  the running ones are done, nothing brings one back while the secret stays: no queued delivery, no
  repetition, no machine that Fly starts.
* `PoisonIsPermanent` and `PoisonIsFatal` describe a behaviour, not a virtue: an answer is cached
  before the node validates it, so an unusable one fails every later review of the same diff until
  the cache file is removed. The code does nothing else, and no doc says otherwise.
* `EveryClaimSettles` includes `lost`: a review that dies with its instance is settled by the
  crash. No run shows that a delivery *is reviewed*, because the code does not promise that.
* `SuccessIsOnThePull` says "no older than the push": `_run_review` fetches the diff when it runs
  and does not look at `head_sha`, so a review may be about a newer head than its own.
* `CommentsAreRemembered` has no converse. Findings are stored before the comment is posted; if
  the post fails the memories are there for a comment nobody saw.
* `TotalSoftCap` adds up the two overshoots: the last case starts just below the total cap, and
  passes its own cap by one call. It is about the recorded spend; `ResultsHideLittle` says how far
  the bill may be from it: by what the SDK sent again for a case, and one call more if it failed.
* `ReportAddsUp` counts a case by its status and not by the filter of `_aggregate`, so that a failed
  case that leaks into the metrics is found.
* `HarnessEnds` includes an end without a report: a cache file that cannot be opened ends the whole
  evaluation, because that is outside the `try` of `_run_case`, and the results so far are lost.
* `GreedyIsHalfRight`: the score depends on the order of the findings. In the instance a finding that
  mentions everything takes the general expectation, and a general finding after it then has none;
  half is lost, and never more.
* `AnswersAreTrue` names what the tools' code lets through. A Semgrep that ends with 1 and prints
  nothing is read as a clean run, although an uncaught exception ends it so; a Ruff or a Semgrep
  that dies in the middle passes for complete, because with some output the exit code is not asked;
  and ripgrep is told to stop at 50 matches of a file, which its answer does not show. In the other
  direction nothing is lost: no error is told of a container that did its work in time. Ruff's "All
  checks passed!" is an answer like `(no findings)`.
* `WorkspaceIsThePostImage`: the files hold the lines that the diff shows, one after the other, so
  that a tool's line number is at most the file's, and is the file's where the diff starts at its
  first line. A deleted file is there as one empty line. A line with a form feed is left out of the
  property (`Regular`): Python splits it in two, and the second half loses its first character or
  disappears.
* What `WorkspaceIsThePostImage` describes of deleted files and of numbers is accepted, not excluded:
  no document promises more.
* `RepairIsFinal`: a hunk with an empty line in the middle stays wrong after the repair. The script
  does not count the line, unidiff takes it for context, and the hunk is cut short; neither the script
  nor `validate_eval_set.py`, which only asks whether unidiff raises, reports it. A hunk that the
  script empties is a header with nothing under it, and unidiff raises at the next one.
* A diff that replaces a file by a directory of its name cannot be written at all: the deleted file
  is written first, `mkdir` then raises, and the review ends in "raised". The instance has the case.
* `BodyIsCanonical` has one exception the docstring does not: findings that share severity, file and
  line come in the order of the LLM.

### Bounds

* *Dispatch.* Three attempts of one delivery cover the first one, a retry that races it and a late
  one; a second delivery carries the rejected signature. Two instances race and outlive each other.
  `TTL = 2`, `RetryWindow = 1`, `Horizon = 3` put a retry on both sides of the window and let a key
  expire. Attempts of d1 and instances are symmetric; the symmetry is used with safety properties
  only. The liveness runs use one instance and one thread, the worst case for a queue, and a clock
  that stands still, since no fair action depends on it.
* *LLM.* Two calls per run as in the code. `Cap = 2`, `MaxCost = 2`: a run can be below, at and
  above its cap before its second call. `Retries = 2` is the SDK's default, so that each call may be
  charged three times. Two runs share both requests and are symmetric; what they have in common is the
  cache, where two are enough for both to miss, both to pay and both to write, and for one to read what
  the other wrote. The liveness run has no symmetry: there the runs share the first request only (a label given in between changes the critique prompt), and
  `Retries = 1`.
* *Memory.* Batches of two, one and no findings, two repositories, a session for one repository
  and a session for all, lists of two: enough for an interrupted batch, a list cut by its limit,
  and two people on one row. Nothing in the model repeats, so the bound is the number of reviews
  and sessions.
* *Review.* r1 may plan two calls, of one tool or of two, and find something, r2 does neither; they
  interact through the pull request and time only. `Life = 2`, `Buffer = 1`, `Wire = 1` make a token fresh, due and
  expired, each while a review is in every place. `head` is bounded by the number of reviews (one
  push each), comments by the single request of a review.
* *Harness.* Three cases of two calls, each sent once more: c1 and c2 are one diff, so that c2 may be
  served from the cache, c3 is planned alike and criticised with other results of its tools.
  `TotalCap = 2` with `Cap = 1`, `MaxCost = 2` is met exactly, crossed by the last call of a case and
  never reached. Up to two findings against up to two expectations are the
  least in which an order loses a match; three cases put both percentiles on different indices.
* *Data.* Five families of inputs: one hunk of any body of up to three of nine kinds of line, its
  header right or off by one, repaired or not; two hunks of a file with or without a gap, repaired or
  not, of which the repair may empty one; up to two
  files that share a path or a directory; plans of up to two calls of every tool, with arguments or
  without, with docker or without, on an empty workspace or a full one; up to three findings.
  `LineOfNone = 5` stands for 1 000 000, and one line is past it. A family varies one thing and leaves
  the others plain, since the stages meet through the text and the workspace only. Three lines are
  enough for an empty line in the middle of a hunk and for one at its end, and each hunk is
  read by itself.

Sessions, reviews, runs and cases end, and so does the system in those models: their configurations say
`CHECK_DEADLOCK FALSE`. `WebhookDispatch` has deadlock checking on in every run.

## 4. Fairness

* `WebhookDispatch!FairSpec`: weak fairness of `Schedule`, `AnswerDuplicate`, `StartDispatch` and
  `FinishReview`, per attempt. A handler past its `await` runs to its end, the pool takes tasks in
  order of their arrival (weak fairness per attempt is enough: a busy pool holds up a task only for
  as long as a review lasts), and a review ends, which `ReviewRun` shows. Nothing is assumed of GitHub, the
  clock, crashes and restarts.
* `LLMStack!FairSpec`: weak fairness of a run's steps. The Anthropic SDK has a timeout (ten minutes
  by default) for each attempt and makes at most `Retries` more of them, SQLite waits a bounded time for a lock.
* `ReviewRun!FairSpec`: weak fairness of a review's own steps, among them the failure of each node.
  httpx times out after 10 s (auth) and 30 s (client), the tools after 15 to 60 s. psycopg has no
  timeout of its own here; a silent connection ends when the kernel gives it up. GitHub need not
  answer, time need not pass, tokens need not be granted.
* `EvalHarness!HarnessFairSpec`: weak fairness of the harness as one process (`HarnessStep`). It is
  sequential, and its calls have the timeouts of `LLMStack`. It may be stopped at any time.
* `ReviewData!DataSpec`: weak fairness of the review's own steps (`ClientStep`), among them the
  timeout of every `subprocess.run` (15 to 60 s) and of the request to PyPI. A container has
  none: it may hang for ever, before or after its client is killed.

## 5. What is proved

TLAPS checks these for every value of the constants that satisfies the named assumptions.

| module | theorem | statement |
|---|---|---|
| `WebhookDispatchProofs` | `TypeCorrect`, `OneClaimPerDelivery`, `KeysAreEarned`, `KillSwitch` | `Spec => []P` for `TypeOK`, `AtMostOneClaim`, `KeyComesFromAPullRequest`, `KillSwitchHolds` |
| | `OffIsFinal` | `Spec => OffStaysOff` |
| | `Refinement` | `RedisConfigured => (Spec => KeepsThePromise)` |
| `LLMStackProofs` | `TypeCorrect`, `SpendBelowSoftCap`, `RecordedSpend`, `PoisonStays` | `Spec => []P` for `TypeOK`, `SoftCap`, `SpendIsRecorded`; `Spec => PoisonIsPermanent` |
| `MemoryLoopProofs` | `TypeCorrect`, `AtomicBatches`, `PromptsQuoteVerdicts`, `OverwritesAreLate` | `Spec => []P` for `TypeOK`, `BatchIsAtomic`, `OutcomesAreVerdicts`, `OnlyLateVerdictsAreOffered` |
| `ReviewRunProofs` | `TypeCorrect`, `TokensAreValid`, `InputsAreThere`, `AllTheEvidence`, `Remembered`, `SuccessIsTrue` | `Spec => []P` for `TypeOK`, `TokenOutlivesRequest`, `NodesFindTheirInput`, `EvidenceIsComplete`, `CommentsAreRemembered`, `SuccessIsOnThePull` |
| | `Silence`, `KeepsItsPromise` | `Spec => []NoCommentYet`; `Spec => ReviewsAsPromised` |
| `EvalHarnessProofs` | `HarnessImplementsStack` | `HarnessSpec => Spec` of `LLMStack` |
| | `HarnessTypeCorrect`, `TotalSpendBelowSoftCap`, `HiddenSpend`, `CompleteScores` | `HarnessSpec => []P` for `HarnessTypeOK`, `TotalSoftCap`, `ResultsHideLittle`, `ResultsAreComplete` |
| `EvalScoreProofs` | `GreedyScoreIsHalfRight`, `TheReportAddsUp`, `PercentilesAreRight` | `HarnessSpec => []P` for `GreedyIsHalfRight`, `ReportAddsUp`, `PercentilesCover` |
| `ReviewDataProofs` | `EvidenceIsTrue` | `DataSpec => []AnswersAreTrue`, for every input and every way its containers behave |
| | `DataTypeCorrect`, `RepairNeedsNoRepair`, `WorkspaceIsRight`, `CommentIsCanonical` | `DataSpec => []P` for `DataTypeOK`, `RepairIsFinal`, `WorkspaceIsThePostImage`, `BodyIsCanonical` |
| `CountingFacts` | lemmas only | recursive functions exist, the places of a total order are filled, a listing is unique |

The assumptions are the shapes of the constants and these facts of the code:

* `RetryWindow < TTL` (`WindowAssumption`): "GitHub retries within ~8h; 24h is generous",
  `dedupe.py:19`.
* `Wire <= Buffer` and `Wire < Life` (`ReviewAssumption`): a request reaches GitHub within the
  five minutes of `REFRESH_BUFFER_SECONDS` (`auth.py:39`) after its token was picked, the skew of
  the two clocks included, and a fresh token lives longer than that.

Why the invariants have to be strengthened:

* `AtMostOneClaim` says nothing of Redis. `Inv` adds that an attempt on the wire is inside its
  retry window (`TransitInWindow`) and that the key of a claimed delivery outlives the window
  (`KeyOutlivesWindow`), so the key is present whenever another attempt arrives. `LiveIsHeld` ties
  a live attempt to a running instance; `KillSwitchHolds` needs it.
* The refinement reads the abstract phase off the one attempt that reserved the delivery
  (`ReadOff`, from `AtMostOneClaim`) and needs `DispatchIsClaimed`: whatever is queued, reviewed or
  commented on was reserved. A stopped instance is one abstract `End` of several deliveries
  (`EndStep`).
* `SoftCap` needs that the run passed the check since its last payment (`CheckedRuns`), that a run
  that has not failed has recorded all of its bill but what was sent again (`SpendIsRecorded`), that the
  record and the answer in hand stay below the cap and one call (`RecordBelowCap`), and for these which runs hold an answer
  (`AnswerInHand`). `BoundedResends` counts the attempts of the calls that are over and of the one under
  way. The argument is a balance, bill against record plus `Worth(resent[r])`, to which a retry adds a
  call at most on both sides.
* `OutcomesAreVerdicts` needs `LabelsAreVerdicts`: what the table says a person said.
* `ReviewRun` is a pipeline, so its invariant says what holds from which node on: `Inputs`,
  `Evidence`, `Fresh` (the diff is no older than the trigger), `Written` (findings are stored),
  `Reported` (a served request has its comment). `TokenLasts`, `wire[r] < left[r]`, is the
  inductive form of `TokenOutlivesRequest`.
* `ReviewsAsPromised` allows one comment per review. The program counts none: what holds is that a
  review whose request GitHub has not served has no comment (`NoCommentYet`), and that it never comes
  back to a node before `posting`.
* `HarnessInv` carries the whole invariant of `LLMStack`, which `DrivesTheStack` preserves, because
  every step of the harness is a step of one run or none. `Sequential` says where the cases
  are: ended and recorded behind the harness, untouched before it. `ResultsHideLittle` then
  compares what a case recorded at its end with `SpendIsRecorded` of the stack. `SpendBounds` needs that a
  case that runs was started below the total cap. `Scoring` counts: matched plus open expectations
  are all of them, which gives `CompleteScores`, every result accounts for what its case expected.
* `AnswersAreTrue` looks back at containers that are gone. `EvidenceInv` says of the container of
  the current call that it is a sandboxed tool's and that it ended in one of the ways this tool ends
  or breaks (`BoxOK`); `SaysTheTruth` is then a fact about each tool's reading of exit codes, in both
  directions: what is said was so, and an error is not said of a way to end well.

* `GreedyIsHalfRight` looks back at a loop. `GreedyMatching` says what the loop has built so far: a
  matching of the findings it has read, whose expectations are the closed ones, such that no finding
  it has read and left alone matches an open one. At the end the matching is maximal, and
  `MaximalIsHalfRight` is about matchings only: every pair of another matching meets a pair of a
  maximal one at its finding or at its expectation, so there are at most twice as many.
* `ReportAddsUp` needs that each success claims as many findings as it has (`ScoredResults`) and that
  `total_spend` is the sum of the results so far (`ReportInv`). The rest is about columns of numbers:
  `SumsAdd`, `SumsCompare`, `SumGrows`. `PercentilesCover` follows from what `sorted()` returns
  (`SortedFacts`): the first *k* of it are not greater than the *k*-th.
* `DataInv` keeps what the properties need of steps that are over: the diff is the input's, repaired
  if it was to be (`DiffInv`); each path has the content of the last file written to it, and none but
  these exist (`WorkspaceInv`); answers follow the plan, and each orphan has left a timeout
  (`AnswersInv`); the body is `Format` of the findings (`BodyInv`).
* `WorkspaceIsThePostImage` compares two countings. The workspace numbers the kept lines by the
  loops; the diff numbers them by the headers of its hunks. In a regular file the numbers of the
  headers grow along the loops and skip nothing but lines no hunk shows, so the *n*-th kept line is
  the one whose number has *n* at or below it (`PlacesAndNumbers`), and *n* is at most that number.
* `BodyIsCanonical`: the comment is a listing of the findings in one total order, severity first
  (`FormatOrder`), and a listing in a given order is unique (`ListingIsUnique`); another order of the
  same findings lists the same ones when no two have the same key.
* `RepairIsFinal`: `Strip` cuts at the least length after which there is nothing but artifacts, so
  that cutting again cuts nothing. unidiff and the script count a body alike but for its empty lines:
  without any the counts of the new header are met at the end of the body at the latest, and what is
  read when they are met has all that count; with one the body has more than its header says.

Induction over a sequence is a theorem of the library that takes an operator, which the provers
cannot instantiate. These proofs do it over *sets* of numbers: `NatMinimum` gives the least number
of a nonempty set of them, from the library's theorem that finite sets have a well-founded order, and
the least counterexample contradicts itself. `RecursionExists` shows in this way that the recursive
function of `SumOf` exists; most of the rest is about cardinalities.

Model-checked only: `EveryClaimSettles`, `EveryRunEnds`, `PoisonIsFatal`, `EveryReviewEnds`,
`HarnessEnds`, `ToolsFinish`. They are liveness properties, which need `ENABLED`, and that is out of the
prover's reach. Every other property of a passing run is a theorem.

## 6. Where code and docs disagree

* **A duplicate need not have been dispatched** (`DuplicateWasDispatched`). `dedupe.py:3-8` tells
  retries of *failed* deliveries from duplicates and says a delivery whose key exists is a
  duplicate. The key is set before `add_task` and never released: if the reply to the SET is lost
  or the machine stops in between, GitHub's retry is answered `duplicate: true` and nothing reviews
  the delivery.
* **A session overwrites verdicts** (`VerdictsStand`). `label_memory.py:3` says the CLI walks
  through memories with `was_accepted IS NULL`. It lists them once; `label` does not look again.
  Two people labelling at the same time overwrite each other. `OnlyLateVerdictsAreOffered`, which
  holds, says that this is the only way to be offered a labelled memory.
* **The poster raises** (`PosterNeverRaises`). `posting.py:28` and `poster.py:5` say that posters
  never raise. `poster.py:30` catches `GitHubAPIError`; a `GitHubAuthError` from a token refresh
  and the error of an unreadable 201 get out and end the graph.

## 7. What is not modelled

* *Redis losing keys* (eviction, failover) and requests without `X-GitHub-Delivery`, which share
  the key `unknown`. GitHub always sends the header.
* *The cache file on redeploy.* It is on the machine's disk and may be gone with it. That only
  removes entries: a run that finds the file empty pays again, as in the first lookup of a request.
* *Clock skew* is part of `Wire`; token signing, HMAC and SHA-256 are a set of attempts that
  verify, and distinct keys.
* *What is in the texts.* Prompts, embeddings, similarity and messages are left out: `ReviewRun` and
  `LLMStack` have diffs, prompts and findings as values, `ReviewData` has lines by their sign. What a tool
  finds in a file is its business; whether there was something to find is a choice.
* *The composition of text and time.* `ReviewData` follows one review. Reviews share none of its
  state: each has a temporary directory and containers of its own.
* *Spans* of `sentry/telemetry.py`: the program reads none back, and that they re-raise is part of every
  action that raises.
* *The order of comments* of concurrent reviews. The code orders nothing and promises nothing.
* *`fix_diff` on several files.* A case of the eval set is one file, and the script is modelled on
  one (`InputAssumption`).
* *`MemoryStore.store`*, `MockLLMClient`: only tests and the smoke script call them. `NoopPoster` is
  the poster of the harness, which posts nothing.
* *`run_smoke.py`* builds what `EvalHarness` builds, for one case that it prints; with `--memory` it
  stores findings like any review, under the repository `local/smoke`. `init_db.py` applies the
  migrations once; `validate_eval_set.py` asks unidiff what `PatchSetParses` says.
* *The printed summary and the report file* are one step, `WriteReport`, which may fail.

## 8. Plan

Done, in this order: `WebhookDispatch` with `ReviewPromise`, because everything the service promises
to GitHub is decided there; `LLMStack`; `MemoryLoop`; `ReviewRun`; the proofs of each; `EvalHarness`
on top of `LLMStack` with its proofs; `ReviewData` for everything that is about text and containers;
the proofs that `ReviewRun` keeps its promise and that the evidence of a review is true; the proofs
of the score, the report and the percentiles, and of the repair, the workspace and the comment.

What is left:

1. A composition of `WebhookDispatch` and `ReviewRun` over one `ReviewPromise`, if the state space
   allows: the kill switch, crash and token of the same review.
2. The prompt of the critique (`nodes/critique.py`): which findings, tool outputs and memories are
   in it, and that an unusable answer is told from an empty one.
3. `fix_diff` on several files, and diffs in which unidiff ends a file in the middle of a hunk.
