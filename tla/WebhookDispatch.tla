-------------------------- MODULE WebhookDispatch --------------------------
(***************************************************************************)
(* The webhook service of TotalPR: POST /webhook (api/main.py), the        *)
(* delivery deduper (dedupe.py) and the background dispatch of a review    *)
(* (api/dispatch.py), run by several process instances that share one     *)
(* Redis.  What a review does inside is the subject of ReviewRun; here it  *)
(* is a job that may post one comment and then ends.                       *)
(*                                                                         *)
(* GitHub makes attempts: each one carries the X-GitHub-Delivery id and    *)
(* the payload of its delivery.  An attempt may be repeated, lost, handled *)
(* by any instance, and its answer may be lost.  An instance may stop at   *)
(* any moment (Fly auto-stop, a redeploy, an out-of-memory kill), and with *)
(* it every handler and background task it hosts.                          *)
(***************************************************************************)
EXTENDS Naturals, FiniteSets

CONSTANTS
    Deliveries,       \* the X-GitHub-Delivery ids
    Attempts,         \* HTTP attempts to deliver them
    Of,               \* Of[a]: the delivery that attempt a carries
    Verified,         \* the attempts whose HMAC matches the service's secret
    Payload,          \* Payload[d]: what main.py and dispatch.py read of the body
    TestRepo,         \* Settings.github_test_repo
    Instances,        \* process instances of the service
    NoInstance,       \* the host of an attempt that no instance holds
    RedisConfigured,  \* Settings.redis_url is set
    TTL,              \* dedupe.DEFAULT_TTL_SECONDS, in ticks
    RetryWindow,      \* GitHub repeats a delivery this long after the first attempt
    Horizon,          \* bound of the clock
    Threads           \* threads that run background tasks, per instance

\* _ACTIONABLE_ACTIONS: the actions that signal new code.
Actionable == {"opened", "synchronize", "reopened"}

ASSUME DeliveryAssumption ==
    /\ Of \in [Attempts -> Deliveries]
    /\ Verified \subseteq Attempts
    /\ DOMAIN Payload = Deliveries
    /\ NoInstance \notin Instances
    /\ RedisConfigured \in BOOLEAN

\* dedupe.py:19 - the TTL covers the time in which GitHub retries.
ASSUME WindowAssumption ==
    /\ TTL \in Nat /\ RetryWindow \in Nat /\ Horizon \in Nat \ {0}
    /\ RetryWindow < TTL
    /\ Threads \in Nat \ {0}

VARIABLES
    stage,      \* stage[a]: how far attempt a has come
    host,       \* host[a]: the instance that holds attempt a in memory
    expiry,     \* expiry[d]: when the Redis key of d expires (0: never set)
    firstSent,  \* firstSent[d]: when GitHub first sent d
    sent,       \* the deliveries GitHub has sent
    now,        \* the clock
    up,         \* the instances that run
    enabled,    \* enabled[i]: reviews_enabled, as instance i read it when it started
                \* (FALSE while i does not run)
    flag,       \* the REVIEWS_ENABLED secret an instance started now would read
    claimed,    \* history: the attempts for which mark_seen reserved the delivery
    commented   \* history: the attempts whose review posted its comment

delivery == <<sent, firstSent, now>>
process  == <<up, enabled, flag>>
history  == <<claimed, commented>>
vars == <<stage, host, expiry, delivery, process, history>>

\* The stages in which an instance holds an attempt in memory only.
InHandler == {"new", "seen"}
Live      == InHandler \cup {"queued", "reviewing"}
Stages    == Live \cup {"unsent", "transit", "refused", "failed", "ignored",
                        "duplicate", "declined", "finished", "lost"}

TypeOK ==
    /\ stage \in [Attempts -> Stages]
    /\ host \in [Attempts -> Instances \cup {NoInstance}]
    /\ expiry \in [Deliveries -> 0..(Horizon + TTL)]
    /\ firstSent \in [Deliveries -> 0..Horizon]
    /\ sent \subseteq Deliveries
    /\ now \in 1..Horizon
    /\ up \subseteq Instances
    /\ enabled \in [Instances -> BOOLEAN]
    /\ flag \in BOOLEAN
    /\ claimed \subseteq Attempts
    /\ commented \subseteq Attempts

Init ==
    /\ stage = [a \in Attempts |-> "unsent"]
    /\ host = [a \in Attempts |-> NoInstance]
    /\ expiry = [d \in Deliveries |-> 0]
    /\ firstSent = [d \in Deliveries |-> 0]
    /\ sent = {}
    /\ now = 1
    /\ up = Instances
    /\ flag \in BOOLEAN
    /\ enabled = [i \in Instances |-> flag]
    /\ claimed = {}
    /\ commented = {}

----------------------------------------------------------------------------
(* GitHub, the network and the clock.                                      *)

InWindow(d) == d \notin sent \/ now <= firstSent[d] + RetryWindow

\* GitHub delivers, redelivers a failed attempt, or a connection-level resend
\* replays a successful one: nothing ties an attempt to the fate of the others.
Send(a) ==
    /\ stage[a] = "unsent"
    /\ InWindow(Of[a])
    /\ stage' = [stage EXCEPT ![a] = "transit"]
    /\ firstSent' = IF Of[a] \in sent THEN firstSent
                                      ELSE [firstSent EXCEPT ![Of[a]] = now]
    /\ sent' = sent \cup {Of[a]}
    /\ UNCHANGED <<host, expiry, now, process, history>>

Lose(a) ==
    /\ stage[a] = "transit"
    /\ stage' = [stage EXCEPT ![a] = "refused"]
    /\ UNCHANGED <<host, expiry, delivery, process, history>>

\* An attempt on the wire is answered or gone before the window closes.
Tick ==
    /\ now < Horizon
    /\ \A a \in Attempts :
          stage[a] = "transit" => now < firstSent[Of[a]] + RetryWindow
    /\ now' = now + 1
    /\ UNCHANGED <<stage, host, expiry, sent, firstSent, process, history>>

----------------------------------------------------------------------------
(* The handler.  It awaits the body and nothing else: from mark_seen, a    *)
(* blocking call, to its answer it holds its instance's event loop.        *)

Idle(i) == \A b \in Attempts : ~(host[b] = i /\ stage[b] \in InHandler)

\* Attempt a moves to stage s, in the memory of instance i or out of every memory.
Hold(a, i, s) ==
    /\ stage' = [stage EXCEPT ![a] = s]
    /\ host' = [host EXCEPT ![a] = i]
Release(a, s) == Hold(a, NoInstance, s)

Accepts(i, a) == i \in up /\ Idle(i) /\ stage[a] = "transit"

\* An instance answers attempt a and keeps nothing of it.
Answered(a, i, s) ==
    /\ Accepts(i, a)
    /\ stage' = [stage EXCEPT ![a] = s]
    /\ UNCHANGED <<host, expiry, delivery, process, history>>

\* 401 for a signature that does not verify, 400 for a body that is not JSON.
Reject(a, i) ==
    /\ a \notin Verified \/ ~Payload[Of[a]].json
    /\ Answered(a, i, "refused")

\* Mutant of IsPullRequest: the key is reserved before the signature is checked.
AnyPullRequest(a) == Payload[Of[a]].event = "pull_request"

IsPullRequest(a) ==
    /\ a \in Verified
    /\ Payload[Of[a]].json
    /\ Payload[Of[a]].event = "pull_request"

\* Any other event is acknowledged and forgotten.
Ignore(a, i) ==
    /\ a \in Verified /\ Payload[Of[a]].json
    /\ Payload[Of[a]].event # "pull_request"
    /\ Answered(a, i, "ignored")

\* mark_seen raises before the SET reaches Redis: the handler answers 500.
RedisUnreachable(a, i) ==
    /\ RedisConfigured
    /\ IsPullRequest(a)
    /\ Answered(a, i, "failed")

\* Mutant of KeyPresent: the TTL is the retry window itself.
KeyPresentForTheWindow(d) == now + (TTL - RetryWindow) < expiry[d]

KeyPresent(d) == now < expiry[d]

\* SET NX EX on the delivery's key; the null deduper has no key and accepts.
KeyIsNew(d) == ~RedisConfigured \/ ~KeyPresent(d)

\* Mutant of NewExpiry: EX is given the time of expiry instead of the lifetime.
NewExpiryAbsolute == now + (now + TTL)

\* EX: the key lives for TTL.
NewExpiry == now + TTL

\* The handler calls mark_seen.  The SET takes effect at once; what the
\* handler learns of it is its own stage: "new" for True, "seen" for False.
\* When the reply to a SET that reserved the key is lost, the client library
\* either raises (500, "failed") or sends the SET again and is told that the
\* key exists.
MarkSeen(a, i) ==
    /\ Accepts(i, a)
    /\ IsPullRequest(a)
    /\ \/ /\ KeyIsNew(Of[a])
          /\ \/ Hold(a, i, "new")
             \/ RedisConfigured /\ Hold(a, i, "seen")
             \/ RedisConfigured /\ Release(a, "failed")
          /\ expiry' = IF RedisConfigured
                       THEN [expiry EXCEPT ![Of[a]] = NewExpiry] ELSE expiry
          /\ claimed' = claimed \cup {a}
       \/ /\ ~KeyIsNew(Of[a])
          /\ Hold(a, i, "seen")
          /\ UNCHANGED <<expiry, claimed>>
    /\ UNCHANGED <<delivery, process, commented>>

\* add_task, then the 200.  The background task is run after the answer is
\* sent, whether or not GitHub ever receives it.
Schedule(a) ==
    /\ stage[a] = "new"
    /\ stage' = [stage EXCEPT ![a] = "queued"]
    /\ UNCHANGED <<host, expiry, delivery, process, history>>

\* 200 {"duplicate": true}.
AnswerDuplicate(a) ==
    /\ stage[a] = "seen"
    /\ Release(a, "duplicate")
    /\ UNCHANGED <<expiry, delivery, process, history>>

----------------------------------------------------------------------------
(* The background task.                                                    *)

\* Mutant of Busy: a task takes its thread when it is queued.
BusyFromTheQueue(i) == {b \in Attempts : host[b] = i /\ stage[b] \in {"queued", "reviewing"}}

Busy(i) == {b \in Attempts : host[b] = i /\ stage[b] = "reviewing"}

\* Mutant of ShouldDispatch: the kill switch is not consulted.
ShouldDispatchAlways(d, i) ==
    /\ Payload[d].repo = TestRepo
    /\ Payload[d].action \in Actionable

ShouldDispatch(d, i) ==
    /\ enabled[i]
    /\ Payload[d].repo = TestRepo
    /\ Payload[d].action \in Actionable

\* A thread of the pool takes the task: dispatch_pull_request decides with the
\* settings of its own process, then returns or starts the review.
StartDispatch(a) ==
    /\ stage[a] = "queued"
    /\ Cardinality(Busy(host[a])) < Threads
    /\ IF ShouldDispatch(Of[a], host[a])
       THEN Hold(a, host[a], "reviewing") ELSE Release(a, "declined")
    /\ UNCHANGED <<expiry, delivery, process, history>>

\* The review's comment reaches GitHub.
PostComment(a) ==
    /\ stage[a] = "reviewing"
    /\ a \notin commented
    /\ commented' = commented \cup {a}
    /\ UNCHANGED <<stage, host, expiry, delivery, process, claimed>>

\* Mutant of FinishReview: a review that raises is queued once more.
FinishReviewOrRetry(a) ==
    /\ stage[a] = "reviewing"
    /\ Release(a, "finished") \/ Hold(a, host[a], "queued")
    /\ UNCHANGED <<expiry, delivery, process, history>>

\* _run_review returns or raises, with or without a comment; both are logged.
FinishReview(a) ==
    /\ stage[a] = "reviewing"
    /\ Release(a, "finished")
    /\ UNCHANGED <<expiry, delivery, process, history>>

----------------------------------------------------------------------------
(* The life of an instance.                                                *)

\* Nothing is persisted: handlers, queued tasks and reviews die with the process.
Lost(a, i) == host[a] = i /\ stage[a] \in Live

Crash(i) ==
    /\ i \in up
    /\ up' = up \ {i}
    /\ enabled' = [enabled EXCEPT ![i] = FALSE]
    /\ stage' = [a \in Attempts |-> IF Lost(a, i) THEN "lost" ELSE stage[a]]
    /\ host' = [a \in Attempts |-> IF Lost(a, i) THEN NoInstance ELSE host[a]]
    /\ UNCHANGED <<expiry, delivery, flag, history>>

\* Mutant of Restart: a stopped machine comes back with the settings it had.
RestartAsDeployed(i) ==
    /\ i \notin up
    /\ up' = up \cup {i}
    /\ enabled' \in {[enabled EXCEPT ![i] = on] : on \in BOOLEAN}
    /\ UNCHANGED <<stage, host, expiry, delivery, flag, history>>

\* create_app reads Settings once.
Restart(i) ==
    /\ i \notin up
    /\ up' = up \cup {i}
    /\ enabled' = [enabled EXCEPT ![i] = flag]
    /\ UNCHANGED <<stage, host, expiry, delivery, flag, history>>

\* `fly secrets set REVIEWS_ENABLED=...`; the redeploy it triggers is the
\* Crash and Restart of the instances, one after the other.
SetSecret ==
    /\ flag' = ~flag
    /\ UNCHANGED <<stage, host, expiry, delivery, up, enabled, history>>

----------------------------------------------------------------------------
Handle(a) ==
    \/ \E i \in Instances :
          Reject(a, i) \/ Ignore(a, i) \/ RedisUnreachable(a, i) \/ MarkSeen(a, i)
    \/ Schedule(a) \/ AnswerDuplicate(a)

RunTask(a) == StartDispatch(a) \/ PostComment(a) \/ FinishReview(a)

Next ==
    \/ \E a \in Attempts : Send(a) \/ Lose(a) \/ Handle(a) \/ RunTask(a)
    \/ \E i \in Instances : Crash(i) \/ Restart(i)
    \/ Tick \/ SetSecret

Spec == Init /\ [][Next]_vars

\* A handler that has the event loop runs on, the pool takes a queued task when
\* a thread is free, and a review ends (ReviewRun shows under which fairness).
\* Nothing is assumed of GitHub, of the clock, of crashes or of restarts.
Fairness ==
    \A a \in Attempts :
        /\ WF_vars(Schedule(a))
        /\ WF_vars(AnswerDuplicate(a))
        /\ WF_vars(StartDispatch(a))
        /\ WF_vars(FinishReview(a))

FairSpec == Spec /\ Fairness
----------------------------------------------------------------------------
(* Properties.                                                             *)

Claimants(d) == {a \in claimed : Of[a] = d}

\* With Redis, a delivery is reserved by one attempt at most, however often
\* GitHub repeats it, whichever instances the attempts reach and whenever those
\* instances stop: two reservations would be two reviews and two comments.
AtMostOneClaim ==
    RedisConfigured =>
        \A a, b \in claimed : Of[a] = Of[b] => a = b

\* A key in Redis was set for an attempt that verified, parsed and announced a
\* pull request: a rejected or ignored attempt never uses up a delivery id, so
\* the repetition that follows it is not taken for a duplicate.
KeyComesFromAPullRequest ==
    \A d \in Deliveries : expiry[d] # 0 =>
        \E a \in claimed \cap Verified :
            Of[a] = d /\ Payload[d].json /\ Payload[d].event = "pull_request"

\* No review, and so no comment, is in progress on an instance whose settings
\* switch reviews off, although a redeploy may stop an instance between the
\* reservation of a delivery and its dispatch.
KillSwitchHolds ==
    \A a \in Attempts : stage[a] = "reviewing" => host[a] \in up /\ enabled[host[a]]

\* The rollout of the kill switch is over: the secret is off, every instance has
\* read it, and the reviews that were running are done.
SwitchedOff ==
    /\ ~flag
    /\ \A i \in Instances : ~enabled[i]
    /\ \A a \in Attempts : stage[a] # "reviewing"

\* An instance reads its settings once (main.py 115), so that while the switch is
\* rolled out some still review.  When that is over nothing brings a review back
\* before the secret is set again: no delivery that was queued meanwhile, no
\* repetition of one, no machine that Fly starts.
OffStaysOff == [][SwitchedOff /\ ~flag' => SwitchedOff']_vars

\* Every reserved delivery is settled: declined, reviewed, answered or lost with
\* its instance.  No task waits for ever in a queue or behind a full pool.
Settled == {"failed", "duplicate", "declined", "finished", "lost"}
EveryClaimSettles ==
    \A a \in Attempts : (a \in claimed) ~> (stage[a] \in Settled)

\* dedupe.py says that GitHub retries failed deliveries and that an attempt may
\* be skipped when its key exists, for then the delivery is a duplicate: so the
\* attempt that reserved the key was scheduled for dispatch, or is about to be.
\* The code keeps the key of an attempt that failed after reserving it.
DuplicateWasDispatched ==
    \A a \in Attempts \ claimed : stage[a] = "duplicate" =>
        \E b \in Claimants(Of[a]) : stage[b] \notin {"failed", "lost", "duplicate"}

----------------------------------------------------------------------------
(* With Redis the service implements ReviewPromise: the phase of a delivery *)
(* is that of the one attempt that reserved it.                             *)

PhaseOf(a) ==
    CASE stage[a] \in InHandler \cup {"queued"} -> "claimed"
      [] stage[a] = "reviewing"                 -> "reviewing"
      [] OTHER                                  -> "over"

Phase == [d \in Deliveries |->
             IF Claimants(d) = {} THEN "idle"
             ELSE PhaseOf(CHOOSE a \in Claimants(d) : TRUE)]

Comments == [d \in Deliveries |-> Cardinality({a \in commented : Of[a] = d})]

Promise == INSTANCE ReviewPromise WITH phase <- Phase, comments <- Comments

\* However its attempts are repeated, lost, answered or cut off by a crash, a
\* delivery is claimed, reviewed and commented on at most once, in that order,
\* and never comes back once it is over.
KeepsThePromise == Promise!Spec
=============================================================================
