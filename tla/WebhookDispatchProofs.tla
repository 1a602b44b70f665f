----------------------- MODULE WebhookDispatchProofs -----------------------
(***************************************************************************)
(* Proofs about WebhookDispatch for any deliveries, attempts, instances,    *)
(* payloads, thread count and time bounds with RetryWindow < TTL; the last   *)
(* part proves that with Redis WebhookDispatch implements ReviewPromise.    *)
(***************************************************************************)
EXTENDS WebhookDispatch, FiniteSetTheorems, TLAPS

\* An instance holds an attempt in memory exactly while the attempt is live.
LiveIsHeld ==
    \A a \in Attempts :
        /\ stage[a] \in Live => host[a] \in up
        /\ stage[a] \notin Live => host[a] = NoInstance

\* A delivery on the wire is inside its retry window.
TransitInWindow ==
    \A a \in Attempts : stage[a] = "transit" =>
        Of[a] \in sent /\ now <= firstSent[Of[a]] + RetryWindow

\* A claimed delivery was sent, its attempt has left the wire, and the key
\* outlives the retry window of the delivery.
KeyOutlivesWindow ==
    \A a \in claimed :
        /\ Of[a] \in sent
        /\ stage[a] \notin {"unsent", "transit"}
        /\ RedisConfigured => firstSent[Of[a]] + TTL <= expiry[Of[a]]

SentInThePast == \A d \in sent : firstSent[d] <= now

\* The inductive invariant: AtMostOneClaim alone is not inductive, for nothing
\* in it says that the key of a claimed delivery is still there when another
\* attempt of the delivery arrives.
Inv ==
    /\ TypeOK
    /\ LiveIsHeld
    /\ TransitInWindow
    /\ KeyOutlivesWindow
    /\ SentInThePast
    /\ AtMostOneClaim
    /\ KeyComesFromAPullRequest
    /\ KillSwitchHolds
----------------------------------------------------------------------------
\* Every step keeps the types.
LEMMA TypeStep ==
    ASSUME TypeOK, [Next]_vars
    PROVE  TypeOK'
<1> USE DeliveryAssumption, WindowAssumption DEF TypeOK, vars, delivery, process, history
<1> USE DEF Stages, Live, InHandler
<1>1. ASSUME NEW a \in Attempts, Send(a)
      PROVE  TypeOK'
  BY <1>1 DEF Send
<1>2. ASSUME NEW a \in Attempts, Lose(a)
      PROVE  TypeOK'
  BY <1>2 DEF Lose
<1>3. ASSUME NEW a \in Attempts, NEW i \in Instances, Reject(a, i)
      PROVE  TypeOK'
  BY <1>3 DEF Reject, Answered, Accepts
<1>4. ASSUME NEW a \in Attempts, NEW i \in Instances, Ignore(a, i)
      PROVE  TypeOK'
  BY <1>4 DEF Ignore, Answered, Accepts
<1>5. ASSUME NEW a \in Attempts, NEW i \in Instances, RedisUnreachable(a, i)
      PROVE  TypeOK'
  BY <1>5 DEF RedisUnreachable, Answered, Accepts
<1>6. ASSUME NEW a \in Attempts, NEW i \in Instances, MarkSeen(a, i)
      PROVE  TypeOK'
  BY <1>6 DEF MarkSeen, Accepts, Hold, Release, NewExpiry
<1>7. ASSUME NEW a \in Attempts, Schedule(a)
      PROVE  TypeOK'
  BY <1>7 DEF Schedule
<1>8. ASSUME NEW a \in Attempts, AnswerDuplicate(a)
      PROVE  TypeOK'
  BY <1>8 DEF AnswerDuplicate, Hold, Release
<1>9. ASSUME NEW a \in Attempts, StartDispatch(a)
      PROVE  TypeOK'
  BY <1>9 DEF StartDispatch, Hold, Release
<1>10. ASSUME NEW a \in Attempts, PostComment(a)
      PROVE  TypeOK'
  BY <1>10 DEF PostComment
<1>11. ASSUME NEW a \in Attempts, FinishReview(a)
      PROVE  TypeOK'
  BY <1>11 DEF FinishReview, Hold, Release
<1>12. ASSUME NEW i \in Instances, Crash(i)
      PROVE  TypeOK'
  BY <1>12 DEF Crash, Lost
<1>13. ASSUME NEW i \in Instances, Restart(i)
      PROVE  TypeOK'
  BY <1>13 DEF Restart
<1>14. ASSUME Tick
      PROVE  TypeOK'
  BY <1>14 DEF Tick
<1>15. ASSUME SetSecret
      PROVE  TypeOK'
  BY <1>15 DEF SetSecret
<1>16. CASE UNCHANGED vars
  BY <1>16
<1> QED
  BY <1>1, <1>2, <1>3, <1>4, <1>5, <1>6, <1>7, <1>8, <1>9, <1>10,
     <1>11, <1>12, <1>13, <1>14, <1>15, <1>16 DEF Next, Handle, RunTask
----------------------------------------------------------------------------
\* Every step keeps the inductive invariant.  Only MarkSeen adds to claimed,
\* and only Crash changes several attempts at once.
LEMMA SafetyStep ==
    ASSUME Inv, [Next]_vars
    PROVE  Inv'
<1> DEFINE Safe == /\ LiveIsHeld /\ TransitInWindow /\ KeyOutlivesWindow /\ SentInThePast
                   /\ AtMostOneClaim /\ KeyComesFromAPullRequest /\ KillSwitchHolds
<1>0. TypeOK /\ TypeOK' /\ Safe
  BY TypeStep DEF Inv
<1> USE DeliveryAssumption, WindowAssumption DEF vars, delivery, process, history
<1> USE DEF Stages, Live, InHandler, TypeOK, LiveIsHeld, TransitInWindow, KeyOutlivesWindow,
          SentInThePast, AtMostOneClaim, KeyComesFromAPullRequest, KillSwitchHolds
<1>1. ASSUME NEW a \in Attempts, Send(a)
      PROVE  Safe'
  BY <1>0, <1>1 DEF Send, InWindow
<1>2. ASSUME NEW a \in Attempts, Lose(a)
      PROVE  Safe'
  BY <1>0, <1>2 DEF Lose
<1>3. ASSUME NEW a \in Attempts, NEW i \in Instances, Reject(a, i)
      PROVE  Safe'
  BY <1>0, <1>3 DEF Reject, Answered, Accepts
<1>4. ASSUME NEW a \in Attempts, NEW i \in Instances, Ignore(a, i)
      PROVE  Safe'
  BY <1>0, <1>4 DEF Ignore, Answered, Accepts
<1>5. ASSUME NEW a \in Attempts, NEW i \in Instances, RedisUnreachable(a, i)
      PROVE  Safe'
  BY <1>0, <1>5 DEF RedisUnreachable, Answered, Accepts
<1>6. ASSUME NEW a \in Attempts, NEW i \in Instances, MarkSeen(a, i)
      PROVE  Safe'
  <2> DEFINE d == Of[a]
  <2>1. /\ i \in up /\ stage[a] = "transit"
        /\ stage' \in [Attempts -> Stages] /\ stage'[a] \in {"new", "seen", "failed"}
        /\ stage'[a] = "failed" => host'[a] = NoInstance
        /\ stage'[a] # "failed" => host'[a] = i
        /\ \A b \in Attempts \ {a} : stage'[b] = stage[b] /\ host'[b] = host[b]
        /\ UNCHANGED <<sent, firstSent, now, up, enabled, flag, commented>>
    BY <1>0, <1>6 DEF MarkSeen, Accepts, Hold, Release
  <2>2. LiveIsHeld' /\ TransitInWindow' /\ SentInThePast' /\ KillSwitchHolds'
    BY <1>0, <2>1
  <2>3. CASE KeyIsNew(d) /\ claimed' = claimed \cup {a}
             /\ expiry' = IF RedisConfigured THEN [expiry EXCEPT ![d] = NewExpiry]
                                            ELSE expiry
    <3>1. RedisConfigured => \A b \in claimed : Of[b] # d
      \* The key of a claimed delivery is present while an attempt is on the wire.
      BY <1>0, <2>1, <2>3 DEF KeyIsNew, KeyPresent
    <3>2. KeyOutlivesWindow'
      BY <1>0, <2>1, <2>3 DEF NewExpiry
    <3>3. AtMostOneClaim'
      BY <1>0, <2>3, <3>1
    <3>4. KeyComesFromAPullRequest'
      <4>1. a \in Verified /\ Payload[d].json /\ Payload[d].event = "pull_request"
        BY <1>6 DEF MarkSeen, IsPullRequest
      <4>2. \A e \in Deliveries : e # d => expiry'[e] = expiry[e]
        BY <1>0, <2>3
      <4> QED
        BY <1>0, <2>3, <4>1, <4>2
    <3> QED
      BY <2>2, <3>2, <3>3, <3>4
  <2>4. CASE UNCHANGED <<expiry, claimed>>
    BY <1>0, <2>1, <2>2, <2>4
  <2> QED
    BY <1>6, <2>3, <2>4 DEF MarkSeen
<1>7. ASSUME NEW a \in Attempts, Schedule(a)
      PROVE  Safe'
  BY <1>0, <1>7 DEF Schedule
<1>8. ASSUME NEW a \in Attempts, AnswerDuplicate(a)
      PROVE  Safe'
  BY <1>0, <1>8 DEF AnswerDuplicate, Hold, Release
<1>9. ASSUME NEW a \in Attempts, StartDispatch(a)
      PROVE  Safe'
  BY <1>0, <1>9 DEF StartDispatch, Hold, Release, ShouldDispatch
<1>10. ASSUME NEW a \in Attempts, PostComment(a)
      PROVE  Safe'
  BY <1>0, <1>10 DEF PostComment
<1>11. ASSUME NEW a \in Attempts, FinishReview(a)
      PROVE  Safe'
  BY <1>0, <1>11 DEF FinishReview, Hold, Release
<1>12. ASSUME NEW i \in Instances, Crash(i)
      PROVE  Safe'
  <2>1. /\ \A a \in Attempts :
              /\ stage'[a] = IF Lost(a, i) THEN "lost" ELSE stage[a]
              /\ host'[a] = IF Lost(a, i) THEN NoInstance ELSE host[a]
        /\ enabled' = [enabled EXCEPT ![i] = FALSE]
        /\ up' = up \ {i}
        /\ UNCHANGED <<expiry, sent, firstSent, now, flag, claimed, commented>>
    BY <1>12 DEF Crash
  <2>2. LiveIsHeld'
    BY <1>0, <2>1 DEF Lost
  <2>3. TransitInWindow' /\ KeyOutlivesWindow'
    BY <1>0, <2>1 DEF Lost
  <2>4. SentInThePast' /\ AtMostOneClaim' /\ KeyComesFromAPullRequest'
    BY <1>0, <2>1
  <2>5. KillSwitchHolds'
    BY <1>0, <2>1 DEF Lost
  <2> QED
    BY <2>2, <2>3, <2>4, <2>5
<1>13. ASSUME NEW i \in Instances, Restart(i)
      PROVE  Safe'
  BY <1>0, <1>13 DEF Restart
<1>14. ASSUME Tick
      PROVE  Safe'
  BY <1>0, <1>14 DEF Tick
<1>15. ASSUME SetSecret
      PROVE  Safe'
  BY <1>0, <1>15 DEF SetSecret
<1>16. ASSUME UNCHANGED vars
       PROVE  Safe'
  BY <1>0, <1>16
<1> QED
  BY <1>0, <1>1, <1>2, <1>3, <1>4, <1>5, <1>6, <1>7, <1>8, <1>9, <1>10,
     <1>11, <1>12, <1>13, <1>14, <1>15, <1>16 DEF Next, Handle, RunTask, Inv

----------------------------------------------------------------------------
\* The inductive invariant holds of every behaviour of the service.
THEOREM Invariance == Spec => []Inv
<1>1. Init => Inv
  BY DeliveryAssumption, WindowAssumption
     DEF Init, Inv, TypeOK, Stages, Live, InHandler, LiveIsHeld, TransitInWindow,
         KeyOutlivesWindow, SentInThePast, AtMostOneClaim,
         KeyComesFromAPullRequest, KillSwitchHolds
<1>2. Inv /\ [Next]_vars => Inv'
  BY SafetyStep
<1> QED
  BY <1>1, <1>2, PTL DEF Spec

\* Every variable keeps its type.
THEOREM TypeCorrect == Spec => []TypeOK
<1>1. Inv => TypeOK
  BY DEF Inv
<1> QED
  BY <1>1, Invariance, PTL

\* With Redis and a TTL longer than GitHub's retry window, no delivery is ever
\* reserved for two attempts.
THEOREM OneClaimPerDelivery == Spec => []AtMostOneClaim
<1>1. Inv => AtMostOneClaim
  BY DEF Inv
<1> QED
  BY <1>1, Invariance, PTL

\* Only signed, well-formed pull-request attempts use up a delivery id.
THEOREM KeysAreEarned == Spec => []KeyComesFromAPullRequest
<1>1. Inv => KeyComesFromAPullRequest
  BY DEF Inv
<1> QED
  BY <1>1, Invariance, PTL

\* No review runs on an instance that is down or has reviews switched off.
THEOREM KillSwitch == Spec => []KillSwitchHolds
<1>1. Inv => KillSwitchHolds
  BY DEF Inv
<1> QED
  BY <1>1, Invariance, PTL

\* Once every instance has read that reviews are off and the running ones are
\* done, no step brings a review back while the secret stays as it is.
THEOREM OffIsFinal == Spec => OffStaysOff
<1> DEFINE A == SwitchedOff /\ ~flag' => SwitchedOff'
<1>1. ASSUME Inv, [Next]_vars, SwitchedOff, ~flag'
      PROVE  SwitchedOff'
  <2> USE <1>1 DEF SwitchedOff
  <2>1. ASSUME NEW a \in Attempts, StartDispatch(a)
        PROVE  SwitchedOff'
    <3>1. host[a] \in Instances
      BY <2>1 DEF StartDispatch, Inv, LiveIsHeld, TypeOK, Live
    <3>2. ~ShouldDispatch(Of[a], host[a])
      BY <3>1 DEF ShouldDispatch
    <3> QED
      BY <2>1, <3>2 DEF StartDispatch, Hold, Release, Inv, TypeOK, process
  <2>2. ASSUME NEW a \in Attempts, Send(a) \/ Lose(a) \/ Schedule(a) \/ AnswerDuplicate(a)
        PROVE  SwitchedOff'
    BY <2>2 DEF Send, Lose, Schedule, AnswerDuplicate, Hold, Release, Inv, TypeOK, process
  <2>3. ASSUME NEW a \in Attempts, PostComment(a) \/ FinishReview(a)
        PROVE  SwitchedOff'
    BY <2>3 DEF PostComment, FinishReview
  <2>4. ASSUME NEW a \in Attempts, NEW i \in Instances,
               Reject(a, i) \/ Ignore(a, i) \/ RedisUnreachable(a, i) \/ MarkSeen(a, i)
        PROVE  SwitchedOff'
    BY <2>4 DEF Reject, Ignore, RedisUnreachable, MarkSeen, Answered, Accepts, Hold,
                Release, Inv, TypeOK, process
  <2>5. ASSUME NEW i \in Instances, Crash(i) \/ Restart(i)
        PROVE  SwitchedOff'
    BY <2>5 DEF Crash, Restart, Inv, TypeOK
  <2>6. CASE Tick \/ SetSecret \/ UNCHANGED vars
    BY <2>6 DEF Tick, SetSecret, vars, process
  <2> QED
    BY <2>1, <2>2, <2>3, <2>4, <2>5, <2>6 DEF Next, Handle, RunTask
<1>2. Inv /\ [Next]_vars => [A]_vars
  BY <1>1
<1> QED
  BY <1>2, Invariance, PTL DEF Spec, OffStaysOff

----------------------------------------------------------------------------
(* The promise.                                                            *)

\* An attempt whose delivery goes to dispatch reserved it, and only such an
\* attempt is ever commented on.
DispatchIsClaimed ==
    /\ \A a \in Attempts : stage[a] \in {"new", "queued", "reviewing"} => a \in claimed
    /\ commented \subseteq claimed

RefInv == Inv /\ DispatchIsClaimed

\* The dispatch of an attempt starts from its reservation, whatever step is taken.
THEOREM RefInvariance == Spec => []RefInv
<1> USE DEF vars, delivery, process, history, Stages, Live, InHandler, DispatchIsClaimed
<1>1. Init => DispatchIsClaimed
  BY DEF Init
<1>2. ASSUME TypeOK, DispatchIsClaimed, [Next]_vars
      PROVE  DispatchIsClaimed'
  <2> USE <1>2 DEF TypeOK, Hold, Release, Accepts, Answered
  <2>1. ASSUME NEW a \in Attempts, Send(a) \/ Lose(a)
        PROVE  DispatchIsClaimed'
    BY <2>1 DEF Send, Lose
  <2>2. ASSUME NEW a \in Attempts, NEW i \in Instances,
               Reject(a, i) \/ Ignore(a, i) \/ RedisUnreachable(a, i)
        PROVE  DispatchIsClaimed'
    BY <2>2 DEF Reject, Ignore, RedisUnreachable
  <2>3. ASSUME NEW a \in Attempts, NEW i \in Instances, MarkSeen(a, i)
        PROVE  DispatchIsClaimed'
    BY <2>3 DEF MarkSeen
  <2>4. ASSUME NEW a \in Attempts, Schedule(a) \/ AnswerDuplicate(a) \/ RunTask(a)
        PROVE  DispatchIsClaimed'
    BY <2>4 DEF Schedule, AnswerDuplicate, RunTask, StartDispatch, PostComment, FinishReview
  <2>5. ASSUME NEW i \in Instances, Crash(i) \/ Restart(i)
        PROVE  DispatchIsClaimed'
    BY <2>5 DEF Crash, Restart, Lost
  <2>6. ASSUME Tick \/ SetSecret \/ UNCHANGED vars
        PROVE  DispatchIsClaimed'
    BY <2>6 DEF Tick, SetSecret
  <2> QED
    BY <2>1, <2>2, <2>3, <2>4, <2>5, <2>6 DEF Next, Handle
<1>3. Inv => TypeOK
  BY DEF Inv
<1> QED
  BY <1>1, <1>2, <1>3, Invariance, PTL DEF Spec, RefInv

----------------------------------------------------------------------------
\* The abstract state, read off the one attempt that reserved a delivery.
AbstractState ==
    /\ \A a \in claimed :
          /\ Phase[Of[a]] = PhaseOf(a)
          /\ Comments[Of[a]] = IF a \in commented THEN 1 ELSE 0
    /\ \A d \in Deliveries : (\A a \in claimed : Of[a] # d) =>
          Phase[d] = "idle" /\ Comments[d] = 0

LEMMA ReadOff == RedisConfigured /\ RefInv => AbstractState
<1> SUFFICES ASSUME RedisConfigured, RefInv
             PROVE  AbstractState
  OBVIOUS
<1>1. claimed \subseteq Attempts /\ commented \subseteq claimed
  BY DEF RefInv, Inv, TypeOK, DispatchIsClaimed
<1>2. Of \in [Attempts -> Deliveries]
  BY DeliveryAssumption
<1>3. ASSUME NEW a \in claimed
      PROVE  /\ Phase[Of[a]] = PhaseOf(a)
             /\ Comments[Of[a]] = IF a \in commented THEN 1 ELSE 0
  <2>1. Of[a] \in Deliveries
    BY <1>1, <1>2
  <2>2. \A b \in claimed : Of[b] = Of[a] => b = a
    BY DEF RefInv, Inv, AtMostOneClaim
  <2>3. Claimants(Of[a]) = {a}
    BY <2>2 DEF Claimants
  <2>4. Phase[Of[a]] = PhaseOf(a)
    BY <2>1, <2>3 DEF Phase
  <2>5. {b \in commented : Of[b] = Of[a]} = IF a \in commented THEN {a} ELSE {}
    BY <1>1, <2>2
  <2>6. Cardinality({a}) = 1 /\ Cardinality({}) = 0
    BY FS_EmptySet, FS_Singleton
  <2> QED
    BY <2>1, <2>4, <2>5, <2>6 DEF Comments
<1>4. ASSUME NEW d \in Deliveries, \A a \in claimed : Of[a] # d
      PROVE  Phase[d] = "idle" /\ Comments[d] = 0
  <2>1. Claimants(d) = {} /\ {b \in commented : Of[b] = d} = {}
    BY <1>1, <1>4 DEF Claimants
  <2> QED
    BY <2>1, FS_EmptySet DEF Phase, Comments
<1> QED
  BY <1>3, <1>4 DEF AbstractState

----------------------------------------------------------------------------
\* A step that neither claims nor comments, and after which the claims of S are
\* over and the others where they were, is a step of End (S may be empty).
LEMMA EndStep ==
    ASSUME RefInv, AbstractState, AbstractState',
           UNCHANGED <<claimed, commented>>,
           NEW S \in SUBSET claimed,
           \A a \in claimed : PhaseOf(a)' = IF a \in S THEN "over" ELSE PhaseOf(a),
           RedisConfigured
    PROVE  Promise!End
<1> DEFINE D == {Of[a] : a \in S}
<1>1. claimed \subseteq Attempts /\ Of \in [Attempts -> Deliveries]
  BY DeliveryAssumption DEF RefInv, Inv, TypeOK
<1>2. D \in SUBSET Deliveries
  BY <1>1
<1>3. \A a, b \in claimed : Of[a] = Of[b] => a = b
  BY DEF RefInv, Inv, AtMostOneClaim
<1>4. ASSUME NEW d \in Deliveries
      PROVE  /\ Phase'[d] = IF d \in D THEN "over" ELSE Phase[d]
             /\ Comments'[d] = Comments[d]
  <2>1. CASE \E a \in claimed : Of[a] = d
    <3>1. PICK a \in claimed : Of[a] = d
      BY <2>1
    <3>2. d \in D <=> a \in S
      BY <1>3, <3>1
    <3>3. /\ Phase[d] = PhaseOf(a) /\ Phase'[d] = PhaseOf(a)'
          /\ Comments'[d] = Comments[d]
      BY <3>1 DEF AbstractState
    <3> QED
      BY <3>1, <3>2, <3>3
  <2>2. CASE \A a \in claimed : Of[a] # d
    <3>1. d \notin D
      BY <2>2
    <3> QED
      BY <2>2, <3>1 DEF AbstractState
  <2> QED
    BY <2>1, <2>2
<1>5. Phase' = [d \in Deliveries |-> IF d \in D THEN "over" ELSE Phase[d]]
  BY <1>4 DEF Phase
<1>6. Comments' = Comments
  BY <1>4 DEF Comments
<1> QED
  BY <1>2, <1>5, <1>6 DEF Promise!End

----------------------------------------------------------------------------
\* Every step of the service is a step of the promise or leaves it alone.
LEMMA StepRefines ==
    ASSUME RefInv, RefInv', AbstractState, AbstractState', [Next]_vars, RedisConfigured
    PROVE  Promise!Next
<1> USE DEF vars, delivery, process, history, InHandler, Live
<1>0. /\ claimed \subseteq Attempts /\ claimed' \subseteq Attempts
      /\ Of \in [Attempts -> Deliveries] /\ stage \in [Attempts -> Stages]
      /\ host \in [Attempts -> Instances \cup {NoInstance}]
      /\ \A a, b \in claimed : Of[a] = Of[b] => a = b
      /\ \A a, b \in claimed' : Of[a] = Of[b] => a = b
      /\ \A a \in claimed : stage[a] \notin {"unsent", "transit"}
  BY DeliveryAssumption, RedisConfigured
     DEF RefInv, Inv, TypeOK, AtMostOneClaim, KeyOutlivesWindow
\* The steps that leave every claim in its phase, or end some.
<1>1. ASSUME UNCHANGED <<claimed, commented>>, NEW S \in SUBSET claimed,
             \A a \in claimed : PhaseOf(a)' = IF a \in S THEN "over" ELSE PhaseOf(a)
      PROVE  Promise!Next
  BY EndStep, <1>1 DEF Promise!Next
<1>2. ASSUME UNCHANGED <<claimed, commented>>,
             \A a \in claimed : PhaseOf(a)' = PhaseOf(a)
      PROVE  Promise!Next
  <2> DEFINE S == {}
  <2>1. \A a \in claimed : PhaseOf(a)' = IF a \in S THEN "over" ELSE PhaseOf(a)
    BY <1>2
  <2>2. S \in SUBSET claimed
    OBVIOUS
  <2> HIDE DEF S
  <2> QED
    BY <1>1, <1>2, <2>1, <2>2
<1>3. ASSUME NEW a \in Attempts, Send(a) \/ Lose(a)
      PROVE  Promise!Next
  BY <1>0, <1>2, <1>3 DEF Send, Lose, PhaseOf
<1>4. ASSUME NEW a \in Attempts, NEW i \in Instances,
             Reject(a, i) \/ Ignore(a, i) \/ RedisUnreachable(a, i)
      PROVE  Promise!Next
  BY <1>0, <1>2, <1>4 DEF Reject, Ignore, RedisUnreachable, Answered, Accepts, PhaseOf
\* A reservation turns an idle delivery into a claimed one, or into one that is
\* over already when the handler fails.
<1>5. ASSUME NEW a \in Attempts, NEW i \in Instances, MarkSeen(a, i)
      PROVE  Promise!Next
  <2> DEFINE d == Of[a]
  <2>1. /\ stage[a] = "transit" /\ stage'[a] \in {"new", "seen", "failed"}
        /\ \A b \in Attempts \ {a} : stage'[b] = stage[b]
        /\ commented' = commented
    BY <1>0, <1>5 DEF MarkSeen, Accepts, Hold, Release
  <2>2. \A b \in claimed : b # a /\ PhaseOf(b)' = PhaseOf(b)
    BY <1>0, <2>1 DEF PhaseOf
  <2>3. CASE claimed' = claimed
    BY <1>2, <2>1, <2>2, <2>3
  <2>4. CASE claimed' = claimed \cup {a}
    <3>1. \A b \in claimed : Of[b] # d
      BY <1>0, <2>2, <2>4
    <3>2. d \in Deliveries /\ Phase[d] = "idle" /\ Comments[d] = 0
      BY <1>0, <3>1 DEF AbstractState
    <3>3. Phase'[d] = PhaseOf(a)' /\ Comments'[d] = IF a \in commented THEN 1 ELSE 0
      BY <2>1, <2>4 DEF AbstractState
    <3>4. a \notin commented
      BY <2>2 DEF RefInv, DispatchIsClaimed
    <3>5. \A e \in Deliveries \ {d} : Phase'[e] = Phase[e]
      <4> TAKE e \in Deliveries \ {d}
      <4>1. CASE \E b \in claimed : Of[b] = e
        BY <2>2, <2>4, <4>1 DEF AbstractState
      <4>2. CASE \A b \in claimed : Of[b] # e
        <5>1. \A b \in claimed' : Of[b] # e
          BY <2>4, <4>2
        <5> QED
          BY <4>2, <5>1 DEF AbstractState
      <4> QED
        BY <4>1, <4>2
    <3>6. Comments' = Comments
      BY <2>1 DEF Comments
    <3>7. PhaseOf(a)' \in {"claimed", "over"}
      BY <2>1 DEF PhaseOf
    <3>8. Phase' = [Phase EXCEPT ![d] = Phase'[d]]
      <4>1. /\ Phase = [e \in Deliveries |-> Phase[e]]
            /\ Phase' = [e \in Deliveries |-> Phase'[e]]
        BY DEF Phase
      <4> QED
        BY <3>2, <3>5, <4>1
    <3>9. CASE Phase'[d] = "claimed"
      BY <3>2, <3>6, <3>8, <3>9 DEF Promise!Next, Promise!Claim, Promise!Move
    <3>10. CASE Phase'[d] = "over"
      <4>1. Phase' = [e \in Deliveries |-> IF e \in {d} THEN "over" ELSE Phase[e]]
        BY <3>2, <3>5, <3>10 DEF Phase
      <4>2. Promise!End
        BY <3>2, <3>6, <4>1 DEF Promise!End
      <4> QED
        BY <4>2 DEF Promise!Next
    <3> QED
      BY <3>3, <3>7, <3>9, <3>10
  <2> QED
    BY <1>5, <2>3, <2>4 DEF MarkSeen
<1>6. ASSUME NEW a \in Attempts, Schedule(a)
      PROVE  Promise!Next
  BY <1>0, <1>2, <1>6 DEF Schedule, PhaseOf
<1>7. ASSUME NEW a \in Attempts, AnswerDuplicate(a) \/ FinishReview(a)
      PROVE  Promise!Next
  <2> DEFINE S == {a} \cap claimed
  <2>1. \A b \in claimed : PhaseOf(b)' = IF b \in S THEN "over" ELSE PhaseOf(b)
    BY <1>0, <1>7 DEF AnswerDuplicate, FinishReview, Hold, Release, PhaseOf
  <2>2. UNCHANGED <<claimed, commented>>
    BY <1>7 DEF AnswerDuplicate, FinishReview
  <2> HIDE DEF S
  <2>3. S \in SUBSET claimed
    BY DEF S
  <2> QED
    BY <1>1, <2>1, <2>2, <2>3
\* A task is declined, or its delivery goes from claimed to reviewing.
<1>8. ASSUME NEW a \in Attempts, StartDispatch(a)
      PROVE  Promise!Next
  <2> DEFINE d == Of[a]
  <2>1. /\ stage[a] = "queued" /\ stage'[a] \in {"reviewing", "declined"}
        /\ \A b \in Attempts \ {a} : stage'[b] = stage[b]
        /\ UNCHANGED <<claimed, commented>>
    BY <1>0, <1>8 DEF StartDispatch, Hold, Release
  <2>2. a \in claimed
    BY <2>1 DEF RefInv, DispatchIsClaimed
  <2>3. \A b \in claimed \ {a} : PhaseOf(b)' = PhaseOf(b)
    BY <1>0, <2>1 DEF PhaseOf
  <2>4. CASE stage'[a] = "declined"
    <3>1. \A b \in claimed : PhaseOf(b)' = IF b \in {a} THEN "over" ELSE PhaseOf(b)
      BY <2>3, <2>4 DEF PhaseOf
    <3> QED
      BY <1>1, <2>1, <2>2, <3>1
  <2>5. CASE stage'[a] = "reviewing"
    <3>1. PhaseOf(a) = "claimed" /\ PhaseOf(a)' = "reviewing"
      BY <2>1, <2>5 DEF PhaseOf
    <3>2. d \in Deliveries /\ Phase[d] = "claimed" /\ Phase'[d] = "reviewing"
      BY <1>0, <2>1, <2>2, <3>1 DEF AbstractState
    <3>3. \A e \in Deliveries \ {d} : Phase'[e] = Phase[e]
      BY <2>1, <2>3 DEF AbstractState
    <3>4. Phase' = [Phase EXCEPT ![d] = "reviewing"] /\ Comments' = Comments
      BY <2>1, <3>2, <3>3, SMTT(30) DEF Phase, Comments
    <3> QED
      BY <3>2, <3>4 DEF Promise!Next, Promise!Review, Promise!Move
  <2> QED
    BY <2>1, <2>4, <2>5
<1>9. ASSUME NEW a \in Attempts, PostComment(a)
      PROVE  Promise!Next
  <2> DEFINE d == Of[a]
  <2>1. /\ stage[a] = "reviewing" /\ a \notin commented /\ stage' = stage
        /\ commented' = commented \cup {a} /\ claimed' = claimed
    BY <1>9 DEF PostComment
  <2>2. a \in claimed
    BY <2>1 DEF RefInv, DispatchIsClaimed
  <2>3. /\ d \in Deliveries /\ Phase[d] = "reviewing"
        /\ Comments[d] = 0 /\ Comments'[d] = 1
    BY <1>0, <2>1, <2>2 DEF AbstractState, PhaseOf
  <2>4. \A e \in Deliveries \ {d} : Comments'[e] = Comments[e]
    BY <2>1 DEF AbstractState
  <2>5. Phase' = Phase
    BY <2>1 DEF Phase, PhaseOf, Claimants
  <2>6. Comments' = [Comments EXCEPT ![d] = 1]
    BY <2>3, <2>4 DEF Comments
  <2> QED
    BY <2>3, <2>5, <2>6 DEF Promise!Next, Promise!Comment
<1>10. ASSUME NEW i \in Instances, Crash(i)
       PROVE  Promise!Next
  <2> DEFINE S == {a \in claimed : Lost(a, i)}
  <2>1. \A b \in claimed : PhaseOf(b)' = IF b \in S THEN "over" ELSE PhaseOf(b)
    BY <1>0, <1>10 DEF Crash, Lost, PhaseOf
  <2>2. UNCHANGED <<claimed, commented>>
    BY <1>10 DEF Crash
  <2> HIDE DEF S
  <2>3. S \in SUBSET claimed
    BY DEF S
  <2> QED
    BY <1>1, <2>1, <2>2, <2>3
<1>11. ASSUME (\E i \in Instances : Restart(i)) \/ Tick \/ SetSecret \/ UNCHANGED vars
       PROVE  Promise!Next
  BY <1>2, <1>11 DEF Restart, Tick, SetSecret, PhaseOf
<1> QED
  BY <1>3, <1>4, <1>5, <1>6, <1>7, <1>8, <1>9, <1>10, <1>11 DEF Next, Handle, RunTask

\* With Redis, every behaviour of the service is a behaviour of ReviewPromise:
\* each delivery is claimed, reviewed and commented on at most once, in order.
THEOREM Refinement == RedisConfigured => (Spec => KeepsThePromise)
<1> SUFFICES ASSUME RedisConfigured
             PROVE  Spec => KeepsThePromise
  OBVIOUS
<1>1. Init => Promise!Init
  <2> SUFFICES ASSUME Init PROVE Promise!Init
    OBVIOUS
  <2>1. \A d \in Deliveries : Claimants(d) = {} /\ {a \in commented : Of[a] = d} = {}
    BY DEF Init, Claimants
  <2> QED
    BY <2>1, FS_EmptySet DEF Promise!Init, Phase, Comments
<1>2. RefInv /\ RefInv' /\ [Next]_vars => Promise!Next
  <2>1. RefInv => AbstractState
    BY ReadOff
  <2>2. RefInv' => AbstractState'
    BY ReadOff, PTL
  <2> QED
    BY <2>1, <2>2, StepRefines
<1> QED
  BY <1>1, <1>2, RefInvariance, PTL DEF Spec, KeepsThePromise, Promise!Spec
=============================================================================
