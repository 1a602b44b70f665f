--------------------------- MODULE ReviewPromise ---------------------------
(***************************************************************************)
(* What TotalPR promises of the pull-request deliveries it accepts, without *)
(* a word on HTTP, Redis, processes or threads: a delivery is claimed once, *)
(* reviewed at most once after that, commented on at most once while the    *)
(* review runs, and once it is over - for whatever reason - it stays over.  *)
(***************************************************************************)
EXTENDS Naturals

CONSTANT Deliveries

VARIABLES
    phase,     \* phase[d]: idle, claimed, reviewing, over
    comments   \* comments[d]: the comments posted for d

vars == <<phase, comments>>

Init ==
    /\ phase = [d \in Deliveries |-> "idle"]
    /\ comments = [d \in Deliveries |-> 0]

Move(d, from, to) ==
    /\ phase[d] = from
    /\ phase' = [phase EXCEPT ![d] = to]
    /\ UNCHANGED comments

Claim(d)  == Move(d, "idle", "claimed")
Review(d) == Move(d, "claimed", "reviewing")

Comment(d) ==
    /\ phase[d] = "reviewing" /\ comments[d] = 0
    /\ comments' = [comments EXCEPT ![d] = 1]
    /\ UNCHANGED phase

\* One delivery ends on its own; a stopped process ends several at once, and a
\* claim whose acknowledgement is lost is over as soon as it is made.
End ==
    \E D \in SUBSET Deliveries :
        /\ phase' = [d \in Deliveries |-> IF d \in D THEN "over" ELSE phase[d]]
        /\ UNCHANGED comments

Next ==
    \/ \E d \in Deliveries : Claim(d) \/ Review(d) \/ Comment(d)
    \/ End

Spec == Init /\ [][Next]_vars
=============================================================================
