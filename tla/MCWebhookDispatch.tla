------------------------- MODULE MCWebhookDispatch -------------------------
EXTENDS WebhookDispatch, TLC

CONSTANTS a1, a2, a3, b1, c1, i1, i2, d1, d2, d3

Pull(repo, action) ==
    [json |-> TRUE, event |-> "pull_request", repo |-> repo, action |-> action]

\* Safety: d1 is sent three times; the only attempt of d2 is signed with a
\* secret that the service does not have.
RetriesOf       == (a1 :> d1) @@ (a2 :> d1) @@ (a3 :> d1) @@ (b1 :> d2)
RetriesVerified == {a1, a2, a3}
RetriesPayload  == (d1 :> Pull("demo", "opened")) @@ (d2 :> Pull("demo", "synchronize"))

\* The instances are interchangeable, and so are the attempts of d1.
RetriesSymmetry == Permutations({i1, i2}) \cup Permutations({a1, a2, a3})

\* Liveness: d1 twice, a push to the same pull request as d2, a ping as d3, all
\* on one instance whose pool has one thread.
LiveOf       == (a1 :> d1) @@ (a2 :> d1) @@ (b1 :> d2) @@ (c1 :> d3)
LivePayload  == (d1 :> Pull("demo", "opened")) @@ (d2 :> Pull("demo", "synchronize"))
             @@ (d3 :> [Pull("demo", "none") EXCEPT !.event = "ping"])
LiveVerified == {a1, a2, b1, c1}

\* The same without Redis: every attempt is accepted and queued.
NullOf      == (a1 :> d1) @@ (a2 :> d1) @@ (a3 :> d1) @@ (b1 :> d2)
NullPayload == (d1 :> Pull("demo", "opened")) @@ (d2 :> Pull("elsewhere", "opened"))
=============================================================================
