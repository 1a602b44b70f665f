--------------------------- MODULE MCEvalHarness ---------------------------
EXTENDS EvalHarness, TLC

CONSTANTS c1, c2, c3, plan, critique, critique2

MCOrder == <<c1, c2, c3>>

\* c1 and c2 are the same diff under two ids; c3 is planned alike, and criticised
\* with other results of the tools.
MCPrompt == (c1 :> <<plan, critique>>) @@ (c2 :> <<plan, critique>>)
            @@ (c3 :> <<plan, critique2>>)

Bug(words)  == [category |-> "bug", severity |-> "high", must |-> words]
Says(words) == [category |-> "bug", severity |-> "high", says |-> words]
Mild(words) == [category |-> "bug", severity |-> "low", says |-> words]
Style       == [category |-> "style", severity |-> "low", says |-> {}]

\* c1 expects something general first and something particular second: a finding
\* that says it all takes the first, and the general finding then has none.
MCExpected == (c1 :> <<Bug({}), Bug({"w"})>>) @@ (c2 :> <<>>) @@ (c3 :> <<Bug({"w"})>>)

MCMayReport ==
    (c1 :> {<<Says({"w"}), Mild({})>>, <<Mild({}), Says({"w"})>>, <<Says({"w"})>>})
    @@ (c2 :> {<<Style>>})
    @@ (c3 :> {<<Mild({"w"}), Says({"w"})>>, <<Says({}), Style>>})

MCMayTake == (c1 :> {3}) @@ (c2 :> {2}) @@ (c3 :> {1})
=============================================================================
