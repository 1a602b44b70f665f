----------------------------- MODULE MCLLMStack -----------------------------
EXTENDS LLMStack, TLC

CONSTANTS r1, r2, plan, critique, critique2

\* Both runs review the same diff with the same labelled memories.
SameDiff == (r1 :> <<plan, critique>>) @@ (r2 :> <<plan, critique>>)

\* A label set in between gives the second the same plan request and another
\* critique request.
Relabelled == (r1 :> <<plan, critique>>) @@ (r2 :> <<plan, critique2>>)

RunSymmetry == Permutations({r1, r2})
=============================================================================
