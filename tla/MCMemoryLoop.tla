---------------------------- MODULE MCMemoryLoop ----------------------------
EXTENDS MemoryLoop, TLC

CONSTANTS r1, r2, r3, s1, s2

\* r1 and r2 review one repository with two findings and one, r3 another one
\* without findings.
MCRepo  == (r1 :> "demo") @@ (r2 :> "demo") @@ (r3 :> "other")
MCBatch == (r1 :> 2) @@ (r2 :> 1) @@ (r3 :> 0)

\* s1 lists one repository, s2 every one.
MCScope == (s1 :> {"demo"}) @@ (s2 :> {"demo", "other"})
=============================================================================
