---------------------------- MODULE MCReviewRun ----------------------------
EXTENDS ReviewRun, TLC

CONSTANTS r1, r2

\* r1 may plan two calls and find something, r2 neither: their interplay is in
\* what they share, the pull request and time.
MCCalls   == (r1 :> 2) @@ (r2 :> 0)
MCMayFind == (r1 :> Findings) @@ (r2 :> {})
=============================================================================
