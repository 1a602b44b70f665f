\* Two reviews of one pull request.
CONSTANTS
    r1 = r1  r2 = r2
    Runs = {r1, r2}
    Tools = {"ruff", "semgrep"}
    MaxCalls <- MCCalls
    Findings = {"f"}
    MayFind <- MCMayFind
    Life = 2
    Buffer = 1
    Wire = 1
SPECIFICATION FairSpec
INVARIANTS TypeOK CommentsAreRemembered TokenOutlivesRequest NodesFindTheirInput
    EvidenceIsComplete SuccessIsOnThePull
PROPERTIES EveryReviewEnds ReviewsAsPromised
CHECK_DEADLOCK FALSE
