\* The same reviews: does a poster ever raise?
CONSTANTS
    r1 = r1  r2 = r2
    Runs = {r1, r2}
    Tools = {"ruff", "semgrep"}
    MaxCalls <- MCCalls
    Findings = {"f"}
    MayFind <- MCMayFind
    Life = 2
    Buffer = 1
    Wire = 1
SPECIFICATION Spec
PROPERTY PosterNeverRaises
CHECK_DEADLOCK FALSE
