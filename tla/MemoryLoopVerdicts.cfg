\* The same reviews and sessions: does a verdict stand once it is given?
CONSTANTS
    r1 = r1  r2 = r2  r3 = r3
    s1 = s1  s2 = s2
    Reviews = {r1, r2, r3}
    Sessions = {s1, s2}
    Repo <- MCRepo
    Batch <- MCBatch
    Scope <- MCScope
    K = 1
    Limit = 2
SPECIFICATION Spec
PROPERTY VerdictsStand
CHECK_DEADLOCK FALSE
