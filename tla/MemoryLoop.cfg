\* Three reviews and two labelling sessions; two memories to a list.
CONSTANTS
    r1 = r1  r2 = r2  r3 = r3
    s1 = s1  s2 = s2
    Reviews = {r1, r2, r3}
    Sessions = {s1, s2}
    Repo <- MCRepo
    Batch <- MCBatch
    Scope <- MCScope
    K = 1
    Limit = 2
SPECIFICATION Spec
INVARIANTS TypeOK BatchIsAtomic OutcomesAreVerdicts OnlyLateVerdictsAreOffered
CHECK_DEADLOCK FALSE
