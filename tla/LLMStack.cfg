\* Two runs of one diff, which share both requests.  The SDK has its default of
\* two more attempts, and a call costs at most twice what is left of the cap after
\* the cheapest paid call.
CONSTANTS
    r1 = r1  r2 = r2
    plan = plan  critique = critique  critique2 = critique2
    Runs = {r1, r2}
    Requests = {plan, critique}
    Prompt <- SameDiff
    Calls = 2
    Cap = 2
    MaxCost = 2
    Retries = 2
    Nothing = Nothing
SPECIFICATION Spec
INVARIANTS TypeOK SoftCap SpendIsRecorded
PROPERTY PoisonIsPermanent
SYMMETRY RunSymmetry
CHECK_DEADLOCK FALSE
