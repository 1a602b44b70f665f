\* Two runs that share their plan request and not their critique request.
CONSTANTS
    r1 = r1  r2 = r2
    plan = plan  critique = critique  critique2 = critique2
    Runs = {r1, r2}
    Requests = {plan, critique, critique2}
    Prompt <- Relabelled
    Calls = 2
    Cap = 2
    MaxCost = 2
    Retries = 1
    Nothing = Nothing
SPECIFICATION FairSpec
PROPERTIES EveryRunEnds PoisonIsFatal
CHECK_DEADLOCK FALSE
