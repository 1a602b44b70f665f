\* Three cases of two calls each, with one more attempt; the total cap can be met
\* exactly, crossed by the last call of a case, and never reached.
CONSTANTS
    c1 = c1  c2 = c2  c3 = c3
    plan = plan  critique = critique  critique2 = critique2
    Runs = {c1, c2, c3}
    Requests = {plan, critique, critique2}
    Prompt <- MCPrompt
    Calls = 2
    Cap = 1
    MaxCost = 2
    Retries = 1
    Nothing = Nothing
    Order <- MCOrder
    TotalCap = 2
    Words = {"w"}
    Categories = {"bug", "style"}
    Severities = {"high", "low"}
    Expected <- MCExpected
    MayReport <- MCMayReport
    MayTake <- MCMayTake
SPECIFICATION HarnessFairSpec
INVARIANTS HarnessTypeOK TotalSoftCap ResultsHideLittle ReportAddsUp
    GreedyIsHalfRight PercentilesCover
PROPERTY HarnessEnds
CHECK_DEADLOCK FALSE
