\* The families of inputs of MCReviewData, one after the other.  A review
\* stops when its comment is made or something of its data raised.
CONSTANTS
    NoLine = NoLine
    LineOfNone = 5
    MaxBody = 3
    MaxFindings = 3
    Inputs <- MCInputs
SPECIFICATION DataSpec
INVARIANTS DataTypeOK WorkspaceIsThePostImage RepairIsFinal AnswersAreTrue
    
PROPERTY ToolsFinish
CHECK_DEADLOCK FALSE
