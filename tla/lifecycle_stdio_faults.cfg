CONSTANTS
    Workers = {w1, w2}
    Actions = {a1}
    NoAction = NoAction
    Deployment = "stdio"
    ToolingMayFail = TRUE
    MaxTurns = 2
    MaxRounds = 2
    MaxCalls = 1
    MaxPolls = 1
    MaxRollbacks = 0
    MaxCrashes = 1
SPECIFICATION FairSpec
CHECK_DEADLOCK FALSE
PROPERTIES  CancelStopsWorkers
