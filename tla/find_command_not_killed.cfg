CONSTANTS
    Workers = {w1, w2}
    Actions = {a1}
    NoAction = NoAction
    Deployment = "desktop"
    ToolingMayFail = FALSE
    MaxTurns = 2
    MaxRounds = 2
    MaxCalls = 1
    MaxPolls = 1
    MaxRollbacks = 0
    MaxCrashes = 0
SPECIFICATION Spec
CHECK_DEADLOCK FALSE
PROPERTY CommandIsKilled
