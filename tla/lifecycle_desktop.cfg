CONSTANTS
    Workers = {w1, w2}
    Actions = {a1, a2}
    NoAction = NoAction
    Deployment = "desktop"
    ToolingMayFail = FALSE
    MaxTurns = 2
    MaxRounds = 1
    MaxCalls = 1
    MaxPolls = 1
    MaxRollbacks = 0
    MaxCrashes = 1
SPECIFICATION Spec
SYMMETRY Symmetry
CHECK_DEADLOCK FALSE
INVARIANTS ApprovedOnce RunningIsOwned
VIEW LastMessageView
