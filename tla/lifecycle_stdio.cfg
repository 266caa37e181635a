CONSTANTS
    Workers = {w1, w2}
    Actions = {a1, a2}
    NoAction = NoAction
    Deployment = "stdio"
    ToolingMayFail = FALSE
    MaxTurns = 2
    MaxRounds = 2
    MaxCalls = 2
    MaxPolls = 0
    MaxRollbacks = 1
    MaxCrashes = 0
SPECIFICATION Spec
SYMMETRY Symmetry
CHECK_DEADLOCK FALSE
INVARIANTS PendingMatchesStatus TranscriptInOrder DoneIsAnswered
PROPERTIES KeepsContract CancelStopsTools
