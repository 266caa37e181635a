SPECIFICATION Spec
CONSTANTS
    Costs = {1, 3}
    Fixed = 1
    Budget = 7
    Window = 9
    Hysteresis = 20
    Reserve = 1
    SummaryCost = 1
    Instructions = 1
    MaxExcerpt = 2
    Preview = 2
    MaxResult = 2
    KeepRecent = 2
    MinKept = 2
    MaxRetries = 1
    MaxRounds = 2
    MaxCalls = 2
    MaxMessages = 6
INVARIANTS
    RequestsWellFormed
    ShownOnce
    CurrentMessageSent
PROPERTIES
    NothingLeftOut
    SummaryAdvances
    RetriesShrink
CHECK_DEADLOCK FALSE
