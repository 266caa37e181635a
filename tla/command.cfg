SPECIFICATION FairSpec
CONSTANTS
    Child = child
    Descendants = {d1, d2}
    Nobody = Nobody
    MaxOutput = 3
    OutputCap = 2
INVARIANTS
    ChildAccountedFor
    OutputComplete
PROPERTIES
    CallReturns
CHECK_DEADLOCK FALSE
