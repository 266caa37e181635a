SPECIFICATION FairSpec
CONSTANTS
    MaxServer = 2
    ServerName <- TwoNames
    Tools <- TwoTools
    MaxServers = 2
    MaxTools = 1
    MaxLines = 1
    OwnIds = {2, 3}
    MaxCalls = 2
INVARIANTS
    AnswersMatch
    
PROPERTIES
    RequestEnds
CHECK_DEADLOCK FALSE
