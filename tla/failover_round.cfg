SPECIFICATION FairSpec
CONSTANTS
    p1 = p1
    p2 = p2
    p3 = p3
    k1 = k1
    k2 = k2
    k3 = k3
    k4 = k4
    t1 = t1
    t2 = t2
    Turns = {t1}
    Providers <- MCProviders
    Keys = {k1, k2, k4}
    ProviderOf <- MCProviderOf
    Rank <- MCRank
    Trust <- MCTrust
    Active = p1
    Fallback = TRUE
    Routes = {}
    Kinds = {"stalled", "refused", "overflow", "model", "echo", "vision"}
    MaxRetries = 1
    MaxRounds = 2
    FailureThreshold = 1
    RecoveryThreshold = 1
    MinRequests = 3
    RatePercent = 50
    MaxStarts = 2
INVARIANTS
    TrustBoundary
    OneAnswer
    AttemptsBounded
    GuardsWork
    ModelRefusalHolds
PROPERTIES
    TurnEnds
CHECK_DEADLOCK FALSE
