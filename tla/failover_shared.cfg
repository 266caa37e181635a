SPECIFICATION Spec
CONSTANTS
    p1 = p1
    p2 = p2
    p3 = p3
    k1 = k1
    k2 = k2
    k3 = k3
    k4 = k4
    t1 = t1
    t2 = t2
    Turns = {t1, t2}
    Providers <- MCProviders
    Keys = {k1, k3, k4}
    ProviderOf <- MCProviderOf
    Rank <- MCRank
    Trust <- MCTrust
    Active = p1
    Fallback = TRUE
    Routes = {p1, p2, p3}
    Kinds = {"server", "denied", "leaked"}
    MaxRetries = 1
    MaxRounds = 1
    FailureThreshold = 3
    RecoveryThreshold = 1
    MinRequests = 2
    RatePercent = 50
    MaxStarts = 2
INVARIANTS
    NoDuplicateText
PROPERTIES
    RefusedStaysOut
SYMMETRY Symmetry
CHECK_DEADLOCK FALSE
