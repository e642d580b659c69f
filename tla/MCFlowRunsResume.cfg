SPECIFICATION FlowFairSpec
CONSTANTS
    Starters = {s1}
    Resumers = {u1, u2}
    Replayers = {}
    Flow <- ShortFlow
    Items = 2
    Retry = 1
    Budget = 3
    Estimate = 1
    TokenCosts = {1, 3}
    Serialized = TRUE
    MaxFlowCrashes = 1
    MaxFlowTorn = 0
PROPERTIES
    ApprovedRunContinues
CHECK_DEADLOCK FALSE
