SPECIFICATION FlowSpec
SYMMETRY Symmetry
CONSTANTS
    Starters = {s1}
    Resumers = {u1, u2}
    Replayers = {}
    Flow <- ShortFlow
    Items = 2
    Retry = 1
    Budget = 3
    Estimate = 1
    TokenCosts = {1, 3}
    Serialized = FALSE
    MaxFlowCrashes = 1
    MaxFlowTorn = 0
INVARIANTS
    RejectedSkipsRest
CHECK_DEADLOCK FALSE
