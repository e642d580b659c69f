SPECIFICATION LogsSpec
SYMMETRY Interchangeable
CONSTANTS
    Workers = {p1, p2}
    Fingerprint = fp
    ResultRef = ref
    NoTarget = NoTarget
    NoRecord = NoRecord
    NoResult = NoResult
    LeaseMs = 2
    ReplayRetention = 9
    MaxNow = 2
    MaxRunAttempts = 1
    MaxDeliveryAttempts = 1
    MaxTransitions = 3
    Gateways = {p1, p2}
    NoKey = NoKey
    Keys = {"effect"}
    Graph <- FanOut
    MaxStops = 1
    MaxControls = 3
    Starters = {s1}
    Resumers = {p1, p2}
    Replayers = {y1}
    Flow <- ReplayedFlow
    Items = 1
    Retry = 0
    Budget = 3
    Estimate = 1
    TokenCosts = {1}
    Serialized = FALSE
    MaxFlowCrashes = 0
    MaxFlowTorn = 0
    CliProcesses = {p1, p2}
    Jobs = {"beat", "task"}
    Cron <- Minutes
    Disabled = {}
    EarlierJobs <- NoSchedules
    Corrupt = Corrupt
    MaxMinute = 3
    MaxDeaths = 1
    PulseIds = {"beat", "task"}
    TaskPulses = {"task"}
    MaxTokens = 3
    Costs = {2}
    DayLength = 2
    EarlierPulses <- PulseFiles
    Children = {p1, p2}
    Claimers = {p1, p2}
    MaxConcurrent = 1
    MaxFailures = 1
INVARIANTS
    PulseRunsOnce
CHECK_DEADLOCK FALSE
