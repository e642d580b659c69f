SPECIFICATION EnginesSpec
CONSTANTS
    Starters = {s1}
    Resumers = {u1, u2, u3}
    Replayers = {}
    Flow <- LongFlow
    Items = 2
    Retry = 1
    Budget = 3
    Estimate = 1
    TokenCosts = {1, 3, 4}
    Serialized = TRUE
    MaxFlowCrashes = 2
    MaxFlowTorn = 1
    CliProcesses = {cli1, cli2}
    Jobs = {"hourly", "minutely"}
    Cron <- Minutes
    Disabled = {}
    EarlierJobs <- ScheduleFiles
    Corrupt = Corrupt
    MaxMinute = 2
    MaxDeaths = 1
    Children = {ch1, ch2}
    Claimers = {}
    MaxConcurrent = 1
    MaxFailures = 1
INVARIANTS
    ContextIsRecorded
    StepsRunOnce
    FiresForward
PROPERTIES
    RunSettles
    DueIsCaught
    SlotsReturn
CHECK_DEADLOCK FALSE
