SPECIFICATION ScheduleSpec
CONSTANTS
    CliProcesses = {cli1, cli2}
    Jobs = {"hourly", "minutely"}
    Cron <- Minutes
    Disabled = {}
    EarlierJobs <- ScheduleFiles
    Corrupt = Corrupt
    MaxMinute = 2
    MaxDeaths = 1
INVARIANTS
    NeverFiresTwice
CHECK_DEADLOCK FALSE
