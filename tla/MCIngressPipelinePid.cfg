SPECIFICATION FairSpec
CONSTANTS
    Workers = {w1}
    Pids = {1}
    PartCount = 1
    NoClaim = NoClaim
    NoEntry = NoEntry
    ReusesPids = TRUE
    Channels = {"webhook", "stream"}
    MaxReceipts = 1
    Faults <- OneCrash
    MaxRunAttempts = 2
    MaxDeliveryAttempts = 2
    MaxTransitions = 8
PROPERTIES
    InterruptedIsDecided
CHECK_DEADLOCK FALSE
