SPECIFICATION Spec
SYMMETRY Symmetry
CONSTANTS
    Workers = {w1, w2}
    Pids = {1, 2}
    PartCount = 1
    NoClaim = NoClaim
    NoEntry = NoEntry
    ReusesPids = TRUE
    Channels = {"webhook"}
    MaxReceipts = 2
    Faults <- OneCrash
    MaxRunAttempts = 2
    MaxDeliveryAttempts = 2
    MaxTransitions = 8
INVARIANTS
    AckedIsKept
CHECK_DEADLOCK FALSE
