SPECIFICATION Spec
SYMMETRY Symmetry
CONSTANTS
    Workers = {w1, w2}
    Pids = {1, 2}
    PartCount = 2
    NoClaim = NoClaim
    NoEntry = NoEntry
    ReusesPids = TRUE
    Channels = {"webhook"}
    MaxReceipts = 2
    Faults <- NoFault
    MaxRunAttempts = 2
    MaxDeliveryAttempts = 2
    MaxTransitions = 8
INVARIANTS
    NoPartSentTwice
CHECK_DEADLOCK FALSE
