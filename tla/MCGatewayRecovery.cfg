SPECIFICATION RecoverySpec
CONSTANTS
    MaxRunAttempts = 8
    MaxDeliveryAttempts = 8
    MaxTransitions = 32
    Ids = {i1}
    Presses = {p1, p2}
    Rounds = {d1, d2}
    Servers = {g1, g2}
    Loops = {l1}
    Nobody = Nobody
    NoId = NoId
    MaxCrashes = 1
    Workers = {w1, w2}
    Pids = {1, 2, 3}
    PartCount = 1
    NoClaim = NoClaim
    NoEntry = NoEntry
    ReusesPids = FALSE
    Channels = {"webhook", "stream"}
    MaxReceipts = 1
INVARIANTS
    EarlierOutcomesHaveSlot
    AppliedOnce
PROPERTIES
    OutputNeverRegenerated
    OwnerSettles
    DecisionStands
    RecoverySettles
    InterruptedIsDecided
CHECK_DEADLOCK FALSE
