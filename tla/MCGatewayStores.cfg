SPECIFICATION StoresSpec
SYMMETRY Interchangeable
CONSTANTS
    NoRecord = NoRecord
    NoResult = NoResult
    NoLease = NoLease
    Clients = {c1, c2}
    Keys = {k1}
    Fingerprints = {f1, f2}
    Results = {r1, r2}
    Ttls = {1, 2}
    MaxNow = 3
    MaxLag = 1
    MaxTokens = 3
    Workers = {w1, w2}
    Pids = {1, 2}
    PartCount = 1
    NoClaim = NoClaim
    NoEntry = NoEntry
    ReusesPids = TRUE
    Channels = {"webhook", "stream"}
    MaxReceipts = 2
    Faults <- CrashesOrStall
    MaxRunAttempts = 2
    MaxDeliveryAttempts = 2
    MaxTransitions = 8
INVARIANTS
    PromisesKept
    NoPartSentTwice
    RecordsAreTrue
PROPERTIES
    EvidenceKept
    StaleOwnerFenced
CHECK_DEADLOCK FALSE
