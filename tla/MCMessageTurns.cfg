SPECIFICATION FairSpec
CONSTANTS
    Gateways = {g1, g2}
    Hosts = {g1}
    Turns = {t1, t2, t3}
    NoTurn = NoTurn
    Requests = {q1, q2}
    Keys = {k1}
    NoKey = NoKey
    NoCall = NoCall
    NoRow = NoRow
    Limits = {1, 2}
    MaxDeltas = 1
    Budgets <- FaultBudgets
    Asked <- AskedCalls
INVARIANTS
    TurnsExclude
    CompletedPreviewIsWhole
    KeyRunsAlone
    ArtifactsKept
PROPERTIES
    KeptUnderLease
    TurnSettles
    OutcomesStand
    MessageSettles
CHECK_DEADLOCK FALSE
