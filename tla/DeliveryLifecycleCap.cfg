SPECIFICATION ServedSpec
CONSTANTS
    MaxRunAttempts = 8
    MaxDeliveryAttempts = 8
    MaxTransitions = 32
INVARIANT OutcomeHasSlot
CHECK_DEADLOCK FALSE
