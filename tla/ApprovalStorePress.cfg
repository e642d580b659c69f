SPECIFICATION ApprovalFairSpec
CONSTANTS
    Ids = {i1}
    Presses = {p1, p2}
    Rounds = {r1, r2, r3}
    Servers = {g1}
    Loops = {}
    Nobody = Nobody
    NoId = NoId
    MaxCrashes = 1
PROPERTIES
    PressIsSettled
CHECK_DEADLOCK FALSE
