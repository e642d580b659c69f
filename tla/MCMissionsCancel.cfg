SPECIFICATION MissionSpec
CONSTANTS
    Gateways = {g1}
    NoKey = NoKey
    Keys = {"effect"}
    Graph <- OneEffect
    MaxStops = 0
    MaxControls = 1
PROPERTIES
    CancellationTakesEffect
CHECK_DEADLOCK FALSE
