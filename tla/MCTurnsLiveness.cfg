\* One query between two automatic turns; a stop, an exit or a timeout
SPECIFICATION TurnFairSpec
CONSTANTS
    Queries = {q1}
    Autos = {a1, a2}
    None = None
    MaxStops = 1
    MaxFaults = 1
    MaxInputs = 4
    Timeouts = TRUE
PROPERTIES TurnsEnd
CHECK_DEADLOCK FALSE
