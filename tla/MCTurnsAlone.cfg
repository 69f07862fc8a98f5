\* Two queries, and an automatic turn that makes the first one end slowly
SPECIFICATION TurnSpec
CONSTANTS
    Queries = {q1, q2}
    Autos = {a1}
    None = None
    MaxStops = 0
    MaxFaults = 0
    MaxInputs = 3
    Timeouts = FALSE
INVARIANT TurnsAreAlone
CHECK_DEADLOCK FALSE
