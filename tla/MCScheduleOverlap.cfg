\* One suspension of the machine
SPECIFICATION Spec
CONSTANTS
    Schedules = {daily, once}
    Repeating = {daily}
    MaxAttempts = 3
    Limit = 1
    MaxOccurrences = 2
    MaxCrashes = 0
    MaxStalls = 1
INVARIANT NoOverlap
CHECK_DEADLOCK FALSE
