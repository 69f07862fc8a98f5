SPECIFICATION Spec
CONSTANTS
    MaxEvents = 2
    MaxBytes = 9
    MaxSeq = 2
    MaxPreload = 0
    Faults <- OneEviction
INVARIANT CursorWithinTail
CHECK_DEADLOCK FALSE
