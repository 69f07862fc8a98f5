SPECIFICATION Spec
CONSTANTS
    MaxEvents = 3
    MaxBytes = 9
    MaxSeq = 3
    MaxPreload = 0
    Faults <- OneDrop
INVARIANT NoSilentLoss
CHECK_DEADLOCK FALSE
