SPECIFICATION FairSpec
CONSTANTS
    MaxEvents = 1
    MaxBytes = 9
    MaxSeq = 2
    MaxPreload = 1
    Faults <- TwoFaults
INVARIANTS ReplaySafe QuietMeansCaughtUp
PROPERTIES CatchesUp
CHECK_DEADLOCK FALSE
