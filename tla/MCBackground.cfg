\* Schedules: one repeating and one not, with a restart and a stall.  Link: three producers,
\* frames of 1, 2 and 3 bytes in a budget of 2, two lost sockets, an inbox of one command
SPECIFICATION BackgroundSpec
CONSTANTS
    Schedules = {daily, once}
    Repeating = {daily}
    MaxAttempts = 2
    Limit = 2
    MaxOccurrences = 2
    MaxCrashes = 1
    MaxStalls = 1
    a = a
    b = b
    c = c
    hello = hello
    Producers = {a, b, c}
    SizeOf <- FrameSizes
    MaxBytes = 2
    MaxItems = 2
    InboxCap = 1
    HelloTask = hello
    MaxFrames = 4
    MaxLosses = 2
    MaxCommands = 2
INVARIANTS WorkSafe LinkTypeOK
PROPERTIES SuccessIsFinal DeletedNeverStarts SchedulesSettle LinkIsLossyFifo EverySendReturns
CHECK_DEADLOCK FALSE
