\* One store per behaviour: a ring of 3 events and 5 bytes; two rollback commands, two
\* wrapper processes, room for one entry; two files, three turns, two foreign writes, two
\* records kept; two forks of one turn; for the history two turns, a rollback and either three
\* builds or one build and a fault, one turn of each with three builds and a fault, two turns
\* with three builds and a fault, and one turn with three builds and three faults; a pool of
\* two sessions and one secret fork, four contexts, up to three commands with a listing, a
\* scheduled run, a fault or a crash; two messages, a tool and another item in a turn of five
\* notifications with room for three
SPECIFICATION StoresSpec
CONSTANTS
    MaxEvents = 3
    MaxBytes = 5
    Sizes = {1, 2, 4, 6}
    MaxSeq = 7
    c1 = c1
    c2 = c2
    pa = pa
    pb = pb
    Commands = {c1, c2}
    Procs = {pa, pb}
    Capacity = 1
    RollbackFaults = 1
    f = f
    g = g
    Paths = {f, g}
    Retained = 2
    MaxTurns = 3
    MaxWrites = 2
    CheckpointFaults = 1
    r1 = r1
    r2 = r2
    ForkRequests = {r1, r2}
    ForkFaults = 1
    HistoryEngines = {"claude"}
    HistoryBudgets <- HistoryCases
    MaxResident = 2
    MaxTombs = 1
    MaxContexts = 4
    PoolBudgets <- PoolCases
    m1 = m1
    m2 = m2
    x1 = x1
    z1 = z1
    Messages = {m1, m2}
    Tools = {x1}
    Processes = {z1}
    NoMessage = NoMessage
    MaxLiveItems = 3
    MaxFinishedItems = 3
    MaxStreams = 2
    MaxAppends = 3
    ResultMax = 5
    EventMax = 4
    NoticeSize = 2
    TextSizes = {0, 2, 5}
    MaxFed = 5
INVARIANTS RingSafe TurnReplayHonest RollbackSafe CheckpointSafe ForksSafe HistorySafe PoolSafe StreamSafe
PROPERTIES ResultIsFinal RestoreSteps ErrorHidesNoFork PaintedTurnsStay
CHECK_DEADLOCK FALSE
