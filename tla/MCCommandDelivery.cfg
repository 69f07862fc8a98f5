SPECIFICATION FairSpec
CONSTANTS
    m = m
    n = n
    t = t
    r = r
    Cmds = {m, t, r}
    Reads = {r}
    OffLane = {t, r}
    OutboxCap = 1
    SeenCap = 2
    MaxConns = 2
    MaxLinkDrops = 1
    MaxCrashes = 1
    MaxFails = 1
    MaxMishaps = 2
INVARIANTS DeliverySafe
PROPERTIES KeepsPromise DeliveryEnds
CHECK_DEADLOCK FALSE
