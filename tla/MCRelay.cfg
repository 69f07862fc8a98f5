SPECIFICATION MCSpec
CONSTANTS
    \* the hub: two pages, two wrappers of one machine, one fault
    p1 = p1
    p2 = p2
    Pages = {p1, p2}
    w1 = w1
    w2 = w2
    Wrappers = {w1, w2}
    a = a
    b = b
    Clients = {a, b}
    MaxClients = 2
    QueueCap = 1
    MaxLive = 1
    MaxUplink = 1
    MaxFaults = 1
    NoSock = NoSock
    \* access: three sessions of two users, one token of each kind;
    \* two requests and a restart, a request, a turn that ends and a restart, or two
    \* requests and a turn that ends
    s1 = s1
    s2 = s2
    s3 = s3
    Sessions = {s1, s2, s3}
    u1 = u1
    u2 = u2
    Subjects = {u1, u2}
    g1 = g1
    Grants = {g1}
    c1 = c1
    Codes = {c1}
    d1 = d1
    d2 = d2
    Devices = {d1, d2}
    e1 = e1
    Endpoints = {e1}
    Nobody = Nobody
    SessionCap = 2
    LoginSlots = 1
    GrantCap = 1
    DeviceCap = 1
    AccessBudgets <- AccessCases
    \* the limiter
    i1 = i1
    i2 = i2
    i3 = i3
    Ips = {i1, i2, i3}
    Window = 2
    MaxPerIp = 2
    MaxIps = 2
    MaxTotal = 3
    CleanupInterval = 3
    Horizon = 4
INVARIANTS HubSafe AccessSafe LimiterSafe
PROPERTIES HubSteps SubscriptionKept
SYMMETRY Symmetry
CHECK_DEADLOCK FALSE
