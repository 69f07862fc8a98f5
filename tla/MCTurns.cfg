\* One part per behaviour.  Codex: three inputs among two queries, one automatic turn, one
\* stop, exit or timeout.  Claude beside other CLIs: two processes at most, up to two rows, two
\* commands, one fault.  Hand-over: up to two terminals, one restart of the broker, one typed
\* prompt, two queries, one fault.  Codex beside others: two processes and a command, or one
\* process and two commands, or one of each with a foreign turn, an automatic turn of ours or
\* a fault.  The broker: a terminal with two typed chunks, two controls, one prompt; two
\* terminals of two transcripts and two overlapping launches.  Questions: two requests and any
\* two of a second answer, a restart, and a deadline or an answer of another client
SPECIFICATION PartsSpec
CONSTANTS
    q1 = q1
    q2 = q2
    a1 = a1
    Queries = {q1, q2}
    Autos = {a1}
    None = None
    MaxStops = 1
    MaxFaults = 1
    MaxInputs = 3
    Timeouts = TRUE
    c1 = c1
    c2 = c2
    Clis = {c1, c2}
    WatchBudgets <- WatchCases
    HandoverBudgets <- HandoverCases
    w1 = w1
    w2 = w2
    Writers = {w1, w2}
    CodexBudgets <- CodexCases
    TuiBudgets <- TuiCases
    t1 = t1
    t2 = t2
    s1 = s1
    s2 = s2
    l1 = l1
    l2 = l2
    Terminals = {t1, t2}
    Transcripts = {s1, s2}
    Launchers = {l1, l2}
    MaxSessions = 2
    HistoryChunks = 2
    QueueEvents = 2
    StoreLimit = 2
    BrokerBudgets <- BrokerCases
    RequestIds = {1, 2}
    MaxAskTasks = 1
    FormLength = 2
    AskBudgets <- AskCases
INVARIANTS TurnsSafe WatchSafe HandoverSafe CodexWatchSafe TuiSafe SessionsSafe QuestionsSafe
PROPERTIES LaunchSteps ConfirmedIsTrue
CHECK_DEADLOCK FALSE
