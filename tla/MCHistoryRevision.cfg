\* One rollback of the last of three turns, no faults: a read between the bump and the mutation
SPECIFICATION HistSpec
CONSTANTS
    HistoryEngines = {"codex"}
    HistoryBudgets <- OneRollback
INVARIANT NewRevisionIsNewContent
CHECK_DEADLOCK FALSE
