SPECIFICATION Spec
CONSTANTS
    server = server
    Indexers = {t1, o1}
    Mortal = {}
    PidOf <- Placed
    Unwritten = unwritten
    Nobody = nobody
    MaxEdits = 1
    Timers = {t1}
    NoTimer = notimer
    Callers = {c1}
    NoEntry = noentry
    MaxRuns = 1
INVARIANT ReindexInvalidates
