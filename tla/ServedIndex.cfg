SPECIFICATION Spec
CONSTANTS
    server = server
    Indexers = {t1, t2, o1}
    Mortal = {o1}
    PidOf <- Placed
    Unwritten = unwritten
    Nobody = nobody
    MaxEdits = 2
    Timers = {t1, t2}
    NoTimer = notimer
    Callers = {c1}
    NoEntry = noentry
    MaxRuns = 1
CONSTRAINT Scope
INVARIANTS
    ClaimsExclude
    HeldHasHolder
    EditsUnderWay
    StaleEntryHasCause
PROPERTIES
    IndexNeverOlder
    EditsReachIndex
    CacheCatchesUp
