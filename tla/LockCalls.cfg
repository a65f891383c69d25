SPECIFICATION FairSpec
CONSTANTS
    Threads = {t1, t2, t3}
    MaxDepth = 2
INVARIANTS
    ReadersCounted
    NoWaitInVain
PROPERTIES
    ImplementsDrainLock
    AcquireReturns
