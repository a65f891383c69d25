SPECIFICATION Spec
CONSTANTS
    Writers = {w1, w2}
    Other = other
    None = none
    Torn = torn
    Platforms = {"posix", "nt"}
    MaxAttempts = 2
    MaxSwaps = 2
    MaxRemovals = 2
CHECK_DEADLOCK FALSE
SYMMETRY WriterSymmetry
CONSTRAINT Scope
INVARIANTS
    NoTornDestination
    CreateOnlyOnce
    HonestResult
    CleanupSparesOthers
PROPERTIES
    OverwriteOnlyKnown
    ImplementsAtomicFile
