SPECIFICATION Spec
CONSTANTS
    Clis = {p1}
    Calls = {c1, c2}
    Runs = {r1}
    NoRun = noRun
    NoKey = noKey
    MaxEvents = 3
    MaxEdits = 2
CHECK_DEADLOCK FALSE
SYMMETRY LedgerSymmetry
CONSTRAINT Scope
INVARIANTS
    AlarmHasCause
    ReceiptSeqsDistinct
    ReturnedEventsSurvive
    CloseCheckSound
PROPERTIES
    TamperingSticks
    ManipulationDetected
