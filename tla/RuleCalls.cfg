SPECIFICATION Spec
CONSTANTS
    Procs = {p1, p2}
    NumRules = 2
    java = java
    front = front
    Files = {java, front}
    Java = {java}
    FileOf <- Placed
    Flows = {f}
    NoFlow = noflow
    FlowOf <- ByName
    Versions = {v, w}
    Absent = absent
    Unknown = unknown
    MaxEdits = 1
    MaxStores = 3
    MaxAsks = 2
    MaxSnaps = 3
CHECK_DEADLOCK FALSE
SYMMETRY RulesSymmetry
CONSTRAINT Scope
INVARIANTS
    TableIsOneExtraction
    EdgesTrue
    GraphComplete
    SummariesFit
    SnapshotsCover
