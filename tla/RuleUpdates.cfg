SPECIFICATION Spec
CONSTANTS
    Procs = {p1}
    NumRules = 2
    java = java
    front = front
    Files = {java, front}
    Java = {java}
    FileOf <- Placed
    Flows = {f}
    NoFlow = noflow
    FlowOf <- ByName
    Versions = {v}
    Absent = absent
    Unknown = unknown
    MaxEdits = 0
    MaxStores = 2
    MaxAsks = 0
    MaxSnaps = 0
CHECK_DEADLOCK FALSE
PROPERTIES
    SkippedFilesKeepRules
