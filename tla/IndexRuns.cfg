SPECIFICATION Spec
CONSTANTS
    Paths = {p1, p2, p3}
    Contents <- Sources
    Names <- Sources
    Defs <- SomeDefs
    Refs <- SomeRefs
    Absent = absent
    None = none
    Pending = pending
    Cadence = 2
    MaxEdits = 2
    MaxFaults = 1
CONSTRAINT Scope
SYMMETRY PathSymmetry
INVARIANTS
    FastPathSound
    EdgesJoinSymbols
    EdgesUnique
    IncompleteHasCause
    StaleMetricsHeal
PROPERTIES
    FullRunSettles
