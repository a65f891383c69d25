SPECIFICATION Spec
CONSTANTS
    Paths = {p1, p2, p3}
    Contents <- Sources
    Names <- Sources
    Defs <- SomeDefs
    Refs <- SomeRefs
    Absent = absent
    None = none
    Pending = pending
    Cadence = 100
    MaxEdits = 0
    MaxFaults = 1
SYMMETRY PathSymmetry
INVARIANTS
    ResumesSafely
