SPECIFICATION Spec
CONSTANTS
    Agents = {p1, p2}
    Files = {f1}
    MaxClaims = 2
    MaxTtl = 1
    MaxTime = 1
CHECK_DEADLOCK FALSE
SYMMETRY LeaseSymmetry
INVARIANTS
    OverlapOnlyByRace
PROPERTIES
    ImplementsLeaseTable
