SPECIFICATION Spec
CONSTANTS
    Calls = {c1, c2, c3, c4}
    Tools = {x, y}
    LimitedTools = {x}
    Limit <- OnePermit
    MaxConcurrent = 2
SYMMETRY CallSymmetry
INVARIANTS
    PermitsConserved
    InFlightAccurate
PROPERTIES
    BusyOnlyBesideOthers
