SPECIFICATION Spec
CONSTANTS
    Sessions = {s1, s2}
    Procs = {p1, p2}
    Exported <- MCExported
    MaxBuilds = 2
    MaxFaults = 1
    MaxKills = 1
    MaxRenderer = 2
SYMMETRY MCSymmetry
INVARIANTS
    TypeOK
    MarkerHonest
PROPERTIES
    FreshAnswer
CHECK_DEADLOCK FALSE
