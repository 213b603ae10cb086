SPECIFICATION Spec
CONSTANTS
    Sessions = {a, b}
    None = None
    MaxHash = 2
    MaxPosts = 3
    MaxDeploys = 2
    MaxCrashes = 2
INVARIANTS TypeOK SnapshotHonest
CONSTRAINT NoWindow
SYMMETRY Symmetry
CHECK_DEADLOCK FALSE
