SPECIFICATION Spec
CONSTANTS
    Readers = {r1, r2}
    Limit = 1
    MaxLen = 30
    Count = 2
    Stages = 1
    MaxGen = 1
    MaxCrashes = 1
    MaxErrors = 1
    MaxReconnects = 1
SYMMETRY Symmetry
CONSTRAINT FaultsAlone
INVARIANTS TypeOK GateExact SuccessIsRecorded
CHECK_DEADLOCK FALSE
