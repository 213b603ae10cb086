SPECIFICATION FairSpec
CONSTANTS
    Readers = {r1}
    Limit = 1
    MaxLen = 3
    Count = 2
    Stages = 1
    MaxGen = 1
    MaxCrashes = 0
    MaxErrors = 0
    MaxReconnects = 2
INVARIANT NoGap
PROPERTIES ResumedCloses
CHECK_DEADLOCK FALSE
