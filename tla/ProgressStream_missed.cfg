SPECIFICATION FairSpec
CONSTANTS
    Readers = {r1}
    Limit = 1
    MaxLen = 30
    Count = 2
    Stages = 1
    MaxGen = 1
    MaxCrashes = 0
    MaxErrors = 0
    MaxReconnects = 1
PROPERTIES TerminalCloses
CHECK_DEADLOCK FALSE
