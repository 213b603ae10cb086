SPECIFICATION Spec
CONSTANTS
    Cells <- MCCells
    Reads <- MCReads
    Period <- MCPeriod
    MaxRow = 5
    MaxCol = 3
    MinCells = 2
    RangeCap = 4
    NarrowColumns = 1
    Depth = 2
INVARIANTS TypeOK SameCycles TraceExact LagsAgree
CHECK_DEADLOCK FALSE
