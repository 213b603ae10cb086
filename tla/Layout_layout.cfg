SPECIFICATION Spec
CONSTANT Sheets <- MCSheets
INVARIANTS TypeOK HeadersAgree AxesSound RowsPlaced
PROPERTIES KeysStayApart
CHECK_DEADLOCK FALSE
