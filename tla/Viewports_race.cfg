CONSTANTS
    Connections = {c1, c2}
    Rows <- MCRows
    Cols <- MCCols
    InitRows = 24
    InitCols = 80
    Serial = FALSE
SPECIFICATION Spec
INVARIANT PtyFollowsWhenQuiet
CHECK_DEADLOCK FALSE
