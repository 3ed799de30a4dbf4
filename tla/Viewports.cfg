CONSTANTS
    Connections = {c1, c2, c3}
    Rows <- MCRows
    Cols <- MCCols
    InitRows = 24
    InitCols = 80
    Serial = FALSE
SPECIFICATION Spec
INVARIANTS
    EffectiveFitsAll
    

    
CHECK_DEADLOCK FALSE
