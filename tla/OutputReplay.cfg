CONSTANTS
    Cap = 2
    WireCap = 1
    RefreshCap = 1
    MaxChunks = 4
    MaxFocus = 2
    MaxVisible = 1
    Leaves = TRUE
SPECIFICATION FairSpec
PROPERTY NoRepeat
PROPERTY NoSilentLoss
PROPERTY CatchesUp
PROPERTY OldTasksEnd
CHECK_DEADLOCK FALSE
