CONSTANTS
    Cap = 5
    WireCap = 2
    RefreshCap = 2
    MaxChunks = 5
    MaxFocus = 1
    MaxVisible = 2
    Leaves = FALSE
SPECIFICATION Spec
PROPERTY NeverSkipped
CHECK_DEADLOCK FALSE
