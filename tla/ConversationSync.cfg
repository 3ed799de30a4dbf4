CONSTANTS
    Tools = {"t"}
    SignalCap = 1
    MaxTurns = 2
    MaxEntries = 2
    EventCap = 1
    WireCap = 1
    MaxFocus = 2
    MaxAsks = 1
SPECIFICATION FairSpec
INVARIANT TypeOK
INVARIANT AsReadAtOnce
INVARIANT NoDuplicates
PROPERTY DriverFollows
PROPERTY ClientFollows
PROPERTY ClientCatchesUp
CHECK_DEADLOCK FALSE
