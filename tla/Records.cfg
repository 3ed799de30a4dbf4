CONSTANTS
    Instances = {j1}
    Names = {n1}
    NoName = NoName
    LifeCap = 2
    StateCap = 2
    WireCap = 2
    MaxStates = 2
    MaxRenames = 1

    Trackers = {t1}
    Timer = Timer
    NoStamp = NoStamp
    BatchSize = 2
    MaxTurns = 2
    MaxConvs = 2

    InboxInstances = {i1, i2}
    HeardCap = 1
    NewsCap = 1
    InboxWireCap = 1
    NoState = NoState
    NoItem = NoItem
    MaxChanges = 4

    Servers = {s1, e1}
    Embedded = {e1}
    Commands = {c1}
    None = None
    MaxMoves = 1

SPECIFICATION Spec
SYMMETRY Symmetry
INVARIANTS
    
    ListedIsTracked
    InboxInStep
    InboxFollowsState
    EveryTurnStored
    OneServer
    ServingIsNamed
    NothingLingers
CHECK_DEADLOCK FALSE
