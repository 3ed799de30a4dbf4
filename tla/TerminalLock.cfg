CONSTANTS
    Connections = {1, 3}
    Users = {"ann", "bob"}
    UserOf <- MCUserOf
    Instances = {"A", "B"}
    Timeout = 1
    NoOne = NoOne
    FocusedOnly = TRUE
    Serial = FALSE
SPECIFICATION Spec
INVARIANTS
    TypeOK
    PresenceMatchesFocus
    PresentOnce
PROPERTIES
    NoTakeoverBeforeTimeout
    LocksAreLeases
