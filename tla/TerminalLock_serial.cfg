CONSTANTS
    Connections = {1, 2, 3}
    Users = {"ann", "bob"}
    UserOf <- MCUserOf
    Instances = {"A", "B"}
    Timeout = 2
    NoOne = NoOne
    FocusedOnly = TRUE
    Serial = TRUE
SPECIFICATION Spec
INVARIANTS
    HolderPresentWhenQuiet
    AnnouncedWhenQuiet

    
