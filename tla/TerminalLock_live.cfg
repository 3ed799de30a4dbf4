CONSTANTS
    Connections = {1, 2}
    Users = {"ann", "bob"}
    UserOf <- MCUserOf
    Instances = {"A"}
    Timeout = 2
    NoOne = NoOne
    FocusedOnly = TRUE
    Serial = FALSE
SPECIFICATION FairSpec
PROPERTIES
    AbandonedLockExpires
