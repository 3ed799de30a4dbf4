CONSTANTS
    Instances = {i1,i2}
    Sessions = {s1,s2}
    Clients = {c1}
    None = None
    MayRotate = TRUE
    MaySelect = TRUE
    MayDelete = FALSE
SPECIFICATION FairSpec
INVARIANT LastToldIsWatched
PROPERTY ClaimedIsWatched
CHECK_DEADLOCK FALSE
