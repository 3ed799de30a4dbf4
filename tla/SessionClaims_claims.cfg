CONSTANTS
    Instances = {i1,i2}
    Sessions = {s1,s2}
    Clients = {c1}
    None = None
    MayRotate = FALSE
    MaySelect = FALSE
    MayDelete = TRUE
SPECIFICATION Spec
SYMMETRY Symmetry
INVARIANT WatchedIsClaimed
INVARIANT ShownIsClaimed
PROPERTY ClaimsAreKept
CHECK_DEADLOCK FALSE
