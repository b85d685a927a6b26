CONSTANTS
    Keys = {k1}
    Conns = {c1}
    Logouts = {l1}
    MaxRestarts = 1
    None = None
SPECIFICATION Spec
INVARIANT DeletedStaysDeleted
CHECK_DEADLOCK FALSE
