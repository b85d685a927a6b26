CONSTANTS
    Keys = {k1, k2}
    Conns = {c1, c2}
    Logouts = {l1, l2}
    MaxRestarts = 1
    None = None
SPECIFICATION Spec
INVARIANTS TypeOK LiveSessionSaved LogoutEndsSession NoDeadConnection
PROPERTY ImplementsService
CHECK_DEADLOCK FALSE
