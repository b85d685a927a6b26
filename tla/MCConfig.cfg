CONSTANTS
    u1 = u1
    u2 = u2
    s1 = s1
    s2 = s2
    Uploads = {u1, u2}
    Stores = {s1, s2}
    Initial = Initial
    Empty = Empty
    Torn = Torn
    Version <- MCVersion
    Migrating = {s2}
    MaxCrashes = 1
SPECIFICATION Spec
INVARIANTS TypeOK AloneIsInstalled MigratedTwiceOnlyIfOverlapped
CHECK_DEADLOCK FALSE
