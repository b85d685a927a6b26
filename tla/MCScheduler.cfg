CONSTANTS
    Runs = {r1, r2, r3}
    Updaters = {u1, u2}
    a = a
    b = b
    Stores = {a, b}
    Configs <- MCConfigs
    None = None
SPECIFICATION FairSpec
INVARIANTS TypeOK RunsBoundedByUpdates
PROPERTIES RefusedOnlyNextToARun MarkIsCleared
CHECK_DEADLOCK FALSE
