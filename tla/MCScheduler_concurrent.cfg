CONSTANTS
    Runs = {r1, r2}
    Updaters = {u1, u2}
    a = a
    b = b
    Stores = {a, b}
    Configs <- MCSameConfig
    None = None
SPECIFICATION Spec
INVARIANT ConcurrentIsNotAllowed
CHECK_DEADLOCK FALSE
