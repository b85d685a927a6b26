CONSTANTS
    w1 = w1
    w2 = w2
    c1 = c1
    c2 = c2
    c3 = c3
    Owners = {w1, w2}
    Ids = {a, b}
    Calls = {c1, c2, c3}
    OwnerOf <- MCOwnerOf
    Misused = {b}
    MaxRequests = 3
    None = None
SPECIFICATION FairSpec
INVARIANTS TypeOK MutualExclusion CounterAccounts NoLockerLost
PROPERTIES MutexLockerReturns LockGranted
CHECK_DEADLOCK FALSE
