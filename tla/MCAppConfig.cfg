CONSTANTS
    u1 = u1
    u2 = u2
    u3 = u3
    Uploads = {u1, u2, u3}
    Size <- MCSize
    Hole = Hole
    MaxCrashes = 1
SPECIFICATION Spec
INVARIANTS TypeOK TornOnlyIfOverlapped AloneIsServed WorkersHaveTheLast
CHECK_DEADLOCK FALSE
