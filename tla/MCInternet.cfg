CONSTANTS
    r1 = r1
    r2 = r2
    Requests = {r1, r2}
    Offers <- MCOffers
    Keys = {k1, k2}
    WorkerKeys = {k1}
    None = None
    Bad = Bad
    Numbers = {12, 200}
    Codes = {404}
SPECIFICATION FairSpec
INVARIANTS TypeOK LoggedOutIsLockedOut ReplyTellsOutcome FileHasRecord MixedOnlyIfOverlapped
PROPERTY RequestReplied
CHECK_DEADLOCK FALSE
