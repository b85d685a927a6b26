CONSTANTS
    Tasks = {t1, t2, t3}
    TimedTasks = {t3}
    Shifters = {s1, s2}
    Closers = {d1, d2}
    Results = {ok}
    MainQueueLength = 1
    ExtraQueueLength = 1
    None = None
SPECIFICATION Spec
INVARIANTS TypeOK SingleCustody NothingDropped OneResolver DoneBlocksOnlyOnTimeout
PROPERTIES RottenNeverHandedOut ImplementsService
CHECK_DEADLOCK FALSE
