CONSTANTS
    Tasks = {t1}
    TimedTasks = {}
    Shifters = {s1}
    Closers = {watcher, d1}
    Results = {"done", "lost"}
    MainQueueLength = 1
    ExtraQueueLength = 1
    None = None
    Conns = {w1}
    Watcher = watcher
    WatchLength = 2
    Subscribing = {}
    SubTasks = {}
SPECIFICATION HubSpec
INVARIANT AllTasksClosed
CHECK_DEADLOCK FALSE
