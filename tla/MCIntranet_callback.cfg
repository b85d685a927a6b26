CONSTANTS
    Tasks = {t1}
    TimedTasks = {}
    Shifters = {s1}
    Closers = {watcher, d1}
    Results = {"done", "lost"}
    MainQueueLength = 1
    ExtraQueueLength = 1
    None = None
    Conns = {w1, w2}
    Watcher = watcher
    WatchLength = 1
    SubTasks = {t1}
    Subscribing = {w1}
SPECIFICATION FairHubSpec
PROPERTY CloseCallbackCalled
CHECK_DEADLOCK FALSE
