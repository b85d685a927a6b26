CONSTANTS
    Tasks = {t1, t2}
    TimedTasks = {t2}
    Shifters = {s1}
    Closers = {watcher, d1}
    Results = {"done", "lost"}
    MainQueueLength = 1
    ExtraQueueLength = 1
    None = None
    Conns = {w1, w2}
    Watcher = watcher
    WatchLength = 1
    SubTasks = {t1}
    Subscribing = {w1}
SPECIFICATION WatchedHubSpec
INVARIANTS HubTypeOK EntryWhileConnected LostOnlyIfDisconnected AwaitedTaskRecorded
PROPERTIES LostTasksAnswered
CHECK_DEADLOCK FALSE
