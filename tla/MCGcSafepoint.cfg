SPECIFICATION MCFairSpec
CONSTANTS
    t1 = t1  t2 = t2  t3 = t3
    NoThread = NoThread
    Threads = {t1, t2, t3}
    Collectors = {t1, t2}
    CycleLimit = 2
CHECK_DEADLOCK FALSE
INVARIANTS WorldStopped
PROPERTIES StopsEnd
