CONSTANTS
    t1 = t1  t2 = t2  t3 = t3  t4 = t4
    Threads <- MCThreads
    NoThread = NoThread
SPECIFICATION FutexLiveSpec
CHECK_DEADLOCK FALSE
INVARIANT SleepersAreSeen
PROPERTIES ImplementsMutex NotForgotten
