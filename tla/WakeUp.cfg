CONSTANTS
    t1 = t1  t2 = t2  t3 = t3
    Wakers <- MCWakers
    MaxPosts = 4
SPECIFICATION WakeUpLiveSpec
CHECK_DEADLOCK FALSE
INVARIANTS OneWakeUp NoLostWakeUp
PROPERTIES ExitReturns
