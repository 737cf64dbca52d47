CONSTANTS
    t1 = t1  t2 = t2  o1 = o1  o2 = o2  o3 = o3
    Nobody = Nobody
    Threads <- MCThreads
    Objects <- MCObjects
    Home <- MCHome
    Lock <- MCLock
    Links <- MCLinks
    Breakers <- MCBreakers
    Calls = {"emit", "disconnect", "disconnect all", "destroy"}
    MaxConnections = 2
    MaxDepth = 2
SPECIFICATION LiveSpec
CHECK_DEADLOCK FALSE
INVARIANTS TwoSided NothingDangling NotInThisEmission NothingLeft
PROPERTIES CallsReturn
