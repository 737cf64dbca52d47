CONSTANTS
    t1 = t1  t2 = t2  t3 = t3  t4 = t4
    Threads <- MCThreads
    Conditions = {"read", "write"}
    NoThread = NoThread
    Limits = {"forever", "timed", "try"}
    MaxDepth = 2
SPECIFICATION Spec
SYMMETRY Symmetry
CHECK_DEADLOCK FALSE
INVARIANT NoWriterStranded
PROPERTIES ImplementsLock OnlyTimeoutStrandsReaders
