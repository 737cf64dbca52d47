CONSTANTS
    t1 = t1  t2 = t2  t3 = t3  m1 = m1  m2 = m2  p1 = p1  p2 = p2
    Null = Null  Dummy = Dummy  NoThread = NoThread  BigNumber = 10
    Threads <- MCThreads
    Mutexes <- MCMutexes
    Privates <- MCPrivates
    Limits = {"forever", "positive", "zero"}
SPECIFICATION Spec
SYMMETRY Symmetry
INVARIANTS FreeIsClean RefCountIsReferences NotForgotten
PROPERTIES ImplementsMutex
CHECK_DEADLOCK FALSE
