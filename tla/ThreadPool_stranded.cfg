CONSTANTS
    w1 = w1  w2 = w2  c1 = c1  c2 = c2  r1 = r1  r2 = r2
    Tasks <- MCTasks
    Workers <- MCWorkers
    Clients <- MCOneClient
    Waiters <- MCOneClient
    Priorities = {0, 1}
    MaxCounts = {1, 2}
    MaxStarts = 2
    MaxReserved = 1
    MaxFailures = 0
    NoTask = NoTask  NoWorker = NoWorker
SPECIFICATION Spec
CHECK_DEADLOCK FALSE
INVARIANTS NoneStranded
