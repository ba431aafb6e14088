SPECIFICATION FairSpec
CONSTANTS
    w1 = w1  w2 = w2
    t1 = t1  t2 = t2  t3 = t3
    Workers <- MCWorkers
    Threads <- MCThreads
    WorkerOf <- MCWorkerOf
    Unwatched = {t1}
    MaxPermits = 1
    MaxFaults = 1
    MaxRestarts = 1
INVARIANTS ClusterCap StuckNeverPooled
PROPERTIES EveryRequestEnds FullCounterDrains
