SPECIFICATION FairSpec
CONSTANTS
    w1 = w1  w2 = w2  t1 = t1  t2 = t2
    Workers = {w1, w2}
    Tasks = {t1}
    Owner <- FirstOwns
    Slots = 1
    Beat = 1
    Delay = 1
    Stale = 6
    MaxMisses = 1
CHECK_DEADLOCK FALSE
INVARIANTS
    BeatingTasksSpared
PROPERTIES
    TaskEnds
