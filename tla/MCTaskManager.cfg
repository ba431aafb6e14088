SPECIFICATION Spec
CONSTANTS
    w1 = w1  w2 = w2  t1 = t1  t2 = t2
    Workers = {w1}
    Tasks = {t1, t2}
    Owner <- FirstOwns
    Slots = 1
    Beat = 1
    Delay = 0
    Stale = 2
    MaxMisses = 0
SYMMETRY Symmetry
CHECK_DEADLOCK FALSE
INVARIANTS
    SlotsBalanced
PROPERTIES
    FailedNeverStarts
