SPECIFICATION Spec
CONSTANTS
    c1 = c1
    c2 = c2
    s1 = s1
    Schedulers = {}
    Callers = {c1, c2}
    Rows = {"r"}
    Annotators = {"u", "v"}
    Contents = {"x", "y"}
    Posts <- Disagreeing
    MinAnnotators = 2
    MaxFailures = 2
    MaxTasks = 2
    MaxEvents = 3
    MaxFaults = 1
SYMMETRY Symmetry
CHECK_DEADLOCK FALSE
INVARIANTS
    CountedIsRecorded
    AdlIsVersioned
    DisputesAreArbitrated
