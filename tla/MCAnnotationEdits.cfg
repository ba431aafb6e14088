SPECIFICATION HookedSpec
CONSTANTS
    c1 = c1
    c2 = c2
    s1 = s1
    Schedulers = {s1}
    Callers = {c1}
    Rows = {"r"}
    Annotators = {"u"}
    Contents = {"x", "y"}
    Posts <- OneAnnotator
    MinAnnotators = 2
    MaxFailures = 2
    MaxTasks = 1
    MaxEvents = 2
    MaxFaults = 0
CHECK_DEADLOCK FALSE
PROPERTY EditsArrive
