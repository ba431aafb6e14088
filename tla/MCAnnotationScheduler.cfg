SPECIFICATION FairSpec
CONSTANTS
    c1 = c1
    c2 = c2
    s1 = s1
    Schedulers = {s1}
    Callers = {}
    Rows = {"r"}
    Annotators = {"u", "v"}
    Contents = {"x", "y"}
    Posts <- TwoAnnotators
    MinAnnotators = 2
    MaxFailures = 2
    MaxTasks = 2
    MaxEvents = 2
    MaxFaults = 1
CHECK_DEADLOCK FALSE
PROPERTIES
    AnnotationsArrive
