SPECIFICATION Spec
CONSTANTS
    Instances = {1, 2}
    Objects = {"o"}
    ObjectOf <- SameObject
    Runners = {"r1", "r2", "r3"}
    InstanceOf <- TwoRows
    Beat = 1
    Timeout = 0
    Stale = 1
    MaxMisses = 0
CHECK_DEADLOCK FALSE
INVARIANTS
    TypeOK
    OneRunningPerObject
    RunnersDoNotMeet
    RunningHasRunner
