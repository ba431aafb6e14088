SPECIFICATION FairSpec
CONSTANTS
    Instances = {1}
    Objects = {"o"}
    ObjectOf <- SameObject
    Runners = {"r1", "r2"}
    InstanceOf <- OneRow
    Beat = 2
    Timeout = 1
    Stale = 7
    MaxMisses = 1
CHECK_DEADLOCK FALSE
INVARIANTS
    LiveRowsAreNotOrphans
PROPERTIES
    ClosedRowsAreLeft
