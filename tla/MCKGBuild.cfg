SPECIFICATION FairSpec
CONSTANTS
    Workers = {w1}
    MaxRows = 2
    t1 = t1
    t2 = t2
    e = e
    f = f
    Texts = {t1, t2}
    NoText = NoText
    Names = {e, f}
    Yield <- YieldDef
    NoDump = NoDump
    Torn = Torn
    Thresholds = {1, 2}
    KeepVersions = 1
    PruneKeeps = {0}
    MaxBuilds = 2
    MaxEdits = 1
    MaxFaults = 1
    MaxOps = 1
INVARIANTS
    MarkedHasVertex
    MarkedMatchesVertex
    MarkedReferenced
    RetryCompletes
    PreviousDumpKept
PROPERTIES
    EveryBuildEnds
