SPECIFICATION FairSpec
CONSTANTS
    r1 = r1
    r2 = r2
    k = k
    Requests = {r1, r2}
    Slots = {k}
    NoSlot = NoSlot
    Objects = {"o"}
    Call <- EditedActionCall
CHECK_DEADLOCK FALSE
INVARIANTS
    TypeOK
    OneExecutorPerSlot
    NoDoubleWrite
    NoSilentWedge
PROPERTIES
    CompletedIsFinal
    ReplayIsNotRefused
    EveryRequestAnswered
    ImplementsExecuteOnce
