SPECIFICATION Spec
CONSTANTS
    r1 = r1
    r2 = r2
    k = k
    Requests = {r1, r2}
    Slots = {k}
    NoSlot = NoSlot
    Objects = {"o"}
    Call <- SameSlotCall
CHECK_DEADLOCK FALSE
INVARIANT NoReplayAfterTimeout
