SPECIFICATION Spec
CONSTANTS
    Tasks = {t1, t2}
    MaxRequests = 3
    Activities = {x1}
INVARIANT AllocationIsKnown
INVARIANT NothingKnownIsLeft
CHECK_DEADLOCK FALSE
