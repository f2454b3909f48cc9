CONSTANTS
    Producers = {p1, p2}
    Capacity = 2
    Nobody = Nobody
    Break = Break
    Times <- TwoTimes
    Radix = 2
    MaxEvents = 4
    MaxOpens = 2
SPECIFICATION Spec
CHECK_DEADLOCK FALSE
INVARIANTS NoneIsLost FileIsReplayable
PROPERTIES FlushCovers FlushReturns
