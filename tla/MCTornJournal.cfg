CONSTANTS
    Producers = {p1}
    Capacity = 2
    Nobody = Nobody
    Break = Break
    Times <- TwoTimes
    Radix = 2
    MaxEvents = 4
    MaxOpens = 2
SPECIFICATION Spec
CHECK_DEADLOCK FALSE
INVARIANT SequenceIsMonotonic
