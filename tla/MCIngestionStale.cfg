SPECIFICATION Spec
CONSTANTS
    Items = {i1, i2, i3}
    Keys = {k1}
    Capacity = 1
    EventCapacity = 1
    None = None
CHECK_DEADLOCK FALSE
INVARIANT BackpressureIsCurrent
