CONSTANTS
    d1 = d1
    d2 = d2
    d3 = d3
    c1 = c1
    c2 = c2
    c3 = c3
    none = none
    Device <- ThreeDevices
    First <- d1
    Linked <- d2
    NoDevice <- none
    Call <- ThreeCalls
    MaxOpen = 2
    AccessTtl = 1
    MaxNow = 1
    MaxSessions = 3
    MaxFaults = 1
SYMMETRY AnyOrder
SPECIFICATION Spec
CHECK_DEADLOCK FALSE
INVARIANT LogoutAllFailsClosed
