SPECIFICATION BusySpec
CONSTANTS
    UInt = 4
    MB = 2
    RLIM_INFINITY = 15
    Typed <- Numbers
    Hosts <- HostLimits
    MaxFlags = 2
INVARIANTS
    NeverRefused
    InForce
PROPERTIES
    NeverRaised
    BusyEnds
CHECK_DEADLOCK FALSE
