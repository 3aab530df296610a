SPECIFICATION LiveSpec
CONSTANTS
    Pids = {1, 2, 3}
    NoPid = NoPid
    InitialCapacity = 8
INVARIANTS
    TargetsWellFormed
    SignalsDiffer
    TargetsFollowList
    AtMostOnePausedWhenOff
PROPERTIES
    EveryTargetRuns
    EventuallyExclusive
    JoinReturns
