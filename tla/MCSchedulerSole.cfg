SPECIFICATION FairSpec
CONSTANTS
    Pids = {p1, p2}
    NoPid = NoPid
    InitialCapacity = 8
PROPERTIES
    EveryTrackedRuns
