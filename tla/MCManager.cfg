SPECIFICATION FairSpec
CONSTANTS
    Pids = {p1, p2}
    NoPid = NoPid
    Shell = Shell
    MaxSeq = 2
    PidReuse = FALSE
INVARIANTS
    OwnPidPinned
    NoStrayChild
    TargetsTracked
PROPERTIES
    StopReturnsEventually
    CleanupTerminates
