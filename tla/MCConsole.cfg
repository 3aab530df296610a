SPECIFICATION MCSpec
CONSTANTS
    Ids = {1, 2}
    Pids = {1, 2}
    None = None
    Lines <- SomeLines
    Queries <- SomeQueries
    MaxLog = 2
    MaxBorn = 3
CHECK_DEADLOCK FALSE
INVARIANTS
    RowsTellTheLog
    FollowLosesNothing
    SameProcess
PROPERTIES
    InterruptHeeded
    FollowCatchesUp
