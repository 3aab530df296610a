SPECIFICATION Spec
CONSTANTS
    Pids = {p1, p2}
    NoPid = NoPid
    InitialCapacity = 8
INVARIANTS
    NoPausedWhenOff
