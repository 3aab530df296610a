SPECIFICATION Spec
CONSTANTS
    Pids = {p1, p2}
    NoPid = NoPid
    Shell = Shell
    MaxSeq = 2
    PidReuse = TRUE
SYMMETRY PidSymmetry
INVARIANTS
    UniqueIds
    StackHeld
    LiveOnDisk
    LiveAtPrompt
    TtyReturned
PROPERTY CleanExit
