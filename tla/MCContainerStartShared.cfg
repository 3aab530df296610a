SPECIFICATION StartSpec
CONSTANTS
    rootfs <- Place
    Layout <- Dirs
    Tools <- ToolPaths
    Workloads <- WorkloadPaths
    Needs <- Libraries
    NotFound = NotFound
    Hosts <- HostTrees
    MaxPrepares = 2
    Command <- Sleep
CHECK_DEADLOCK FALSE
INVARIANT SharedRootfs
