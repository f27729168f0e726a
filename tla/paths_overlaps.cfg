CONSTANTS
    Daemons = {d1, d2, d3}
    NoDaemon = NoDaemon
    Bindings = 1
    Overlaps = TRUE
SPECIFICATION Spec
INVARIANTS
    AloneOwnsPaths
    ReachableHasMode
    LeavesOnlyLast
SYMMETRY DaemonSymmetry
CHECK_DEADLOCK FALSE
