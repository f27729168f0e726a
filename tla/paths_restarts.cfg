CONSTANTS
    Daemons = {d1, d2, d3}
    NoDaemon = NoDaemon
    Bindings = 2
    Overlaps = FALSE
SPECIFICATION Spec
INVARIANTS
    TypeOK
    ServingOwnsPaths
PROPERTY
    RefinesOwnership
CHECK_DEADLOCK FALSE
