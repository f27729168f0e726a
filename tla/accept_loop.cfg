CONSTANTS
    Bindings = 3
    Backlog = 2
SPECIFICATION FairSpec
INVARIANTS
    TypeOK
    OneMoreAtMost
PROPERTIES
    StopSeen
    ServedInTurn
CHECK_DEADLOCK FALSE
