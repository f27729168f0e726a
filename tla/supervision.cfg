SPECIFICATION FairSpec
CONSTANTS
    first = first
    second = second
    NoSupervisor = NoSupervisor
    Supervisors = {first, second}
    MaxRequestCount = 2
    MaxAsks = 2
INVARIANTS
    TypeOK
    AnswersInOrder
    AcknowledgedLast
PROPERTIES
    StopOnlyOnRequest
    SupervisorsServed
CHECK_DEADLOCK FALSE
