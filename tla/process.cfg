SPECIFICATION FairProcessSpec
CONSTANTS
    cli = cli
    raw = raw
    sup = sup
    NoClient = NoClient
    NoSupervisor = NoSupervisor
    CliClients = {cli}
    RawClients = {}
    NumBindings = 2
    BindingOf <- MCBindingOf
    MaxFrames = 1
    ClockReadings <- MCClockReadings
    MaxTimestamp = 2
    MaxForwardedCount = 1
    OwnerIdentity <- MCOwnerIdentity
    PeerUid <- MCPeerUid
    Supervisors = {sup}
    MaxRequestCount = 2
    MaxAsks = 2
INVARIANTS
    AnswersOnceBound
    CleanExitOnStop
PROPERTIES
    ProcessRefinesDaemon
    StopEndsProcess
