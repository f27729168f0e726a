SPECIFICATION ProcessSpec
CONSTANTS
    cli = cli
    raw = raw
    sup = sup
    NoClient = NoClient
    NoSupervisor = NoSupervisor
    CliClients = {}
    RawClients = {}
    NumBindings = 1
    BindingOf <- MCOneSocket
    MaxFrames = 1
    ClockReadings <- MCClockReadings
    MaxTimestamp = 2
    MaxForwardedCount = 1
    OwnerIdentity <- MCOwnerIdentity
    PeerUid <- MCPeerUid
    Supervisors = {sup}
    MaxRequestCount = 2
    MaxAsks = 1
INVARIANT
    AcknowledgementDelivered
