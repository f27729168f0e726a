SPECIFICATION FairSpec
CONSTANTS
    cli = cli
    raw = raw
    other = other
    NoClient = NoClient
    CliClients = {}
    RawClients = {raw}
    NumBindings = 1
    BindingOf <- MCOneSocket
    MaxFrames = 1
    ClockReadings <- MCAfterEpoch
    MaxTimestamp = 2
    MaxForwardedCount = 1
    OwnerIdentity <- MCOwnerIdentity
    PeerUid <- MCPeerUid
PROPERTY
    StopExits
