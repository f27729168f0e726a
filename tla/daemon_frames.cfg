SPECIFICATION TalkingSpec
CONSTANTS
    cli = cli
    raw = raw
    other = other
    NoClient = NoClient
    CliClients = {cli}
    RawClients = {raw}
    NumBindings = 2
    BindingOf <- MCBindingOf
    MaxFrames = 1
    ClockReadings <- MCClockReadings
    MaxTimestamp = 2
    MaxForwardedCount = 1
    OwnerIdentity <- MCOwnerIdentity
    PeerUid <- MCPeerUid
INVARIANTS
    TypeOK
    ReplyMatchesRequest
PROPERTIES
    RefinesIngress
    StopExits
    ClientsResolved
