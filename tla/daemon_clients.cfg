SPECIFICATION Spec
CONSTANTS
    cli = cli
    raw = raw
    other = other
    NoClient = NoClient
    CliClients = {cli}
    RawClients = {other}
    NumBindings = 2
    BindingOf <- MCOneSocket
    MaxFrames = 2
    ClockReadings <- MCAfterEpoch
    MaxTimestamp = 2
    MaxForwardedCount = 1
    OwnerIdentity <- MCOwnerIdentity
    PeerUid <- MCPeerUid
INVARIANTS
    ProvenanceMinted
    CountMatchesLedger
    ModeBeforeAccept
    ReleasedOnExit
    ForwardedAtMostOnce
