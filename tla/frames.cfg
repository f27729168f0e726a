CONSTANTS
    RequestLists <- UpToThreeRequests
    ReplyBodies <- MCReplyBodies
    Decodable <- MCDecodable
    MaxServed = 2
    MaxFrame = 2
    Capacity = 3
    Base = 2
    Buffered = TRUE
SPECIFICATION FairSpec
INVARIANTS
    TypeOK
    FramesInOrder
    RefusedForCause
PROPERTIES
    RefinesExchange
    AllAnswered
CHECK_DEADLOCK FALSE
