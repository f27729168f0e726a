CONSTANTS
    Sessions <- MCSessions
    Sockets <- MCSockets
    Replies <- MCReplies
    NotUtf8 <- MCNotUtf8
SPECIFICATION ArtifactSpec
INVARIANTS
    ArtifactTypeOK
    SubmitsWholeInputOnce
    LocalErrorHasNoEffect
    SuccessPrintsReply
    ParsesWhatWasWritten
    VerdictIsTheReplys
CHECK_DEADLOCK FALSE
