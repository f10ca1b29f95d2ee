\* Two coroutines, xids that wrap, two buckets, a send queue that holds less
\* than two requests.
SPECIFICATION FairSpec
CONSTANTS
    XIDS = 3
    HASHES = 2
    MaxCalls = 2
    RequestLen = 2
    ReplyLen = 3
    MaxSize = 3
    MayClose = TRUE
INVARIANTS
    OnePlace
    RepliesExpected
    WakeupKept
PROPERTY
    ImplementsCalls
CHECK_DEADLOCK FALSE
