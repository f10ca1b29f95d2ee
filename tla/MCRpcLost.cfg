\* The server closes the connection: the instance of MCRpc.cfg, asked whether
\* calls still return after libnfs has tried to reconnect.
SPECIFICATION FairSpec
CONSTANTS
    XIDS = 3
    HASHES = 2
    MaxCalls = 2
    RequestLen = 2
    ReplyLen = 3
    MaxSize = 3
    MayClose = TRUE
PROPERTY
    CallsReturn
CHECK_DEADLOCK FALSE
