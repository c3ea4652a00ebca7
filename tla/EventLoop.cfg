CONSTANTS
    MaxFd = 1
    MaxDepth = 0
    Writes = {TRUE}
    Requests = {"stop"}
    NoEvent = NoEvent
    Lengths <- MCLengths
    BufferSize = 4
    IovMax = 2
    MaxSent = 3
    MaxEmitted = 3
SPECIFICATION FairSpec
INVARIANT StreamsKept
PROPERTIES  EverythingWritten
CHECK_DEADLOCK FALSE
