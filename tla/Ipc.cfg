CONSTANTS
    MaxFd = 1
    MaxDepth = 1
    Writes = {TRUE}
    Requests = {}
    NoEvent = NoEvent
    RecvBuffer = 2
    Lengths = {1, 2}
    MaxMessages = 5
    MaxQueues = 2
    MaxConnections = 2
    MaxExits = 1
    SocketPackets = 2
    Failures = {"socket", "ENOBUFS", "stop_dump"}
    IdWidth = 1
    LifeCount = 2
    MaxRequests = 3
    ServiceNames = {"n1", "n2"}
    CallbackTypes <- MCCallbackTypes
    Names = {"app", "n1"}
    Executable = "app"
    Pids = {9, 10}
    PidLength <- MCPidLength
    MaxProcesses = 3
SPECIFICATION Spec
INVARIANTS HandlersAgree OnlyRegisteredCalled EachMessageInOnePlace DeliveredAsSent 
    ReplyMeetsItsRequest 
CHECK_DEADLOCK FALSE
