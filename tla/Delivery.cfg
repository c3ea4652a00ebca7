CONSTANTS
    RecvBuffer = 2
    Lengths = {2}
    MaxMessages = 4
    MaxQueues = 2
    MaxConnections = 3
    MaxExits = 2
    SocketPackets = 2
    Failures = {"ENOBUFS"}
    Callbacks = {f, g}
    Intervals = {0, 1}
    Values = {0, 2}
    MaxId = 3
    MaxClock = 3
    MaxTimeout = 2
    NoFunction = NoFunction
SPECIFICATION FairSpec
PROPERTIES QueueDrains TimersInTime TimerFires
CHECK_DEADLOCK FALSE
