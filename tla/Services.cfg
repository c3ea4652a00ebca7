CONSTANTS
    MaxConnections = 3
    MaxPeer = 2
    MaxQueue = 2
    Dpids = {s1, s2}
    EventServices = {"switch_manager"}
    MaxOperations = 2
    MaxDaemons = 2
    MaxTotal = 3
    MaxReconnects = 3
    MaxSends = 2
    StatKeys = {k1, k2}
    Levels <- MCLevels
    InvalidLevel = "none"
    MaxEntries = 1
    MaxUpdates = 3
    MaxAsked = 2
    MaxPackets = 4
    MESSAGE_BUFFER_LENGTH = 1
    QUEUE_LIMIT = 2
    MaxClock = 3
    MaxRelayed = 3
    MaxTyped = 5
SPECIFICATION Spec
SYMMETRY Switches
CHECK_DEADLOCK FALSE
INVARIANTS ConnectionWorks OperationsAreTrue 
    EventsFitConnections  CaptureIsSafe 
