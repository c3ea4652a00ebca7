CONSTANTS
    Dpids = {s1}
    EventServices = {"app"}
    MaxOperations = 1
    MaxDaemons = 1
SPECIFICATION SwitchManagerSpec
INVARIANT ListedIsConnected
CHECK_DEADLOCK FALSE
