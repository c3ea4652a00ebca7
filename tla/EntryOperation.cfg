CONSTANTS
    Dpids = {s1}
    EventServices = {"switch_manager"}
    MaxOperations = 1
    MaxDaemons = 1
SPECIFICATION SwitchManagerSpec
INVARIANT OperationsEndNobody
CHECK_DEADLOCK FALSE
