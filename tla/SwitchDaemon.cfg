CONSTANTS
    Kinds <- MCKinds
    MaxBatch = 2
    MaxDepth = 3
    Signals = TRUE
    Dpids = {s1}
    EventServices = {"switch_manager"}
    MaxOperations = 1
    MaxDaemons = 2
    MaxTotal = 2
SPECIFICATION FairSpec
INVARIANT DaemonFitsState
PROPERTIES DaemonProceeds  OperationIsAnswered
CHECK_DEADLOCK FALSE
