CONSTANTS
    Kinds = {"hello", "features_reply", "echo_reply"}
    MaxBatch = 1
    MaxDepth = 2
    Signals = FALSE
SPECIFICATION Spec
INVARIANT ReadyOnlyWhileConnected
CHECK_DEADLOCK FALSE
