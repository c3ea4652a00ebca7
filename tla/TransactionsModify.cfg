CONSTANTS
    Services <- MCServices
    Pairs <- MCPairs
    NoEntry = NoEntry
    NoOne = NoOne
    Nothing = Nothing
    MaxEntries = 2
    MaxXid = 6
    MaxCookie = 5
    MaxReferences = 5
    OriginalXids = {7}
    Cookies = {7}
    Regimes <- MCModify
    MaxInserts = 4
    MaxWire = 2
    MaxOwn = 1
SPECIFICATION Spec
INVARIANT FlowRemovedIfAsked
CHECK_DEADLOCK FALSE
