SPECIFICATION MCSpec
CONSTANTS
    AddrBits = 2
    Calls <- MCCalls
    Arriving <- MCArriving
    SwitchXids = {x1}
    LocalServices = {"app"}
    Arrivals <- MCArrivals
    MaxPending = 2
    MaxClock = 7
    ParseOk <- MCParseOk
    Services <- MCServices
    Pairs <- MCPairs
    NoEntry = NoEntry
    NoOne = NoOne
    Nothing = Nothing
    MaxEntries = 2
    MaxXid = 6
    MaxCookie = 5
    MaxReferences = 5
    OriginalXids = {7}
    Cookies = {7}
    Regimes <- MCRegimes
    MaxInserts = 4
    MaxWire = 2
    MaxOwn = 1
INVARIANTS
    BuildersAndValidatorsAgree
    CallbackGetsWhatWasBuilt
    AnswerGoesBack
    ReplyToRequester
    CookiesLeadBack
    DisciplinedFlowRemoved
    MatchesKeepPackets
PROPERTY
    StopsOnlyByEviction
CHECK_DEADLOCK FALSE
