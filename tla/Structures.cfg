CONSTANTS
    Keys = {0, 1, 2, 3}
    number_of_buckets = 2
    HashValues = {10, 11}
    Elements = {1, 2, 3, 4}
    QueueMessages = {1, 2}
    MaxElements = 5
    Frames <- MCFrames
    Handles = {b1, b2}
    MaxBytes = 3
    Marks = {x, y}
    Infos = {i1, i2}
    Structures <- MCStructs
    AddrBits = 4
    Filters <- MCFilters
    FilterServices = {s1, s2}
    BuiltIn <- MCBuiltIn
    Packets_in <- MCPackets
    DumpFits = 3
    MaxOutstanding = 1
    MaxXid = 4
    MaxEntries = 3
    Services = {s1, s2}
    OriginalXids = {7}
    NoEntry = NoEntry
    MaxInserts = 7
    Pairs = {p1, p2, p3}
    MaxCookie = 2
    MaxReferences = 3
    Size = 5
    Bytes = {a, b}
    MaxWrite = 3
    Unset = Unset
SPECIFICATION StructSpec
CHECK_DEADLOCK FALSE
INVARIANTS  BuffersKeepData ParserStaysInside ConversionsAreWhole
    FilteringIsRight TableConsistent TablesTrackRequests
PROPERTY ImplementsByteQueue
