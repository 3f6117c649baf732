SPECIFICATION QFairSpec
CONSTANTS
    me = me
    other = other
    Conns = {me}
    UnixConns = {me}
    NumSources = 1
    ActiveItems = {"rflags", "ptype"}
    Requests <- NoRequests
    MaxPending = 1
    BufSize = 2
    MaxUpdates = 2
    GetCommands = {}
    BufferCommands = {}
    Masks <- NoMasks
    Closes = FALSE
    Delays = {TRUE, FALSE}
    ULONG_MAX = 300
    src_num = 0
    Watched = {"ptype"}
    Scenarios <- AllScenarios
CHECK_DEADLOCK FALSE
INVARIANTS
    QTypeOK
    CacheCoherent
    EventsRecorded
    EnoughRecords
PROPERTIES
    EventsAreShown
    CacheBecomesCurrent
    EndsWithDaemon
