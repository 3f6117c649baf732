SPECIFICATION SysSpec
CONSTANTS
    me = me
    other = other
    Conns = {me, other}
    UnixConns = {me}
    NumSources = 1
    ActiveItems = {"tmc"}
    Requests <- NoRequests
    MaxPending = 1
    BufSize = 2
    MaxUpdates = 1
    GetCommands = {}
    BufferCommands = {"tmc"}
    Masks <- TwoMasks
    Closes = TRUE
    ULONG_MAX = 100000
    Delays = {TRUE, FALSE}
CONSTRAINT OneDelay
CHECK_DEADLOCK FALSE
INVARIANTS
    OneOutstanding
    MaskTakesEffect
    TextAsSized
