SPECIFICATION SysSpec
CONSTANTS
    me = me
    other = other
    Conns = {me}
    UnixConns = {me}
    NumSources = 1
    ActiveItems = {"rflags", "ptype"}
    Requests <- NoRequests
    MaxPending = 1
    BufSize = 3
    MaxUpdates = 2
    GetCommands = {"rflags"}
    BufferCommands = {}
    Masks <- MixedMask
    Closes = FALSE
    ULONG_MAX = 1000
    Delays = {FALSE}
CHECK_DEADLOCK FALSE
INVARIANTS
    AllEventsReturned
