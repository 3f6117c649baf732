SPECIFICATION SysFairSpec
CONSTANTS
    me = me
    other = other
    Conns = {me}
    UnixConns = {me}
    NumSources = 1
    ActiveItems = {"rflags"}
    Requests <- NoRequests
    MaxPending = 1
    BufSize = 2
    MaxUpdates = 2
    GetCommands = {"rflags"}
    BufferCommands = {}
    Masks <- OneMask
    Closes = FALSE
    ULONG_MAX = 100000
    Delays = {FALSE}
CHECK_DEADLOCK FALSE
PROPERTIES
    CallsReturn
