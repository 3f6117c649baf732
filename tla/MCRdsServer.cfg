SPECIFICATION FairSpec
CONSTANTS
    u1 = u1
    t1 = t1
    Conns = {u1, t1}
    UnixConns = {u1}
    NumSources = 1
    ActiveItems = {"rflags"}
    Requests <- SetMask
    MaxPending = 1
    BufSize = 2
    MaxUpdates = 1
INVARIANTS
    TypeOK
    DescriptorsConsistent
    NothingBlocksOnInput
PROPERTIES
    ImplementsService
    EveryClientIsServed
