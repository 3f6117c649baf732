SPECIFICATION Spec
CONSTANTS
    GroupTypes = {0, 4}
    StatLimit = 2
    MaxBlocks = 13
INVARIANTS
    TypeOK
    OneGroupInBuffer
    IntactGroupDecoded
    StatisticsPeriod
PROPERTIES
    DecodedGroupIsWhole
CHECK_DEADLOCK FALSE
