\* Every interleaving but those of a block switch; the ring is gone round.
\* The threads really stop after stop().
CONSTANTS
    Blocks = 2
    BlockSize = 5
    TextSize = 2
    OrderSize = 3
    MaxRecords = 10
SPECIFICATION CalmSpec
INVARIANTS
    TypeOK
    InOrder
    CanReadMeansUnread
PROPERTIES
    EveryRecordFormatted
    StopReturns
CHECK_DEADLOCK FALSE
