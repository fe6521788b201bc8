\* Every interleaving, those of a block switch included.
\* The threads really stop after stop().
CONSTANTS
    Blocks = 2
    BlockSize = 3
    TextSize = 1
    OrderSize = 2
    MaxRecords = 3
SPECIFICATION Spec
INVARIANT CanReadMeansUnread
CHECK_DEADLOCK FALSE
