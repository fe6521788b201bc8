\* The ring is gone round with records of both kinds.
\* The threads really stop after stop().
CONSTANTS
    Blocks = 2
    BlockSize = 3
    TextSize = 1
    OrderSize = 2
    MaxRecords = 5
SPECIFICATION CalmSpec
INVARIANT TextIsWritable
CHECK_DEADLOCK FALSE
