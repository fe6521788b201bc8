\* Does the log thread drain the buffer before it ends?
\* The threads really stop after stop().
CONSTANTS
    Blocks = 2
    BlockSize = 3
    TextSize = 1
    OrderSize = 2
    MaxRecords = 3
SPECIFICATION CalmSpec
INVARIANT NothingLostAtStop
CHECK_DEADLOCK FALSE
