\* Two files of a channel and more, with blocks that are entered late, and a
\* millisecond that can have samples of two files.
CONSTANTS
    MaxTime = 5
    MaxPerBlock = 2
    Tick = 3
    Start = {0, 3, 4}
SPECIFICATION MongoSpec
INVARIANTS InOrder NothingPassedOver
CHECK_DEADLOCK FALSE
