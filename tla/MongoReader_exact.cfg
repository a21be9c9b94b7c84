\* Two files of a channel and more, with blocks that are entered late.
CONSTANTS
    MaxTime = 5
    MaxPerBlock = 2
    Tick = 2
    Start = {0, 2, 3}
SPECIFICATION MongoSpec
INVARIANT FirstFits
CHECK_DEADLOCK FALSE
