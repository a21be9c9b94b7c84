\* One control info and no failures: a reader beside the writer.
CONSTANTS
    Time = {0, 1, 2, 4}
    Info = {i1}
    DbrType = {t1}
    Request = {0, 2}
    MinBuffer = 1
    MaxBuffer = 4
    FileLimit = 7
    MaxSamples = 4
    MaxBlocks = 3
    MaxRecords = 2
    MayFail = FALSE
    NoTime = NoTime
    Start = {0, 2, 3}
    None = None
SPECIFICATION ReadSpec
INVARIANTS NoRepetition FirstFits Complete
PROPERTIES CallReturns
CHECK_DEADLOCK FALSE
