\* Writes fail and the program dies anywhere.
CONSTANTS
    Time = {0, 1, 2}
    Info = {i1}
    DbrType = {t1}
    Request = {0}
    MinBuffer = 1
    MaxBuffer = 2
    FileLimit = 7
    MaxSamples = 4
    MaxBlocks = 4
    MaxRecords = 3
    MayFail = TRUE
    NoTime = NoTime
SPECIFICATION Spec
INVARIANTS BufferSound LinksSound KeptSound
PROPERTIES ImplementsSampleLog
CHECK_DEADLOCK FALSE
