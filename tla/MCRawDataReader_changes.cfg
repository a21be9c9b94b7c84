\* Control infos and value types change between sessions, without failures: what
\* the writer leaves behind, and what a reader makes of it.
CONSTANTS
    Time = {0, 1, 2}
    Info = {i1, i2}
    DbrType = {t1, t2}
    Request = {0}
    MinBuffer = 1
    MaxBuffer = 2
    FileLimit = 7
    MaxSamples = 3
    MaxBlocks = 3
    MaxRecords = 3
    MayFail = FALSE
    NoTime = NoTime
    Start = {0}
    None = None
SPECIFICATION ReadSpec
INVARIANTS SamplesExplained DurableFindable InfoFits
SYMMETRY Symmetry
CHECK_DEADLOCK FALSE
