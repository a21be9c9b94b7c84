\* A tree of up to three levels, with three records in a node.
CONSTANTS
    Time = {0, 1, 2, 3, 4, 5, 6, 7, 8, 9}
    Block = {1, 2, 3, 4, 5, 6, 7, 8, 9, 10, 11, 12}
    Loaded = 8
    Short = 4
    MinLength = 1
    M = 3
    MaxRecords = 10
    Spans <- MCSpans
SPECIFICATION MCSpec
INVARIANTS TreeSound Balanced WalksAgree CoversExactly
PROPERTIES ImplementsChannelIndex FirstStays
CHECK_DEADLOCK FALSE
