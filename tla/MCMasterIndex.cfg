CONSTANTS
    Time = {0, 1, 2, 3, 5}
    Subs = 2
    Stamps <- MCStamps
    MaxBlocks = 2
    MaxRuns = 2
    Start = {0, 2, 5}
SPECIFICATION Spec
INVARIANTS  InOrder AllReturned
CHECK_DEADLOCK FALSE
