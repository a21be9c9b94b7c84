\* Nodes of 2 bytes, requests of 1 to 4: up to five blocks, one crash.
CONSTANTS
    Request = {1, 3, 4}
    NodeSize = 2
    Reserved = 1
    MinimumSize = 0
    MaxFileSize = 24
    MaxAfter = 0
SPECIFICATION Spec
INVARIANTS ListsSound NoGaps HeldListed
PROPERTIES CrashOnlyLoses ImplementsFileSpace
CHECK_DEADLOCK FALSE
