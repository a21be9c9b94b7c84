CONSTANTS
    Name <- MCName
    HashSize = 2
    Hash <- MCHash
    MaxTrees = 3
    Config <- MCConfig
    Live = "live"
    Contents <- MCContents
SPECIFICATION Spec
INVARIANTS ChainsSound FirstMatch NamesComplete
PROPERTIES AddedStays
CHECK_DEADLOCK FALSE
