SPECIFICATION FairSpec
CONSTANTS
    NStrm = 2
    WIn = 1
    WOut = 2
    Depth = 2
    MaxLoad = 3
    Loads <- AllLoads
INVARIANTS
    FlagNotAhead
    KeptInOrder
    ReadAll
PROPERTIES
    Ends
