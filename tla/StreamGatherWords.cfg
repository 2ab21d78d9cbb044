SPECIFICATION FairSpec
CONSTANTS
    NStrm = 3
    WIn = 1
    WOut = 1
    Depth = 2
    MaxLoad = 2
    Loads <- AllLoads
INVARIANTS
    FullWordsOut
