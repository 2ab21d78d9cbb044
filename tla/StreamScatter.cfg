SPECIFICATION FairSpec
CONSTANTS
    NStrm = 2
    WIn = 3
    WOut = 2
    DeqDepth = 3
    Depth = 1
    Totals = {0, 1, 3, 6, 8}
INVARIANTS
    EachOnce
    RingFits
    NothingLost
PROPERTIES
    Ends
