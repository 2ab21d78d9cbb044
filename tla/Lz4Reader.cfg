SPECIFICATION RdFairSpec
CONSTANTS
    NumBlock = 2
    WordSize = 2
    BurstSize = 2
    SizeDepth = 3
    ByteDepth = 1
    Room = 16
    Sizes = {0, 1, 4, 7, 15}
    Inputs <- AllInputs
INVARIANTS
    WordsMatchSizes
    InOrder
PROPERTIES
    AllDelivered
