SPECIFICATION WrFairSpec
CONSTANTS
    NumBlock = 2
    WordSize = 2
    BurstSize = 2
    SizeDepth = 2
    ByteDepth = 1
    EosDepth = 1
    MemWords = 10
    Space = 10
    Sizes = {0, 1, 4, 9}
    Outputs <- AllOutputs
INVARIANTS
    ReadingNeverBlocks
    WordsMatchBursts
PROPERTIES
    WritesOnceInRegion
    AllWritten
