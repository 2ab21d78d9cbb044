SPECIFICATION Spec
CONSTANTS
    BlockBytes = 16
    HashBytes = 8
    Depth = 1
    WordDepth = 2
    MaxLen = 17
    PairLens = {7, 8}
    TripleLens = {0}
    Calls <- AllCalls
INVARIANTS
    MacsRight
    PadsInStep
    NothingLeft
