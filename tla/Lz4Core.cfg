SPECIFICATION CoreFairSpec
CONSTANTS
    NibbleMax = 3
    ByteMax = 3
    MinMatch = 2
    MaxLit = 6
    LimitMark = 9
    LenDepth = 2
    OutDepth = 2
    EosDepth = 1
    SizeDepth = 1
    MatchLen = 3
    MatchLevel = 2
    MinOffset = 1
    OffsetLimit = 8
    LeftBytes = 1
    BoostWindow = 4
    BoostLag = 0
    MaxMatchLen = 8
    DictSize = 4
    Hash <- FirstByte
    MaxLag = 1
    PipeDepth = 2
    Sessions <- TwoBlocks
    Texts = {}
INVARIANTS
    Aligned
    CoreDrained
PROPERTIES
    CoreImplementsService
