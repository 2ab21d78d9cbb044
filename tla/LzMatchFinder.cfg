SPECIFICATION FinderFairSpec
CONSTANTS
    NibbleMax = 3
    ByteMax = 1
    MinMatch = 2
    MatchLen = 3
    MatchLevel = 2
    MinOffset = 1
    OffsetLimit = 8
    LeftBytes = 1
    BoostWindow = 4
    BoostLag = 1
    MaxMatchLen = 4
    DictSize = 2
    Hash <- FirstByte
    MaxLag = 1
    PipeDepth = 1
    MaxText = 9
    Texts <- AllTexts
INVARIANTS
    RecordsTrue
    PrefetchFresh
PROPERTIES
    ImplementsParse
    AllParsed
