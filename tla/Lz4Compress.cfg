SPECIFICATION FairSpec
CONSTANTS
    NibbleMax = 3
    ByteMax = 3
    MinMatch = 2
    MaxMatchLen = 8
    MinOffset = 1
    MaxLit = 6
    LimitMark = 9
    LenDepth = 2
    OutDepth = 2
    EosDepth = 1
    SizeDepth = 1
    MaxSize = 11
    Sessions <- AllSessions
INVARIANTS
    AnnouncedLiteralsPresent
    NoCrossWait
    SizeDetermined
    StreamsDrained
PROPERTIES
    ImplementsService
    AllAnswered
