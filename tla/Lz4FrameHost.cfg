SPECIFICATION HostSpec
CONSTANTS
    NumBlock = 2
    BlockLength = 4
    MinBlock = 2
    WordMod = 32
    FieldMod = 4
    MaxInput = 17
    Inputs <- AllInputs
INVARIANTS
    SlicesTile
    ReportsTrue
    FrameGivesBack
PROPERTIES
    WritesOwnPlace
