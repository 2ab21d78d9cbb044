SPECIFICATION FairSpec
CONSTANTS
    NStrm = 2
    Depth = 2
    MaxUntagged = 5
    MaxTagged = 3
    MaxRun = 6
    Calls <- AllCalls
INVARIANTS
    TypeOK
    NothingBehindEnd
    InputOrder
    AllMerged
PROPERTIES
    Ends
CHECK_DEADLOCK FALSE
