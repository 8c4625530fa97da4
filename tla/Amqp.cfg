SPECIFICATION FairSpec
CONSTANTS
    Offered <- MCOffered
    NumSlots = 2
    MaxRuns = 3
    MaxMsgs = 2
INVARIANTS
    TypeOK
    InOrder
    NothingLost
    SurvivesRestart
PROPERTIES
    ReadOnce
    GettersEnd
CHECK_DEADLOCK FALSE
