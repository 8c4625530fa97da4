SPECIFICATION FairSpec
CONSTANTS
    NumLines = 2
    NumMsgs = 3
    MaxTries = 3
    Pieces = 2
INVARIANTS
    EchoesInOrder
    AllReceived
PROPERTIES
    ClientEnds
