SPECIFICATION FairSpec
CONSTANTS
    NumLines = 2
    NumMsgs = 1
    MaxTries = 3
    Pieces = 2
PROPERTIES
    WriteEnds
