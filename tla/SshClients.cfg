SPECIFICATION ClientsSpec
CONSTANTS
    NumCmds = 2
    NumLines = 2
    MaxPieces = 2
    MaxQuiet = 2
    Offered <- AllPrograms
    ChainLines = 4
    RemoteAnswers = TRUE
INVARIANTS
    AllPrinted
    AnswersInOrder
    NoLag
PROPERTIES
    
    ChainEnds
