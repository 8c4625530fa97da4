SPECIFICATION Spec
CONSTANTS
    NumSessions = 2
    MaxId = 3
    MaxAttempts = 3
INVARIANTS
    TypeOK
    OwnRecord
    ServedIsAuthenticated
    NothingKept

    
