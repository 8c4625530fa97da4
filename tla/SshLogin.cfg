SPECIFICATION FairSpec
CONSTANTS
    NumSessions = 1
    MaxId = 1
    MaxAttempts = 3
PROPERTIES
    LoginEnds
