SPECIFICATION Spec
CONSTANTS
    NumSessions = 2
    MaxId = 2
    MaxAttempts = 3
PROPERTIES
    ClearsOnlyMarked
