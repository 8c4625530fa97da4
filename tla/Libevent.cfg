SPECIFICATION LibeventSpec
CONSTANTS
    MaxSent = 2
    Clients = {"block", "event", "eager"}
    NumLines = 4
    MaxEchoed = 6
    SendBuf = 2
INVARIANTS
    ArgumentIsAlive
    DrainingEnds
    EchoedInOrder
    OnlySkips
PROPERTIES
    Relays
    BothFreed
    Answered
