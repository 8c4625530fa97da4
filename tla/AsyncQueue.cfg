SPECIFICATION FairSpec
CONSTANTS
    NumThreads = 4
    MaxThreads = 5
INVARIANTS
    NoLostWakeup
    AllDelivered
PROPERTIES
    FifoSpec
    Termination
