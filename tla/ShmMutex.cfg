SPECIFICATION FairSpec
CONSTANTS
    c = c
    d = d
    o = o
    Creators = {c, d}
    Openers = {o}
    MaxObjects = 2
    EarlyOpen = FALSE
INVARIANTS
    OneOwner
    NeverMixed
    OwnerReadsMessage
    NeverRefused
PROPERTIES
    Released
