SPECIFICATION Spec
CONSTANTS
    c = c
    o = o
    Creators = {c}
    Openers = {o}
    MaxObjects = 1
    EarlyOpen = TRUE
INVARIANTS
    OneOwner
