\* No power cut, erases may fail, more users than sectors.
SPECIFICATION Spec
CONSTANTS
    u1 = u1
    u2 = u2
    u3 = u3
    u4 = u4
    k1 = k1
    Blank = Blank
    Torn = Torn
    Ids <- FourIds
    Keys <- OneKey
    Inputs <- FourIds
    UsersMax = 3
    LastSlot = 3
    MaxCuts = 0
    MaxEraseFails = 1
INVARIANTS
    TypeOK
    NoHoles
    UniqueIds
PROPERTIES
    BlockedStays
