\* Power cuts and failing erases.
SPECIFICATION Spec
CONSTANTS
    u1 = u1
    u2 = u2
    u3 = u3
    u4 = u4
    k1 = k1
    Blank = Blank
    Torn = Torn
    Ids <- MCIds
    Keys <- OneKey
    Inputs <- MCIds
    UsersMax = 2
    LastSlot = 2
    MaxCuts = 2
    MaxEraseFails = 1
INVARIANTS
    ScansEnd
    ProgramsErased
PROPERTIES
    NoOtherUserTouched
    ImplementsDirectory
