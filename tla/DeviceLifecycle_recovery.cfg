\* Two interruptions anywhere and one failing erase.
SPECIFICATION Spec
CONSTANTS
    Factory = Factory
    s1 = s1
    Blank = Blank
    Torn = Torn
    Settings <- MCSettings
    MaxCuts = 2
    MaxEraseFails = 1
INVARIANTS
    TypeOK
    ServesWhatItStores
    ModuleInStep
    WipedStaysWiped
PROPERTIES
    ServesAgain
