SPECIFICATION Spec
CONSTANTS
    LedSlots = 2
    KeySlots = 2
    Masks <- MCMasks
    Late = 6
    WdtTicks = 1638
    None = None
INVARIANTS
    FedInTime
PROPERTIES
    RelaysUnderPower
    LedSettles
