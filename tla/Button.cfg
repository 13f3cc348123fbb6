SPECIFICATION Spec
CONSTANTS
    Poll = 2
    Deglitch = 1
    LongHold = 6
    Width = 13
    Slots = 1
    Late = 1
    Stable = 2
    MaxHold = 10
PROPERTIES
    NoFalseLong
    LongHonoured
