SPECIFICATION Spec
CONSTANTS
    Size = 3
    Gap = 2
    FrameSlots = 2
    Late = 1
    MaxMessages = 3
INVARIANTS
    GoodMessageWhole
PROPERTIES
    ImplementsStream
    BytesLeave
