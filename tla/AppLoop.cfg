\* Requests, RS-485 messages, button reports and pin changes without end.
SPECIFICATION Spec
CONSTANTS
    RequestSlots = 2
    RsSlots = 2
    ButtonSlots = 2
    LastRequest = 4
    MaxRs = 3
    None = None
INVARIANTS
    ConnectionTold
PROPERTIES
    RsGoesForward
    RequestsAnswered
    LongPressResets
