SPECIFICATION Spec
CONSTANTS
    Reader = Reader
    Sleeper = Sleeper
    Idle = Idle
    a = a
    b = a
    NoItem = NoItem
    Values <- MCValues
    Length = 1
    portMAX_DELAY = 3
    Waits <- MCWaits
    Delays <- MCShortDelays
    OverflowWidth = 1
    MaxPended = 1
PROPERTIES
    MessageTaken
    WaitEnds
