SPECIFICATION Spec
CONSTANTS
    Reader = Reader
    Sleeper = Sleeper
    Idle = Idle
    a = a
    b = b
    NoItem = NoItem
    Values <- MCValues
    Length = 2
    portMAX_DELAY = 5
    Waits <- MCWaits
    Delays <- MCDelays
    OverflowWidth = 2
    MaxPended = 1
INVARIANTS
    TypeOK
    NoLostWakeup
    WakeTimesAhead
    SleepsExactly
    SwitchOwed
PROPERTIES
    EmptyOnlyAfterWait
    ImplementsQueue
