\* Changes of passkey and name, with one failing erase.
SPECIFICATION Spec
CONSTANTS
    u1 = u1
    u2 = u2
    k1 = k1
    k2 = k2
    w1 = w1
    w2 = w2
    Blank = Blank
    Torn = Torn
    None = None
    FactoryName = FactoryName
    FactoryPasskey = w1
    Ids <- TwoIds
    Keys <- TwoKeys
    Words <- MCWords
    FirstWord <- MCFirstWord
    Requests <- SettingsRequests
    Times = {1}
    UsersMax = 2
    LastSlot = 3
    DeltaMax = 1
    DeltaProxyMax = 2
    BatteryFails = FALSE
    MaxTime = 2
    MaxFlashFails = 1
INVARIANTS
    TypeOK
    SettingsAgree
    ClockSetWithUsers
