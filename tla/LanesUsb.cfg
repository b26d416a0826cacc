SPECIFICATION LanesSpec
CONSTANTS
    c1 = c1
    i1 = i1
    Control = {c1}
    Interrupt = {i1}
    Limit = 2
    MaxIds = 3
    MaxResets = 0
    MaxStops = 0
    Roles = {"input", "video"}
    MaxGen = 5
    MaxFrames = 1
    MaxFaults = 4
    HostWrites = TRUE
INVARIANTS
    StopsOnlyWhenExhausted
    OwedOnce
PROPERTIES
    FramesNeverGoBack
    RoleRecovers
    UrbsReturnUncut
CHECK_DEADLOCK FALSE
