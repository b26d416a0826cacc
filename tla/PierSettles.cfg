SPECIFICATION FairSpec
CONSTANTS
    c1 = c1
    c2 = c2
    c3 = c3
    u1 = u1
    u2 = u2
    Conns <- TwoConns
    Users <- TwoUsers
    MaxDesktops = 1
    MaxGrantGen = 2
    MaxNonce = 2
    MaxTime = 1
    Window = 1
    MaxGeneration = 1
    MayStop = TRUE
    NoEntry = NoEntry
    Nobody = Nobody
    NoDesktop = NoDesktop
    NoTime = NoTime
INVARIANTS
    SlotHasHolder
    ShutdownIsClean
PROPERTY EveryTaskSettles
CHECK_DEADLOCK FALSE
