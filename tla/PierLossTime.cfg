SPECIFICATION Spec
CONSTANTS
    c1 = c1
    c2 = c2
    c3 = c3
    u1 = u1
    u2 = u2
    Conns <- TwoConns
    Users = {u1}
    MaxDesktops = 1
    MaxGrantGen = 2
    MaxNonce = 2
    MaxTime = 1
    Window = 1
    MaxGeneration = 1
    MayStop = FALSE
    NoEntry = NoEntry
    Nobody = Nobody
    NoDesktop = NoDesktop
    NoTime = NoTime
INVARIANT LossCarriesItsTime
CHECK_DEADLOCK FALSE
