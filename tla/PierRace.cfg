SPECIFICATION Spec
CONSTANTS
    c1 = c1
    c2 = c2
    c3 = c3
    u1 = u1
    u2 = u2
    Conns <- ThreeConns
    Users <- TwoUsers
    MaxDesktops = 2
    MaxGrantGen = 2
    MaxNonce = 3
    MaxTime = 2
    Window = 1
    MaxGeneration = 1
    MayStop = FALSE
    NoEntry = NoEntry
    Nobody = Nobody
    NoDesktop = NoDesktop
    NoTime = NoTime
INVARIANTS
    EntryHasOwner
    ResumingIsDriven
    DisplacedIsGone
    AttachedChannelEmpty
    LeaseNamesDesktop
SYMMETRY Symmetry
CHECK_DEADLOCK FALSE
