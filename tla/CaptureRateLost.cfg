SPECIFICATION FairSpec
CONSTANTS
    N = 1
    Pool = 2
    Attempts = 2
    Cap = 1
    Rates = {"high", "low"}
    StartRate = "high"
    Budget = 1
    Window = 6
    SlowStart = 0
    MaxFaults = 0
    MaxReplaces = 1
    MaxTargets = 1
PROPERTY TargetReaches
CHECK_DEADLOCK FALSE
