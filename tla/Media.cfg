SPECIFICATION MediaSpec
CONSTANTS
    b1 = b1
    b2 = b2
    None = None
    Capacity = 3
    MaxEpochs = 3
    MaxTries = 1
    N = 1
    Pool = 3
    Attempts = 1
    Cap = 1
    Rates = {"high", "low"}
    StartRate = "high"
    Budget = 1
    Window = 2
    SlowStart = 0
    MaxFaults = 1
    MaxReplaces = 1
    MaxTargets = 1
INVARIANTS
    Decodable
    EndedLeavesNone
PROPERTIES
    DamageNamesEveryChange
    Recovers
    BuffersReturn
    CaptureResumesOrEnds
CHECK_DEADLOCK FALSE
