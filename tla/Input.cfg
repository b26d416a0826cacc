SPECIFICATION InputSpec
CONSTANTS
    k = k
    m = m
    button = button
    s1 = s1
    s2 = s2
    Keys = {k, m}
    Mods = {m}
    Injectors = {1, 2}
    QueueCap = 2
    MaxAttempts = 2
    MaxEvents = 3
    MaxBreaks = 1
    MaxReconfigs = 0
    MaxConns = 3
    MaxFaults = 0
    Kinds = {"abs", "region", "rel", "button", "reset"}
    KeyCodes = {k}
    Buttons = {button}
    Strokes = {}
    MaxDelta = 2
    Cap = 2
    LaneCap = 1
    MaxRecords = 4
    MaxFails = 1
INVARIANTS
    EdgesKept
    EdgesLand
    MirrorAgrees
    EndedHoldsNothing
PROPERTY Heals
CHECK_DEADLOCK FALSE
