SPECIFICATION Spec
CONSTANTS
    Control = {c1}
    Interrupt = {i1}
    Limit = 2
    MaxIds = 3
    MaxResets = 0
    MaxStops = 0
INVARIANTS TombstonesClear
CHECK_DEADLOCK FALSE
