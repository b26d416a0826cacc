SPECIFICATION HostSpec
CONSTANTS
    Sessions = {s1, s2, s3}
    MaxTracked = 2
    Absent = Absent
    Publishers = {"installer", "macos"}
    MaxIssued = 2
    MaxCrashes = 2
    MaxFaults = 1
    None = None
    Zones = {z1, z2, z3}
    FirstZone = z1
    Watchdogs = {w1, w2}
    MaxBoots = 2
    MaxRedirects = 2
    MaxZoneChanges = 1
    MaxZoneFaults = 1
    MaxCommands = 0
    Overlap = FALSE
INVARIANTS
    ConfirmedStaysTracked
    RecoveryNeverBlocked
    RedirectIsJournalled
    RestoredMeansRestored
PROPERTIES
    PublishesAtomically
    CrashIsRepaired
    EventuallyPlaced
CHECK_DEADLOCK FALSE
