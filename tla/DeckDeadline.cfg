SPECIFICATION DeckSpec
CONSTANTS
    HostWindows = {0, 3, 5}
    MaxReconnectWindow = 4
    FirstBackoff = 1
    MaxBackoff = 2
    MaxConnections = 2
    MaxGrants = 4
    MaxClock = 10
    NoController = NoController
INVARIANT
    ResumeClearsDeadline
