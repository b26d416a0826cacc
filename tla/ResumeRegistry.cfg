SPECIFICATION Spec
CONSTANTS
    Sessions = {s1, s2}
    Holders = {h1, h2}
    Owners = {o1}
    MaxGrantGen = 3
    MaxNonce = 4
    NoEntry = NoEntry
    Nobody = Nobody
INVARIANTS
    GrantsAreOneTime
    OnlyNewestTwoEndSession
PROPERTIES
    ImplementsAuthority
