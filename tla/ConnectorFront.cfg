SPECIFICATION Spec
CONSTANTS
    c1 = c1
    c2 = c2
    u1 = u1
    Everyone = Everyone
    Limiters = {"tool", "write", "consent", "register", "total", "oauth"}
    Subjects = {u1, Everyone}
    MaxPerMinute <- Settings
    MaxTrackedKeys = 1
    Minute = 2
    MaxTime = 3
    Users = {u1}
    Calls = {c1, c2}
    CacheTTL = 2
    DenialTTL = 1
    MaxCached = 1
    MaxLookup = 1
    AllowlistEnabled = TRUE
    MaxDecisions = 1
    MaxBody = 1
    RefreshTTL = 1
    ConfiguredClientTTL = 4
    UnusedTTL = 1
    MaxRun = 1
    CollectLag = 2
    Mixes <- TwoHalves
SYMMETRY AnyCall
INVARIANTS
    BurstsSpaced
    AnsweredOnce
    ClientOutlivesTokens
PROPERTIES
    RevocationLands
CHECK_DEADLOCK FALSE
