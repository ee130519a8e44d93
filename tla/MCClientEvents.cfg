CONSTANTS
    a1 = a1
    a2 = a2
    c1 = c1
    e1 = e1
    s1 = s1
    s2 = s2
    Fresh = Fresh
    NoSlot = NoSlot
    NoCursor = NoCursor
    Scopes <- MCScopes
    Clients <- MCClients
    ScopeOf <- MCScopeOf
    Ids <- MCIds
    Events <- MCEvents
    Slots <- MCSlots
    MaxEvents = 2
    MaxBytes = 2
    MaxJournals = 1
    MaxCursor <- MCCursor
    MaxRuns = 2
    ip1 = ip1
    ip2 = ip2
    FrameSizes = {1, 2, 4}
    MaxFrames = 2
    MaxFrameBytes = 3
    MaxPushes = 4
    Sources = {ip1, ip2}
    RateScopes <- MCRateScopes
    MaxOf <- MCMaxOf
    WindowOf <- MCWindowOf
    MaxKeys = 3
    MaxNow = 3

SPECIFICATION EventsSpec

INVARIANTS
    JournalIsTail
    ClientsHearAll
    LimitsHold

PROPERTY GoneAreDetached
CHECK_DEADLOCK FALSE
