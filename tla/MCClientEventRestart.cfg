CONSTANTS
    a1 = a1
    a2 = a2
    c1 = c1
    e1 = e1
    s1 = s1
    s2 = s2
    Fresh = Fresh
    NoSlot = NoSlot
    NoCursor = NoCursor
    Scopes <- MCScopes
    Clients <- MCClients
    ScopeOf <- MCScopeOf
    Ids <- MCIds
    Events <- MCEvents
    Slots <- MCSlots
    MaxEvents = 2
    MaxBytes = 2
    MaxJournals = 1
    MaxCursor <- MCCursor
    MaxRuns = 2

SPECIFICATION Spec

INVARIANT ReplayContinues
