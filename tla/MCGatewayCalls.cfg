CONSTANTS
    a1 = a1
    g1 = g1
    g2 = g2
    c1 = c1
    c2 = c2
    c3 = c3
    NoConn = NoConn
    Agents <- MCAgents
    Gateways <- MCGateways
    Credentials <- MCCredentials
    Connections <- MCTwoSlots
    LateFrames = FALSE
    r1 = r1
    r2 = r2
    n1 = n1
    p1 = p1
    u1 = u1
    j1 = j1
    j2 = j2
    f1 = f1
    f2 = f2
    RpcCalls = {r1, r2}
    InParts = {r1}
    NativeCalls = {n1}
    SnapshotCalls = {p1}
    ChunkCount = 2
    MaxTombstones = 1
    MaxLinks = 2
    CronRequests = {u1}
    Jobs = {j1, j2}
    Tokens <- MCTokens
    MaxEdits = 1
    q1 = q1
    t1 = t1
    t2 = t2
    x1 = x1
    x2 = x2
    KanbanRequests = {q1}
    Tasks = {t1, t2}
    Grants <- MCGrants
    MaxMoves = 1
    Features = {x1}
    AvailableFor = 2
    UnavailableFor = 1
    MaxTime = 5
    ValueSizes = {1, 2, 4}
    MaxQueuedItems = 2
    MaxQueuedBytes = 3
    Flushes = {f1, f2}
    MaxValues = 3

SPECIFICATION GatewayCallsSpec

INVARIANTS
    RouteOwnsLiveness
    CallsAddUp
    

PROPERTIES
    SilentRouteEnds
    OutcomeIsFinal
    CallsProgress
CHECK_DEADLOCK FALSE
