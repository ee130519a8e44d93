SPECIFICATION Spec
CONSTANTS
    a1 = a1
    g1 = g1
    g2 = g2
    c1 = c1
    c2 = c2
    c3 = c3
    NoConn = NoConn
    Agents <- MCAgents
    Gateways <- MCGateways
    Credentials <- MCCredentials
    Connections <- MCTwoSlots
    LateFrames = TRUE
INVARIANT RouteOwnsLiveness
