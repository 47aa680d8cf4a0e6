CONSTANTS
    c1 = c1
    c2 = c2
    r1 = r1
    p1 = p1
    s1 = s1
    s2 = s2
    None = None
    MCCalls = {c1}
    MCRouters = {r1}
    MCPeerCalls = {p1}
    Calls <- MCCalls
    Routers <- MCRouters
    PeerCalls <- MCPeerCalls
    Services <- MCServices
    Svc <- MCSvc
    Topics <- MCTopics
    Handlers <- MCHandlers
    Topic <- MCTopic
    OnConnectStarts = FALSE
    MaxLinks = 2
    Serial = FALSE
SPECIFICATION MCFairSpec
INVARIANT AnsweredOnce
PROPERTY InvokeReturns
CHECK_DEADLOCK FALSE
