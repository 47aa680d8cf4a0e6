CONSTANTS
    c1 = c1
    c2 = c2
    r1 = r1
    p1 = p1
    s1 = s1
    s2 = s1
    None = None
    MCCalls = {c1, c2}
    MCRouters = {}
    MCPeerCalls = {}
    Calls <- MCCalls
    Routers <- MCRouters
    PeerCalls <- MCPeerCalls
    Services <- MCServices
    Svc <- MCSvc
    Topics <- MCTopics
    Handlers <- MCHandlers
    Topic <- MCTopic
    OnConnectStarts = FALSE
    MaxLinks = 2
    Serial = FALSE
SPECIFICATION RpcSpec
INVARIANT ReplyProvenance
INVARIANT SignalConservation
INVARIANT ReplyPathReady
PROPERTY ImplementsCallService
SYMMETRY MCSymmetry
CHECK_DEADLOCK FALSE
