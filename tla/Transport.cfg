CONSTANTS
    t1 = t1
    t2 = t2
    h1 = h1
    h2 = h2
    None = None
    Topics <- MCTopics
    Handlers <- MCHandlers
    Topic <- MCTopic
    OnConnectStarts = TRUE
    MaxLinks = 2
SPECIFICATION FairSpec
INVARIANT NoLostSubscription
INVARIANT StartedIffConnected
INVARIANT FailedStartIsFinal
PROPERTY EventuallySubscribed
