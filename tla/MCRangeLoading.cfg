CONSTANTS
    s1 = s1
    s2 = s2
    t1 = t1
    t2 = t2
    t3 = t3
    None = None
    Server <- MCServer
    Task <- MCTask
    ServerOf <- MCServerOf
    NumEpochs = 1
    MaxUpdates = 3
    MaxFailures = 1
SPECIFICATION FairSpec
INVARIANTS LeadersAreExclusive
PROPERTY EveryLoadReturns
CHECK_DEADLOCK FALSE
