CONSTANTS
    t1 = t1
    t2 = t2
    t3 = t3
    k1 = k1
    None = None
    Transaction <- MCTransaction
    Key <- MCKey
    MaxCommits = 3
    StorageDeletes = TRUE
    FetchMayFail = TRUE
SPECIFICATION FairSpec
INVARIANTS FreshUnlessRaced NoPanic
PROPERTY EveryPrefetchReturns
