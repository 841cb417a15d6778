SPECIFICATION FairSpec
CONSTANTS
    Transaction = {t1, t2}
    Key = {k}
    None = None
    Rpcs = {"start", "get", "put", "delete", "abort", "commit", "read_modify_write"}
    MaxRequests = 4
    MaxDrops = 1
    MAX_SAMPLES = 1
INVARIANTS OneOutcome NothingAfterPrepare ClientsCounted
PROPERTY EveryRequestAnswered
