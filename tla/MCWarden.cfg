CONSTANTS
    s1 = s1
    s2 = s2
    r1 = r1
    r2 = r2
    None = None
    Server <- MCServer
    Rank <- MCRank
    RangeId <- MCRangeId
    MaxVersion = 2
    MaxEpoch = 2
    MaxFailures = 1
SPECIFICATION Spec
INVARIANTS NoRangeLost Synchronised StaysRegistered
CHECK_DEADLOCK FALSE
SYMMETRY RangeSymmetry
