CONSTANTS
    s1 = s1
    s2 = s2
    None = None
    Server <- MCServer
    MaxEntries = 2
    MaxFailures = 1
    MaxCrashes = 1
SPECIFICATION FairSpec
INVARIANTS NoHoles AckedUnlessFailed
PROPERTY EveryAppendAnswered
