SPECIFICATION Spec
CONSTANTS
    w1 = w1
    w2 = w2
    h1 = h1
    h2 = h2
    Worker = {w1, w2}
    Host = {h1}
    HostOf <- SharedHost
    NumRungs = 4
    Turn <- WriteOrder
    LadderOf <- LadderOfVersion
    MaxPuts = 2
    MaxRuns = 2
    MaxCrashes = 0
INVARIANT PerJobDirs
CHECK_DEADLOCK FALSE
