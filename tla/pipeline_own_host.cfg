SPECIFICATION Spec
CONSTANTS
    w1 = w1
    w2 = w2
    h1 = h1
    h2 = h2
    Worker = {w1, w2}
    Host = {h1, h2}
    HostOf <- OwnHost
    NumRungs = 4
    Turn <- WriteOrder
    LadderOf <- LadderOfVersion
    MaxPuts = 2
    MaxRuns = 3
    MaxCrashes = 1
INVARIANTS
    ResultIsOwn
    PipelineInv
    NoLeftovers
    OwnWhenClean
PROPERTY ImplementsAtomicRun
CHECK_DEADLOCK FALSE
