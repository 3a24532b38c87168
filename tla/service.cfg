SPECIFICATION FairSpec
CONSTANTS
    Api = {a1, a2, a3}
    Worker = {w1}
    Configured = {a1, a2, w1}
    None = None
    MaxExits = 1
INVARIANTS
    ServiceInv
    UpIsPrepared
    AnswerFits
    LogTellsStatus
    
    WorkIsPrepared
PROPERTY WorkersRun
CHECK_DEADLOCK FALSE
