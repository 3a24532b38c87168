SPECIFICATION FairSpec
CONSTANTS
    Video = {v1, v2}
    Worker = {w1, w2}
    NoVideo = NoVideo
    MaxSends = 2
    NumFiles = 2
    Master = 2
    MaxCalls = 1
    MaxFaults = 1
INVARIANTS
    Accounted
    OneVideoPerFault
    SoleJobPlayable
PROPERTY StreamDrains
CHECK_DEADLOCK FALSE
