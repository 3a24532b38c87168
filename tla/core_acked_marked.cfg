SPECIFICATION Spec
CONSTANTS
    Video = {v1}
    Worker = {w1, w2}
    NoVideo = NoVideo
    MaxSends = 2
    NumFiles = 3
    Master = 2
    MaxCalls = 1
    MaxFaults = 1
INVARIANT AckedIsMarked
CHECK_DEADLOCK FALSE
