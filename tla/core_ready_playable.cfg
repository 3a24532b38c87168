SPECIFICATION Spec
CONSTANTS
    Video = {v1}
    Worker = {w1, w2}
    NoVideo = NoVideo
    MaxSends = 2
    NumFiles = 3
    Master = 2
    MaxCalls = 2
    MaxFaults = 0
INVARIANT ReadyIsPlayable
CHECK_DEADLOCK FALSE
