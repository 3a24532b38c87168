SPECIFICATION FairSpec
CONSTANTS
    Video = {v1}
    Worker = {w1, w2}
    NoVideo = NoVideo
    MaxSends = 2
    NumFiles = 2
    Master = 2
    MaxCalls = 2
    MaxFaults = 2
PROPERTIES
    SettledOrGivenUp
    EverySettles
CHECK_DEADLOCK FALSE
