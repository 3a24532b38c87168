SPECIFICATION MCFairSpec
CONSTANTS
    Job = {j1, j2}
    Consumer = {c1, c2}
    MaxSends = 4
    MaxEntries = 4
PROPERTY AtLeastOnce
CHECK_DEADLOCK FALSE
