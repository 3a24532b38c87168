SPECIFICATION MCSpec
CONSTANTS
    Job = {j1, j2}
    Consumer = {c1, c2}
    MaxSends = 4
    MaxEntries = 4
INVARIANTS
    StreamTypeOK
    HeldInv
PROPERTIES
    NeverRedelivered
    ImplementsFifo
CHECK_DEADLOCK FALSE
