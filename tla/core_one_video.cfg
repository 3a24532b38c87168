SPECIFICATION ObservedSpec
CONSTANTS
    Video = {v1}
    Worker = {w1, w2}
    NoVideo = NoVideo
    MaxSends = 2
    NumFiles = 4
    Master = 3
    MaxCalls = 2
    MaxFaults = 2
SYMMETRY Symmetry
PROPERTIES
    SettledStays
    ImplementsLifecycle
INVARIANTS
    TypeOK
    SafetyInv
    Accounted
    PendingUntouched
    OfferedIsUploaded
    MasterAfterMedia
    SoleJobPlayable
    ReadyUnlessOverlapped
CHECK_DEADLOCK FALSE
