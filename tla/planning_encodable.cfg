SPECIFICATION Spec
CONSTANTS
    Width = {640}
    Height = {240, 359, 360, 720}
    Duration = {0, 1, 5, 6, 10, 999, 1000, 1001, 1009, 1111, 1112, 49999, 50000,
                50001, 50009, 50010, 200000, 1249999, 1250000, 1250001, 36000000}
    NoVideo = NoVideo
    NoDuration = NoDuration
    BadDuration = BadDuration
INVARIANT AlwaysARendition
CHECK_DEADLOCK FALSE
