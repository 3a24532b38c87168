SPECIFICATION Spec
CONSTANTS
    Width = {2, 256, 320, 480, 638, 639, 640, 848, 1080, 1280, 1920, 3840}
    Height = {0, 1, 2, 90, 144, 180, 240, 359, 360, 361, 477, 479, 480, 481,
              719, 720, 721, 1079, 1080, 1081, 1920, 2160}
    Duration = {0, 1, 5, 6, 10, 999, 1000, 1001, 1009, 1111, 1112, 49999, 50000,
                50001, 50009, 50010, 200000, 1249999, 1250000, 1250001, 36000000}
    NoVideo = NoVideo
    NoDuration = NoDuration
    BadDuration = BadDuration
INVARIANTS
    LadderFits
    ManifestMatchesEncoder
    ThumbnailInside
    CuesCover
CHECK_DEADLOCK FALSE
