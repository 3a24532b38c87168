-------------------------------- MODULE Planner --------------------------------
(***************************************************************************)
(* The planning part of Process (internal/worker/pipeline.go) for one      *)
(* source: ffprobe reports on it, parseProbe (probe.go) makes a MediaInfo  *)
(* of the report or returns an error, and Process plans its renditions,    *)
(* manifest, thumbnail and cues from that.                                 *)
(***************************************************************************)
EXTENDS Planning

CONSTANTS Width, Height,   \* the frame sizes ffprobe can report
          Duration,        \* the durations, in ticks
          NoVideo,         \* a source without a video stream
          NoDuration,      \* a report without a duration
          BadDuration      \* a duration that is no number

ASSUME PlannerAssumption ==
    /\ Width \subseteq Nat
    /\ Height \subseteq Nat
    /\ Duration \subseteq Nat
    /\ NoDuration \notin Nat
    /\ BadDuration \notin Nat
    /\ NoDuration # BadDuration
    /\ NoVideo \notin Width \X Height

VARIABLES probed,   \* what ffprobe reported: a frame size and a duration
          plan      \* what Process made of it

vars == <<probed, plan>>

NoPlan == [kind |-> "none"]
Failed == [kind |-> "failed"]

Init ==
    /\ probed \in [size : (Width \X Height) \cup {NoVideo},
                   duration : Duration \cup {NoDuration, BadDuration}]
    /\ plan = NoPlan

\* parseProbe succeeds.
Parses == probed.size # NoVideo /\ probed.duration # BadDuration

\* MediaInfo; a duration that is not reported is zero.
SourceWidth    == probed.size[1]
SourceHeight   == probed.size[2]
SourceDuration == IF probed.duration = NoDuration THEN 0 ELSE probed.duration

\* What Process plans for a source that parses.
PlanOfSource ==
    LET ladder == LadderFor(SourceHeight, DefaultLadder)
    IN  [kind |-> "planned",
         ladder |-> ladder,
         master |-> BuildMasterPlaylist(ladder),
         thumbnail |-> SeekTo(ThumbnailTimestamp(SourceDuration)),
         cues |-> BuildVTT(SourceDuration, Storyboard)]

Plan ==
    /\ plan = NoPlan
    /\ Parses
    /\ plan' = PlanOfSource
    /\ UNCHANGED probed

ProbeFails ==
    /\ plan = NoPlan
    /\ ~Parses
    /\ plan' = Failed
    /\ UNCHANGED probed

Next == Plan \/ ProbeFails

Spec == Init /\ [][Next]_vars
------------------------------------------------------------------------------
(* Properties *)

Planned == plan.kind = "planned"

\* LadderFor never upscales, keeps every rung that fits, and always leaves one.
LadderFits ==
    Planned =>
        /\ plan.ladder # <<>>
        /\ \A i \in DOMAIN plan.ladder : plan.ladder[i].height <= SourceHeight
        /\ \A i \in DOMAIN DefaultLadder :
              DefaultLadder[i].height <= SourceHeight =>
                  \E j \in DOMAIN plan.ladder : plan.ladder[j] = DefaultLadder[i]

\* The master playlist names each rendition once, the best first, and for a 16:9
\* source advertises the frame the encoder makes: the two roundings to an even
\* width, BuildMasterPlaylist's and scale=-2's, agree.
ManifestMatchesEncoder ==
    Planned =>
        /\ Len(plan.master) = Len(plan.ladder)
        /\ \A i, j \in DOMAIN plan.master : i < j =>
              /\ plan.master[i].uri # plan.master[j].uri
              /\ plan.master[i].bandwidth > plan.master[j].bandwidth
        /\ \A i \in DOMAIN plan.master :
              /\ plan.master[i].uri = plan.ladder[i].name
              /\ SourceHeight > 0 /\ 9 * SourceWidth = 16 * SourceHeight =>
                    plan.master[i].width =
                        EncodedWidth(plan.ladder[i].height, SourceWidth, SourceHeight)

\* ffmpeg seeks to the start, or to a time that leaves a tenth of a second of the
\* video (to the millisecond it is rounded to): never past a very short clip.
ThumbnailInside ==
    Planned => \/ plan.thumbnail = 0
               \/ /\ plan.thumbnail > 0
                  /\ (plan.thumbnail + 100) * Millisecond
                         <= SourceDuration + Millisecond \div 2

\* The cues follow each other without gap or overlap from the start to the end
\* of the video or of the sprite, whichever is first; only one that lasts less
\* than a millisecond is empty.  Each has a tile of its own inside the sprite.
CuesCover ==
    Planned =>
        LET cues == plan.cues
            tiles == DOMAIN cues
            spriteEnd == TileCount(Storyboard) * Storyboard.interval
            end == IF SourceDuration < spriteEnd THEN SourceDuration ELSE spriteEnd
        IN  /\ SourceDuration > 0 => 0 \in tiles /\ cues[0].start = 0
            /\ \A i \in tiles :
                  /\ cues[i].end = IF i + 1 \in tiles THEN cues[i + 1].start
                                                      ELSE VTTTime(end)
                  /\ cues[i].end > cues[i].start
                        \/ SourceDuration - i * Storyboard.interval \in 1..(Millisecond - 1)
                  /\ cues[i].x + 160 <= 5 * 160 /\ cues[i].y + 90 <= 5 * 90
            /\ \A i, j \in tiles : i # j =>
                  <<cues[i].x, cues[i].y>> # <<cues[j].x, cues[j].y>>

\* H.264 with 4:2:0 chroma, what RenditionArgs asks of libx264, has frames of
\* even width and height only.
Encodable(width, height) ==
    width > 0 /\ height > 0 /\ width % 2 = 0 /\ height % 2 = 0

\* ladder.go:21-23, "When the source is shorter than the smallest rung, a single
\* rung matching the source height is returned so there is always at least one
\* rendition": one the encoder can make.
AlwaysARendition ==
    Planned /\ SourceHeight > 0 =>
        \E i \in DOMAIN plan.ladder :
            Encodable(EncodedWidth(plan.ladder[i].height, SourceWidth, SourceHeight),
                      plan.ladder[i].height)
==============================================================================
