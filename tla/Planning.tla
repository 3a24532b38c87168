------------------------------- MODULE Planning -------------------------------
(***************************************************************************)
(* What Process plans from the height and the duration of a source: the    *)
(* ladder and the master playlist (internal/ffmpeg/ladder.go, manifest.go),*)
(* the capture time of the thumbnail (thumbnail.go), and the cues that map *)
(* time to tiles of the storyboard sprite (preview.go).                    *)
(*                                                                         *)
(* Bit rates that only go into ffmpeg's arguments are left out.  Seconds,  *)
(* floats in the code, are the whole ticks of a tenth of a millisecond     *)
(* that have passed: 5.001 s, whose float is a little less, is 50009.      *)
(***************************************************************************)
EXTENDS Integers, Sequences

Rendition(name, height, bandwidth) ==
    [name |-> name, height |-> height, bandwidth |-> bandwidth]

DefaultLadder ==
    <<Rendition("1080p", 1080, 5500000), Rendition("720p", 720, 3000000),
      Rendition("480p", 480, 1600000),   Rendition("360p", 360, 900000)>>

\* The loop of LadderFor: out after the first n rungs, those no taller than the
\* source.  (SelectSeq spelled out, so that it can be reasoned about.)
Fitting(sourceHeight, ladder) ==
    LET out[n \in 0..Len(ladder)] ==
            IF n = 0 THEN <<>>
            ELSE IF ladder[n].height <= sourceHeight THEN Append(out[n - 1], ladder[n])
            ELSE out[n - 1]
    IN  out

\* [variant] The last rung is taken as it is when none fits.
LadderAtLeastLast(sourceHeight, ladder) ==
    LET out == Fitting(sourceHeight, ladder)[Len(ladder)]
    IN  IF out = <<>> /\ ladder # <<>> THEN <<ladder[Len(ladder)]>> ELSE out

\* The rungs no taller than the source; with none, the last one at the height of
\* the source.
LadderFor(sourceHeight, ladder) ==
    LET out == Fitting(sourceHeight, ladder)[Len(ladder)]
    IN  IF out = <<>> /\ ladder # <<>>
        THEN <<[ladder[Len(ladder)] EXCEPT !.height = sourceHeight]>>
        ELSE out

\* [variant] The width is rounded down to an even one.
AdvertisedWidthDown(height) ==
    LET width == (height * 16) \div 9 IN width - (width % 2)

\* The width BuildMasterPlaylist writes into RESOLUTION: 16:9, rounded down and
\* then up to an even number.
AdvertisedWidth(height) ==
    LET width == (height * 16) \div 9 IN width + (width % 2)

\* One variant per rendition, in their order.
BuildMasterPlaylist(renditions) ==
    [i \in DOMAIN renditions |->
        [uri |-> renditions[i].name, bandwidth |-> renditions[i].bandwidth,
         width |-> AdvertisedWidth(renditions[i].height),
         height |-> renditions[i].height]]

\* What ffmpeg makes of scale=-2:<height>, the scaling RenditionArgs asks for: the
\* width next to the source's aspect ratio that is a multiple of two.
EncodedWidth(height, sourceWidth, sourceHeight) ==
    2 * ((height * sourceWidth + sourceHeight) \div (2 * sourceHeight))
------------------------------------------------------------------------------
Second == 10000          \* in ticks
Millisecond == 10

\* [variant] The capture time is ten percent of the duration, uncapped.
TenPercent(duration) == duration

\* ThumbnailTimestamp, in tenths of a tick: ten percent of the duration, but no
\* later than a tenth of a second before the end, and not negative.
ThumbnailTimestamp(duration) ==
    LET at == duration
        cap == 10 * duration - Second
    IN  IF duration <= 0 \/ cap < 0 THEN 0 ELSE IF at > cap THEN cap ELSE at

\* ThumbnailArgs gives ffmpeg this time in seconds with three decimals: rounded
\* to milliseconds.
SeekTo(at) == (at + 50) \div 100

\* DefaultStoryboard
Storyboard == [interval |-> 5 * Second, tileWidth |-> 160, tileHeight |-> 90,
               cols |-> 5, rows |-> 5]
TileCount(s) == s.cols * s.rows

\* formatVTTTime keeps the whole milliseconds.
VTTTime(t) == t \div Millisecond

\* The cue for tile i.
Cue(i, duration, s) ==
    LET start == i * s.interval
        end == start + s.interval
    IN  [start |-> VTTTime(start),
         end |-> VTTTime(IF end > duration THEN duration ELSE end),
         x |-> (i % s.cols) * s.tileWidth,
         y |-> (i \div s.cols) * s.tileHeight]

\* [variant] A tile that starts with the end of the video still gets a cue.
CueTilesToEnd(duration, s) ==
    {i \in 0..(TileCount(s) - 1) : i * s.interval <= duration}

\* The tiles that get a cue: BuildVTT stops at the first that starts after the
\* end.
CueTiles(duration, s) == {i \in 0..(TileCount(s) - 1) : i * s.interval < duration}

\* BuildVTT: the cues, by tile.
BuildVTT(duration, s) == [i \in CueTiles(duration, s) |-> Cue(i, duration, s)]
==============================================================================
