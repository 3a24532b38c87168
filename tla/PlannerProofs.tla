----------------------------- MODULE PlannerProofs -----------------------------
(***************************************************************************)
(* Theorems about Planner, for sources of every size and duration.  A plan *)
(* is what PlanOfSource makes of the report (PlanInv); the rest is         *)
(* arithmetic on what the helpers of Planning return, and an induction     *)
(* over the loop of LadderFor, for every ladder it can be given.           *)
(***************************************************************************)
EXTENDS Planner, TLAPS, WellFoundedInduction

PlanInv ==
    /\ probed \in [size : (Width \X Height) \cup {NoVideo},
                   duration : Duration \cup {NoDuration, BadDuration}]
    /\ Planned => Parses /\ plan = PlanOfSource

LEMMA PlanInvHolds == Spec => []PlanInv
<1>1. Init => PlanInv
  BY DEF Init, PlanInv, Planned, NoPlan
<1>2. PlanInv /\ [Next]_vars => PlanInv'
  <2> SUFFICES ASSUME PlanInv, [Next]_vars PROVE PlanInv'
    OBVIOUS
  <2>1. CASE Plan
    <3>1. probed' = probed /\ Parses /\ plan' = PlanOfSource
      BY <2>1 DEF Plan
    <3>2. Parses' /\ PlanOfSource' = PlanOfSource
      BY <3>1 DEF Parses, PlanOfSource, SourceHeight, SourceDuration
    <3> QED
      BY <3>1, <3>2 DEF PlanInv
  <2>2. CASE ProbeFails
    BY <2>2 DEF ProbeFails, PlanInv, Planned, Failed
  <2>3. CASE UNCHANGED vars
    <3>1. probed' = probed /\ plan' = plan
      BY <2>3 DEF vars
    <3> QED
      BY <3>1 DEF PlanInv, Planned, Parses, PlanOfSource, SourceHeight, SourceDuration
  <2> QED
    BY <2>1, <2>2, <2>3 DEF Next
<1> QED
  BY <1>1, <1>2, PTL DEF Spec

\* The duration of a source that parses is a number of ticks.
LEMMA DurationType == PlanInv /\ Planned => SourceDuration \in Nat
BY PlannerAssumption DEF PlanInv, Parses, SourceDuration

\* The capture time leaves a tenth of a second, in tenths of a tick.
LEMMA CaptureTime ==
    ASSUME NEW d \in Nat
    PROVE  LET at == ThumbnailTimestamp(d)
           IN  at \in Nat /\ (at = 0 \/ at + 10000 <= 10 * d)
BY DEF ThumbnailTimestamp, Second

\* Rounding to milliseconds adds half of one at most.
LEMMA Rounding ==
    ASSUME NEW t \in Nat
    PROVE  SeekTo(t) \in Nat /\ 100 * SeekTo(t) <= t + 50 /\ (t = 0 => SeekTo(t) = 0)
BY DEF SeekTo

\* ffmpeg is never asked for a thumbnail past the end of the video
\* (ThumbnailTimestamp, thumbnail.go), however short it is.
THEOREM ThumbnailCorrect == Spec => []ThumbnailInside
<1>1. PlanInv => ThumbnailInside
  <2> SUFFICES ASSUME PlanInv, Planned PROVE ThumbnailInside
    BY DEF ThumbnailInside
  <2> DEFINE d == SourceDuration
             at == ThumbnailTimestamp(d)
  <2>1. d \in Nat
    BY DurationType
  <2>2. at \in Nat /\ (at = 0 \/ at + 10000 <= 10 * d)
    BY <2>1, CaptureTime
  <2>3. SeekTo(at) \in Nat /\ 100 * SeekTo(at) <= at + 50 /\ (at = 0 => SeekTo(at) = 0)
    BY <2>2, Rounding
  <2>4. plan.thumbnail = SeekTo(at)
    BY DEF PlanInv, PlanOfSource
  <2> HIDE DEF d, at
  <2>5. \/ SeekTo(at) = 0
        \/ SeekTo(at) > 0 /\ (SeekTo(at) + 100) * 10 <= d + 5
    BY <2>1, <2>2, <2>3
  <2> QED
    BY <2>4, <2>5 DEF ThumbnailInside, Millisecond, d
<1> QED
  BY <1>1, PlanInvHolds, PTL
------------------------------------------------------------------------------
(* The storyboard *)

\* The numbers of DefaultStoryboard, in ticks and pixels.
LEMMA StoryboardNumbers ==
    /\ Storyboard.interval = 50000 /\ Storyboard.tileWidth = 160
    /\ Storyboard.tileHeight = 90 /\ Storyboard.cols = 5 /\ Storyboard.rows = 5
    /\ TileCount(Storyboard) = 25
BY DEF Storyboard, TileCount, Second

\* Which tiles get a cue, and what is in it.
CuesAre(cues, d) ==
    /\ DOMAIN cues = {i \in 0..24 : i * 50000 < d}
    /\ \A i \in DOMAIN cues :
          /\ cues[i].start = (i * 50000) \div 10
          /\ cues[i].end = (IF i * 50000 + 50000 > d THEN d
                            ELSE i * 50000 + 50000) \div 10
          /\ cues[i].x = (i % 5) * 160 /\ cues[i].y = (i \div 5) * 90

LEMMA CuesOf == \A d \in Nat : CuesAre(BuildVTT(d, Storyboard), d)
<1> SUFFICES ASSUME NEW d \in Nat, NEW cues, cues = BuildVTT(d, Storyboard)
             PROVE  CuesAre(cues, d)
  OBVIOUS
<1>1. CueTiles(d, Storyboard) = {i \in 0..24 : i * 50000 < d}
  BY StoryboardNumbers DEF CueTiles
<1>2. ASSUME NEW i \in 0..24
      PROVE  LET c == Cue(i, d, Storyboard)
             IN  /\ c.start = (i * 50000) \div 10
                 /\ c.end = (IF i * 50000 + 50000 > d THEN d
                             ELSE i * 50000 + 50000) \div 10
                 /\ c.x = (i % 5) * 160 /\ c.y = (i \div 5) * 90
  BY StoryboardNumbers DEF Cue, VTTTime, Millisecond
<1>3. /\ DOMAIN cues = CueTiles(d, Storyboard)
      /\ \A i \in DOMAIN cues : cues[i] = Cue(i, d, Storyboard)
  BY DEF BuildVTT
<1> QED
  BY <1>1, <1>2, <1>3 DEF CuesAre

\* A tile's place in the sprite, and no other tile's.
LEMMA TilePlaces ==
    \A i, j \in 0..24 :
        /\ (i % 5) * 160 + 160 <= 800 /\ (i \div 5) * 90 + 90 <= 450
        /\ i # j => (i % 5) * 160 # (j % 5) * 160 \/ (i \div 5) * 90 # (j \div 5) * 90
OBVIOUS

\* Times in milliseconds: a cue starts at a whole one, and ends with the video,
\* with the next cue or with the sprite.
LEMMA CueTimes ==
    ASSUME NEW d \in Nat, NEW i \in 0..24, i * 50000 < d
    PROVE  LET end == IF i * 50000 + 50000 > d THEN d ELSE i * 50000 + 50000
           IN  /\ end \div 10 > (i * 50000) \div 10 \/ d - i * 50000 \in 1..9
               /\ i < 24 /\ (i + 1) * 50000 < d => end = (i + 1) * 50000
               /\ ~(i < 24 /\ (i + 1) * 50000 < d) =>
                     end = IF d < 1250000 THEN d ELSE 1250000
<1> DEFINE end == IF i * 50000 + 50000 > d THEN d ELSE i * 50000 + 50000
<1>1. /\ i < 24 /\ (i + 1) * 50000 < d => end = (i + 1) * 50000
      /\ ~(i < 24 /\ (i + 1) * 50000 < d) => end = IF d < 1250000 THEN d ELSE 1250000
  OBVIOUS
<1>2. end \div 10 > (i * 50000) \div 10 \/ d - i * 50000 \in 1..9
  <2>1. (i * 50000) \div 10 = i * 5000
    OBVIOUS
  <2>2. end \in Nat /\ end > i * 50000 /\ (end = d \/ end >= i * 50000 + 50000)
    OBVIOUS
  <2> HIDE DEF end
  <2>3. end < i * 50000 + 10 \/ end \div 10 >= i * 5000 + 1
    BY <2>2
  <2> QED
    BY <2>1, <2>2, <2>3
<1> QED
  BY <1>1, <1>2

\* The cues of BuildVTT tile the time up to the end of the video or of the
\* sprite, each with a tile of its own, for every duration.
THEOREM CuesCorrect == Spec => []CuesCover
<1>1. PlanInv => CuesCover
  <2> SUFFICES ASSUME PlanInv, Planned PROVE CuesCover
    BY DEF CuesCover
  <2> DEFINE d == SourceDuration
             cues == plan.cues
             finish == IF d < 1250000 THEN d ELSE 1250000
  <2>1. d \in Nat /\ cues = BuildVTT(d, Storyboard)
    BY DurationType DEF PlanInv, PlanOfSource
  <2> HIDE DEF d, cues
  <2>2. CuesAre(cues, d)
    BY <2>1, CuesOf
  <2>3. d > 0 => 0 \in DOMAIN cues /\ cues[0].start = 0
    BY <2>1, <2>2 DEF CuesAre
  <2>4. ASSUME NEW i \in DOMAIN cues
        PROVE  /\ cues[i].end = IF i + 1 \in DOMAIN cues THEN cues[i + 1].start
                                                         ELSE finish \div 10
               /\ cues[i].end > cues[i].start \/ d - i * 50000 \in 1..9
    <3>1. i \in 0..24 /\ i * 50000 < d
      BY <2>2 DEF CuesAre
    <3>2. i + 1 \in DOMAIN cues <=> i < 24 /\ (i + 1) * 50000 < d
      BY <2>2, <3>1 DEF CuesAre
    <3>3. CASE i + 1 \in DOMAIN cues
      BY <2>1, <2>2, <3>1, <3>2, <3>3, CueTimes DEF CuesAre
    <3>4. CASE i + 1 \notin DOMAIN cues
      BY <2>1, <2>2, <3>1, <3>2, <3>4, CueTimes DEF CuesAre
    <3> QED
      BY <3>3, <3>4
  <2>5. \A i \in DOMAIN cues : cues[i].x + 160 <= 5 * 160 /\ cues[i].y + 90 <= 5 * 90
    BY <2>2, TilePlaces DEF CuesAre
  <2>6. \A i, j \in DOMAIN cues : i # j => <<cues[i].x, cues[i].y>> # <<cues[j].x, cues[j].y>>
    BY <2>2, TilePlaces DEF CuesAre
  <2> QED
    BY <2>3, <2>4, <2>5, <2>6, StoryboardNumbers
       DEF CuesCover, VTTTime, Millisecond, cues, d
<1> QED
  BY <1>1, PlanInvHolds, PTL
------------------------------------------------------------------------------
(* The master playlist *)

\* A quotient is where its multiples put it.
LEMMA Quotient ==
    ASSUME NEW n \in Nat, NEW b \in Nat, b > 0, NEW m \in Nat,
           m * b <= n, n < m * b + b
    PROVE  n \div b = m
<1>1. PICK q \in Nat, r \in Nat : n = q * b + r /\ r < b /\ n \div b = q
  BY SMT
<1>2. ~(q < m)
  <2>1. q < m => q * b + b <= m * b
    BY SMT
  <2> QED
    BY <1>1, <2>1
<1>3. ~(m < q)
  <2>1. m < q => m * b + b <= q * b
    BY SMT
  <2> QED
    BY <1>1, <2>1
<1> QED
  BY <1>1, <1>2, <1>3

\* For a 16:9 source of any size and a rendition of any height the width that
\* BuildMasterPlaylist advertises is the width scale=-2 makes.
THEOREM WidthsAgree ==
    ASSUME NEW width \in Nat, NEW height \in Nat, height > 0, 9 * width = 16 * height,
           NEW rung \in Nat
    PROVE  AdvertisedWidth(rung) = EncodedWidth(rung, width, height)
<1> DEFINE w == (rung * 16) \div 9
           r == (rung * 16) % 9
           n == rung * width + height
<1>1. w \in Nat /\ r \in 0..8 /\ rung * 16 = 9 * w + r
  OBVIOUS
<1>2. PICK m \in Nat : (w = 2 * m /\ w % 2 = 0) \/ (w = 2 * m - 1 /\ w % 2 = 1)
  <2> HIDE DEF w
  <2>1. (w + 1) \div 2 \in Nat
    BY <1>1
  <2>2. LET m == (w + 1) \div 2
        IN  (w = 2 * m /\ w % 2 = 0) \/ (w = 2 * m - 1 /\ w % 2 = 1)
    BY <1>1
  <2> QED
    BY <2>1, <2>2
<1>3. AdvertisedWidth(rung) = 2 * m
  BY <1>1, <1>2 DEF AdvertisedWidth
<1>4. n \in Nat /\ 9 * n = height * (rung * 16 + 9)
  <2>1. rung * (9 * width) = rung * (16 * height)
    OBVIOUS
  <2>2. rung * (9 * width) = 9 * (rung * width)
    OBVIOUS
  <2>3. rung * (16 * height) = height * (rung * 16)
    OBVIOUS
  <2>4. height * (rung * 16 + 9) = height * (rung * 16) + 9 * height
    OBVIOUS
  <2> QED
    BY <2>1, <2>2, <2>3, <2>4
<1>5. 18 * m <= rung * 16 + 9 /\ rung * 16 + 9 < 18 * m + 18
  BY <1>1, <1>2
<1>6. height * (18 * m) <= 9 * n /\ 9 * n < height * (18 * m + 18)
  <2> DEFINE t == rung * 16 + 9
  <2>1. t \in Nat /\ 18 * m <= t /\ t < 18 * m + 18 /\ 9 * n = height * t
    BY <1>4, <1>5
  <2> HIDE DEF t, n
  <2>2. \A a, b \in Nat : a <= b => height * a <= height * b
    BY SMT
  <2>3. \A a, b \in Nat : a < b => height * a < height * b
    BY SMT
  <2> QED
    BY <2>1, <2>2, <2>3
<1>7. m * (2 * height) <= n /\ n < m * (2 * height) + 2 * height
  <2>1. height * (18 * m) = 9 * (m * (2 * height))
    OBVIOUS
  <2>2. height * (18 * m + 18) = 9 * (m * (2 * height)) + 18 * height
    OBVIOUS
  <2> HIDE DEF n
  <2> QED
    BY <1>4, <1>6, <2>1, <2>2
<1>8. n \div (2 * height) = m
  BY <1>4, <1>7, Quotient
<1> QED
  BY <1>3, <1>8 DEF EncodedWidth
------------------------------------------------------------------------------
(* The ladder *)

\* Every set of naturals with a member has a least one.
LEMMA LeastNatural ==
    ASSUME NEW T \in SUBSET Nat, T # {}
    PROVE  \E n \in T : \A m \in T : n <= m
<1>1. PICK R : /\ IsWellFoundedOn(R, Nat)
                /\ \A x, y \in Nat : <<y, x>> \in R <=> y < x
  <2>1. \A x, y \in Nat : <<y, x>> \in OpToRel(<, Nat) <=> y < x
    BY Zenon DEF OpToRel
  <2> QED BY <2>1, NatLessThanWellFounded, Zenon
<1>2. PICK x \in T : \A y \in T : ~(<<y, x>> \in R)
  BY <1>1, WFMin
<1>3. \A y \in T : ~(y < x)
  BY <1>1, <1>2
<1> QED
  BY <1>3

\* A set that has zero and the successor of each member has every natural.
LEMMA Induction ==
    ASSUME NEW P, 0 \in P, \A n \in Nat : n \in P => n + 1 \in P
    PROVE  \A n \in Nat : n \in P
<1> DEFINE T == {n \in Nat : n \notin P}
<1> SUFFICES ASSUME T # {} PROVE FALSE
  OBVIOUS
<1>1. PICK n \in T : \A m \in T : n <= m
  <2>1. T \in SUBSET Nat OBVIOUS
  <2> QED BY <2>1, LeastNatural
<1>2. n # 0 /\ n - 1 \in Nat /\ n - 1 \notin T
  BY <1>1
<1>3. (n - 1) + 1 \in P
  BY <1>2
<1> QED
  BY <1>1, <1>3

\* The loop over the first n rungs.
LoopStep(g, h, s, i) ==
    IF i = 0 THEN <<>>
    ELSE IF s[i].height <= h THEN Append(g[i - 1], s[i]) ELSE g[i - 1]

LEMMA LoopDefined ==
    ASSUME NEW R, NEW s \in Seq(R), NEW h
    PROVE  Fitting(h, s) = [i \in 0..Len(s) |-> LoopStep(Fitting(h, s), h, s, i)]
<1> DEFINE P == {n \in Nat : \E g : g = [i \in 0..n |-> LoopStep(g, h, s, i)]}
<1>1. 0 \in P
  <2>1. [i \in 0..0 |-> <<>>] = [i \in 0..0 |-> LoopStep([k \in 0..0 |-> <<>>], h, s, i)]
    BY DEF LoopStep
  <2> QED BY <2>1
<1>2. ASSUME NEW n \in Nat, n \in P PROVE n + 1 \in P
  <2>1. PICK g : g = [i \in 0..n |-> LoopStep(g, h, s, i)]
    BY <1>2
  <2> DEFINE f == [i \in 0..(n + 1) |-> IF i <= n THEN g[i] ELSE LoopStep(g, h, s, n + 1)]
  <2>2. ASSUME NEW i \in 0..(n + 1)
        PROVE  f[i] = LoopStep(f, h, s, i)
    <3>1. CASE i = 0
      BY <2>1, <3>1 DEF LoopStep
    <3>2. CASE i # 0 /\ i <= n
      <4>1. f[i] = g[i] /\ f[i - 1] = g[i - 1] /\ i \in 0..n
        BY <3>2
      <4>2. g[i] = LoopStep(g, h, s, i)
        BY <2>1, <4>1
      <4> QED BY <3>2, <4>1, <4>2 DEF LoopStep
    <3>3. CASE i = n + 1
      <4>1. f[i] = LoopStep(g, h, s, i) /\ f[i - 1] = g[i - 1]
        BY <3>3
      <4> QED BY <3>3, <4>1 DEF LoopStep
    <3> QED BY <3>1, <3>2, <3>3
  <2>3. f = [i \in 0..(n + 1) |-> f[i]]
    OBVIOUS
  <2>4. f = [i \in 0..(n + 1) |-> LoopStep(f, h, s, i)]
    <3> HIDE DEF f
    <3> QED BY <2>2, <2>3
  <2> HIDE DEF f
  <2> QED BY <2>4
<1>3. Len(s) \in P
  <2>1. Len(s) \in Nat OBVIOUS
  <2> HIDE DEF P
  <2> QED BY <1>1, <1>2, <2>1, Induction
<1>4. PICK g : g = [i \in 0..Len(s) |-> LoopStep(g, h, s, i)]
  BY <1>3
<1> QED
  BY <1>4 DEF Fitting, LoopStep

\* from takes the m places of a sequence to those of 1..n that are among
\* places, all of them, in their order.
Takes(from, m, n, places) ==
    /\ from \in [1..m -> 1..n]
    /\ \A j, k \in 1..m : j < k => from[j] < from[k]
    /\ \A i \in 1..n : i \in places <=> \E k \in 1..m : from[k] = i

LEMMA TakesNext ==
    ASSUME NEW m \in Nat, NEW n \in Nat, NEW from, NEW places,
           Takes(from, m, n, places)
    PROVE  /\ n + 1 \notin places => Takes(from, m, n + 1, places)
           /\ n + 1 \in places =>
                 Takes([k \in 1..(m + 1) |-> IF k <= m THEN from[k] ELSE n + 1],
                       m + 1, n + 1, places)
<1>1. /\ from \in [1..m -> 1..n]
      /\ \A j, k \in 1..m : j < k => from[j] < from[k]
      /\ \A i \in 1..n : i \in places <=> \E k \in 1..m : from[k] = i
  BY DEF Takes
<1>2. ASSUME n + 1 \notin places PROVE Takes(from, m, n + 1, places)
  BY <1>1, <1>2 DEF Takes
<1>3. ASSUME n + 1 \in places
      PROVE  Takes([k \in 1..(m + 1) |-> IF k <= m THEN from[k] ELSE n + 1],
                   m + 1, n + 1, places)
  <2> DEFINE to == [k \in 1..(m + 1) |-> IF k <= m THEN from[k] ELSE n + 1]
  <2>1. to \in [1..(m + 1) -> 1..(n + 1)]
    BY <1>1
  <2>2. (\A k \in 1..m : to[k] = from[k] /\ from[k] \in 1..n) /\ to[m + 1] = n + 1
    BY <1>1
  <2> HIDE DEF to
  <2>3. ASSUME NEW j \in 1..(m + 1), NEW k \in 1..(m + 1), j < k
        PROVE  to[j] < to[k]
    <3>1. CASE k \in 1..m
      BY <1>1, <2>2, <2>3, <3>1
    <3>2. CASE k = m + 1
      <4>1. j \in 1..m
        BY <2>3, <3>2
      <4>2. to[j] \in 1..n /\ to[k] = n + 1
        BY <2>2, <3>2, <4>1
      <4> QED BY <4>2
    <3> QED BY <3>1, <3>2
  <2>4. \A i \in 1..(n + 1) : i \in places <=> \E k \in 1..(m + 1) : to[k] = i
    <3>1. ASSUME NEW i \in 1..n PROVE i \in places <=> \E k \in 1..(m + 1) : to[k] = i
      <4>1. i # n + 1 /\ 1..(m + 1) = (1..m) \cup {m + 1}
        OBVIOUS
      <4> QED BY <1>1, <2>2, <4>1
    <3>2. n + 1 \in places /\ \E k \in 1..(m + 1) : to[k] = n + 1
      BY <1>3, <2>2
    <3> QED BY <3>1, <3>2
  <2>5. Takes(to, m + 1, n + 1, places)
    BY <2>1, <2>3, <2>4 DEF Takes
  <2> QED BY <2>5 DEF to
<1> QED BY <1>2, <1>3

\* The places of s with a rung that is no taller than h.
Fits(h, s) == {i \in 1..Len(s) : s[i].height <= h}

\* out is the rungs of the first n of s that are no taller than h, in their order.
Selects(out, h, s, n) ==
    \E from : /\ Takes(from, Len(out), n, Fits(h, s))
              /\ \A k \in 1..Len(out) : out[k] = s[from[k]]

LEMMA LoopSelects ==
    ASSUME NEW R, NEW s \in Seq(R), NEW h \in Nat
    PROVE  LET out == Fitting(h, s)[Len(s)]
           IN  out \in Seq(R) /\ Selects(out, h, s, Len(s))
<1> DEFINE g == Fitting(h, s)
           F == Fits(h, s)
           P == {n \in Nat : n <= Len(s) => g[n] \in Seq(R) /\ Selects(g[n], h, s, n)}
<1>1. \A i \in 0..Len(s) : g[i] = LoopStep(g, h, s, i)
  BY LoopDefined
<1> HIDE DEF g
<1>2. 0 \in P
  <2>1. g[0] = <<>>
    BY <1>1 DEF LoopStep
  <2>2. Takes([k \in 1..0 |-> 1], Len(<<>>), 0, Fits(h, s))
    BY DEF Takes
  <2>3. <<>> \in Seq(R) /\ \A k \in 1..Len(<<>>) : <<>>[k] = s[[i \in 1..0 |-> 1][k]]
    OBVIOUS
  <2>4. Selects(<<>>, h, s, 0)
    BY <2>2, <2>3 DEF Selects
  <2> QED BY <2>1, <2>3, <2>4
<1>3. ASSUME NEW n \in Nat, n \in P PROVE n + 1 \in P
  <2> SUFFICES ASSUME n + 1 <= Len(s)
               PROVE  g[n + 1] \in Seq(R) /\ Selects(g[n + 1], h, s, n + 1)
    OBVIOUS
  <2> DEFINE out == g[n]
             m == Len(out)
             rung == s[n + 1]
  <2>1. out \in Seq(R) /\ Selects(out, h, s, n)
    BY <1>3
  <2>2. g[n + 1] = IF n + 1 \in F THEN Append(out, rung) ELSE out
    BY <1>1 DEF LoopStep, Fits
  <2>3. rung \in R
    OBVIOUS
  <2> HIDE DEF out, F, rung
  <2>4. out \in Seq(R) /\ m \in Nat
    BY <2>1
  <2>5. PICK from : Takes(from, m, n, F) /\ \A k \in 1..m : out[k] = s[from[k]]
    BY <2>1 DEF Selects, F
  <2>6. CASE n + 1 \in F
    <3> DEFINE more == Append(out, rung)
               to == [k \in 1..(m + 1) |-> IF k <= m THEN from[k] ELSE n + 1]
    <3>1. /\ more \in Seq(R) /\ Len(more) = m + 1
          /\ \A k \in 1..m : more[k] = out[k]
          /\ more[m + 1] = rung
      BY <2>3, <2>4
    <3>2. Takes(to, m + 1, n + 1, F)
      BY <2>4, <2>5, <2>6, TakesNext
    <3>3. (\A k \in 1..m : to[k] = from[k]) /\ to[m + 1] = n + 1
      BY <2>4
    <3> HIDE DEF more, to
    <3>4. \A k \in 1..(m + 1) : more[k] = s[to[k]]
      BY <2>4, <2>5, <3>1, <3>3 DEF rung
    <3>5. Selects(more, h, s, n + 1)
      BY <3>1, <3>2, <3>4 DEF Selects, F
    <3> QED BY <2>2, <2>6, <3>1, <3>5 DEF more
  <2>7. CASE n + 1 \notin F
    <3>1. Takes(from, m, n + 1, F)
      BY <2>4, <2>5, <2>7, TakesNext
    <3>2. Selects(out, h, s, n + 1)
      BY <2>4, <2>5, <3>1 DEF Selects, F
    <3> QED BY <2>2, <2>4, <2>7, <3>2
  <2> QED BY <2>6, <2>7
<1>4. Len(s) \in P
  <2>1. Len(s) \in Nat OBVIOUS
  <2> HIDE DEF P
  <2> QED BY <1>2, <1>3, <2>1, Induction
<1> QED
  BY <1>4 DEF g

\* For every ladder and every source height LadderFor returns the rungs that are
\* not taller than the source, all of them, in the order of the ladder; with none,
\* the last rung at the height of the source, so that only an empty ladder gives
\* no rendition.
THEOREM LadderSelects ==
    ASSUME NEW R, NEW s \in Seq(R), NEW h \in Nat
    PROVE  \/ /\ Fits(h, s) # {}
              /\ LadderFor(h, s) \in Seq(R) /\ Selects(LadderFor(h, s), h, s, Len(s))
           \/ /\ s # <<>> /\ Fits(h, s) = {}
              /\ LadderFor(h, s) = <<[s[Len(s)] EXCEPT !.height = h]>>
           \/ s = <<>> /\ LadderFor(h, s) = <<>>
<1> DEFINE out == Fitting(h, s)[Len(s)]
<1>1. out \in Seq(R) /\ Selects(out, h, s, Len(s))
  BY LoopSelects
<1>2. LadderFor(h, s) = IF out = <<>> /\ s # <<>>
                        THEN <<[s[Len(s)] EXCEPT !.height = h]>> ELSE out
  BY Zenon DEF LadderFor
<1> HIDE DEF out
<1>4. out = <<>> <=> Fits(h, s) = {}
  <2>1. PICK from : Takes(from, Len(out), Len(s), Fits(h, s))
    BY <1>1 DEF Selects
  <2>2. out = <<>> <=> 1..Len(out) = {}
    <3>1. Len(out) \in Nat /\ (out = <<>> <=> Len(out) = 0)
      BY <1>1
    <3>2. \A m \in Nat : m = 0 => 1..m = {}
      OBVIOUS
    <3>3. \A m \in Nat : m # 0 => 1 \in 1..m
      OBVIOUS
    <3> QED BY <3>1, <3>2, <3>3
  <2>3. Fits(h, s) \subseteq 1..Len(s)
    BY DEF Fits
  <2> QED BY <2>1, <2>2, <2>3 DEF Takes
<1>5. s = <<>> => Fits(h, s) = {}
  BY DEF Fits
<1> QED
  BY <1>1, <1>2, <1>4, <1>5

\* What follows for the ladder that Process plans with: the names differ and the
\* bandwidths fall.
Descends(ladder) ==
    \A i, j \in DOMAIN ladder : i < j =>
        ladder[i].name # ladder[j].name /\ ladder[i].bandwidth > ladder[j].bandwidth

\* A rung with one of the names of the default ladder.
Rungs == [name : {"1080p", "720p", "480p", "360p"}, height : Nat, bandwidth : Nat]

LEMMA DefaultRungs ==
    /\ DefaultLadder \in Seq(Rungs) /\ Len(DefaultLadder) = 4
    /\ DOMAIN DefaultLadder = 1..4 /\ DefaultLadder # <<>>
    /\ DefaultLadder[1].height = 1080 /\ DefaultLadder[2].height = 720
    /\ DefaultLadder[3].height = 480 /\ DefaultLadder[4].height = 360
    /\ Descends(DefaultLadder)
<1> DEFINE s == DefaultLadder
<1>1. /\ Len(s) = 4 /\ DOMAIN s = 1..4 /\ s # <<>>
      /\ s[1] = Rendition("1080p", 1080, 5500000) /\ s[2] = Rendition("720p", 720, 3000000)
      /\ s[3] = Rendition("480p", 480, 1600000) /\ s[4] = Rendition("360p", 360, 900000)
  BY SMT DEF DefaultLadder
<1>2. ASSUME NEW name \in {"1080p", "720p", "480p", "360p"},
             NEW height \in Nat, NEW bandwidth \in Nat
      PROVE  /\ Rendition(name, height, bandwidth) \in Rungs
             /\ Rendition(name, height, bandwidth).name = name
             /\ Rendition(name, height, bandwidth).height = height
             /\ Rendition(name, height, bandwidth).bandwidth = bandwidth
  BY DEF Rendition, Rungs
<1>3. s \in Seq(Rungs)
  <2>1. /\ Rendition("1080p", 1080, 5500000) \in Rungs
        /\ Rendition("720p", 720, 3000000) \in Rungs
    BY <1>2, SMT
  <2>2. Rendition("480p", 480, 1600000) \in Rungs /\ Rendition("360p", 360, 900000) \in Rungs
    BY <1>2, SMT
  <2> QED BY <2>1, <2>2, SMT DEF DefaultLadder
<1>4. /\ s[1].name = "1080p" /\ s[1].height = 1080 /\ s[1].bandwidth = 5500000
      /\ s[2].name = "720p" /\ s[2].height = 720 /\ s[2].bandwidth = 3000000
      /\ s[3].name = "480p" /\ s[3].height = 480 /\ s[3].bandwidth = 1600000
      /\ s[4].name = "360p" /\ s[4].height = 360 /\ s[4].bandwidth = 900000
  BY SMT DEF DefaultLadder, Rendition
<1> HIDE DEF s
<1>5. Descends(s)
  BY <1>1, <1>4, SMT DEF Descends
<1> QED
  BY <1>1, <1>3, <1>4, <1>5, SMT DEF s

LadderFrom(ladder, h) ==
    /\ ladder \in Seq(Rungs) /\ ladder # <<>> /\ Descends(ladder)
    /\ \/ /\ \A i \in DOMAIN ladder : \E j \in Fits(h, DefaultLadder) :
                 ladder[i] = DefaultLadder[j]
          /\ \A j \in Fits(h, DefaultLadder) : \E i \in DOMAIN ladder :
                 ladder[i] = DefaultLadder[j]
       \/ /\ Fits(h, DefaultLadder) = {}
          /\ \A i \in DOMAIN ladder : ladder[i].height = h

LEMMA LadderOf ==
    ASSUME NEW h \in Nat
    PROVE  LadderFrom(LadderFor(h, DefaultLadder), h)
<1> DEFINE s == DefaultLadder
           ladder == LadderFor(h, s)
<1>1. s \in Seq(Rungs) /\ Len(s) = 4 /\ DOMAIN s = 1..4 /\ s # <<>> /\ Descends(s)
  BY DefaultRungs
<1>4. \/ /\ Fits(h, s) # {}
         /\ ladder \in Seq(Rungs) /\ Selects(ladder, h, s, Len(s))
      \/ /\ s # <<>> /\ Fits(h, s) = {}
         /\ ladder = <<[s[Len(s)] EXCEPT !.height = h]>>
      \/ s = <<>> /\ ladder = <<>>
  BY <1>1, LadderSelects, Zenon
<1> HIDE DEF s, ladder
<1>2. CASE Fits(h, s) # {} /\ ladder \in Seq(Rungs) /\ Selects(ladder, h, s, Len(s))
  <2>1. PICK from : /\ Takes(from, Len(ladder), 4, Fits(h, s))
                    /\ \A k \in 1..Len(ladder) : ladder[k] = s[from[k]]
    BY <1>1, <1>2 DEF Selects
  <2>2. /\ from \in [1..Len(ladder) -> 1..4]
        /\ \A j, k \in 1..Len(ladder) : j < k => from[j] < from[k]
        /\ \A i \in 1..4 : i \in Fits(h, s) <=> \E k \in 1..Len(ladder) : from[k] = i
    BY <2>1 DEF Takes
  <2>3. ladder \in Seq(Rungs) /\ DOMAIN ladder = 1..Len(ladder)
    BY <1>2
  <2>4. Fits(h, s) \subseteq 1..4
    BY <1>1 DEF Fits
  <2>5. ladder # <<>>
    BY <1>2, <2>2, <2>3, <2>4
  <2>6. Descends(ladder)
    BY <1>1, <2>1, <2>2, <2>3 DEF Descends
  <2>7. \A i \in DOMAIN ladder : \E j \in Fits(h, s) : ladder[i] = s[j]
    BY <2>1, <2>2, <2>3
  <2>8. \A j \in Fits(h, s) : \E i \in DOMAIN ladder : ladder[i] = s[j]
    BY <2>1, <2>2, <2>3, <2>4
  <2> QED BY <2>3, <2>5, <2>6, <2>7, <2>8 DEF LadderFrom, s, ladder
<1>3. CASE Fits(h, s) = {} /\ ladder = <<[s[Len(s)] EXCEPT !.height = h]>>
  <2>1. [s[4] EXCEPT !.height = h] \in Rungs /\ [s[4] EXCEPT !.height = h].height = h
    <3>1. s[4] \in Rungs
      <4>1. \A R : \A t \in Seq(R) : \A i \in 1..Len(t) : t[i] \in R
        OBVIOUS
      <4>2. 4 \in 1..Len(s)
        BY <1>1
      <4> QED BY <1>1, <4>1, <4>2, Zenon
    <3>2. \A rung \in Rungs : /\ [rung EXCEPT !.height = h] \in Rungs
                              /\ [rung EXCEPT !.height = h].height = h
      BY DEF Rungs
    <3> QED BY <3>1, <3>2, Zenon
  <2>2. PICK rung \in Rungs : ladder = <<rung>> /\ rung.height = h
    BY <1>1, <1>3, <2>1
  <2>3. ladder \in Seq(Rungs) /\ ladder # <<>> /\ DOMAIN ladder = {1} /\ ladder[1].height = h
    BY <2>2
  <2>4. Descends(ladder)
    BY <2>3 DEF Descends
  <2> QED BY <1>3, <2>3, <2>4 DEF LadderFrom, s, ladder
<1> QED
  BY <1>1, <1>2, <1>3, <1>4

\* The frame size of a source that parses.
LEMMA SizeType ==
    PlanInv /\ Planned => SourceWidth \in Nat /\ SourceHeight \in Nat
BY PlannerAssumption DEF PlanInv, Parses, SourceWidth, SourceHeight

\* LadderFor (ladder.go) never upscales, keeps every rung of the default ladder
\* that fits and leaves at least one, for sources of every height.
THEOREM LadderCorrect == Spec => []LadderFits
<1>1. PlanInv => LadderFits
  <2> SUFFICES ASSUME PlanInv, Planned PROVE LadderFits
    BY DEF LadderFits
  <2> DEFINE ladder == plan.ladder
             h == SourceHeight
  <2>1. ladder = LadderFor(h, DefaultLadder) /\ h \in Nat
    BY SizeType DEF PlanInv, PlanOfSource
  <2> HIDE DEF ladder, h
  <2>2. LadderFrom(ladder, h)
    BY <2>1, LadderOf
  <2>3. \A i \in DOMAIN DefaultLadder :
            DefaultLadder[i].height <= h <=> i \in Fits(h, DefaultLadder)
    BY DefaultRungs DEF Fits
  <2>4. Fits(h, DefaultLadder) \subseteq DOMAIN DefaultLadder
    BY DefaultRungs DEF Fits
  <2>5. /\ ladder # <<>>
        /\ \A i \in DOMAIN ladder : ladder[i].height <= h
        /\ \A i \in DOMAIN DefaultLadder : DefaultLadder[i].height <= h =>
              \E j \in DOMAIN ladder : ladder[j] = DefaultLadder[i]
    BY <2>1, <2>2, <2>3, <2>4 DEF LadderFrom
  <2> QED BY <2>5 DEF LadderFits, ladder, h
<1> QED
  BY <1>1, PlanInvHolds, PTL

\* The master playlist lists the renditions best first, each once, and for a 16:9
\* source advertises the frame the encoder makes, for sources of every size.
THEOREM ManifestCorrect == Spec => []ManifestMatchesEncoder
<1>1. PlanInv => ManifestMatchesEncoder
  <2> SUFFICES ASSUME PlanInv, Planned PROVE ManifestMatchesEncoder
    BY DEF ManifestMatchesEncoder
  <2> DEFINE ladder == plan.ladder
             master == plan.master
             w == SourceWidth
             h == SourceHeight
  <2>1. /\ ladder = LadderFor(h, DefaultLadder) /\ master = BuildMasterPlaylist(ladder)
        /\ w \in Nat /\ h \in Nat
    BY SizeType DEF PlanInv, PlanOfSource
  <2> HIDE DEF ladder, master, w, h
  <2>2. ladder \in Seq(Rungs) /\ Descends(ladder)
    BY <2>1, LadderOf DEF LadderFrom
  <2>3. DOMAIN ladder = 1..Len(ladder) /\ \A i \in DOMAIN ladder : ladder[i].height \in Nat
    <3>1. DOMAIN ladder = 1..Len(ladder) /\ \A i \in DOMAIN ladder : ladder[i] \in Rungs
      BY <2>2
    <3> QED BY <3>1 DEF Rungs
  <2>4. /\ DOMAIN master = DOMAIN ladder
        /\ \A i \in DOMAIN ladder :
              /\ master[i].uri = ladder[i].name
              /\ master[i].bandwidth = ladder[i].bandwidth
              /\ master[i].width = AdvertisedWidth(ladder[i].height)
    BY <2>1 DEF BuildMasterPlaylist
  <2>5. Len(master) = Len(ladder)
    BY <2>2, <2>3, <2>4
  <2>6. \A i, j \in DOMAIN master : i < j =>
            master[i].uri # master[j].uri /\ master[i].bandwidth > master[j].bandwidth
    BY <2>2, <2>4 DEF Descends
  <2>7. ASSUME NEW i \in DOMAIN master, h > 0, 9 * w = 16 * h
        PROVE  master[i].width = EncodedWidth(ladder[i].height, w, h)
    <3>1. ladder[i].height \in Nat /\ master[i].width = AdvertisedWidth(ladder[i].height)
      BY <2>3, <2>4
    <3> QED BY <2>1, <2>7, <3>1, WidthsAgree
  <2> QED BY <2>4, <2>5, <2>6, <2>7 DEF ManifestMatchesEncoder, ladder, master, w, h
<1> QED
  BY <1>1, PlanInvHolds, PTL

\* Which sources get a rendition that H.264 can encode (LadderFor, RenditionArgs):
\* those at least as tall as the smallest rung and those of even height get only
\* such renditions, the others get none.
THEOREM RenditionsEncodable ==
    ASSUME NEW w \in Nat, NEW h \in Nat, h > 0, h <= 360 * w
    PROVE  LET ladder == LadderFor(h, DefaultLadder)
           IN  \A i \in DOMAIN ladder :
                  Encodable(EncodedWidth(ladder[i].height, w, h), ladder[i].height)
                      <=> h >= 360 \/ h % 2 = 0
<1> SUFFICES ASSUME NEW ladder, ladder = LadderFor(h, DefaultLadder),
                    NEW i \in DOMAIN ladder
             PROVE  Encodable(EncodedWidth(ladder[i].height, w, h), ladder[i].height)
                        <=> h >= 360 \/ h % 2 = 0
  OBVIOUS
<1> DEFINE rung == ladder[i].height
<1>1. \/ h >= 360 /\ rung \in {1080, 720, 480, 360}
      \/ h < 360 /\ rung = h
  <2>1. Fits(h, DefaultLadder) = {j \in 1..4 : DefaultLadder[j].height <= h}
    BY DefaultRungs DEF Fits
  <2>2. Fits(h, DefaultLadder) = {} <=> h < 360
    BY <2>1, DefaultRungs
  <2>3. \/ \E j \in Fits(h, DefaultLadder) : ladder[i] = DefaultLadder[j]
        \/ Fits(h, DefaultLadder) = {} /\ rung = h
    BY LadderOf DEF LadderFrom
  <2> QED BY <2>1, <2>2, <2>3, DefaultRungs
<1> HIDE DEF rung
<1>2. rung \in Nat /\ rung > 0 /\ w > 0 /\ rung * w >= h
  <2>1. w > 0
    OBVIOUS
  <2>2. CASE h >= 360 /\ rung \in {1080, 720, 480, 360}
    BY <2>1, <2>2
  <2>3. CASE h < 360 /\ rung = h
    <3>1. h * w >= h
      BY <2>1
    <3> QED BY <2>1, <2>3, <3>1
  <2> QED BY <1>1, <2>1, <2>2, <2>3
<1>3. EncodedWidth(rung, w, h) > 0 /\ EncodedWidth(rung, w, h) % 2 = 0
  <2> DEFINE q == (rung * w + h) \div (2 * h)
  <2>1. rung * w \in Nat /\ rung * w + h >= 2 * h
    BY <1>2
  <2>2. \A n, b \in Nat : b > 0 /\ n >= b => n \div b \in Nat /\ n \div b > 0
    BY SMT
  <2>3. q \in Nat /\ q > 0
    BY <2>1, <2>2
  <2> HIDE DEF q
  <2>4. 2 * q > 0 /\ (2 * q) % 2 = 0
    BY <2>3
  <2> QED BY <2>4 DEF EncodedWidth, q
<1>4. rung % 2 = 0 <=> h >= 360 \/ h % 2 = 0
  BY <1>1
<1> QED
  BY <1>2, <1>3, <1>4 DEF Encodable, rung
==============================================================================
