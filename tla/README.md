# forge-vod in TLA+

forge-vod takes a video through an upload, a transcoding and a publication: an
API hands out a presigned upload URL, a call marks the upload complete and puts
a job on a Redis stream, a worker downloads the source, runs ffmpeg, uploads an
encrypted HLS tree and marks the video ready. This directory models the parts
of it that keep state, checks them with TLC and proves what matters most with
TLAPS. Paths below are relative to the repository.

## The system

| Part | Source | State it keeps | Operations |
|---|---|---|---|
| API handlers | `internal/handlers/videos.go` | none of their own; a request is a sequence of calls to the stores | CreateVideo, CompleteVideo; GetVideo, ListVideos, GetVideoKey only read |
| Video repository | `internal/repository/video/video.go` | table `videos`: status, playback columns | Create, UpdateStatus, SetPlayback, GetByID, List, Migrate |
| Object storage | `internal/repository/storage/minio.go` | raw bucket, HLS bucket | PresignedPutRaw, DownloadRaw, UploadHLSDir, bucket creation |
| Job stream | `internal/repository/redis/redis.go` | stream `transcode:jobs`, group `transcoders` (cursor, pending list) | EnqueueTranscode, EnsureGroup, Read, Ack |
| Worker | `internal/worker/worker.go`, `cmd/worker/main.go` | the job in hand, its context, a work directory | Run, handle |
| Pipeline | `internal/worker/pipeline.go`, `encoder.go` | files in the work directory of the video on the worker's host | Process: download, probe, key, renditions, thumbnail, storyboard, master, upload; handle's RemoveAll |
| ffmpeg planning | `internal/ffmpeg/*.go` | none (pure functions and child processes) | parseProbe, LadderFor, BuildMasterPlaylist, ThumbnailTimestamp, BuildVTT, argument lists |
| Start-up | `main.go`, `cmd/worker/main.go`, `config/`, `internal/repository/postgres/` | where main is; the buckets and the columns of the table | load the configuration, connect, create buckets, migrate, create the group, serve |
| HTTP layer | `internal/api/api.gen.go`, `middleware/`, `handlers/docs.go` | per request: what was sent, what the recorder saw | routing, binding, decoding, answering, logging, two pages |

API processes and workers never call each other. They meet in the three stores:
the API writes rows and the stream and reads rows; a worker reads the stream and
the raw bucket and writes rows and the HLS bucket; the client writes the raw
bucket and reads the HLS bucket and the key endpoint. No operation spans two
stores atomically and no row update is conditional.

What makes it hard:

- **Interleaving.** Requests and workers interleave at every store call. Two
  jobs of one video (a repeated CompleteVideo, or an XADD sent again by the
  client library) run at once, on one row and under one object prefix.
- **Failure between two steps.** Each of the multi-step operations (INSERT then
  presign, UPDATE then XADD, mark then run then upload then publish then XACK)
  can stop anywhere: an error, a request that dies, a SIGTERM that cancels the
  context in the middle of a run, a crash.
- **Ambiguous errors.** A call that returns an error may have taken effect.
- **Delivery.** The group hands out entries past its cursor only. Nothing reads
  the pending list again.
- **Order.** Row before job; media before master before publication.
- **Leftovers.** A work directory is named after its video: two jobs of one
  video on one host share it, and a crash leaves it to the next run.
- **Starts that race.** Every process creates the buckets, by a check and then a
  make; the migration is six statements in no transaction; a worker does not
  migrate at all.
- **Two answers to one request.** A response that breaks off is answered again;
  on the wire the first status counts, in the log the last.
- **Rounding.** Widths are made even in two places, times cut to milliseconds in
  one and rounded in another.

What makes each part correct:

- *stream*: the cursor and the pending list agree with the log; an entry is in
  one pair of hands at most; jobs leave in FIFO order and do not come back;
- *repository*: rows go through the statuses a polling client is told of, and
  playback data changes only together with "ready";
- *storage*: a tree appears in walk order, the master after its media;
- *handlers and worker together*: no video is lost silently, what a row offers
  is in the bucket and fits its key, a final status stays, and everything
  settles once failures stop;
- *pipeline*: what a Result refers to was made by its run, from one version of
  the source and with one key, and nothing stays on the host;
- *planning*: never upscaled, never empty, what the manifest says is what is
  encoded, capture time and cues lie inside video and sprite;
- *start-up*: what is up finds what it needs, and workers come up in the end;
- *HTTP layer*: clients and log are told what happened, refusals change nothing.

## Modules

| Module | What it is |
|---|---|
| `TranscodeStream` | the stream and its group: log, cursor, pending list, and the job each consumer has in hand |
| `JobQueue` | abstract: a destructive FIFO; `TranscodeStream` implements it (`ImplementsFifo`) |
| `VideoRepo` | the table: status, and whose artifacts the playback columns name |
| `ObjectStore` | the buckets: valid PUT URLs, sources, and per video the objects of the output tree |
| `ForgeVod` | API handlers and workers over the three stores; they share its variables through `Repo`, `Store` and `Stream` |
| `Overlap` | `ForgeVod` with an observer that tells runs of a video that overlap from runs that follow each other |
| `VideoLifecycle` | abstract: what a client that polls a video can rely on; `ForgeVod` implements it (`ImplementsLifecycle`) |
| `Pipeline` | Process and the part of handle around it, stage by stage, over the work directories of hosts |
| `AtomicRun` | abstract: a run of Process as one step; `Pipeline` implements it for workers on hosts of their own (`ImplementsAtomicRun`) |
| `Planning` | the functions behind ladder, master playlist, capture time and cues |
| `Planner` | what parseProbe and Process make of one report of ffprobe, with `Planning` |
| `Startup` | main of API and worker processes: configuration, connections, buckets, migration |
| `HttpApi` | one request in the HTTP layer: router, logger, wrapper, strict handler, response |
| `Service` | `Startup` and `HttpApi` together: processes that are up serve requests and take jobs |
| `MCTranscodeStream`, `MCOverlap`, `MCPipeline` | what TLC needs on top: a bounded next-state relation, fairness of the stream alone, symmetry, the ladders of two sources |
| `TranscodeStreamProofs` | theorems about `TranscodeStream` |
| `ForgeVodProofs` | the inductive invariant of `ForgeVod`, the state properties that follow from it, and that the service uses its stream as specified |
| `ForgeVodOutcomeProofs` | `Accounted`, what becomes of stranded jobs, and the implementation of `VideoLifecycle` |
| `ForgeVodFinalProofs` | `SettledStays` and `ReadyUnlessOverlapped` |
| `ForgeVodFaultProofs` | `OneVideoPerFault`, and when an acknowledged job has been marked |
| `PipelineProofs` | the invariant of `Pipeline` for workers on hosts of their own, the implementation of `AtomicRun`, and the clean-up on any host |
| `PlannerProofs` | the ladder for every height, the playlist for every size, capture time and cues for every duration |
| `ServiceProofs` | the inductive invariant of `Service` and its five safety properties |

Definitions marked `[variant]` are what a plausible bug would make of the
definition below them. No specification uses them; putting one in the place of
its original must break the property named for it in `PROJECT.json`.

### How the model corresponds to the code

*One step per store call.* A handler is split where it calls a store:
`CreateVideo`/`PresignUpload`, `CompleteVideo`/`EnqueueJob`. A worker is where
`pc` says: `down`, `idle` (in the loop of Run), and in `handle` at `received`,
`download`, `transcode`, `upload`, `publish`, `failing` or `acking`. Every call
has an action for its success and one for its failure; the code's early returns
are the `Drop` (no XACK) and `Return` in these actions.

*Failures.* `CallFails(w)` says when a worker's call can fail: always under a
cancelled context, otherwise as one of the `MaxFaults` faults. A failed call
may still have taken effect: its reply was lost, or it was under way when the
context was cancelled. (One that begins under a cancelled context sends
nothing; the model lets it take effect as well, which only adds behaviours.) A
write takes effect before its call ends or its process dies, not later. An XADD
whose reply was lost is sent again by the client library, so one call leaves up
to `MaxSends` entries, and one that fails in the end may have left as many. The
API's calls, lost replies, crashes (`Crash`), SIGTERM (`Stop`) and stray entries
(of an id that is no UUID, or of a UUID that no row has) are faults too. A
source that is missing or that ffmpeg rejects is not a fault: it needs no
budget and can happen on every job. A blocked XREADGROUP is not interrupted by
the cancelled context, so `ReadJob` needs no live context: a job can be read
after the SIGTERM, and all its calls then fail.

*Data.* A run of the pipeline is named by the stream entry it works on. Each run
draws a fresh AES key, so that name also stands for its key, for the objects it
uploads and for the playback columns it writes; a video is playable when the
run its row names is the run that wrote all its media. The output tree is
numbered in the lexical order in which `filepath.WalkDir` visits it: variant
playlists and segments sort before `master.m3u8`, which sorts before the
storyboard and the thumbnail. Titles, file names, durations, timestamps and log
lines are left out.

*The consumer name* and the work directory do not appear in `ForgeVod`: every
worker has a host of its own there. `Pipeline` is about hosts that workers
share.

*`Pipeline`.* The jobs are for one video; a run is a number, which is also the
name of its AES key, and each PUT of the source makes a new version of it. A
file says which run wrote it, with which key and from which version. Per host
there is a work directory with the source, the key file and `out/`; a stage is
one step, except that `Write` is one step per file (`Turn` is the order of
Process) and the upload first reads the names in `out/`, then puts one file per
step in the order of names. Any stage can fail for any reason (`StageFails`),
with no bound. A crash leaves the directory and is started again on it.
`lastRun`, `crashes`, `since` and `dirty` are observations.

*`Planner`.* One report of ffprobe, a frame size and a duration, and one step
that plans. A duration is the number of whole ticks of a tenth of a millisecond
that have passed: a float that lies a little below 5.001 s is 50009 ticks. What
floats do below a tick is left out. The ladder, the
playlist and the cues are sequences of records and not text.

*`Startup`, `HttpApi`, `Service`.* `at` says where main is in each process;
every call that can fail or change a store is one step, a call that fails is
`Dies`, and one that fails after its effect is the call and then `Dies`.
`table` is the set of playback columns, since only these differ between
versions of the API. An API that exited stays down; one that an operator starts
later is another member of `Api` that has not been launched. There is one
request at a time: requests share nothing in this layer. The handler inside it
makes its calls one by one, in the order of `Calls`; each of them succeeds,
finds nothing to go on with (400, 404), or fails with or without having taken
effect. `effect` collects the writes that did. What the writes do to the stores
is in `ForgeVod`.

## What is checked

| Run | Instance | Shows |
|---|---|---|
| `stream_safety` | 2 jobs, 2 consumers, 4 entries, an XADD sent up to 4 times | types, `HeldInv`, `NeverRedelivered`, `ImplementsFifo` |
| `stream_at_least_once` | the same, fair | **violated**: a dropped entry is never delivered again |
| `core_one_video` | 1 video, 2 workers, 2 calls, 2 faults, 4 objects (2 media, master, 1 other) | `SafetyInv` and the safety properties of `ForgeVod` about one video, `ReadyUnlessOverlapped`, `ImplementsLifecycle` |
| `core_two_videos` | 2 videos, 2 workers, 1 call each, 1 fault | `Accounted`, `OneVideoPerFault`, `SoleJobPlayable` and `StreamDrains` across videos |
| `core_liveness` | 1 video, 2 workers, 2 calls, 2 faults | `SettledOrGivenUp`, `EverySettles` |
| `core_ready_playable` | 1 video, 2 workers, 2 calls, no fault | **violated**: a ready video need not be playable |
| `core_acked_marked` | 1 video, 2 workers, 1 call, 1 fault | **violated**: a job is acknowledged and its video not marked |
| `pipeline_own_host` | 2 workers on 2 hosts, 3 runs, 1 crash, 2 versions of the source | `ResultIsOwn`, `ImplementsAtomicRun`, `OwnWhenClean`, `PipelineInv`, `NoLeftovers` |
| `pipeline_shared_dir` | 2 workers on 1 host, 2 runs | **violated**: a job uploads what another job wrote |
| `planning` | 12 widths, 22 heights, 21 durations, and reports that do not parse | `LadderFits`, `ManifestMatchesEncoder`, `ThumbnailInside`, `CuesCover` |
| `planning_encodable` | heights 240, 359, 360, 720 | **violated**: a source of odd height below 360 has no rendition that can be encoded |
| `service` | 3 APIs (one without its configuration), 1 worker, 1 failing call or crash | `ServiceInv` and its parts, `WorkersRun` |

Deadlock is not checked: clients may stop, and with the bounds used up and every
worker idle the system rests. A plan is made once, and `Service` rests when
nobody asks.

The properties, in words (each is stated again above its definition):

- `Accounted`: while the API shows "uploaded" or "processing", something is
  under way that will change it, or the video was given up in one of three
  ways: its entry is stranded in the pending list, the client was not answered
  200, or a failed run could not be written to the table.
- `OneVideoPerFault`: a lost reply, an aborted request (an API that dies is one
  fault for each request it served), a worker that dies or its SIGTERM gives up
  one video at most, and nothing else gives up any, whatever fails in the
  pipeline.
- `PendingUntouched`, `OfferedIsUploaded`, `MasterAfterMedia`: the three orders
  the code relies on (row before job, upload before publication, media before
  master), whatever fails in between and however many runs overlap.
- `SoleJobPlayable`: with one job, what is offered is playable, and crashes,
  failures and later calls do not change that until a second job exists.
- `ReadyUnlessOverlapped`: a ready video is playable, however many jobs it has
  had, unless its last runs were under way at one time: what an upload that
  failed or a worker that died left of runs with other keys is overwritten
  before the video is ready again.
- `SettledStays`: with one call and one job, "ready" and "failed" are final.
- `ImplementsLifecycle`: "pending" only at the start; nothing but "uploaded"
  follows it; playback data changes only in a step to "ready", and to those of
  a run not yet published.
- `SettledOrGivenUp`: once faults stop, a completed video becomes ready or
  failed or was given up in one of the three ways; `EverySettles`: without a
  fault it becomes ready or failed; `StreamDrains`: the entries behind a failing
  job, a stray entry or a crash are read in the end.
- `ResultIsOwn`: when Process returns, everything the master and the row will
  refer to was put by this run, from the version it probed and with its key,
  whatever a crash left in the directory and whenever the source is replaced.
  `PipelineInv` is the invariant behind it. `ImplementsAtomicRun`: download,
  probe, key, files and uploads amount to one step that makes the whole tree of
  one version, and one that was in the raw bucket during the run: neither the
  source nor the files of an earlier run get into the result. `OwnWhenClean`: a
  job uploads files of other jobs only after a crash (or on a shared host).
  `NoLeftovers`: a host whose workers are idle keeps nothing of the video,
  unless one crashed since the last clean-up.
- `LadderFits`: no rung is taller than the source, none that fits is missing,
  and there is one. `ManifestMatchesEncoder`: the playlist names each rendition
  once, best first, and for a 16:9 source the width it gives is the one the
  encoder makes. `ThumbnailInside`: the seek time is zero or leaves a tenth of
  a second. `CuesCover`: cues have no gap and no overlap up to the end of the
  video or of the sprite, and each has a tile of its own.
- `UpIsPrepared`: a process that is up finds both buckets, an API all columns.
  `WorkIsPrepared`: no request is served and no job of this version waits
  without them, although workers do not migrate. `WorkersRun`: each configured
  worker is up in the end and stays up.
- `AnswerFits`: the client is sent the status of the answer, 500 for what cannot be
  answered. `LogTellsStatus`: the log tells that status, or 500 if the body broke
  off. `AnswerTellsEffect`: a 4xx has written nothing, a 2xx has made every write
  of its operation; a row without its upload URL or a marked video without its
  job is told as a 500 and as nothing else.

### Bounds

`MaxCalls` bounds how often CompleteVideo marks a video, `MaxSends` how often an
XADD is sent (the client of `redis.go:43` sends a command four times at most;
`stream_safety` has four, the core runs have two), `MaxFaults` the faults,
`NumFiles` the objects of a tree, `MaxEntries` the stream when it is checked
alone. Two workers are enough for every race between workers, two calls (or one
call and a duplicated XADD) for every race between runs of a video, and a call
with a duplicated XADD after another call lets a run follow two that raced. Two
faults give a fault and a second one while the first is being handled (an upload
error whose "failed" cannot be written, a crash after a lost reply). Two media
objects before the master and one after it distinguish "some", "all media" and
"all". `core_two_videos` has fewer calls and faults because it asks whether the
videos interfere and whether one holds up the other.

In `pipeline_own_host` a run that crashes, a run on what it left, and a run of
the other worker are three (`MaxRuns`); two versions of the source (`MaxPuts`)
have ladders of two and of one rung, so that a leftover rendition need not be
overwritten, and the source can be replaced at any point of a run. `planning`
has heights next to and on every rung, sources of zero and odd height, and
durations next to and on every bound of the code: zero, a tick, a millisecond,
a tenth of a second, the duration where the cap of the capture time begins to
matter, a tile, and the 125 seconds of the sprite. `service` needs two
configured APIs for the race over a bucket and a migration, one that is not
configured, and a worker; one exit (`MaxExits`) breaks off a migration, a
start, a request or a job, and the table may be of any older version from the
start. The theorems hold without any of these bounds.

### Fairness

`FairSpec` gives weak fairness to each video's request handlers (`ApiStep`:
goroutines that run, each call of which ends) and to each worker
(`WorkerStep`): Run loops on a Read that blocks for five seconds at most, and
the container of a worker that went down is started again
(`docker-compose.yml:90`, `restart: unless-stopped`). A worker's steps are fair
together, not one by one: whether a pipeline succeeds is never forced. Clients
are not fair: nobody has to upload or to complete. `Crash` and `Stop` are not
fair. That ffmpeg ends is an assumption; the code sets no time limit.

`Service` gives weak fairness to the start of each worker, for the same line of
`docker-compose.yml`, and to nothing else: an API that exits is not started
again, requests and jobs are not owed, and neither is `minio-init`.

## What the code does otherwise than it says

1. *At least once.* `redis.go:52-53` promises at-least-once delivery and
   `worker.go:71` relies on it ("do not ack; let it be retried"). `Read` asks
   for `>` only, so every entry is delivered at most once
   (`stream_at_least_once`; that the cursor never goes back and only fresh
   entries are handed out, `NeverRedelivered`, is proved). A worker that
   crashes, is stopped, or returns early leaves its video in "uploaded" or
   "processing".
2. *The key of the video.* `openapi.yaml:92-93` says the key endpoint returns
   the key of the stream. CompleteVideo accepts a video in any status
   (`videos.go:124`), and two runs of one video write the same objects with two
   keys (`core_ready_playable`). With a single job the promise holds
   (`SoleJobPlayable`, proved), and with many as long as their runs do not
   overlap (`ReadyUnlessOverlapped`, proved). The single worker of
   `docker-compose.yml:85-93` cannot overlap with itself, so the finding needs a
   second one.
3. *Marked, then acked.* `worker.go:56-57` says handle marks the video and acks
   the entry. If marking it failed returns an error the entry is acked all the
   same (`worker.go:84-87`), and the video stays in "processing"
   (`core_acked_marked`). Without a fault it does not happen (`AckedMarked`,
   proved).
4. *Per-job work directories.* `worker.go:22` calls scratch the base of
   "per-job work dirs"; `worker.go:74` names the directory after the video. Two
   jobs of one video on one host, which a second CompleteVideo is enough for,
   write to and remove the same files (`pipeline_shared_dir`). On hosts of
   their own workers are safe (`ImplementsAtomicRun`, proved).
5. *At least one rendition.* `ladder.go:22-23` returns a rung of the source's
   height "so there is always at least one rendition". If that height is odd,
   libx264 is asked for yuv420p frames of odd height (`transcode.go:37-39`),
   which it does not encode (`planning_encodable`).

## What is proved

The theorems about `ForgeVod` and its stream hold for every value of the
constants that satisfies `ConstAssumption`: any sets of videos and workers, an
output tree of any length with the master after at least one object, any number
of calls, sends and faults, and a `NoVideo` that is no video. The other modules state
their assumptions in the same way, and they are about types only, but for
`OwnHosts` below.

*`TranscodeStreamProofs`.* `StreamTypeOK`, `CursorInv` and `HeldInv` are
inductive together. `HeldInv` needs `CursorInv`: a fresh entry is in nobody's
hands because everything in hand is pending, and what is pending lies at or
below the cursor. `NoRedelivery` follows from it step by step. `FifoCorrect`
maps the stream to `JobQueue`: the queue is the part past the cursor, a Read is
`Take`, a lost reply `Lose`, `Ack` and `Drop` are `Release`; the lemmas on
`SubSeq` give what Append and Concat do to that part. Handlers and workers
change the stream only by its own operations (`StreamUsed`, in
`ForgeVodProofs`), so both hold in the service (`DeliveryInService`).

*`ForgeVodProofs`.* The inductive invariant `SafetyInv` consists of

- the invariants of the stream (a worker's entry is its own);
- `WorkerInv`: a worker has an entry in hand exactly while it is in handle, and
  past the check of the id that entry names a video;
- `OriginInv`: a pending video has no job, and every playback row and object was
  written for a delivered entry of its own video. This gives
  `PendingUntouched`, and for a video with one job that all writers are the same
  run, hence `SoleJobPlayable`;
- `UploadInv`: whoever wrote them, the objects of a tree are there up to some point
  of the walk, and a worker has put what its walk has passed. Two interleaved
  walks and failed ones are why it speaks of presence and not of a run. This
  gives `OfferedIsUploaded` and `MasterAfterMedia`;
- `UnpublishedInv`: no row names a run that is still to be published. It needs
  `HeldInv`, and is what `ImplementsLifecycle` rests on.

Every step of a handler or worker is a step of the stream (`StreamStep`), so the
stream's theorems are used as they are. What an action does to the worker, the row
and the objects is collected in a few effects (`WorkerStepEffect`,
`ApiStepEffect`), one case per action, and each part of the invariant is
preserved by every such effect, so that a part is proved once and not once per
action.

*`ForgeVodOutcomeProofs`.* `NothingLost` follows a claim on a video: from the
handler about to enqueue, to the entry past the cursor, to the worker that
reads it, and to the settled row or to one of the three ways to give up.
Stranded entries stay stranded, since nothing reads the pending list:
`StrandedForGood` says it of every step of the service, and is what the first
finding above leaves of the promised retry. `LifecycleCorrect` maps every step
to a step of `VideoLifecycle` or a stutter.

*`ForgeVodFinalProofs`.* `SettledStays` needs `FinalInv`: when a video with one
call and one job is ready or failed, its entry has been read and no worker will
write a status for it any more. The run that writes a final status does so with
its last write (`RunEffect`), no other worker has its entry (`HeldInv`), and the
cursor does not go back. `FinalInv` also counts calls: a row past "pending" was
marked by one, so that the next call is a second one. `OverlapCorrect` proves
`ReadyUnlessOverlapped` from `OverlapInv`: while the last run of a video is under
way, alone, the video is not ready, and the objects its walk has passed are the
run's own, so that at the end of the walk all media are, whatever was there
before. A worker that is past its last put does not touch the tree (`Untouched`);
it can only take "ready" away. A second run at the same time breaks both halves.

*`ForgeVodFaultProofs`.* `FaultsCharged` proves `OneVideoPerFault` for any
number of videos and faults, and needs no finite set of videos. The videos
given up so far cannot be compared with the faults directly: a SIGTERM is one
fault, and the video it costs is given up steps later, when a call fails under
the cancelled context. `FaultInv` therefore charges in advance. A video is
*doomed* when it is given up or its entry is in the hands of a worker that is
told to stop; a worker that is told to stop while it waits in Read is
*leaving*, since it may still be handed an entry. The doomed videos and the
leaving workers together are not more than the faults. Each step either leaves
both sets as they are or smaller, or moves one from leaving to doomed, or adds
one for a fault (`Charged`, counted in `Counting`). `AckedMarked` is what
finding 3 leaves of "marks ready or failed, and acks": it holds without a
fault, and with faults for every video that is not given up. It needs
`Accounted`, `OneVideoPerFault` and `CallInv`: every job, and every one about
to be enqueued, comes from a counted call.

*`PipelineProofs`.* `StagesCorrect`, `ResultCorrect`, `CleanRunsOwn` and
`RunsAtomic` are for workers on hosts of their own (`OwnHosts`, an assumption
of these theorems; the violated run shows that they need it). `StageInv` says
for each stage what the directory must hold by then: the source is the probed
version from the probe to the last file written; the key file is the run's once
written; from the first write on, each planned file is still to be written or
is the run's own; from the first PUT on, each is still to be put or was put as
the run wrote it. Leftovers are covered because nothing is said of a file
before its run wrote it. The steps of another worker touch another directory
and leave the invariant alone. `FreshInv` adds that the version a run works on
was put no earlier than the one that was there when it began, since the
download replaces the file; `CleanInv`, that without a crash a directory holds
files of the run in it only. `RunsAtomic` maps the stages to `AtomicRun`: the
step that ends the last PUT is `Produce`, RemoveAll and a crash are `End`, and
everything in between is a stutter. `CleansUp` holds for any assignment of
hosts and needs no `StageInv`: a host without a clean-up due has no directory
unless a worker is in a run there.

*`ServiceProofs`.* `ServiceInv` is inductive as it stands. Its parts are what
main has done so far by where it is (`MainInv`: bucket by bucket, column by
column; buckets and columns are only added), what the HTTP layer has sent and
recorded, and which writes its handler has made so far, by where the request is
(`RequestInv`), and that a request is in
hand exactly while an API that is up serves it. The last part links the
two: a new job is enqueued under a server, so buckets and columns are there.

*`PlannerProofs`.* For every duration, `ThumbnailInside` and `CuesCover`; they
rest on a few lemmas on division (the milliseconds of a sum, tiles of a grid).
`WidthsAgree`: for every 16:9 source and any rung the two ways to an even width
give the same. `LadderSelects` says what the loop of LadderFor returns for any
ladder and any height. The loop is a recursive function on the number of rungs
seen (`Fitting`), and the induction over it is done by hand: if a statement
failed for some number, it would fail for a least one (`LeastNatural`, from the
well-foundedness of the order on naturals), and that one is neither 0 nor a
successor. `LadderCorrect` and `ManifestCorrect` follow for a source of any
size. `RenditionsEncodable` draws the line that finding 5 is on: for sources at
most 360 times as high as wide, the planned renditions can be encoded if the
height is at least 360 or even, and otherwise none can.

*Only model-checked:* the liveness properties `SettledOrGivenUp`,
`EverySettles`, `StreamDrains` and `WorkersRun` (out of reach of the prover),
and the violations. Every safety property of the passing runs is also a
theorem.

## Not modelled

- Shared hosts inside `ForgeVod`: the consumer name they share
  (`cmd/worker/main.go:59`) changes nothing the model shows, and the work
  directory is the subject of `Pipeline`.
- A RemoveAll that fails (`worker.go:79` ignores its error), and an ffmpeg that
  outlives a killed worker.
- An ffmpeg that hangs: nothing in the code ends it (`runner.go:31`). The
  liveness properties assume it does not, and would all fail.
- Arguments of ffmpeg beyond scaling and pixel format, content types, derived
  URLs, titles and log lines: data for other programs and readers.
- The generated types, client errors and embedded specification of
  `api.gen.go`: no behaviour. Requests that match no route have a step, but
  nothing is promised of them.
- The player: that it reads playlists, segments and the key at different times.
- Time. A PUT URL may expire at any moment; the API's write timeout is a request
  that dies.

## Plan

Done, in this order: `TranscodeStream` with `JobQueue` (delivery decides what
can be lost), the two stores, `ForgeVod` (everything that races), the inductive
invariant and the two refinements; then `Pipeline` (leftovers and shared
directories), `Planning` and `Planner`, `Startup`, `HttpApi` and their
composition `Service`, each with its proofs.

What could follow: `Player`, a client that reads the master, variants, segments
and key at different times, on top of `ForgeVod`; and an abstract request for
`HttpApi`, which `Service` would implement.
