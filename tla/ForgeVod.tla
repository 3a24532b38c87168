------------------------------- MODULE ForgeVod -------------------------------
(***************************************************************************)
(* The whole service: the API handlers (internal/handlers/videos.go), the  *)
(* transcode workers (internal/worker/worker.go and pipeline.go) and the   *)
(* three stores they meet in: the videos table (VideoRepo), the buckets    *)
(* (ObjectStore) and the job stream (TranscodeStream).                     *)
(*                                                                         *)
(* Every call to a store is a step of its own, so handlers and workers     *)
(* interleave at each of them.  A call that returns an error may or may    *)
(* not have taken effect (the reply can be lost after the commit): such a  *)
(* step is a fault, and MaxFaults bounds how many there are, crashes,      *)
(* aborted requests and SIGTERMs included.  A pipeline that fails on its   *)
(* input is no fault.                                                      *)
(*                                                                         *)
(* A run of the pipeline is named by the stream entry it works on; so is   *)
(* the AES key that run generates (GenerateKey is fresh for every run),    *)
(* and the objects it uploads.                                             *)
(***************************************************************************)
EXTENDS Naturals, Sequences, FiniteSets

CONSTANTS
    Video,       \* video ids
    Worker,      \* worker processes, each on a host of its own
    NoVideo,     \* what an entry carries that names no video
    NumFiles,    \* objects in a video's output tree
    Master,      \* the position of master.m3u8 among them
    MaxSends,    \* how often go-redis sends one command at most
    MaxCalls,    \* bound: CompleteVideo calls for a video
    MaxFaults    \* bound: faults

ASSUME ConstAssumption ==
    /\ NoVideo \notin Video
    /\ NumFiles \in Nat
    /\ Master \in 2..NumFiles
    /\ MaxSends \in Nat \ {0}
    /\ MaxCalls \in Nat
    /\ MaxFaults \in Nat

VARIABLES
    status, playback,                              \* the videos table
    putUrl, raw, hls,                              \* the buckets
    stream, group, lastDelivered, pel, held,       \* the job stream
    creating,    \* CreateVideo handlers between the INSERT and the presigning
    completing,  \* per video, CompleteVideo handlers between UPDATE and XADD
    pc,          \* where each worker is
    walk,        \* per worker, the object UploadHLSDir puts next
    stopping,    \* workers whose context a SIGTERM has cancelled
    (* observed, not read by the program *)
    calls,       \* per video, how often CompleteVideo marked it uploaded
    unanswered,  \* videos with a CompleteVideo call that did not answer 200
    unmarked,    \* entries whose failure could not be written to the table
    faults       \* how many faults there were

repoVars   == <<status, playback>>
storeVars  == <<putUrl, raw, hls>>
streamVars == <<stream, group, lastDelivered, pel, held>>
apiVars    == <<creating, completing, calls, unanswered>>
workerVars == <<pc, walk, stopping, unmarked>>

vars == <<repoVars, storeVars, streamVars, apiVars, workerVars, faults>>

Job == Video \cup {NoVideo}

Repo   == INSTANCE VideoRepo
Store  == INSTANCE ObjectStore
Stream == INSTANCE TranscodeStream WITH Consumer <- Worker

\* The video the worker's job is for.
Vid(w) == stream[held[w]]

\* Where handle can be.
InHandle == {"received", "download", "transcode", "upload", "publish",
             "failing", "acking"}
PC == InHandle \cup {"down", "idle"}

TypeOK ==
    /\ Repo!RepoTypeOK
    /\ Store!StoreTypeOK
    /\ Stream!StreamTypeOK
    /\ creating \in SUBSET Video
    /\ completing \in [Video -> Nat]
    /\ pc \in [Worker -> PC]
    /\ walk \in [Worker -> Nat]
    /\ stopping \in SUBSET Worker
    /\ calls \in [Video -> Nat]
    /\ unanswered \in SUBSET Video
    /\ unmarked \in SUBSET Nat
    /\ faults \in Nat

Init ==
    /\ Repo!RepoInit
    /\ Store!StoreInit
    /\ Stream!StreamInit
    /\ creating = {}
    /\ completing = [v \in Video |-> 0]
    /\ pc = [w \in Worker |-> "down"]
    /\ walk = [w \in Worker |-> 1]
    /\ stopping = {}
    /\ calls = [v \in Video |-> 0]
    /\ unanswered = {}
    /\ unmarked = {}
    /\ faults = 0

\* Something outside the program goes wrong.
Fault == faults < MaxFaults /\ faults' = faults + 1

\* A call of a worker succeeds only under a live context.
CallOk(w) == w \notin stopping /\ UNCHANGED faults

\* It fails when the context is cancelled, and may fail at any other time.  It
\* may have reached the store all the same: its reply was lost, or it was under
\* way when the context was cancelled.  (One that begins under a cancelled
\* context reaches nothing; here it may, and does no harm.)
CallFails(w) ==
    \/ w \in stopping /\ UNCHANGED faults
    \/ w \notin stopping /\ Fault

------------------------------------------------------------------------------
(* The API handlers.  GetVideo, ListVideos and GetVideoKey only read, and a
   CreateVideo without title or filename is answered 400 before anything
   happens. *)

\* CreateVideo: the row is inserted...
CreateVideo(v) ==
    /\ Repo!Create(v)
    /\ creating' = creating \cup {v}
    /\ UNCHANGED <<storeVars, streamVars, workerVars, faults,
                   completing, calls, unanswered>>

\* ...then the URL is presigned and returned.
PresignUpload(v) ==
    /\ v \in creating
    /\ Store!PresignedPutRaw(v)
    /\ creating' = creating \ {v}
    /\ UNCHANGED <<repoVars, streamVars, workerVars, faults,
                   completing, calls, unanswered>>

\* The INSERT's reply is lost, presigning fails or the request dies: the row
\* stays, the client gets no URL.
CreateVideoFails(v) ==
    /\ Fault
    /\ v \in creating
    /\ creating' = creating \ {v}
    /\ UNCHANGED <<repoVars, storeVars, streamVars, workerVars,
                   completing, calls, unanswered>>

\* [variant] The job is enqueued without marking the row.
CompleteWithoutMark(v) ==
    /\ status[v] # Repo!Absent
    /\ calls[v] < MaxCalls
    /\ completing' = [completing EXCEPT ![v] = @ + 1]
    /\ calls' = [calls EXCEPT ![v] = @ + 1]
    /\ UNCHANGED <<repoVars, storeVars, streamVars, workerVars, faults,
                   creating, unanswered>>

\* CompleteVideo: the row is looked up (404 and no change when there is none;
\* rows stay, so the lookup and the UPDATE are one step) and marked uploaded
\* whatever its status is...
CompleteVideo(v) ==
    /\ status[v] # Repo!Absent
    /\ calls[v] < MaxCalls
    /\ Repo!UpdateStatus(v, "uploaded")
    /\ completing' = [completing EXCEPT ![v] = @ + 1]
    /\ calls' = [calls EXCEPT ![v] = @ + 1]
    /\ UNCHANGED <<storeVars, streamVars, workerVars, faults,
                   creating, unanswered>>

\* ...then the job is enqueued, and the client gets its 200.
EnqueueJob(v) ==
    /\ completing[v] > 0
    /\ completing' = [completing EXCEPT ![v] = @ - 1]
    /\ \/ Stream!EnqueueTranscode(v, 1) /\ UNCHANGED faults
       \/ (\E copies \in 2..MaxSends : Stream!EnqueueTranscode(v, copies)) /\ Fault
    /\ UNCHANGED <<repoVars, storeVars, workerVars,
                   creating, calls, unanswered>>

\* The UPDATE reports an error although it was committed: 500.
CompleteVideoFails(v) ==
    /\ Fault
    /\ status[v] # Repo!Absent
    /\ calls[v] < MaxCalls
    /\ Repo!UpdateStatus(v, "uploaded")
    /\ calls' = [calls EXCEPT ![v] = @ + 1]
    /\ unanswered' = unanswered \cup {v}
    /\ UNCHANGED <<storeVars, streamVars, workerVars, creating, completing>>

\* The XADD reports an error, however often it reached the server, or the
\* request dies before it (client gone, write timeout, API crash): 500 or no
\* answer at all.
EnqueueJobFails(v) ==
    /\ Fault
    /\ completing[v] > 0
    /\ completing' = [completing EXCEPT ![v] = @ - 1]
    /\ unanswered' = unanswered \cup {v}
    /\ \/ \E copies \in 1..MaxSends : Stream!EnqueueTranscode(v, copies)
       \/ UNCHANGED streamVars
    /\ UNCHANGED <<repoVars, storeVars, workerVars, creating, calls>>

\* The client PUTs the source, or lets the URL expire.
ClientPuts(v) ==
    /\ Store!PutRaw(v) \/ Store!ExpireUrl(v)
    /\ UNCHANGED <<repoVars, streamVars, apiVars, workerVars, faults>>

\* Somebody else writes an entry to the stream that names no video: its id is no
\* UUID, or that of no row.
StrayEntry ==
    /\ Fault
    /\ Stream!EnqueueTranscode(NoVideo, 1)
    /\ UNCHANGED <<repoVars, storeVars, apiVars, workerVars>>
------------------------------------------------------------------------------
(* The worker *)

Goto(w, l) == pc' = [pc EXCEPT ![w] = l]

\* handle returns to Run, which ends when the context is cancelled.
Return(w) ==
    /\ Goto(w, IF w \in stopping THEN "down" ELSE "idle")
    /\ stopping' = stopping \ {w}

\* [variant] BUSYGROUP is an error like any other.
StartOnlyFirst(w) ==
    /\ pc[w] = "down"
    /\ ~group
    /\ Stream!EnsureGroup
    /\ Goto(w, "idle")
    /\ UNCHANGED <<repoVars, storeVars, apiVars, faults,
                   walk, stopping, unmarked>>

\* Run: the group is created on start-up.
Start(w) ==
    /\ pc[w] = "down"
    /\ Stream!EnsureGroup
    /\ Goto(w, "idle")
    /\ UNCHANGED <<repoVars, storeVars, apiVars, faults,
                   walk, stopping, unmarked>>

\* Creating the group fails, in the server or on the way back; Run returns the
\* error and the process exits.
StartFails(w) ==
    /\ Fault
    /\ pc[w] = "down"
    /\ Stream!EnsureGroup \/ UNCHANGED streamVars
    /\ UNCHANGED <<repoVars, storeVars, apiVars, workerVars>>

\* Run reads a job and calls handle.  go-redis looks at the context before it
\* sends a command and not while it waits for the reply, so a Read that blocks
\* when the context is cancelled still returns the next job.
ReadJob(w) ==
    /\ pc[w] = "idle"
    /\ Stream!Read(w)
    /\ Goto(w, "received")
    /\ UNCHANGED <<repoVars, storeVars, apiVars, faults,
                   walk, stopping, unmarked>>

\* Run's Read loses the reply; Run logs the error and reads on, unless the
\* context is cancelled.
ReadJobFails(w) ==
    /\ pc[w] = "idle"
    /\ Fault
    /\ Stream!ReadLost(w)
    /\ Return(w)
    /\ UNCHANGED <<repoVars, storeVars, apiVars, walk, unmarked>>

\* handle: an entry whose id uuid.Parse rejects is acknowledged and forgotten.
\* One with the id of no row is run, but its UPDATEs hit no row and its objects
\* have a prefix of their own: of that run only its end is seen here.
Discard(w) ==
    /\ pc[w] = "received"
    /\ Vid(w) = NoVideo
    /\ \/ CallOk(w) /\ Stream!Ack(w)
       \/ CallFails(w) /\ Stream!Drop(w)
    /\ Return(w)
    /\ UNCHANGED <<repoVars, storeVars, apiVars, walk, unmarked>>

\* [variant] The run begins without a word to the table.
BeginUnmarked(w) ==
    /\ pc[w] = "received"
    /\ Vid(w) # NoVideo
    /\ CallOk(w)
    /\ Goto(w, "download")
    /\ UNCHANGED <<repoVars, storeVars, streamVars, apiVars,
                   walk, stopping, unmarked>>

\* handle: the video is marked processing, and the work directory made.
MarkProcessing(w) ==
    /\ pc[w] = "received"
    /\ Vid(w) # NoVideo
    /\ CallOk(w)
    /\ Repo!UpdateStatus(Vid(w), "processing")
    /\ Goto(w, "download")
    /\ UNCHANGED <<storeVars, streamVars, apiVars, walk, stopping, unmarked>>

\* handle: either of the two fails; handle returns without an ack.
MarkProcessingFails(w) ==
    /\ pc[w] = "received"
    /\ Vid(w) # NoVideo
    /\ CallFails(w)
    /\ \/ UNCHANGED repoVars
       \/ Repo!UpdateStatus(Vid(w), "processing")
    /\ Stream!Drop(w)
    /\ Return(w)
    /\ UNCHANGED <<storeVars, apiVars, walk, unmarked>>

\* Process: the source is downloaded.
Download(w) ==
    /\ pc[w] = "download"
    /\ Vid(w) \in raw
    /\ CallOk(w)
    /\ Goto(w, "transcode")
    /\ UNCHANGED <<repoVars, storeVars, streamVars, apiVars,
                   walk, stopping, unmarked>>

\* [variant] A missing source is not an error to record.
DownloadFailsSilently(w) ==
    /\ pc[w] = "download"
    /\ \/ Vid(w) \notin raw /\ UNCHANGED faults
       \/ CallFails(w)
    /\ Goto(w, "acking")
    /\ UNCHANGED <<repoVars, storeVars, streamVars, apiVars,
                   walk, stopping, unmarked>>

\* Process: there is no source, or the download fails.
DownloadFails(w) ==
    /\ pc[w] = "download"
    /\ \/ Vid(w) \notin raw /\ UNCHANGED faults
       \/ CallFails(w)
    /\ Goto(w, "failing")
    /\ UNCHANGED <<repoVars, storeVars, streamVars, apiVars,
                   walk, stopping, unmarked>>

\* Process: the stages that only touch the work directory, from the probe to
\* the master manifest.
Transcode(w) ==
    /\ pc[w] = "transcode"
    /\ CallOk(w)
    /\ Goto(w, "upload")
    /\ UNCHANGED <<repoVars, storeVars, streamVars, apiVars,
                   walk, stopping, unmarked>>

\* Process: one of these stages fails, on its input, for want of disk, or
\* because the cancelled context kills ffmpeg.
TranscodeFails(w) ==
    /\ pc[w] = "transcode"
    /\ Goto(w, "failing")
    /\ UNCHANGED <<repoVars, storeVars, streamVars, apiVars, faults,
                   walk, stopping, unmarked>>

\* [variant] The walk ends one object early.
UploadAllButLast(w) ==
    /\ pc[w] = "upload"
    /\ CallOk(w)
    /\ Store!PutHLS(Vid(w), walk[w], held[w])
    /\ walk' = [walk EXCEPT ![w] = IF @ + 1 = NumFiles THEN 1 ELSE @ + 1]
    /\ Goto(w, IF walk[w] + 1 = NumFiles THEN "publish" ELSE "upload")
    /\ UNCHANGED <<repoVars, streamVars, apiVars, stopping, unmarked>>

\* [variant] The tree is uploaded from the last object to the first.
UploadBackwards(w) ==
    /\ pc[w] = "upload"
    /\ CallOk(w)
    /\ Store!PutHLS(Vid(w), NumFiles + 1 - walk[w], held[w])
    /\ walk' = [walk EXCEPT ![w] = IF @ = NumFiles THEN 1 ELSE @ + 1]
    /\ Goto(w, IF walk[w] = NumFiles THEN "publish" ELSE "upload")
    /\ UNCHANGED <<repoVars, streamVars, apiVars, stopping, unmarked>>

\* UploadHLSDir: the next object of the walk.
UploadFile(w) ==
    /\ pc[w] = "upload"
    /\ CallOk(w)
    /\ Store!PutHLS(Vid(w), walk[w], held[w])
    /\ walk' = [walk EXCEPT ![w] = IF @ = NumFiles THEN 1 ELSE @ + 1]
    /\ Goto(w, IF walk[w] = NumFiles THEN "publish" ELSE "upload")
    /\ UNCHANGED <<repoVars, streamVars, apiVars, stopping, unmarked>>

\* [variant] The walk swallows the error of the put and Process goes on.
UploadErrorSwallowed(w) ==
    /\ pc[w] = "upload"
    /\ CallFails(w)
    /\ UNCHANGED storeVars
    /\ walk' = [walk EXCEPT ![w] = 1]
    /\ Goto(w, "publish")
    /\ UNCHANGED <<repoVars, streamVars, apiVars, stopping, unmarked>>

\* UploadHLSDir: putting an object fails, and the walk ends.
UploadFileFails(w) ==
    /\ pc[w] = "upload"
    /\ CallFails(w)
    /\ \/ UNCHANGED storeVars
       \/ Store!PutHLS(Vid(w), walk[w], held[w])
    /\ walk' = [walk EXCEPT ![w] = 1]
    /\ Goto(w, "failing")
    /\ UNCHANGED <<repoVars, streamVars, apiVars, stopping, unmarked>>

\* handle: Process has returned its Result, and the video is ready.
Publish(w) ==
    /\ pc[w] = "publish"
    /\ CallOk(w)
    /\ Repo!SetPlayback(Vid(w), "ready", held[w])
    /\ Goto(w, "acking")
    /\ UNCHANGED <<storeVars, streamVars, apiVars, walk, stopping, unmarked>>

\* handle: marking it ready fails; handle returns without an ack.
PublishFails(w) ==
    /\ pc[w] = "publish"
    /\ CallFails(w)
    /\ \/ UNCHANGED repoVars
       \/ Repo!SetPlayback(Vid(w), "ready", held[w])
    /\ Stream!Drop(w)
    /\ Return(w)
    /\ UNCHANGED <<storeVars, apiVars, walk, unmarked>>

\* [variant] The status written is none the API knows.
MarkFailedAsError(w) ==
    /\ pc[w] = "failing"
    /\ CallOk(w)
    /\ Repo!UpdateStatus(Vid(w), "error")
    /\ Goto(w, "acking")
    /\ UNCHANGED <<storeVars, streamVars, apiVars, walk, stopping, unmarked>>

\* [variant] The job is acknowledged, the row left as it is.
MarkFailedForgotten(w) ==
    /\ pc[w] = "failing"
    /\ CallOk(w)
    /\ Goto(w, "acking")
    /\ UNCHANGED <<repoVars, storeVars, streamVars, apiVars,
                   walk, stopping, unmarked>>

\* handle: Process has returned an error, and the video is failed.
MarkFailed(w) ==
    /\ pc[w] = "failing"
    /\ CallOk(w)
    /\ Repo!UpdateStatus(Vid(w), "failed")
    /\ Goto(w, "acking")
    /\ UNCHANGED <<storeVars, streamVars, apiVars, walk, stopping, unmarked>>

\* handle: marking it failed fails; this is logged, and the job acknowledged
\* all the same.
MarkFailedFails(w) ==
    /\ pc[w] = "failing"
    /\ CallFails(w)
    /\ \/ UNCHANGED repoVars /\ unmarked' = unmarked \cup {held[w]}
       \/ Repo!UpdateStatus(Vid(w), "failed") /\ UNCHANGED unmarked
    /\ Goto(w, "acking")
    /\ UNCHANGED <<storeVars, streamVars, apiVars, walk, stopping>>

\* [variant] handle returns before the XACK.
ReturnWithoutAck(w) ==
    /\ pc[w] = "acking"
    /\ CallOk(w) /\ Stream!Drop(w)
    /\ Return(w)
    /\ UNCHANGED <<repoVars, storeVars, apiVars, walk, unmarked>>

\* handle: the entry is acknowledged, or that fails; handle is done.
AckJob(w) ==
    /\ pc[w] = "acking"
    /\ \/ CallOk(w) /\ Stream!Ack(w)
       \/ CallFails(w) /\ Stream!Drop(w)
    /\ Return(w)
    /\ UNCHANGED <<repoVars, storeVars, apiVars, walk, unmarked>>

\* SIGTERM cancels the context; calls fail from now on, and Run returns when it
\* is back in its loop.
Stop(w) ==
    /\ Fault
    /\ pc[w] # "down"
    /\ w \notin stopping
    /\ stopping' = stopping \cup {w}
    /\ UNCHANGED <<repoVars, storeVars, streamVars, apiVars,
                   pc, walk, unmarked>>

\* The blocking Read ends without a job, and Run returns.
ShutDown(w) ==
    /\ pc[w] = "idle"
    /\ w \in stopping
    /\ stopping' = stopping \ {w}
    /\ Goto(w, "down")
    /\ UNCHANGED <<repoVars, storeVars, streamVars, apiVars, faults,
                   walk, unmarked>>

\* The process dies where it stands.
Crash(w) ==
    /\ Fault
    /\ pc[w] # "down"
    /\ IF pc[w] = "idle" THEN UNCHANGED streamVars ELSE Stream!Drop(w)
    /\ stopping' = stopping \ {w}
    /\ walk' = [walk EXCEPT ![w] = 1]
    /\ Goto(w, "down")
    /\ UNCHANGED <<repoVars, storeVars, apiVars, unmarked>>
------------------------------------------------------------------------------
ApiStep(v) ==
    \/ PresignUpload(v)
    \/ CreateVideoFails(v)
    \/ EnqueueJob(v)
    \/ EnqueueJobFails(v)

ClientStep(v) ==
    \/ CreateVideo(v)
    \/ CompleteVideo(v)
    \/ CompleteVideoFails(v)
    \/ ClientPuts(v)

\* What a worker does by itself.
WorkerStep(w) ==
    \/ Start(w) \/ StartFails(w)
    \/ ReadJob(w) \/ ReadJobFails(w) \/ ShutDown(w)
    \/ Discard(w)
    \/ MarkProcessing(w) \/ MarkProcessingFails(w)
    \/ Download(w) \/ DownloadFails(w)
    \/ Transcode(w) \/ TranscodeFails(w)
    \/ UploadFile(w) \/ UploadFileFails(w)
    \/ Publish(w) \/ PublishFails(w)
    \/ MarkFailed(w) \/ MarkFailedFails(w)
    \/ AckJob(w)

Next ==
    \/ \E v \in Video : ApiStep(v) \/ ClientStep(v)
    \/ \E w \in Worker : WorkerStep(w) \/ Stop(w) \/ Crash(w)
    \/ StrayEntry

Spec == Init /\ [][Next]_vars

\* Handlers and workers that run get on with their work, and a worker process
\* that went down is started again.  Clients owe nothing, and a worker that
\* crashes or is told to stop does so at any time.
Fairness ==
    /\ \A v \in Video : WF_vars(ApiStep(v))
    /\ \A w \in Worker : WF_vars(WorkerStep(w))

FairSpec == Spec /\ Fairness
------------------------------------------------------------------------------
(* The inductive invariant: what keeps the safety properties below true *)

\* A worker has an entry in hand exactly while it is in handle; past the check
\* of the id, the entry is for a video.  The walk starts at the first object.
WorkerInv ==
    \A w \in Worker :
        /\ pc[w] \in InHandle <=> held[w] # Stream!NoEntry
        /\ pc[w] \in InHandle \ {"received"} => Vid(w) \in Video
        /\ walk[w] \in Store!File
        /\ pc[w] # "upload" => walk[w] = 1

\* A video has no job before it was marked uploaded, and every object and every
\* playback row of it was written for a delivered entry of its own.
OriginInv ==
    \A v \in Video :
        /\ status[v] \in {Repo!Absent, "pending"} =>
              completing[v] = 0 /\ Stream!EntriesOf(v) = {}
        /\ playback[v] # Repo!NoPlayback =>
              playback[v] \in Stream!EntriesOf(v) /\ playback[v] <= lastDelivered
        /\ \A f \in Store!File : hls[v][f] # Store!NoObject =>
              hls[v][f] \in Stream!EntriesOf(v)

\* The first n objects of v's tree are in the bucket.
UploadedUpTo(v, n) == \A f \in 1..n : hls[v][f] # Store!NoObject

\* Whoever wrote them, the objects of a tree appear in the order of the walk; a
\* worker has put what its walk has passed, and a row is offered when all are.
UploadInv ==
    /\ \A v \in Video, f \in Store!File :
          hls[v][f] # Store!NoObject => UploadedUpTo(v, f)
    /\ \A v \in Video : playback[v] # Repo!NoPlayback => UploadedUpTo(v, NumFiles)
    /\ \A w \in Worker :
          /\ pc[w] = "upload" => UploadedUpTo(Vid(w), walk[w] - 1)
          /\ pc[w] = "publish" => UploadedUpTo(Vid(w), NumFiles)

\* No row names a run that is still to be published.
UnpublishedInv ==
    \A w \in Worker, v \in Video :
        pc[w] \in InHandle \ {"acking"} => playback[v] # held[w]

SafetyInv ==
    /\ TypeOK
    /\ Stream!CursorInv
    /\ Stream!HeldInv
    /\ WorkerInv
    /\ OriginInv
    /\ UploadInv
    /\ UnpublishedInv
------------------------------------------------------------------------------
(* Properties *)

\* The entries that are still to be delivered, or are pending and in nobody's
\* hands.
Undelivered(e) == e \in (lastDelivered + 1)..Len(stream)

\* Something is under way that will change v's status: a handler about to
\* enqueue, an entry to be read, or a worker that has not yet settled it.
Carried(v) ==
    \/ completing[v] > 0
    \/ \E e \in Stream!EntriesOf(v) : Undelivered(e)
    \/ \E w \in Worker : pc[w] \in InHandle \ {"acking"} /\ Vid(w) = v

\* A delivered entry of v that nobody works on and nobody acknowledged.
StrandedJob(v) == \E e \in Stream!EntriesOf(v) : Stream!Stranded(e)

\* The ways a video can be given up: its job is stranded, the client was not
\* told 200, or a failed run could not be written to the table.
GivenUp(v) ==
    \/ StrandedJob(v)
    \/ v \in unanswered
    \/ \E e \in unmarked : e \in Stream!EntriesOf(v)

\* Handlers and workers do not lose a video among themselves: while the API
\* shows "uploaded" or "processing" something is under way for it, unless one of
\* the three ways to give it up was taken.
Accounted ==
    \A v \in Video :
        status[v] \in {"uploaded", "processing"} => Carried(v) \/ GivenUp(v)

\* A fault costs one video at most: a lost reply, an aborted request (an API that
\* dies is one fault for each request it served), a worker that dies or its
\* SIGTERM, with all the calls that fail under the context it cancels, gives up
\* one, and nothing else does, whatever fails in the pipeline.
OneVideoPerFault == Cardinality({v \in Video : GivenUp(v)}) <= faults

\* CompleteVideo marks the row before it enqueues: no worker ever meets a job of
\* a video that is still pending, and such a video has neither objects in the
\* HLS bucket nor playback data.
PendingUntouched ==
    \A v \in Video : status[v] \in {Repo!Absent, "pending"} =>
        /\ Stream!EntriesOf(v) = {}
        /\ playback[v] = Repo!NoPlayback
        /\ \A f \in Store!File : hls[v][f] = Store!NoObject

\* Playback data appears after the upload: a video whose row offers URLs and a
\* key has every object of its tree in the HLS bucket.
OfferedIsUploaded ==
    \A v \in Video : Repo!GetVideoKey(v) # Repo!NoPlayback =>
        \A f \in Store!File : hls[v][f] # Store!NoObject

\* The walk order publishes master.m3u8 after everything it refers to.
MasterAfterMedia ==
    \A v \in Video : hls[v][Master] # Store!NoObject =>
        \A f \in Store!Media : hls[v][f] # Store!NoObject

\* The key the API serves for v is the one v's segments are encrypted with.
Playable(v) == \A f \in Store!Media : hls[v][f] = Repo!GetVideoKey(v)

\* A video with one job is playable as soon as it has playback data, and stays
\* so: crashes, failures and a later call to CompleteVideo do not matter, until
\* a second job is enqueued.
SoleJobPlayable ==
    \A v \in Video :
        /\ Repo!GetVideoKey(v) # Repo!NoPlayback
        /\ \A d, e \in Stream!EntriesOf(v) : d = e
        => Playable(v)

\* A video completed once and with one job keeps its final status: no entry is
\* run twice, so nothing comes back to a video that is ready or failed.
SettledStays ==
    [][\A v \in Video :
          /\ status[v] \in {"ready", "failed"}
          /\ calls'[v] = 1
          /\ \A d, e \in Stream!EntriesOf(v) : d = e
          => status'[v] = status[v]]_vars

\* The rows behave as VideoLifecycle promises the client.
Lifecycle == INSTANCE VideoLifecycle
ImplementsLifecycle == Lifecycle!Spec

\* Once the faults have stopped, a video that was marked uploaded becomes ready
\* or failed, unless it was given up.
SettledOrGivenUp ==
    \A v \in Video : status[v] \in {"uploaded", "processing"}
                       ~> (status[v] \in {"ready", "failed"} \/ GivenUp(v))

\* Unless a fault happens no video is given up: one that was marked uploaded,
\* however often, becomes ready or failed, whichever of its jobs write last.
EverySettles ==
    \A v \in Video : status[v] \in {"uploaded", "processing"}
                       ~> (status[v] \in {"ready", "failed"} \/ faults > 0)

\* Every entry is read in the end: failing jobs, stray entries and crashes of
\* workers do not block the stream.
StreamDrains ==
    \A v \in Video : (\E e \in Stream!EntriesOf(v) : Undelivered(e))
                       ~> ~(\E e \in Stream!EntriesOf(v) : Undelivered(e))
------------------------------------------------------------------------------
(* What the repository says of the program and the program does not do *)

\* api/openapi.yaml:92-93, "Returns the raw 16-byte AES-128 key for the video.
\* HLS players fetch this automatically from the URI embedded in the encrypted
\* playlist": a ready video is playable.
ReadyIsPlayable ==
    \A v \in Video : status[v] = "ready" => Playable(v)

\* worker.go:56-57, "marks ready or failed, and acks the stream entry": the only
\* job of a video completed once is acknowledged after the video was marked.
AckedIsMarked ==
    \A v \in Video :
        /\ calls[v] = 1
        /\ Stream!EntriesOf(v) # {}
        /\ \A e \in Stream!EntriesOf(v) : ~Undelivered(e) /\ e \notin pel
        => status[v] \in {"ready", "failed"}
==============================================================================
