------------------------ MODULE ForgeVodFinalProofs ------------------------
(***************************************************************************)
(* A video that was completed once and has one job keeps its final status  *)
(* (SettledStays).  The final status was written by the run of that job;   *)
(* FinalInv says that this run is past its last write and that no other    *)
(* run is to come, since entries are delivered once and to one worker.     *)
(* And a video whose runs do not overlap is playable when it is ready      *)
(* (ReadyUnlessOverlapped).                                                *)
(***************************************************************************)
EXTENDS ForgeVodOutcomeProofs, Overlap

USE DEF Stream!NoEntry, Repo!NoPlayback, Repo!Absent, Store!NoObject

Final(v) == status[v] \in {"ready", "failed"}
SoleJob(v) == \A d, e \in Stream!EntriesOf(v) : d = e

\* The entry has been read, and nobody is going to write a status for it.
Over(e) ==
    /\ e <= lastDelivered
    /\ \A w \in Worker : held[w] = e => ~Working(w)

FinalInv ==
    \A v \in Video :
        /\ status[v] \notin {"absent", "pending"} => calls[v] >= 1
        /\ Final(v) => Stream!EntriesOf(v) # {}
        /\ Final(v) /\ calls[v] = 1 /\ SoleJob(v) =>
              \A e \in Stream!EntriesOf(v) : Over(e)
------------------------------------------------------------------------------
\* What a worker's step does to its run: it changes the status of its own video,
\* to a final one with the last write of the run only; a run that is past it
\* does not come back, and a new one is of the entry next to the cursor.
RunEffect(w) ==
    /\ status' # status =>
          /\ Working(w) /\ Vid(w) \in Video
          /\ status' = [status EXCEPT ![Vid(w)] = status'[Vid(w)]]
          /\ status'[Vid(w)] \in {"ready", "failed"} => ~Working(w)'
    /\ Working(w)' =>
          \/ Working(w) /\ held'[w] = held[w]
          \/ held'[w] = lastDelivered + 1

LEMMA WorkerRun ==
    ASSUME SafetyInv, ConstAssumption, NEW w \in Worker,
           WorkerStep(w) \/ Stop(w) \/ Crash(w)
    PROVE  RunEffect(w)
<1>1. /\ pc \in [Worker -> PC]
      /\ held \in [Worker -> Nat]
      /\ status \in [Video -> Repo!Status \cup {"absent"}]
      /\ Vid(w) \in Job \/ held[w] = 0
  BY SafetyInv_Placed DEF SafetyInv, TypeOK, Repo!RepoTypeOK, Stream!StreamTypeOK, Placed
<1>2. /\ pc[w] \in InHandle <=> held[w] # 0
      /\ pc[w] \in InHandle \ {"received"} => Vid(w) \in Video
  BY DEF SafetyInv, WorkerInv
<1> USE <1>1, <1>2
        DEF RunEffect, Working, InHandle, repoVars, storeVars, streamVars,
            apiVars, workerVars
<1>4. CASE Start(w)
  BY <1>4 DEF Start, Goto, Stream!EnsureGroup
<1>5. CASE StartFails(w)
  BY <1>5 DEF StartFails, Stream!EnsureGroup
<1>6. CASE ReadJob(w)
  BY <1>6 DEF ReadJob, Goto, Stream!Read, Stream!Deliver
<1>7. CASE ReadJobFails(w)
  BY <1>7 DEF ReadJobFails, Return, Goto, Stream!ReadLost, Stream!Deliver
<1>8. CASE ShutDown(w)
  BY <1>8 DEF ShutDown, Goto
<1>9. CASE Discard(w)
  BY <1>9 DEF Discard, Return, Goto, Stream!Ack, Stream!Drop
<1>10. CASE MarkProcessing(w)
  BY <1>10 DEF MarkProcessing, Goto, Repo!UpdateStatus, Job
<1>11. CASE MarkProcessingFails(w)
  BY <1>11 DEF MarkProcessingFails, Return, Goto, Stream!Drop, Repo!UpdateStatus, Job
<1>12. CASE Download(w)
  BY <1>12 DEF Download, Goto
<1>13. CASE DownloadFails(w)
  BY <1>13 DEF DownloadFails, Goto
<1>14. CASE Transcode(w)
  BY <1>14 DEF Transcode, Goto
<1>15. CASE TranscodeFails(w)
  BY <1>15 DEF TranscodeFails, Goto
<1>16. CASE UploadFile(w)
  BY <1>16 DEF UploadFile, Goto
<1>17. CASE UploadFileFails(w)
  BY <1>17 DEF UploadFileFails, Goto
<1>18. CASE Publish(w)
  BY <1>18 DEF Publish, Goto, Repo!SetPlayback
<1>19. CASE PublishFails(w)
  BY <1>19 DEF PublishFails, Return, Goto, Stream!Drop, Repo!SetPlayback
<1>20. CASE MarkFailed(w)
  BY <1>20 DEF MarkFailed, Goto, Repo!UpdateStatus
<1>21. CASE MarkFailedFails(w)
  BY <1>21 DEF MarkFailedFails, Goto, Repo!UpdateStatus
<1>22. CASE AckJob(w)
  BY <1>22 DEF AckJob, Return, Goto, Stream!Ack, Stream!Drop
<1>23. CASE Stop(w)
  BY <1>23 DEF Stop
<1>24. CASE Crash(w)
  BY <1>24 DEF Crash, Goto, Stream!Drop
<1> QED
  BY <1>4, <1>5, <1>6, <1>7, <1>8, <1>9, <1>10, <1>11, <1>12, <1>13, <1>14,
     <1>15, <1>16, <1>17, <1>18, <1>19, <1>20, <1>21, <1>22, <1>23, <1>24 DEF WorkerStep

\* Every call that marks a row is counted; no other handler touches a row that
\* is there.
CallEffect ==
    \A v \in Video :
        \/ status'[v] = status[v] /\ calls'[v] = calls[v]
        \/ status'[v] = "uploaded" /\ calls'[v] = calls[v] + 1
        \/ status[v] = "absent" /\ status'[v] = "pending" /\ calls'[v] = calls[v]

LEMMA ApiCall ==
    ASSUME SafetyInv, NEW v \in Video, ApiStep(v) \/ ClientStep(v)
    PROVE  CallEffect
<1> USE DEF CallEffect, repoVars, storeVars, streamVars, apiVars
<1>1. /\ status \in [Video -> Repo!Status \cup {"absent"}]
      /\ calls \in [Video -> Nat]
  BY DEF SafetyInv, TypeOK, Repo!RepoTypeOK
<1>2. CASE CreateVideo(v)
  BY <1>1, <1>2 DEF CreateVideo, Repo!Create
<1>3. CASE CompleteVideo(v)
  BY <1>1, <1>3 DEF CompleteVideo, Repo!UpdateStatus
<1>4. CASE CompleteVideoFails(v)
  BY <1>1, <1>4 DEF CompleteVideoFails, Repo!UpdateStatus
<1>5. CASE ClientPuts(v)
  BY <1>5 DEF ClientPuts
<1>6. CASE PresignUpload(v)
  BY <1>6 DEF PresignUpload
<1>7. CASE CreateVideoFails(v)
  BY <1>7 DEF CreateVideoFails
<1>8. CASE EnqueueJob(v)
  BY <1>8 DEF EnqueueJob
<1>9. CASE EnqueueJobFails(v)
  BY <1>9 DEF EnqueueJobFails
<1> QED
  BY <1>2, <1>3, <1>4, <1>5, <1>6, <1>7, <1>8, <1>9 DEF ApiStep, ClientStep
------------------------------------------------------------------------------
\* The jobs of a video that has one after the step are those it had before, if it
\* had any.
LEMMA SoleJobBefore ==
    ASSUME SafetyInv, [Stream!StreamNext]_streamVars, NEW v \in Video,
           SoleJob(v)', Stream!EntriesOf(v) # {}
    PROVE  SoleJob(v) /\ Stream!EntriesOf(v)' = Stream!EntriesOf(v)
<1>1. Stream!EntriesOf(v) \subseteq Stream!EntriesOf(v)'
  BY StreamGrows DEF SafetyInv, TypeOK, StreamSafe
<1>2. \A d, e \in Stream!EntriesOf(v)' : d = e
  BY DEF SoleJob
<1>3. PICK e : e \in Stream!EntriesOf(v)
  OBVIOUS
<1> QED
  BY <1>1, <1>2, <1>3 DEF SoleJob

LEMMA FinalInv_Api ==
    ASSUME SafetyInv, FinalInv, ApiEffect, CallEffect, [Stream!StreamNext]_streamVars
    PROVE  FinalInv'
<1> SUFFICES ASSUME NEW v \in Video
             PROVE  /\ status'[v] \notin {"absent", "pending"} => calls'[v] >= 1
                    /\ Final(v)' => Stream!EntriesOf(v)' # {}
                    /\ Final(v)' /\ calls'[v] = 1 /\ SoleJob(v)' =>
                          \A e \in Stream!EntriesOf(v)' : Over(e)'
  BY DEF FinalInv
<1>1. Stream!EntriesOf(v) \subseteq Stream!EntriesOf(v)'
  BY StreamGrows DEF SafetyInv, TypeOK, StreamSafe
<1>2. calls \in [Video -> Nat]
  BY DEF SafetyInv, TypeOK
<1>3. Final(v)' => Final(v) /\ calls'[v] = calls[v]
  BY DEF Final, CallEffect
<1>4. status'[v] \notin {"absent", "pending"} => calls'[v] >= 1
  BY <1>2 DEF CallEffect, FinalInv
<1>5. Final(v)' => Stream!EntriesOf(v)' # {}
  BY <1>1, <1>3 DEF FinalInv
<1>6. ASSUME Final(v)', calls'[v] = 1, SoleJob(v)', NEW e \in Stream!EntriesOf(v)'
      PROVE  Over(e)'
  <2>1. SoleJob(v) /\ Stream!EntriesOf(v)' = Stream!EntriesOf(v)
    BY <1>3, <1>6, SoleJobBefore DEF FinalInv
  <2>2. Over(e)
    BY <1>3, <1>6, <2>1 DEF FinalInv
  <2> QED
    BY <2>2 DEF ApiEffect, workerVars, Over, Working
<1> QED
  BY <1>4, <1>5, <1>6

\* A worker that settles a video is the only one with its entry, and leaves it.
LEMMA FinalInv_Worker ==
    ASSUME SafetyInv, FinalInv, NEW w \in Worker, WorkerEffect(w), RunEffect(w),
           [Stream!StreamNext]_streamVars
    PROVE  FinalInv'
<1> SUFFICES ASSUME NEW v \in Video
             PROVE  /\ status'[v] \notin {"absent", "pending"} => calls'[v] >= 1
                    /\ Final(v)' => Stream!EntriesOf(v)' # {}
                    /\ Final(v)' /\ calls'[v] = 1 /\ SoleJob(v)' =>
                          \A e \in Stream!EntriesOf(v)' : Over(e)'
  BY DEF FinalInv
<1>1. /\ held \in [Worker -> Nat]
      /\ pc \in [Worker -> PC]
      /\ status \in [Video -> Repo!Status \cup {"absent"}]
      /\ calls' = calls
      /\ held' = [held EXCEPT ![w] = held'[w]]
      /\ pc' = [pc EXCEPT ![w] = pc'[w]]
      /\ stream' = stream
      /\ Stream!EntriesOf(v)' = Stream!EntriesOf(v)
      /\ lastDelivered \in Nat
  BY WorkerBefore
     DEF SafetyInv, TypeOK, WorkerEffect, PlaceEffect, RestEffect, apiVars,
         Repo!RepoTypeOK
<1>2. lastDelivered' \in Nat /\ lastDelivered <= lastDelivered'
  <2>1. StreamSafe
    BY DEF SafetyInv, TypeOK, StreamSafe
  <2> QED
    BY <2>1, StreamGrows, StreamSafe_Step DEF StreamSafe, Stream!StreamTypeOK
<1>3. \A d \in Worker : held[d] # 0 =>
          /\ held[d] <= lastDelivered
          /\ held[d] \in Stream!EntriesOf(Vid(d))
          /\ \A c \in Worker : held[c] = held[d] => c = d
  BY StreamFacts DEF SafetyInv, TypeOK, StreamSafe
<1>4. Working(w) => held[w] # 0
  BY DEF SafetyInv, WorkerInv, Working
\* An entry that was over stays over.
<1>5. ASSUME NEW e \in Stream!EntriesOf(v), Over(e)
      PROVE  Over(e)'
  <2>0. e \in Nat
    BY DEF Stream!EntriesOf
  <2>1. e <= lastDelivered'
    BY <1>1, <1>2, <1>5, <2>0 DEF Over
  <2>2. ASSUME NEW d \in Worker, held'[d] = e
        PROVE  ~Working(d)'
    <3>1. CASE d = w
      BY <1>1, <1>5, <2>0, <2>2, <3>1 DEF RunEffect, Over
    <3>2. CASE d # w
      BY <1>1, <1>5, <2>2, <3>2 DEF Over, Working
    <3> QED BY <3>1, <3>2
  <2> QED
    BY <2>1, <2>2 DEF Over
\* The status of v stays, or the worker settles it with its last write.
<1>6. CASE status'[v] = status[v]
  <2>1. Final(v)' => Final(v)
    BY <1>6 DEF Final
  <2>2. SoleJob(v)' => SoleJob(v)
    BY <1>1 DEF SoleJob
  <2> QED
    BY <1>1, <1>5, <1>6, <2>1, <2>2 DEF FinalInv
<1>7. CASE status'[v] # status[v]
  <2>1. Working(w) /\ Vid(w) = v /\ (Final(v)' => ~Working(w)')
    BY <1>1, <1>7 DEF RunEffect, Final
  <2>2. held[w] \in Stream!EntriesOf(v) /\ held[w] # 0 /\ held[w] <= lastDelivered
    BY <1>3, <1>4, <2>1
  <2>3. status'[v] \notin {"absent", "pending"} => calls'[v] >= 1
    BY <1>1, <1>4, <2>1, WorkerBefore DEF FinalInv
  <2>4. ASSUME Final(v)', SoleJob(v)', NEW e \in Stream!EntriesOf(v)'
        PROVE  Over(e)'
    <3>1. e = held[w]
      BY <1>1, <2>2, <2>4 DEF SoleJob
    <3>2. e <= lastDelivered'
      BY <1>1, <1>2, <2>2, <3>1
    <3>3. ASSUME NEW d \in Worker, held'[d] = e
          PROVE  ~Working(d)'
      <4>1. d = w
        BY <1>1, <1>3, <2>2, <3>1, <3>3
      <4> QED
        BY <2>1, <2>4, <4>1
    <3> QED
      BY <3>2, <3>3 DEF Over
  <2> QED
    BY <1>1, <2>2, <2>3, <2>4
<1> QED
  BY <1>6, <1>7

LEMMA FinalInv_Step ==
    ASSUME SafetyInv, FinalInv, [Next]_vars, ConstAssumption
    PROVE  FinalInv'
<1>1. [Stream!StreamNext]_streamVars
  BY StreamStep
<1>2. ASSUME NEW v \in Video, ApiStep(v) \/ ClientStep(v)
      PROVE  FinalInv'
  BY <1>1, <1>2, ApiStepEffect, ApiCall, FinalInv_Api DEF SafetyInv
<1>3. ASSUME StrayEntry
      PROVE  FinalInv'
  <2>1. CallEffect
    BY <1>3 DEF StrayEntry, CallEffect, repoVars, apiVars
  <2> QED
    BY <1>1, <1>3, <2>1, StrayEntryEffect, FinalInv_Api DEF SafetyInv
<1>4. ASSUME NEW w \in Worker, WorkerStep(w) \/ Stop(w) \/ Crash(w)
      PROVE  FinalInv'
  BY <1>1, <1>4, SafetyInv_Placed, WorkerStepEffect, WorkerRun, FinalInv_Worker
<1>5. ASSUME UNCHANGED vars
      PROVE  FinalInv'
  BY <1>5
     DEF FinalInv, Final, SoleJob, Over, Working, Stream!EntriesOf, vars,
         repoVars, streamVars, apiVars, workerVars
<1> QED
  BY <1>2, <1>3, <1>4, <1>5 DEF Next

\* A step that changes a final status counts a further call, or is one of a run,
\* and then the video has another job.
LEMMA Settled_Step ==
    ASSUME SafetyInv, FinalInv, [Next]_vars, ConstAssumption,
           NEW v \in Video, Final(v), calls'[v] = 1, SoleJob(v)
    PROVE  status'[v] = status[v]
<1>1. calls[v] \in Nat /\ calls[v] >= 1
  BY DEF SafetyInv, TypeOK, FinalInv, Final
<1>2. CallEffect => status'[v] = status[v]
  BY <1>1 DEF CallEffect, Final
<1>3. ASSUME NEW u \in Video, ApiStep(u) \/ ClientStep(u)
      PROVE  status'[v] = status[v]
  BY <1>2, <1>3, ApiCall
<1>4. ASSUME NEW w \in Worker, WorkerStep(w) \/ Stop(w) \/ Crash(w)
      PROVE  status'[v] = status[v]
  <2>1. RunEffect(w) /\ WorkerEffect(w)
    BY <1>4, WorkerRun, SafetyInv_Placed, WorkerStepEffect
  <2>2. calls[v] = 1
    BY <2>1 DEF WorkerEffect, RestEffect, apiVars
  <2>3. Working(w) => held[w] # 0 /\ held[w] \in Stream!EntriesOf(Vid(w))
    BY StreamFacts DEF SafetyInv, TypeOK, StreamSafe, WorkerInv, Working
  <2>4. ~(Working(w) /\ Vid(w) = v)
    BY <2>2, <2>3 DEF FinalInv, Over
  <2>5. status \in [Video -> Repo!Status \cup {"absent"}]
    BY DEF SafetyInv, TypeOK, Repo!RepoTypeOK
  <2> QED
    BY <2>1, <2>4, <2>5 DEF RunEffect
<1>5. CASE StrayEntry \/ UNCHANGED vars
  BY <1>5 DEF StrayEntry, vars, repoVars
<1> QED
  BY <1>3, <1>4, <1>5 DEF Next

\* A video that was completed once and has one job keeps "ready" or "failed", no
\* matter what fails and which workers die or are started again.
THEOREM SettledCorrect == Spec => SettledStays
<1>1. Init => FinalInv
  BY DEF Init, Repo!RepoInit, FinalInv, Final
<1>2. SafetyInv /\ FinalInv /\ [Next]_vars =>
        [\A v \in Video :
            /\ status[v] \in {"ready", "failed"}
            /\ calls'[v] = 1
            /\ \A d, e \in Stream!EntriesOf(v) : d = e
            => status'[v] = status[v]]_vars
  BY Settled_Step, ConstAssumption DEF Final, SoleJob
<1>3. SafetyInv /\ FinalInv /\ [Next]_vars => FinalInv'
  BY FinalInv_Step, ConstAssumption
<1> QED
  BY <1>1, <1>2, <1>3, Safety, PTL DEF Spec, SettledStays
------------------------------------------------------------------------------
(* Runs that do not overlap: the upload that published a video is the last one
   that touched its tree, or the video is no longer ready *)

\* The first n objects of the tree are those of w's own run.
OwnUpTo(w, n) == \A f \in 1..n : hls[Vid(w)][f] = held[w]

\* While the last run of a video is under way, alone, the video is not ready, and
\* what its walk has passed is its own.
ProducerInv(w) ==
    /\ status[Vid(w)] # "ready"
    /\ pc[w] = "upload" => OwnUpTo(w, walk[w] - 1)
    /\ pc[w] = "publish" => OwnUpTo(w, NumFiles)

OverlapInv ==
    /\ \A v \in Video : Overlapping(v) => v \in overlapped
    /\ \A v \in Video \ overlapped :
          /\ status[v] = "ready" => Playable(v)
          /\ \A w \in Worker : Producing(w) /\ Vid(w) = v => ProducerInv(w)

\* A run begins by marking its video processing.
BeginEffect(w) ==
    Producing(w)' /\ ~Producing(w) =>
        /\ pc'[w] = "download"
        /\ Repo!UpdateStatus(Vid(w), "processing")

LEMMA WorkerBegins ==
    ASSUME SafetyInv, ConstAssumption, NEW w \in Worker,
           WorkerStep(w) \/ Stop(w) \/ Crash(w)
    PROVE  BeginEffect(w)
<1>1. pc \in [Worker -> PC]
  BY DEF SafetyInv, TypeOK
<1> USE <1>1 DEF BeginEffect, Producing, workerVars
<1>3. CASE Start(w) \/ ReadJob(w) \/ ShutDown(w)
  BY <1>3 DEF Start, ReadJob, ShutDown, Goto
<1>4. CASE StartFails(w) \/ Stop(w)
  BY <1>4 DEF StartFails, Stop
<1>5. CASE ReadJobFails(w) \/ Discard(w) \/ MarkProcessingFails(w) \/ PublishFails(w) \/ AckJob(w)
  BY <1>5 DEF ReadJobFails, Discard, MarkProcessingFails, PublishFails, AckJob, Return, Goto
<1>6. CASE MarkProcessing(w)
  BY <1>6 DEF MarkProcessing, Goto
<1>7. CASE Download(w) \/ DownloadFails(w) \/ Transcode(w) \/ TranscodeFails(w)
  BY <1>7 DEF Download, DownloadFails, Transcode, TranscodeFails
<1>8. CASE UploadFile(w) \/ UploadFileFails(w)
  BY <1>8 DEF UploadFile, UploadFileFails
<1>9. CASE Publish(w) \/ MarkFailed(w) \/ MarkFailedFails(w) \/ Crash(w)
  BY <1>9 DEF Publish, MarkFailed, MarkFailedFails, Crash, Goto
<1> QED
  BY <1>3, <1>4, <1>5, <1>6, <1>7, <1>8, <1>9 DEF WorkerStep

\* What every step of the observer gives of a video that is not overlapped.
LEMMA NotOverlapped ==
    ASSUME Observe, NEW v \in Video, v \notin overlapped'
    PROVE  /\ ~Overlapping(v)'
           /\ v \notin overlapped \/ Begins(v)
BY DEF Observe

LEMMA OverlapInv_Api ==
    ASSUME SafetyInv, OverlapInv, Observe, ApiEffect, CallEffect,
           [Stream!StreamNext]_streamVars
    PROVE  OverlapInv'
<1>1. UNCHANGED <<playback, hls, held, pc, walk>>
  BY DEF ApiEffect, workerVars
<1>2. \A v \in Video : status'[v] = "ready" => status[v] = "ready"
  BY DEF CallEffect
<1>3. \A w \in Worker : Producing(w) => Vid(w)' = Vid(w) /\ Vid(w) \in Video
  <2>1. \A w \in Worker : held[w] # 0 => held[w] \in 1..Len(stream)
    BY StreamFacts DEF SafetyInv, TypeOK, StreamSafe
  <2>2. \A e \in 1..Len(stream) : stream'[e] = stream[e]
    BY StreamGrows DEF SafetyInv, TypeOK, StreamSafe
  <2> QED
    BY <1>1, <2>1, <2>2 DEF SafetyInv, WorkerInv, Producing, InHandle, Vid
<1>4. \A w \in Worker : Producing(w)' <=> Producing(w)
  BY <1>1 DEF Producing
<1>5. ASSUME NEW v \in Video, v \notin overlapped'
      PROVE  /\ status'[v] = "ready" => Playable(v)'
             /\ \A w \in Worker : Producing(w)' /\ Vid(w)' = v => ProducerInv(w)'
  <2>1. v \notin overlapped
    BY <1>4, <1>5, NotOverlapped DEF Begins
  <2>2. status'[v] = "ready" => Playable(v)'
    BY <1>1, <1>2, <2>1 DEF OverlapInv, Playable, Repo!GetVideoKey, Store!Media
  <2>3. ASSUME NEW w \in Worker, Producing(w)', Vid(w)' = v
        PROVE  ProducerInv(w)'
    <3>1. ProducerInv(w) /\ Vid(w)' = Vid(w)
      BY <1>3, <1>4, <2>1, <2>3 DEF OverlapInv
    <3> QED
      BY <1>1, <1>2, <2>3, <3>1 DEF ProducerInv, OwnUpTo
  <2> QED
    BY <2>2, <2>3
<1> QED
  BY <1>5, NotOverlapped DEF OverlapInv

\* A worker's own video, in a run that goes on and was alone before.
LEMMA OverlapInv_Producer ==
    ASSUME SafetyInv, NEW w \in Worker, WorkerEffect(w), ConstAssumption,
           Producing(w), ProducerInv(w), Producing(w)'
    PROVE  ProducerInv(w)'
<1>1. /\ NumFiles \in Nat /\ NumFiles >= 2
      /\ pc \in [Worker -> PC]
      /\ held \in [Worker -> Nat]
      /\ walk \in [Worker -> 1..NumFiles]
      /\ hls \in [Video -> [1..NumFiles -> Nat]]
      /\ status \in [Video -> Repo!Status \cup {"absent"}]
  <2>1. NumFiles \in Nat /\ NumFiles >= 2
    BY DEF ConstAssumption
  <2>2. /\ held \in [Worker -> Nat]
        /\ walk \in [Worker -> 1..NumFiles]
    BY WorkerBefore DEF SafetyInv, TypeOK, WorkerInv, Store!File
  <2> QED
    BY <2>1, <2>2
       DEF SafetyInv, TypeOK, Repo!RepoTypeOK, Store!StoreTypeOK, Store!File
<1>2. /\ held'[w] = held[w] /\ held[w] # 0
      /\ Vid(w)' = Vid(w) /\ Vid(w) \in Video
  <2>1. /\ held'[w] = held[w] /\ Vid(w) \in Video
        /\ stream' = stream /\ held'[w] # 0
    BY DEF WorkerEffect, PlaceEffect, Producing, InHandle
  <2> QED
    BY <2>1 DEF Vid
<1>3. status'[Vid(w)] # "ready"
  <2>1. pc'[w] \in InHandle \ {"acking"}
    BY DEF Producing, InHandle
  <2> QED
    BY <1>1, <1>2, <2>1 DEF WorkerEffect, RowEffect, ProducerInv, Repo!UpdateStatus
<1>4. PutsNext(w) => \A f \in 1..walk[w] : hls'[Vid(w)][f] = held[w]
  <2> SUFFICES ASSUME PutsNext(w), NEW f \in 1..walk[w]
               PROVE  hls'[Vid(w)][f] = held[w]
    OBVIOUS
  <2>1. f \in 1..NumFiles
    BY <1>1
  <2>2. f # walk[w] => f \in 1..(walk[w] - 1)
    BY <1>1
  <2> QED
    BY <1>1, <2>1, <2>2 DEF PutsNext, ProducerInv, OwnUpTo
<1>5. ASSUME pc'[w] = "upload"
      PROVE  OwnUpTo(w, walk[w] - 1)'
  <2>1. CASE walk'[w] = 1
    BY <2>1 DEF OwnUpTo
  <2>2. CASE pc[w] = "upload" /\ walk'[w] = walk[w] /\ hls' = hls
    BY <1>2, <2>2 DEF ProducerInv, OwnUpTo
  <2>3. CASE PutsNext(w) /\ walk'[w] = walk[w] + 1
    <3>1. walk'[w] - 1 = walk[w]
      BY <1>1, <2>3
    <3> QED
      BY <1>2, <1>4, <2>3, <3>1 DEF OwnUpTo
  <2> QED
    BY <1>5, <2>1, <2>2, <2>3 DEF WorkerEffect, PlaceEffect
<1>6. ASSUME pc'[w] = "publish"
      PROVE  OwnUpTo(w, NumFiles)'
  <2>1. \/ pc[w] = "publish" /\ hls' = hls
        \/ PutsNext(w) /\ walk[w] = NumFiles
    BY <1>6 DEF WorkerEffect, PlaceEffect
  <2> QED
    BY <1>2, <1>4, <2>1 DEF ProducerInv, OwnUpTo
<1> QED
  BY <1>2, <1>3, <1>5, <1>6 DEF ProducerInv

\* A video whose tree the worker leaves alone.
LEMMA Untouched ==
    ASSUME SafetyInv, NEW w \in Worker, WorkerEffect(w), ConstAssumption,
           NEW v \in Video, ~(Producing(w) /\ Vid(w) = v)
    PROVE  /\ hls'[v] = hls[v]
           /\ status'[v] = "ready" =>
                 status[v] = "ready" /\ playback'[v] = playback[v]
<1>1. /\ status \in [Video -> Repo!Status \cup {"absent"}]
      /\ playback \in [Video -> Nat]
      /\ hls \in [Video -> [1..NumFiles -> Nat]]
  BY DEF SafetyInv, TypeOK, Repo!RepoTypeOK, Store!StoreTypeOK, Store!File
<1>2. held[w] # 0 /\ Vid(w) \in Video => status[Vid(w)] # "absent"
  BY WorkerBefore
<1>3. pc[w] = "publish" \/ PutsNext(w) => Vid(w) # v
  BY DEF Producing, PutsNext
<1>4. hls'[v] = hls[v]
  BY <1>1, <1>3 DEF WorkerEffect, ObjectEffect, PutsNext
<1>5. CASE pc[w] = "publish" /\ Repo!SetPlayback(Vid(w), "ready", held[w])
  BY <1>1, <1>3, <1>4, <1>5 DEF Repo!SetPlayback
<1>6. CASE \/ UNCHANGED <<status, playback>>
           \/ /\ held[w] # 0 /\ Vid(w) \in Video
              /\ \E r \in {"processing", "failed"} : Repo!UpdateStatus(Vid(w), r)
  BY <1>1, <1>2, <1>4, <1>6 DEF Repo!UpdateStatus
<1> QED
  BY <1>5, <1>6 DEF WorkerEffect, RowEffect

\* What the only run of a video makes ready is playable.
LEMMA Published ==
    ASSUME SafetyInv, NEW w \in Worker, WorkerEffect(w), ConstAssumption,
           NEW v \in Video, Producing(w), Vid(w) = v, ProducerInv(w),
           status'[v] = "ready"
    PROVE  Playable(v)'
<1>1. /\ NumFiles \in Nat /\ Master \in 2..NumFiles
      /\ status \in [Video -> Repo!Status \cup {"absent"}]
      /\ playback \in [Video -> Nat]
  BY DEF ConstAssumption, SafetyInv, TypeOK, Repo!RepoTypeOK
<1>2. held[w] # 0
  BY DEF SafetyInv, WorkerInv, Producing, InHandle
<1>3. status[v] \notin {"absent", "ready"}
  BY <1>2, WorkerBefore DEF ProducerInv
<1>4. ASSUME NEW r \in {"processing", "failed"}, Repo!UpdateStatus(Vid(w), r)
      PROVE  FALSE
  BY <1>1, <1>3, <1>4 DEF Repo!UpdateStatus
<1>5. pc[w] = "publish" /\ Repo!SetPlayback(v, "ready", held[w])
  BY <1>3, <1>4 DEF WorkerEffect, RowEffect
<1>6. hls' = hls
  BY <1>5 DEF WorkerEffect, ObjectEffect, PutsNext
<1>7. playback'[v] = held[w]
  BY <1>1, <1>3, <1>5 DEF Repo!SetPlayback
<1>8. \A f \in Store!Media : hls[v][f] = held[w]
  BY <1>1, <1>5 DEF ProducerInv, OwnUpTo, Store!Media
<1> QED
  BY <1>6, <1>7, <1>8 DEF Playable, Repo!GetVideoKey, Store!Media

LEMMA OverlapInv_Worker ==
    ASSUME SafetyInv, OverlapInv, Observe, NEW w \in Worker, WorkerEffect(w),
           BeginEffect(w), ConstAssumption
    PROVE  OverlapInv'
<1>1. /\ pc \in [Worker -> PC]
      /\ held \in [Worker -> Nat]
      /\ status \in [Video -> Repo!Status \cup {"absent"}]
      /\ stream' = stream
      /\ \A x \in Worker : x # w =>
            pc'[x] = pc[x] /\ walk'[x] = walk[x] /\ held'[x] = held[x]
  BY WorkerBefore
     DEF SafetyInv, TypeOK, Repo!RepoTypeOK, Stream!StreamTypeOK, WorkerEffect, PlaceEffect
<1>2. Producing(w)' => Vid(w)' = Vid(w) /\ Vid(w) \in Video
  <2>1. Producing(w)' => held'[w] = held[w] /\ Vid(w) \in Video
    BY DEF WorkerEffect, PlaceEffect, Producing, InHandle
  <2> QED
    BY <1>1, <2>1 DEF Vid
<1>3. \A x \in Worker : x # w =>
          (Producing(x)' <=> Producing(x)) /\ Vid(x)' = Vid(x)
  BY <1>1 DEF Producing, Vid
<1>4. ASSUME NEW v \in Video, v \notin overlapped'
      PROVE  /\ status'[v] = "ready" => Playable(v)'
             /\ \A x \in Worker : Producing(x)' /\ Vid(x)' = v => ProducerInv(x)'
  <2>1. ~Overlapping(v)' /\ (v \notin overlapped \/ Begins(v))
    BY <1>4, NotOverlapped
  \* A run begins: the video is processing, and no other run of it is under way.
  <2>2. CASE ~Producing(w) /\ Producing(w)' /\ Vid(w) = v
    <3>1. pc'[w] = "download" /\ status'[v] # "ready"
      <4>1. held[w] # 0
        BY <2>2 DEF WorkerEffect, PlaceEffect, Producing, InHandle
      <4>2. status[v] # "absent"
        BY <2>2, <4>1, WorkerBefore
      <4> QED
        BY <1>1, <2>2, <4>2 DEF BeginEffect, Repo!UpdateStatus
    <3>2. \A x \in Worker : Producing(x)' /\ Vid(x)' = v => x = w
      BY <1>2, <2>1, <2>2 DEF Overlapping
    <3>3. ProducerInv(w)'
      BY <1>2, <2>2, <3>1 DEF ProducerInv
    <3> QED
      BY <3>1, <3>2, <3>3
  <2>3. CASE ~(~Producing(w) /\ Producing(w)' /\ Vid(w) = v)
    <3>1. v \notin overlapped
      BY <1>3, <2>1, <2>3 DEF Begins
    <3>2. status[v] = "ready" => Playable(v)
      BY <3>1 DEF OverlapInv
    <3>3. \A x \in Worker : Producing(x) /\ Vid(x) = v => ProducerInv(x)
      BY <3>1 DEF OverlapInv
    \* The run is that of the video: it is the only one.
    <3>4. CASE Producing(w) /\ Vid(w) = v
      <4>1. status'[v] = "ready" => Playable(v)'
        BY <3>3, <3>4, Published
      <4>2. \A x \in Worker : Producing(x)' /\ Vid(x)' = v => x = w
        BY <1>3, <3>1, <3>4 DEF OverlapInv, Overlapping
      <4>3. Producing(w)' => ProducerInv(w)'
        BY <3>3, <3>4, OverlapInv_Producer
      <4> QED
        BY <4>1, <4>2, <4>3
    <3>5. CASE ~(Producing(w) /\ Vid(w) = v)
      <4>1. /\ hls'[v] = hls[v]
            /\ status'[v] = "ready" =>
                  status[v] = "ready" /\ playback'[v] = playback[v]
        BY <3>5, Untouched
      <4>2. status'[v] = "ready" => Playable(v)'
        BY <3>2, <4>1 DEF Playable, Repo!GetVideoKey, Store!Media
      <4>3. ASSUME NEW x \in Worker, Producing(x)', Vid(x)' = v
            PROVE  ProducerInv(x)'
        <5>1. x # w
          BY <1>2, <2>3, <3>5, <4>3
        <5>2. ProducerInv(x) /\ Vid(x) = v
          BY <1>3, <3>3, <4>3, <5>1
        <5> QED
          BY <1>1, <4>1, <4>3, <5>1, <5>2 DEF ProducerInv, OwnUpTo
      <4> QED
        BY <4>2, <4>3
    <3> QED BY <3>4, <3>5
  <2> QED BY <2>2, <2>3
<1> QED
  BY <1>4, NotOverlapped DEF OverlapInv

LEMMA OverlapInv_Step ==
    ASSUME SafetyInv, OverlapInv, [Next /\ Observe]_observedVars, ConstAssumption
    PROVE  OverlapInv'
<1>1. [Next]_vars
  BY DEF observedVars
<1>2. [Stream!StreamNext]_streamVars
  BY <1>1, StreamStep
<1>3. ASSUME Observe, NEW v \in Video, ApiStep(v) \/ ClientStep(v)
      PROVE  OverlapInv'
  BY <1>2, <1>3, ApiStepEffect, ApiCall, OverlapInv_Api DEF SafetyInv
<1>4. ASSUME Observe, StrayEntry
      PROVE  OverlapInv'
  <2>1. CallEffect
    BY <1>4 DEF StrayEntry, CallEffect, repoVars, apiVars
  <2> QED
    BY <1>2, <1>4, <2>1, StrayEntryEffect, OverlapInv_Api DEF SafetyInv
<1>5. ASSUME Observe, NEW w \in Worker, WorkerStep(w) \/ Stop(w) \/ Crash(w)
      PROVE  OverlapInv'
  BY <1>5, SafetyInv_Placed, WorkerStepEffect, WorkerBegins, OverlapInv_Worker
<1>6. ASSUME UNCHANGED observedVars
      PROVE  OverlapInv'
  BY <1>6
     DEF OverlapInv, ProducerInv, Overlapping, Producing, OwnUpTo, Playable,
         Repo!GetVideoKey, Vid, Store!Media, observedVars, vars, repoVars,
         storeVars, streamVars, apiVars, workerVars
<1> QED
  BY <1>3, <1>4, <1>5, <1>6 DEF Next

\* A video that the API shows as ready is playable, all its segments with the key
\* that is served, unless its last runs overlapped: however often it was completed
\* and wherever the runs before the last one broke off.
THEOREM OverlapCorrect == ObservedSpec => []ReadyUnlessOverlapped
<1>1. Init => OverlapInv
  BY DEF Init, Repo!RepoInit, OverlapInv, Overlapping, Producing
<1>2. SafetyInv /\ OverlapInv /\ [Next /\ Observe]_observedVars => OverlapInv'
  BY OverlapInv_Step, ConstAssumption
<1>3. OverlapInv => ReadyUnlessOverlapped
  BY DEF OverlapInv, ReadyUnlessOverlapped
<1>4. [Next /\ Observe]_observedVars => [Next]_vars
  BY DEF observedVars
<1>5. ObservedSpec => Spec
  BY <1>4, PTL DEF ObservedSpec, Spec
<1> QED
  BY <1>1, <1>2, <1>3, <1>5, Safety, PTL DEF ObservedSpec
=============================================================================
