--------------------------- MODULE ForgeVodProofs ---------------------------
(***************************************************************************)
(* Proofs about the whole service, for any videos, workers, output trees   *)
(* and bounds.                                                             *)
(*                                                                         *)
(* SafetyInv is inductive.  The proof does not go through the actions once *)
(* per conjunct: two lemmas say what a step of the API side and what a     *)
(* step of a worker can do to the state at all (ApiEffect, WorkerEffect),  *)
(* one case per action, and every conjunct is then shown from these        *)
(* effects.                                                                *)
(***************************************************************************)
EXTENDS ForgeVod, SequenceTheorems, TLAPS

StreamProofs == INSTANCE TranscodeStreamProofs WITH Consumer <- Worker

USE DEF Stream!NoEntry, Repo!NoPlayback, Repo!Absent, Store!NoObject

StreamSafe ==
    /\ Stream!StreamTypeOK
    /\ Stream!CursorInv
    /\ Stream!HeldInv
------------------------------------------------------------------------------
(* The job stream *)

\* Whatever Queue and Consumer do, the stream's own invariant is kept.
LEMMA StreamSafe_Step ==
    ASSUME StreamSafe, [Stream!StreamNext]_streamVars
    PROVE  StreamSafe'
<1>1. StreamProofs!StreamInv
  BY DEF StreamSafe, StreamProofs!StreamInv,
         Stream!StreamTypeOK, StreamProofs!StreamTypeOK,
         Stream!CursorInv, StreamProofs!CursorInv,
         Stream!HeldInv, StreamProofs!HeldInv, StreamProofs!NoEntry
<1>2. [StreamProofs!StreamNext]_(StreamProofs!streamVars)
  BY DEF Stream!StreamNext, StreamProofs!StreamNext,
         streamVars, StreamProofs!streamVars,
         Stream!EnqueueTranscode, StreamProofs!EnqueueTranscode,
         Stream!EnsureGroup, StreamProofs!EnsureGroup,
         Stream!Read, StreamProofs!Read,
         Stream!ReadLost, StreamProofs!ReadLost,
         Stream!Deliver, StreamProofs!Deliver,
         Stream!Ack, StreamProofs!Ack,
         Stream!Drop, StreamProofs!Drop, StreamProofs!NoEntry
<1>3. StreamProofs!StreamInv'
  BY <1>1, <1>2, StreamProofs!StreamNext_Inv
<1> QED
  BY <1>3
     DEF StreamSafe, StreamProofs!StreamInv,
         Stream!StreamTypeOK, StreamProofs!StreamTypeOK,
         Stream!CursorInv, StreamProofs!CursorInv,
         Stream!HeldInv, StreamProofs!HeldInv, StreamProofs!NoEntry

\* Every step of the service is a step of the stream, or leaves it alone.
LEMMA StreamStep ==
    ASSUME [Next]_vars
    PROVE  [Stream!StreamNext]_streamVars
<1>1. ASSUME NEW v \in Video, ApiStep(v) \/ ClientStep(v)
      PROVE  [Stream!StreamNext]_streamVars
  <2>1. CASE CreateVideo(v)
    BY <2>1 DEF CreateVideo, streamVars
  <2>2. CASE CompleteVideo(v)
    BY <2>2 DEF CompleteVideo, streamVars
  <2>3. CASE CompleteVideoFails(v)
    BY <2>3 DEF CompleteVideoFails, streamVars
  <2>4. CASE ClientPuts(v)
    BY <2>4 DEF ClientPuts, streamVars
  <2>5. CASE PresignUpload(v)
    BY <2>5 DEF PresignUpload, streamVars
  <2>6. CASE CreateVideoFails(v)
    BY <2>6 DEF CreateVideoFails, streamVars
  <2>7. CASE EnqueueJob(v)
    BY <2>7, ConstAssumption DEF EnqueueJob, Stream!StreamNext, Job
  <2>8. CASE EnqueueJobFails(v)
    BY <2>8 DEF EnqueueJobFails, Stream!StreamNext, Job
  <2> QED
    BY <1>1, <2>1, <2>2, <2>3, <2>4, <2>5, <2>6, <2>7, <2>8
       DEF ApiStep, ClientStep
<1>2. ASSUME NEW w \in Worker, WorkerStep(w) \/ Stop(w) \/ Crash(w)
      PROVE  [Stream!StreamNext]_streamVars
  <2>1. CASE Start(w)
    BY <2>1 DEF Start, Stream!StreamNext
  <2>2. CASE StartFails(w)
    BY <2>2 DEF StartFails, Stream!StreamNext
  <2>3. CASE ReadJob(w)
    BY <2>3 DEF ReadJob, Stream!StreamNext
  <2>4. CASE ReadJobFails(w)
    BY <2>4 DEF ReadJobFails, Stream!StreamNext
  <2>5. CASE ShutDown(w)
    BY <2>5 DEF ShutDown, streamVars
  <2>6. CASE Discard(w)
    BY <2>6 DEF Discard, Stream!StreamNext
  <2>7. CASE MarkProcessing(w)
    BY <2>7 DEF MarkProcessing, streamVars
  <2>8. CASE MarkProcessingFails(w)
    BY <2>8 DEF MarkProcessingFails, Stream!StreamNext
  <2>9. CASE Download(w)
    BY <2>9 DEF Download, streamVars
  <2>10. CASE DownloadFails(w)
    BY <2>10 DEF DownloadFails, streamVars
  <2>11. CASE Transcode(w)
    BY <2>11 DEF Transcode, streamVars
  <2>12. CASE TranscodeFails(w)
    BY <2>12 DEF TranscodeFails, streamVars
  <2>13. CASE UploadFile(w)
    BY <2>13 DEF UploadFile, streamVars
  <2>14. CASE UploadFileFails(w)
    BY <2>14 DEF UploadFileFails, streamVars
  <2>15. CASE Publish(w)
    BY <2>15 DEF Publish, streamVars
  <2>16. CASE PublishFails(w)
    BY <2>16 DEF PublishFails, Stream!StreamNext
  <2>17. CASE MarkFailed(w)
    BY <2>17 DEF MarkFailed, streamVars
  <2>18. CASE MarkFailedFails(w)
    BY <2>18 DEF MarkFailedFails, streamVars
  <2>19. CASE AckJob(w)
    BY <2>19 DEF AckJob, Stream!StreamNext
  <2>20. CASE Stop(w)
    BY <2>20 DEF Stop, streamVars
  <2>21. CASE Crash(w)
    BY <2>21 DEF Crash, Stream!StreamNext
  <2> QED
    BY <1>2, <2>1, <2>2, <2>3, <2>4, <2>5, <2>6, <2>7, <2>8, <2>9, <2>10, <2>11,
       <2>12, <2>13, <2>14, <2>15, <2>16, <2>17, <2>18, <2>19, <2>20, <2>21
       DEF WorkerStep
<1>3. ASSUME StrayEntry
      PROVE  [Stream!StreamNext]_streamVars
  BY <1>3, ConstAssumption DEF StrayEntry, Stream!StreamNext, Job
<1>4. ASSUME UNCHANGED vars
      PROVE  [Stream!StreamNext]_streamVars
  BY <1>4 DEF vars
<1> QED
  BY <1>1, <1>2, <1>3, <1>4 DEF Next
------------------------------------------------------------------------------
(* What a step can do *)

\* The facts of the stream that the effects rest on.
LEMMA StreamFacts ==
    ASSUME StreamSafe
    PROVE  /\ stream \in Seq(Job)
           /\ Len(stream) \in Nat
           /\ lastDelivered \in Nat
           /\ lastDelivered <= Len(stream)
           /\ held \in [Worker -> Nat]
           /\ \A w \in Worker : held[w] # 0 =>
                 /\ held[w] \in 1..lastDelivered
                 /\ held[w] \in 1..Len(stream)
                 /\ held[w] \in Stream!EntriesOf(Vid(w))
                 /\ \A d \in Worker : held[d] = held[w] => d = w
<1>1. /\ stream \in Seq(Job)
      /\ Len(stream) \in Nat
      /\ lastDelivered \in Nat
      /\ lastDelivered <= Len(stream)
      /\ held \in [Worker -> Nat]
      /\ pel \subseteq 1..lastDelivered
  BY DEF StreamSafe, Stream!StreamTypeOK, Stream!CursorInv, Job
<1>2. ASSUME NEW w \in Worker, held[w] # 0
      PROVE  /\ held[w] \in 1..lastDelivered
             /\ \A d \in Worker : held[d] = held[w] => d = w
  BY <1>1, <1>2 DEF StreamSafe, Stream!HeldInv
<1>3. ASSUME NEW w \in Worker, held[w] # 0
      PROVE  held[w] \in 1..Len(stream) /\ held[w] \in Stream!EntriesOf(Vid(w))
  <2>1. held[w] \in 1..Len(stream)
    BY <1>1, <1>2, <1>3
  <2> QED
    BY <2>1 DEF Stream!EntriesOf, Vid
<1> QED
  BY <1>1, <1>2, <1>3

\* An XADD leaves the entries there are and adds its copies after them.
LEMMA Appended ==
    ASSUME stream \in Seq(Job), NEW j \in Job, NEW n \in Nat,
           Stream!EnqueueTranscode(j, n)
    PROVE  /\ Len(stream') = Len(stream) + n
           /\ \A e \in 1..(Len(stream) + n) :
                 stream'[e] = IF e <= Len(stream) THEN stream[e] ELSE j
<1> DEFINE t == [i \in 1..n |-> j]
<1>1. t \in Seq(Job) /\ Len(t) = n /\ \A i \in 1..n : t[i] = j
  OBVIOUS
<1>2. stream' = stream \o t /\ Len(stream) \in Nat
  BY LenProperties DEF Stream!EnqueueTranscode
<1> HIDE DEF t
<1>3. /\ Len(stream \o t) = Len(stream) + Len(t)
      /\ \A e \in 1..(Len(stream) + Len(t)) :
            (stream \o t)[e] = IF e <= Len(stream) THEN stream[e]
                                                   ELSE t[e - Len(stream)]
  BY <1>1, ConcatProperties
<1>4. \A e \in 1..(Len(stream) + n) : e > Len(stream) => e - Len(stream) \in 1..n
  BY <1>2
<1> QED
  BY <1>1, <1>2, <1>3, <1>4

\* The stream only grows: entries stay what they are.
LEMMA StreamGrows ==
    ASSUME StreamSafe, [Stream!StreamNext]_streamVars
    PROVE  /\ Len(stream') \in Nat
           /\ Len(stream) <= Len(stream')
           /\ lastDelivered <= lastDelivered'
           /\ \A e \in 1..Len(stream) : stream'[e] = stream[e]
           /\ \A v \in Video : Stream!EntriesOf(v) \subseteq Stream!EntriesOf(v)'
<1>1. /\ stream \in Seq(Job)
      /\ Len(stream) \in Nat
      /\ lastDelivered \in Nat
  BY StreamFacts
<1>2. /\ stream' \in Seq(Job)
      /\ Len(stream') \in Nat
  <2>1. stream' \in Seq(Job)
    BY StreamSafe_Step DEF StreamSafe, Stream!StreamTypeOK
  <2> QED BY <2>1
<1>3. /\ Len(stream) <= Len(stream')
      /\ \A e \in 1..Len(stream) : stream'[e] = stream[e]
  <2>1. ASSUME NEW j \in Job, NEW n \in Nat, Stream!EnqueueTranscode(j, n)
        PROVE  <1>3!:
    <3>1. Len(stream') = Len(stream) + n
      BY <1>1, <2>1, Appended
    <3>2. ASSUME NEW e \in 1..Len(stream) PROVE stream'[e] = stream[e]
      BY <1>1, <2>1, Appended
    <3> QED
      BY <1>1, <3>1, <3>2
  <2>2. ASSUME stream' = stream
        PROVE  <1>3!:
    BY <1>1, <2>2
  <2>3. 1..MaxSends \subseteq Nat
    OBVIOUS
  <2> QED
    BY <2>1, <2>2, <2>3
       DEF Stream!StreamNext, Stream!EnsureGroup, Stream!Read, Stream!ReadLost,
           Stream!Deliver, Stream!Ack, Stream!Drop, streamVars
<1>4. lastDelivered <= lastDelivered'
  <2>1. ASSUME Stream!EnsureGroup PROVE lastDelivered' = lastDelivered
    BY <2>1 DEF StreamSafe, Stream!CursorInv, Stream!EnsureGroup
  <2>2. lastDelivered' \in {lastDelivered, lastDelivered + 1}
    BY <2>1
       DEF Stream!StreamNext, Stream!EnqueueTranscode, Stream!Read, Stream!ReadLost, Stream!Deliver, Stream!Ack, Stream!Drop,
           streamVars
  <2> QED BY <1>1, <2>2
<1>5. ASSUME NEW v \in Video
      PROVE  Stream!EntriesOf(v) \subseteq Stream!EntriesOf(v)'
  BY <1>1, <1>2, <1>3 DEF Stream!EntriesOf
<1> QED
  BY <1>2, <1>3, <1>4, <1>5

\* What a worker's step can do to the videos table.
RowEffect(w) ==
    \/ UNCHANGED <<status, playback>>
    \/ /\ held[w] # 0
       /\ Vid(w) \in Video
       /\ \E s \in {"processing", "failed"} : Repo!UpdateStatus(Vid(w), s)
    \/ /\ pc[w] = "publish"
       /\ pc'[w] \notin InHandle \ {"acking"}
       /\ Repo!SetPlayback(Vid(w), "ready", held[w])

\* What it can do to the HLS bucket.
PutsNext(w) ==
    /\ pc[w] = "upload"
    /\ Vid(w) \in Video
    /\ hls' = [hls EXCEPT ![Vid(w)][walk[w]] = held[w]]

ObjectEffect(w) == hls' = hls \/ PutsNext(w)

\* Which entry it can have in hand next, and where it can be with it.
PlaceEffect(w) ==
    /\ pc' = [pc EXCEPT ![w] = pc'[w]]
    /\ walk' = [walk EXCEPT ![w] = walk'[w]]
    /\ held' = [held EXCEPT ![w] = held'[w]]
    /\ stream' = stream
    /\ pc'[w] \in PC
    /\ pc'[w] \in InHandle <=> held'[w] # 0
    /\ held'[w] \in {0, held[w], lastDelivered + 1}
    /\ held'[w] = lastDelivered + 1 => pc'[w] = "received"
    /\ pc'[w] \in InHandle \ {"received"} => held'[w] = held[w] /\ Vid(w) \in Video
    /\ pc'[w] \in InHandle \ {"acking"} =>
          pc[w] \in InHandle \ {"acking"} \/ held'[w] = lastDelivered + 1
    /\ pc'[w] = "upload" =>
          \/ walk'[w] = 1
          \/ /\ pc[w] = "upload"
             /\ walk'[w] = walk[w]
             /\ hls' = hls
          \/ /\ PutsNext(w)
             /\ walk[w] # NumFiles
             /\ walk'[w] = walk[w] + 1
    /\ pc'[w] = "publish" =>
          \/ pc[w] = "publish" /\ hls' = hls
          \/ PutsNext(w) /\ walk[w] = NumFiles
    /\ pc'[w] # "upload" => walk'[w] = 1

\* What is left to the worker, and out of its reach.
RestEffect ==
    /\ stopping' \in SUBSET Worker
    /\ unmarked' \in SUBSET Nat
    /\ faults' \in Nat
    /\ UNCHANGED <<apiVars, putUrl, raw>>

WorkerEffect(w) ==
    /\ RowEffect(w)
    /\ ObjectEffect(w)
    /\ PlaceEffect(w)
    /\ RestEffect

\* What these effects are shown from.
Placed(w) ==
    /\ pc \in [Worker -> PC]
    /\ walk \in [Worker -> Nat]
    /\ stopping \in SUBSET Worker
    /\ unmarked \in SUBSET Nat
    /\ faults \in Nat
    /\ held \in [Worker -> Nat]
    /\ lastDelivered \in Nat
    /\ stream \in Seq(Job)
    /\ held[w] # 0 => held[w] \in 1..lastDelivered /\ Vid(w) \in Job
    /\ pc[w] \in InHandle <=> held[w] # 0
    /\ pc[w] \in InHandle \ {"received"} => Vid(w) \in Video
    /\ pc[w] # "upload" => walk[w] = 1

LEMMA WorkerStepEffect ==
    ASSUME NEW w \in Worker, Placed(w),
           WorkerStep(w) \/ Stop(w) \/ Crash(w)
    PROVE  WorkerEffect(w)
<1> USE DEF Placed, WorkerEffect, RowEffect, ObjectEffect, PlaceEffect, RestEffect,
          PC, InHandle, repoVars, storeVars, streamVars, apiVars, workerVars
<1>1. CASE Start(w)
  BY <1>1 DEF Start, Goto, Stream!EnsureGroup
<1>2. CASE StartFails(w)
  BY <1>2 DEF StartFails, Fault, Stream!EnsureGroup
<1>3. CASE ReadJob(w)
  BY <1>3 DEF ReadJob, Goto, Stream!Read, Stream!Deliver
<1>4. CASE ReadJobFails(w)
  BY <1>4 DEF ReadJobFails, Fault, Return, Goto, Stream!ReadLost, Stream!Deliver
<1>5. CASE ShutDown(w)
  BY <1>5 DEF ShutDown, Goto
<1>6. CASE Discard(w)
  BY <1>6 DEF Discard, CallOk, CallFails, Fault, Return, Goto, Stream!Ack, Stream!Drop
<1>7. CASE MarkProcessing(w)
  BY <1>7 DEF MarkProcessing, CallOk, Goto, Job, Repo!UpdateStatus
<1>8. CASE MarkProcessingFails(w)
  BY <1>8 DEF MarkProcessingFails, CallFails, Fault, Return, Goto, Job, Stream!Drop, Repo!UpdateStatus
<1>9. CASE Download(w)
  BY <1>9 DEF Download, CallOk, Goto
<1>10. CASE DownloadFails(w)
  BY <1>10 DEF DownloadFails, CallFails, Fault, Goto
<1>11. CASE Transcode(w)
  BY <1>11 DEF Transcode, CallOk, Goto
<1>12. CASE TranscodeFails(w)
  BY <1>12 DEF TranscodeFails, Goto
<1>13. CASE UploadFile(w)
  BY <1>13 DEF UploadFile, CallOk, Goto, Store!PutHLS, PutsNext
<1>14. CASE UploadFileFails(w)
  BY <1>14 DEF UploadFileFails, CallFails, Fault, Goto, Store!PutHLS, PutsNext
<1>15. CASE Publish(w)
  BY <1>15 DEF Publish, CallOk, Goto, Repo!SetPlayback
<1>16. CASE PublishFails(w)
  BY <1>16 DEF PublishFails, CallFails, Fault, Return, Goto, Stream!Drop, Repo!SetPlayback
<1>17. CASE MarkFailed(w)
  BY <1>17 DEF MarkFailed, CallOk, Goto, Repo!UpdateStatus
<1>18. CASE MarkFailedFails(w)
  BY <1>18 DEF MarkFailedFails, CallFails, Fault, Goto, Repo!UpdateStatus
<1>19. CASE AckJob(w)
  BY <1>19 DEF AckJob, CallOk, CallFails, Fault, Return, Goto, Stream!Ack, Stream!Drop
<1>20. CASE Stop(w)
  BY <1>20 DEF Stop, Fault
<1>21. CASE Crash(w)
  BY <1>21 DEF Crash, Fault, Goto, Stream!Drop
<1> QED
  BY <1>1, <1>2, <1>3, <1>4, <1>5, <1>6, <1>7, <1>8, <1>9, <1>10, <1>11,
     <1>12, <1>13, <1>14, <1>15, <1>16, <1>17, <1>18, <1>19, <1>20, <1>21 DEF WorkerStep

\* What a step that is not a worker's can do: whatever it does to the upload, it
\* leaves workers, objects and playback columns alone, and a video that has a
\* job, or is about to have one, is neither absent nor pending.
ApiEffect ==
    /\ status' \in [Video -> Repo!Status \cup {"absent"}]
    /\ creating' \in SUBSET Video
    /\ completing' \in [Video -> Nat]
    /\ calls' \in [Video -> Nat]
    /\ unanswered' \in SUBSET Video
    /\ putUrl' \in SUBSET Video
    /\ raw' \in SUBSET Video
    /\ faults' \in Nat
    /\ UNCHANGED <<playback, hls, lastDelivered, held, workerVars>>
    /\ \A v \in Video : status'[v] \in {"absent", "pending"} =>
          completing'[v] = 0 /\ Stream!EntriesOf(v)' = {}

\* An entry for one video is not one of another.
LEMMA OthersKeepEntries ==
    ASSUME stream \in Seq(Job), NEW j \in Job, NEW n \in Nat,
           Stream!EnqueueTranscode(j, n), NEW v \in Video, v # j
    PROVE  Stream!EntriesOf(v)' = Stream!EntriesOf(v)
<1>1. /\ Len(stream) \in Nat
      /\ Len(stream') = Len(stream) + n
      /\ \A e \in 1..(Len(stream) + n) :
            stream'[e] = IF e <= Len(stream) THEN stream[e] ELSE j
  BY Appended, LenProperties
<1> QED
  BY <1>1 DEF Stream!EntriesOf

LEMMA ApiStepEffect ==
    ASSUME TypeOK, OriginInv, NEW v \in Video, ApiStep(v) \/ ClientStep(v)
    PROVE  ApiEffect
<1> USE DEF TypeOK, OriginInv, ApiEffect, Repo!Status, Repo!RepoTypeOK,
            Store!StoreTypeOK, Stream!StreamTypeOK,
            repoVars, storeVars, streamVars, apiVars, workerVars
<1>1. CASE CreateVideo(v)
  BY <1>1 DEF CreateVideo, Repo!Create, Stream!EntriesOf
<1>2. CASE CompleteVideo(v)
  BY <1>2 DEF CompleteVideo, Repo!UpdateStatus, Stream!EntriesOf
<1>3. CASE CompleteVideoFails(v)
  BY <1>3 DEF CompleteVideoFails, Fault, Repo!UpdateStatus, Stream!EntriesOf
<1>4. CASE ClientPuts(v)
  BY <1>4 DEF ClientPuts, Store!PutRaw, Store!ExpireUrl, Stream!EntriesOf
<1>5. CASE PresignUpload(v)
  BY <1>5 DEF PresignUpload, Store!PresignedPutRaw, Stream!EntriesOf
<1>6. CASE CreateVideoFails(v)
  BY <1>6 DEF CreateVideoFails, Fault, Stream!EntriesOf
<1>7. CASE EnqueueJob(v)
  <2>1. v \in Job /\ 2..MaxSends \subseteq Nat
    BY DEF Job
  <2>2. \A u \in Video : u # v => Stream!EntriesOf(u)' = Stream!EntriesOf(u)
    BY <1>7, <2>1, OthersKeepEntries DEF EnqueueJob, Stream!EntriesOf
  <2>3. UNCHANGED <<lastDelivered, held>>
    BY <1>7 DEF EnqueueJob, Stream!EnqueueTranscode
  <2>4. /\ completing' = [completing EXCEPT ![v] = @ - 1]
        /\ completing[v] > 0
        /\ faults' \in Nat
    BY <1>7 DEF EnqueueJob, Fault
  <2>5. status[v] \notin {"absent", "pending"}
    BY <2>4
  <2>6. unanswered' \in SUBSET Video
    BY <1>7 DEF EnqueueJob
  <2>7. UNCHANGED <<repoVars, storeVars, workerVars, creating, calls>>
    BY <1>7 DEF EnqueueJob
  <2> QED
    BY <2>2, <2>3, <2>4, <2>5, <2>6, <2>7
<1>8. CASE EnqueueJobFails(v)
  <2>1. v \in Job /\ 1..MaxSends \subseteq Nat
    BY DEF Job
  <2>2. \A u \in Video : u # v => Stream!EntriesOf(u)' = Stream!EntriesOf(u)
    BY <1>8, <2>1, OthersKeepEntries DEF EnqueueJobFails, Stream!EntriesOf
  <2>3. UNCHANGED <<lastDelivered, held>>
    BY <1>8 DEF EnqueueJobFails, Stream!EnqueueTranscode
  <2>4. /\ completing' = [completing EXCEPT ![v] = @ - 1]
        /\ completing[v] > 0
        /\ faults' \in Nat
    BY <1>8 DEF EnqueueJobFails, Fault
  <2>5. status[v] \notin {"absent", "pending"}
    BY <2>4
  <2>6. unanswered' \in SUBSET Video
    BY <1>8 DEF EnqueueJobFails
  <2>7. UNCHANGED <<repoVars, storeVars, workerVars, creating, calls>>
    BY <1>8 DEF EnqueueJobFails
  <2> QED
    BY <2>2, <2>3, <2>4, <2>5, <2>6, <2>7
<1> QED
  BY <1>1, <1>2, <1>3, <1>4, <1>5, <1>6, <1>7, <1>8 DEF ApiStep, ClientStep

LEMMA StrayEntryEffect ==
    ASSUME TypeOK, OriginInv, ConstAssumption, StrayEntry
    PROVE  ApiEffect
<1>1. \A v \in Video : Stream!EntriesOf(v)' = Stream!EntriesOf(v)
  BY OthersKeepEntries
     DEF TypeOK, Stream!StreamTypeOK, ConstAssumption, StrayEntry, Job
<1> QED
  BY <1>1
     DEF TypeOK, OriginInv, ApiEffect, Repo!Status, Repo!RepoTypeOK,
         Store!StoreTypeOK, Stream!StreamTypeOK, StrayEntry, Fault,
         Stream!EnqueueTranscode, repoVars, storeVars, streamVars, apiVars,
         workerVars
------------------------------------------------------------------------------
(* SafetyInv is inductive: the step of a worker *)

LEMMA SafetyInv_Placed ==
    ASSUME SafetyInv, NEW w \in Worker
    PROVE  Placed(w)
<1>1. StreamSafe
  BY DEF SafetyInv, TypeOK, StreamSafe
<1>2. held[w] # 0 => held[w] \in 1..lastDelivered /\ Vid(w) \in Job
  BY <1>1, StreamFacts DEF Vid
<1> QED
  BY <1>1, <1>2, StreamFacts DEF SafetyInv, TypeOK, WorkerInv, Placed

\* The videos, the entries and the hands as the worker's step finds them.
LEMMA WorkerBefore ==
    ASSUME SafetyInv, NEW w \in Worker, WorkerEffect(w)
    PROVE  /\ held \in [Worker -> Nat]
           /\ held' = [held EXCEPT ![w] = held'[w]]
           /\ stream' = stream
           /\ \A v \in Video : Stream!EntriesOf(v)' = Stream!EntriesOf(v)
           /\ lastDelivered \in Nat
           /\ \A d \in Worker : held[d] # 0 =>
                 /\ held[d] <= lastDelivered
                 /\ held[d] \in Stream!EntriesOf(Vid(d))
                 /\ held[w] = held[d] => d = w
           /\ held[w] # 0 /\ Vid(w) \in Video
                => status[Vid(w)] \notin {"absent", "pending"}
<1>1. StreamSafe
  BY DEF SafetyInv, TypeOK, StreamSafe
<1>2. stream' = stream /\ held' = [held EXCEPT ![w] = held'[w]]
  BY DEF WorkerEffect, PlaceEffect
<1>3. \A v \in Video : Stream!EntriesOf(v)' = Stream!EntriesOf(v)
  BY <1>2 DEF Stream!EntriesOf
<1>4. \A d \in Worker : held[d] # 0 =>
        /\ held[d] <= lastDelivered
        /\ held[d] \in Stream!EntriesOf(Vid(d))
        /\ held[w] = held[d] => d = w
  BY <1>1, StreamFacts
<1>5. held[w] # 0 /\ Vid(w) \in Video
        => status[Vid(w)] \notin {"absent", "pending"}
  BY <1>4 DEF SafetyInv, OriginInv
<1> QED
  BY <1>1, <1>2, <1>3, <1>4, <1>5, StreamFacts

LEMMA TypeOK_Worker ==
    ASSUME SafetyInv, NEW w \in Worker, WorkerEffect(w), Stream!StreamTypeOK'
    PROVE  TypeOK'
<1> USE DEF WorkerEffect
<1>1. TypeOK
  BY DEF SafetyInv
<1>2. Repo!RepoTypeOK'
  BY <1>1, WorkerBefore DEF RowEffect, TypeOK, WorkerInv, InHandle, SafetyInv, Repo!UpdateStatus,
         Repo!SetPlayback, Repo!RepoTypeOK, Repo!Status
<1>3. Store!StoreTypeOK'
  <2>1. hls' \in [Video -> [Store!File -> Nat]]
    <3>1. CASE hls' = hls
      BY <1>1, <3>1 DEF TypeOK, Store!StoreTypeOK
    <3>2. CASE PutsNext(w)
      BY <1>1, <3>2, WorkerBefore DEF PutsNext, TypeOK, Store!StoreTypeOK
    <3> QED BY <3>1, <3>2 DEF ObjectEffect
  <2> QED
    BY <1>1, <2>1 DEF RestEffect, TypeOK, Store!StoreTypeOK
<1>4. pc' \in [Worker -> PC]
  BY <1>1 DEF PlaceEffect, TypeOK
<1>5. walk' \in [Worker -> Nat]
  <2>1. walk'[w] \in Nat
    BY <1>1 DEF PlaceEffect, TypeOK
  <2> QED
    BY <1>1, <2>1 DEF PlaceEffect, TypeOK
<1> QED
  BY <1>1, <1>2, <1>3, <1>4, <1>5 DEF RestEffect, TypeOK, apiVars

LEMMA WorkerInv_Worker ==
    ASSUME SafetyInv, NEW w \in Worker, WorkerEffect(w), ConstAssumption
    PROVE  WorkerInv'
<1> SUFFICES ASSUME NEW d \in Worker
             PROVE  /\ pc'[d] \in InHandle <=> held'[d] # 0
                    /\ pc'[d] \in InHandle \ {"received"} => Vid(d)' \in Video
                    /\ walk'[d] \in Store!File
                    /\ pc'[d] # "upload" => walk'[d] = 1
  BY DEF WorkerInv, Store!File
<1>1. /\ pc \in [Worker -> PC]
      /\ walk \in [Worker -> Nat]
      /\ held \in [Worker -> Nat]
      /\ stream' = stream
      /\ NumFiles \in Nat /\ NumFiles >= 2
  BY WorkerBefore DEF SafetyInv, TypeOK, ConstAssumption
<1>2. /\ pc[d] \in InHandle <=> held[d] # 0
      /\ pc[d] \in InHandle \ {"received"} => Vid(d) \in Video
      /\ walk[d] \in 1..NumFiles
      /\ pc[d] # "upload" => walk[d] = 1
  BY DEF SafetyInv, WorkerInv, Store!File
<1>3. CASE d = w
  <2>1. walk'[w] \in 1..NumFiles
    BY <1>1, <1>2, <1>3 DEF WorkerEffect, PlaceEffect
  <2>2. pc'[w] \in InHandle \ {"received"} => Vid(w)' \in Video
    BY <1>1 DEF WorkerEffect, PlaceEffect, Vid
  <2> QED
    BY <1>3, <2>1, <2>2 DEF WorkerEffect, PlaceEffect, Store!File
<1>4. CASE d # w
  <2>1. pc'[d] = pc[d] /\ walk'[d] = walk[d] /\ held'[d] = held[d]
    BY <1>1, <1>4 DEF WorkerEffect, PlaceEffect
  <2> QED
    BY <1>1, <1>2, <2>1 DEF Vid, Store!File
<1> QED
  BY <1>3, <1>4

LEMMA OriginInv_Worker ==
    ASSUME SafetyInv, NEW w \in Worker, WorkerEffect(w), [Stream!StreamNext]_streamVars
    PROVE  OriginInv'
<1> SUFFICES ASSUME NEW v \in Video
             PROVE  /\ status'[v] \in {"absent", "pending"} =>
                          completing'[v] = 0 /\ Stream!EntriesOf(v) = {}
                    /\ playback'[v] # 0 =>
                          /\ playback'[v] \in Stream!EntriesOf(v)
                          /\ playback'[v] <= lastDelivered'
                    /\ \A f \in Store!File : hls'[v][f] # 0 =>
                          hls'[v][f] \in Stream!EntriesOf(v)
  BY WorkerBefore DEF OriginInv, Store!File
<1>1. /\ status[v] \in {"absent", "pending"} =>
            completing[v] = 0 /\ Stream!EntriesOf(v) = {}
      /\ playback[v] # 0 =>
            playback[v] \in Stream!EntriesOf(v) /\ playback[v] <= lastDelivered
      /\ \A f \in Store!File : hls[v][f] # 0 => hls[v][f] \in Stream!EntriesOf(v)
  BY DEF SafetyInv, OriginInv
<1>2. /\ status \in [Video -> Repo!Status \cup {"absent"}]
      /\ playback \in [Video -> Nat]
      /\ hls \in [Video -> [Store!File -> Nat]]
      /\ walk[w] \in Store!File
  BY DEF SafetyInv, TypeOK, Repo!RepoTypeOK, Store!StoreTypeOK, WorkerInv
<1>3. lastDelivered \in Nat /\ lastDelivered' \in Nat /\ lastDelivered <= lastDelivered'
  BY StreamGrows, StreamSafe_Step
     DEF SafetyInv, TypeOK, StreamSafe, Stream!StreamTypeOK
<1>4. status'[v] \in {"absent", "pending"} =>
        completing'[v] = 0 /\ Stream!EntriesOf(v) = {}
  <2>1. completing' = completing
    BY DEF WorkerEffect, RestEffect, apiVars
  <2>2. status'[v] \in {"absent", "pending"} => status[v] \in {"absent", "pending"}
    BY <1>2, WorkerBefore DEF WorkerEffect, RowEffect, Repo!UpdateStatus, Repo!SetPlayback
  <2> QED BY <1>1, <2>1, <2>2
<1>5. playback'[v] # 0 =>
        playback'[v] \in Stream!EntriesOf(v) /\ playback'[v] <= lastDelivered
  BY <1>1, <1>2, WorkerBefore DEF WorkerEffect, RowEffect, Repo!UpdateStatus, Repo!SetPlayback
<1>6. ASSUME NEW f \in Store!File, hls'[v][f] # 0
      PROVE  hls'[v][f] \in Stream!EntriesOf(v)
  <2>1. CASE hls' = hls
    BY <1>1, <1>6, <2>1
  <2>2. CASE PutsNext(w)
    <3>1. held[w] # 0
      BY <2>2 DEF SafetyInv, WorkerInv, PutsNext, InHandle
    <3> QED
      BY <1>1, <1>2, <1>6, <2>2, <3>1, WorkerBefore DEF PutsNext
  <2> QED BY <2>1, <2>2 DEF WorkerEffect, ObjectEffect
<1>7. playback'[v] # 0 => playback'[v] <= lastDelivered'
  <2>1. playback'[v] # 0 => playback'[v] \in Nat
    BY <1>2, WorkerBefore DEF WorkerEffect, RowEffect, Repo!UpdateStatus, Repo!SetPlayback
  <2> QED BY <1>3, <1>5, <2>1
<1> QED
  BY <1>4, <1>5, <1>6, <1>7

LEMMA UploadInv_Worker ==
    ASSUME SafetyInv, NEW w \in Worker, WorkerEffect(w), ConstAssumption
    PROVE  UploadInv'
<1>1. /\ NumFiles \in Nat /\ NumFiles >= 2
      /\ pc \in [Worker -> PC]
      /\ walk \in [Worker -> 1..NumFiles]
      /\ hls \in [Video -> [1..NumFiles -> Nat]]
      /\ status \in [Video -> Repo!Status \cup {"absent"}]
      /\ playback \in [Video -> Nat]
  BY DEF SafetyInv, TypeOK, WorkerInv, Repo!RepoTypeOK, Store!StoreTypeOK,
         Store!File, ConstAssumption
<1>2. /\ \A v \in Video, f \in 1..NumFiles :
            hls[v][f] # 0 => \A g \in 1..f : hls[v][g] # 0
      /\ \A v \in Video : playback[v] # 0 => \A g \in 1..NumFiles : hls[v][g] # 0
      /\ \A d \in Worker :
            /\ pc[d] = "upload" => \A g \in 1..(walk[d] - 1) : hls[Vid(d)][g] # 0
            /\ pc[d] = "publish" => \A g \in 1..NumFiles : hls[Vid(d)][g] # 0
  BY DEF SafetyInv, UploadInv, UploadedUpTo, Store!File
<1>3. \A d \in Worker :
        pc[d] \in InHandle \ {"received"} => held[d] # 0 /\ Vid(d) \in Video
  BY DEF SafetyInv, WorkerInv
\* Objects stay, and the only new one is the next of w's walk.
<1>4. \A v \in Video, g \in 1..NumFiles : hls[v][g] # 0 => hls'[v][g] # 0
  <2>1. CASE hls' = hls
    BY <2>1
  <2>2. CASE PutsNext(w)
    BY <1>1, <1>3, <2>2 DEF PutsNext, InHandle
  <2> QED BY <2>1, <2>2 DEF WorkerEffect, ObjectEffect
<1>5. PutsNext(w) => \A g \in 1..walk[w] : hls'[Vid(w)][g] # 0
  <2> SUFFICES ASSUME PutsNext(w), NEW g \in 1..walk[w]
               PROVE  hls'[Vid(w)][g] # 0
    OBVIOUS
  <2>1. CASE g = walk[w]
    BY <1>1, <1>3, <2>1 DEF PutsNext, InHandle
  <2>2. CASE g # walk[w]
    <3>1. g \in 1..(walk[w] - 1) /\ g \in 1..NumFiles
      BY <1>1, <2>2
    <3> QED
      BY <1>2, <1>4, <3>1 DEF PutsNext
  <2> QED BY <2>1, <2>2
<1>6. ASSUME NEW v \in Video, NEW f \in 1..NumFiles, hls'[v][f] # 0,
             NEW g \in 1..f
      PROVE  hls'[v][g] # 0
  <2>1. g \in 1..NumFiles
    BY <1>1
  <2>2. CASE hls[v][f] # 0
    BY <1>2, <1>4, <2>1, <2>2
  <2>3. CASE hls[v][f] = 0
    <3>1. PutsNext(w)
      BY <1>6, <2>3 DEF WorkerEffect, ObjectEffect
    <3>2. v = Vid(w) /\ f = walk[w]
      BY <1>1, <1>6, <2>3, <3>1 DEF PutsNext
    <3> QED BY <1>5, <3>1, <3>2
  <2> QED BY <2>2, <2>3
<1>7. ASSUME NEW v \in Video, playback'[v] # 0, NEW g \in 1..NumFiles
      PROVE  hls'[v][g] # 0
  <2>1. playback[v] # 0 \/ (pc[w] = "publish" /\ v = Vid(w))
    BY <1>1, <1>7 DEF WorkerEffect, RowEffect, Repo!UpdateStatus, Repo!SetPlayback
  <2> QED BY <1>2, <1>4, <2>1
<1>8. ASSUME NEW d \in Worker, d # w
      PROVE  /\ pc'[d] = pc[d]
             /\ walk'[d] = walk[d]
             /\ Vid(d)' = Vid(d)
  BY <1>1, <1>8, WorkerBefore DEF WorkerEffect, PlaceEffect, Vid
<1>9. ASSUME NEW d \in Worker, pc'[d] = "upload", NEW g \in 1..(walk'[d] - 1)
      PROVE  hls'[Vid(d)'][g] # 0
  <2>1. CASE d # w
    <3>1. Vid(d) \in Video /\ g \in 1..NumFiles
      BY <1>1, <1>3, <1>8, <1>9, <2>1 DEF InHandle
    <3> QED BY <1>2, <1>4, <1>8, <1>9, <2>1, <3>1
  <2>2. CASE d = w
    <3>1. Vid(w)' = Vid(w) /\ Vid(w) \in Video
      BY <1>9, <2>2 DEF WorkerEffect, PlaceEffect, Vid, InHandle
    <3>2. CASE walk'[w] = 1
      BY <2>2, <3>2
    <3>3. CASE pc[w] = "upload" /\ walk'[w] = walk[w] /\ hls' = hls
      BY <1>2, <1>9, <2>2, <3>1, <3>3
    <3>4. CASE PutsNext(w) /\ walk[w] # NumFiles /\ walk'[w] = walk[w] + 1
      <4>1. g \in 1..walk[w]
        BY <1>1, <1>9, <2>2, <3>4
      <4> QED BY <1>5, <2>2, <3>1, <3>4, <4>1
    <3> QED
      BY <1>9, <2>2, <3>2, <3>3, <3>4 DEF WorkerEffect, PlaceEffect
  <2> QED BY <2>1, <2>2
<1>10. ASSUME NEW d \in Worker, pc'[d] = "publish", NEW g \in 1..NumFiles
       PROVE  hls'[Vid(d)'][g] # 0
  <2>1. CASE d # w
    <3>1. Vid(d) \in Video
      BY <1>3, <1>8, <1>10, <2>1 DEF InHandle
    <3> QED BY <1>2, <1>4, <1>8, <1>10, <2>1, <3>1
  <2>2. CASE d = w
    <3>1. Vid(w)' = Vid(w) /\ Vid(w) \in Video
      BY <1>10, <2>2 DEF WorkerEffect, PlaceEffect, Vid, InHandle
    <3>2. \/ pc[w] = "publish" /\ hls' = hls
          \/ PutsNext(w) /\ walk[w] = NumFiles
      BY <1>10, <2>2 DEF WorkerEffect, PlaceEffect
    <3> QED BY <1>2, <1>5, <2>2, <3>1, <3>2
  <2> QED BY <2>1, <2>2
<1> QED
  BY <1>6, <1>7, <1>9, <1>10 DEF UploadInv, UploadedUpTo, Store!File

LEMMA UnpublishedInv_Worker ==
    ASSUME SafetyInv, NEW w \in Worker, WorkerEffect(w)
    PROVE  UnpublishedInv'
<1> SUFFICES ASSUME NEW d \in Worker, NEW v \in Video,
                    pc'[d] \in InHandle \ {"acking"}
             PROVE  playback'[v] # held'[d]
  BY DEF UnpublishedInv
<1>1. /\ pc \in [Worker -> PC]
      /\ held \in [Worker -> Nat]
      /\ held' = [held EXCEPT ![w] = held'[w]]
      /\ status \in [Video -> Repo!Status \cup {"absent"}]
      /\ playback \in [Video -> Nat]
      /\ lastDelivered \in Nat
  BY WorkerBefore DEF SafetyInv, TypeOK, Repo!RepoTypeOK
<1>2. /\ pc[d] \in InHandle \ {"acking"} => playback[v] # held[d] /\ held[d] # 0
      /\ playback[v] <= lastDelivered
  BY <1>1 DEF SafetyInv, UnpublishedInv, OriginInv, WorkerInv
<1>3. \/ playback'[v] = playback[v]
      \/ /\ pc[w] = "publish"
         /\ pc'[w] \notin InHandle \ {"acking"}
         /\ playback'[v] = held[w]
  BY <1>1 DEF WorkerEffect, RowEffect, Repo!UpdateStatus, Repo!SetPlayback
<1>4. CASE d # w
  <2>1. pc'[d] = pc[d] /\ held'[d] = held[d]
    BY <1>1, <1>4 DEF WorkerEffect, PlaceEffect
  <2>2. held[w] = held[d] => d = w
    BY <1>2, <2>1, WorkerBefore
  <2> QED
    BY <1>2, <1>3, <1>4, <2>1, <2>2
<1>5. CASE d = w
  <2>1. playback'[v] = playback[v]
    BY <1>3, <1>5
  <2>2. \/ pc[w] \in InHandle \ {"acking"} /\ held'[w] = held[w]
        \/ held'[w] = lastDelivered + 1
    BY <1>5 DEF WorkerEffect, PlaceEffect
  <2> QED
    BY <1>1, <1>2, <1>5, <2>1, <2>2
<1> QED
  BY <1>4, <1>5
------------------------------------------------------------------------------
(* SafetyInv is inductive: the other steps *)

\* What the API side leaves alone, it leaves true.
LEMMA SafetyInv_Api ==
    ASSUME SafetyInv, ApiEffect, StreamSafe', [Stream!StreamNext]_streamVars,
           ConstAssumption
    PROVE  SafetyInv'
<1>1. StreamSafe
  BY DEF SafetyInv, TypeOK, StreamSafe
<1>2. /\ UNCHANGED <<playback, hls, lastDelivered, held>>
      /\ UNCHANGED <<pc, walk, stopping, unmarked>>
  BY DEF ApiEffect, workerVars
<1>3. \A w \in Worker : held[w] # 0 => Vid(w)' = Vid(w)
  BY <1>1, <1>2, StreamFacts, StreamGrows DEF Vid
<1>4. TypeOK'
  BY <1>2
     DEF SafetyInv, ApiEffect, StreamSafe, TypeOK, Repo!RepoTypeOK, Store!StoreTypeOK
<1>5. WorkerInv'
  BY <1>2, <1>3 DEF SafetyInv, WorkerInv, Store!File
<1>6. OriginInv'
  <2> SUFFICES ASSUME NEW v \in Video
               PROVE  /\ playback[v] # 0 =>
                            /\ playback[v] \in Stream!EntriesOf(v)'
                            /\ playback[v] <= lastDelivered
                      /\ \A f \in Store!File : hls[v][f] # 0 =>
                            hls[v][f] \in Stream!EntriesOf(v)'
    BY <1>2 DEF ApiEffect, OriginInv, Store!File
  <2>1. Stream!EntriesOf(v) \subseteq Stream!EntriesOf(v)'
    BY <1>1, StreamGrows
  <2> QED
    BY <2>1 DEF SafetyInv, OriginInv
<1>7. UploadInv'
  <2>1. \A w \in Worker : pc[w] \in {"upload", "publish"} => held[w] # 0
    BY DEF SafetyInv, WorkerInv, InHandle
  <2> QED
    BY <1>2, <1>3, <2>1 DEF SafetyInv, UploadInv, UploadedUpTo, Store!File
<1>8. UnpublishedInv'
  BY <1>2 DEF SafetyInv, UnpublishedInv
<1> QED
  BY <1>4, <1>5, <1>6, <1>7, <1>8 DEF SafetyInv, StreamSafe

LEMMA SafetyInv_Init ==
    ASSUME ConstAssumption, Init
    PROVE  SafetyInv
<1> USE DEF Init, Repo!RepoInit, Store!StoreInit, Stream!StreamInit
<1>1. StreamSafe
  <2>1. StreamProofs!StreamInit
    BY DEF StreamProofs!StreamInit, StreamProofs!NoEntry
  <2>2. StreamProofs!StreamInv
    BY <2>1, StreamProofs!StreamInit_Inv
  <2> QED
    BY <2>2
       DEF StreamSafe, StreamProofs!StreamInv,
           Stream!StreamTypeOK, StreamProofs!StreamTypeOK,
           Stream!CursorInv, StreamProofs!CursorInv,
           Stream!HeldInv, StreamProofs!HeldInv, StreamProofs!NoEntry
<1>2. TypeOK
  <2>1. Repo!RepoTypeOK
    BY DEF Repo!RepoTypeOK, Repo!Status
  <2>2. Store!StoreTypeOK
    BY DEF Store!StoreTypeOK
  <2> QED
    BY <1>1, <2>1, <2>2 DEF StreamSafe, TypeOK, PC
<1>3. WorkerInv
  BY DEF ConstAssumption, WorkerInv, InHandle, Store!File
<1>4. OriginInv
  BY EmptySeq DEF OriginInv, Stream!EntriesOf
<1>5. UploadInv
  BY DEF UploadInv, UploadedUpTo, Store!File
<1>6. UnpublishedInv
  BY DEF UnpublishedInv, InHandle
<1> QED
  BY <1>1, <1>2, <1>3, <1>4, <1>5, <1>6 DEF SafetyInv, StreamSafe

LEMMA SafetyInv_Step ==
    ASSUME SafetyInv, [Next]_vars, ConstAssumption
    PROVE  SafetyInv'
<1>1. StreamSafe
  BY DEF SafetyInv, TypeOK, StreamSafe
<1>2. [Stream!StreamNext]_streamVars
  BY StreamStep
<1>3. StreamSafe'
  BY <1>1, <1>2, StreamSafe_Step
<1>4. ASSUME ApiEffect PROVE SafetyInv'
  BY <1>2, <1>3, <1>4, SafetyInv_Api
<1>5. ASSUME NEW v \in Video, ApiStep(v) \/ ClientStep(v)
      PROVE  SafetyInv'
  BY <1>4, <1>5, ApiStepEffect DEF SafetyInv
<1>6. ASSUME StrayEntry
      PROVE  SafetyInv'
  BY <1>4, <1>6, StrayEntryEffect DEF SafetyInv
<1>7. ASSUME NEW w \in Worker, WorkerStep(w) \/ Stop(w) \/ Crash(w)
      PROVE  SafetyInv'
  <2>1. WorkerEffect(w)
    BY <1>7, SafetyInv_Placed, WorkerStepEffect
  <2> QED
    BY <1>2, <1>3, <2>1, TypeOK_Worker, WorkerInv_Worker, OriginInv_Worker,
       UploadInv_Worker, UnpublishedInv_Worker
       DEF SafetyInv, StreamSafe
<1>8. ASSUME UNCHANGED vars
      PROVE  SafetyInv'
  <2>1. ApiEffect
    BY <1>8
       DEF SafetyInv, TypeOK, Repo!RepoTypeOK, Store!StoreTypeOK, OriginInv,
           Stream!EntriesOf, ApiEffect, vars, repoVars, storeVars, streamVars,
           apiVars, workerVars
  <2> QED BY <1>4, <2>1
<1> QED
  BY <1>5, <1>6, <1>7, <1>8 DEF Next
------------------------------------------------------------------------------
(* The safety properties *)

\* Everything below follows from this: the invariant holds for any number of
\* videos, workers, objects, completions and faults.
THEOREM Safety == Spec => []SafetyInv
BY SafetyInv_Init, SafetyInv_Step, ConstAssumption, PTL DEF Spec

\* The state of handlers, workers and stores is always well formed; no row has a
\* status the API does not know.
THEOREM TypeCorrect == Spec => []TypeOK
<1>1. SafetyInv => TypeOK
  BY DEF SafetyInv
<1> QED BY <1>1, Safety, PTL

\* CompleteVideo marks the row before it enqueues, so no worker meets a job of a
\* pending video, and nothing has been written for such a video.
THEOREM PendingSafe == Spec => []PendingUntouched
<1>1. SafetyInv => PendingUntouched
  BY DEF SafetyInv, OriginInv, PendingUntouched
<1> QED BY <1>1, Safety, PTL

\* handle writes the playback columns after Process has uploaded the whole tree.
THEOREM OfferedSafe == Spec => []OfferedIsUploaded
<1>1. SafetyInv => OfferedIsUploaded
  BY DEF SafetyInv, TypeOK, Repo!RepoTypeOK, UploadInv, UploadedUpTo,
         OfferedIsUploaded, Repo!GetVideoKey, Store!File
<1> QED BY <1>1, Safety, PTL

\* UploadHLSDir's walk puts master.m3u8 after all it refers to, however many
\* workers upload the tree at once and wherever they stop.
THEOREM MasterSafe == Spec => []MasterAfterMedia
<1>1. ASSUME SafetyInv, ConstAssumption
      PROVE  MasterAfterMedia
  <2>1. Master \in 1..NumFiles
    BY <1>1 DEF ConstAssumption
  <2>2. \A f \in Store!Media : f \in 1..Master
    BY <2>1 DEF Store!Media
  <2> QED
    BY <1>1, <2>1, <2>2
       DEF SafetyInv, UploadInv, UploadedUpTo, MasterAfterMedia, Store!File
<1> QED BY <1>1, ConstAssumption, Safety, PTL

\* The key endpoint serves the key the segments are encrypted with as long as the
\* video has one job, whatever failed on the way.
THEOREM SoleJobSafe == Spec => []SoleJobPlayable
<1>1. ASSUME SafetyInv, ConstAssumption
      PROVE  SoleJobPlayable
  <2> SUFFICES ASSUME NEW v \in Video, playback[v] # 0,
                      \A d, e \in Stream!EntriesOf(v) : d = e,
                      NEW f \in Store!Media
               PROVE  hls[v][f] = Repo!GetVideoKey(v)
    BY DEF SoleJobPlayable, Playable, Repo!GetVideoKey
  <2>1. f \in 1..NumFiles
    BY <1>1 DEF Store!Media, ConstAssumption
  <2>2. hls[v][f] # 0
    BY <1>1, <2>1 DEF SafetyInv, UploadInv, UploadedUpTo
  <2>3. /\ hls[v][f] \in Stream!EntriesOf(v)
        /\ playback[v] \in Stream!EntriesOf(v)
        /\ status[v] # "absent"
    BY <1>1, <2>1, <2>2 DEF SafetyInv, OriginInv, Store!File
  <2> QED
    BY <2>3 DEF Repo!GetVideoKey
<1> QED BY <1>1, ConstAssumption, Safety, PTL
------------------------------------------------------------------------------
(* The stream in the service *)

\* Handlers and workers change the stream only as TranscodeStream has it.
THEOREM StreamUsed == Spec => Stream!StreamSpec
<1>1. Init => Stream!StreamInit
  BY DEF Init
<1>2. [Next]_vars => [Stream!StreamNext]_streamVars
  BY StreamStep
<1> QED
  BY <1>1, <1>2, PTL DEF Spec, Stream!StreamSpec, Stream!streamVars, streamVars

\* Two instances of one module say the same.
LEMMA SameSpec == Stream!StreamSpec => StreamProofs!StreamSpec
<1>1. Stream!StreamInit => StreamProofs!StreamInit
  BY DEF Stream!StreamInit, StreamProofs!StreamInit, StreamProofs!NoEntry
<1>2. [Stream!StreamNext]_(Stream!streamVars)
         => [StreamProofs!StreamNext]_(StreamProofs!streamVars)
  BY DEF Stream!StreamNext, StreamProofs!StreamNext,
         Stream!streamVars, StreamProofs!streamVars,
         Stream!EnqueueTranscode, StreamProofs!EnqueueTranscode,
         Stream!EnsureGroup, StreamProofs!EnsureGroup,
         Stream!Read, StreamProofs!Read,
         Stream!ReadLost, StreamProofs!ReadLost,
         Stream!Deliver, StreamProofs!Deliver,
         Stream!Ack, StreamProofs!Ack,
         Stream!Drop, StreamProofs!Drop, StreamProofs!NoEntry
<1> QED
  BY <1>1, <1>2, PTL DEF Stream!StreamSpec, StreamProofs!StreamSpec

LEMMA SameFifo == StreamProofs!ImplementsFifo => Stream!ImplementsFifo
<1>1. StreamProofs!Fifo!Init => Stream!Fifo!Init
  BY DEF StreamProofs!Fifo!Init, Stream!Fifo!Init, StreamProofs!NoEntry
<1>2. [StreamProofs!Fifo!Next]_(StreamProofs!Fifo!vars)
         => [Stream!Fifo!Next]_(Stream!Fifo!vars)
  BY DEF StreamProofs!Fifo!Next, Stream!Fifo!Next,
         StreamProofs!Fifo!vars, Stream!Fifo!vars,
         StreamProofs!Fifo!Put, Stream!Fifo!Put,
         StreamProofs!Fifo!Take, Stream!Fifo!Take,
         StreamProofs!Fifo!Lose, Stream!Fifo!Lose,
         StreamProofs!Fifo!Release, Stream!Fifo!Release, StreamProofs!NoEntry
<1> QED
  BY <1>1, <1>2, PTL
     DEF StreamProofs!ImplementsFifo, Stream!ImplementsFifo,
         StreamProofs!Fifo!Spec, Stream!Fifo!Spec

\* In the service, too, jobs are handed out in order and at most once, whatever
\* handlers and workers do.
THEOREM DeliveryInService == Spec => Stream!ImplementsFifo /\ Stream!NeverRedelivered
<1>1. StreamProofs!NeverRedelivered => Stream!NeverRedelivered
  BY PTL
     DEF StreamProofs!NeverRedelivered, Stream!NeverRedelivered, StreamProofs!NoEntry,
         StreamProofs!streamVars, Stream!streamVars
<1> QED
  BY <1>1, SameSpec, SameFifo, StreamUsed, StreamProofs!FifoCorrect,
     StreamProofs!NoRedelivery, PTL
=============================================================================
