----------------------- MODULE ForgeVodOutcomeProofs -----------------------
(***************************************************************************)
(* Proofs about what becomes of a video: no handler and no worker loses    *)
(* one without a trace (Accounted), and what a client sees of it is a      *)
(* behaviour of VideoLifecycle.  Both build on SafetyInv and on the        *)
(* effects of a step (ForgeVodProofs); what Accounted needs beyond them is *)
(* what a step does to the claims on a video: the handler, the entry or    *)
(* the worker that will settle it.                                         *)
(***************************************************************************)
EXTENDS ForgeVodProofs

USE DEF Stream!NoEntry, Repo!NoPlayback, Repo!Absent, Store!NoObject

\* The worker is going to settle the status of its job's video.
Working(w) == pc[w] \in InHandle \ {"acking"}

\* A worker's claim ends only with a final status, a stranded entry or a note
\* that the failure could not be written; a cursor that moves on moves past an
\* entry that the worker takes on or strands.
ClaimEffect(w) ==
    /\ Working(w) /\ Vid(w) \in Video =>
          \/ status'[Vid(w)] \in {"ready", "failed"}
          \/ Working(w)' /\ held'[w] = held[w]
          \/ held'[w] = 0 /\ pel' = pel
          \/ held[w] \in unmarked'
    /\ status' # status => Working(w)
    /\ unmarked \subseteq unmarked'
    /\ \/ lastDelivered' = lastDelivered
       \/ /\ lastDelivered' = lastDelivered + 1
          /\ lastDelivered + 1 \in pel'
          /\ held[w] = 0
          /\ \/ Working(w)' /\ held'[w] = lastDelivered + 1
             \/ held'[w] = 0

LEMMA WorkerClaim ==
    ASSUME SafetyInv, ConstAssumption, NEW w \in Worker,
           WorkerStep(w) \/ Stop(w) \/ Crash(w)
    PROVE  ClaimEffect(w)
<1>1. /\ pc \in [Worker -> PC]
      /\ held \in [Worker -> Nat]
      /\ status \in [Video -> Repo!Status \cup {"absent"}]
      /\ group \in BOOLEAN
      /\ ~group => lastDelivered = 0
      /\ lastDelivered \in Nat
  BY DEF SafetyInv, TypeOK, Repo!RepoTypeOK, Stream!StreamTypeOK, Stream!CursorInv
<1>2. /\ pc[w] \in InHandle <=> held[w] # 0
      /\ pc[w] \in InHandle \ {"received"} => Vid(w) \in Video
  BY DEF SafetyInv, WorkerInv
<1>3. held[w] # 0 /\ Vid(w) \in Video => status[Vid(w)] # "absent"
  BY StreamFacts DEF SafetyInv, TypeOK, StreamSafe, OriginInv
<1> USE <1>1, <1>2, <1>3
        DEF ClaimEffect, Working, InHandle, repoVars, storeVars, streamVars,
            apiVars, workerVars
<1>4. CASE Start(w)
  BY <1>4 DEF Start, Goto, Stream!EnsureGroup
<1>5. CASE StartFails(w)
  BY <1>5 DEF StartFails, Stream!EnsureGroup
<1>6. CASE ReadJob(w)
  BY <1>6 DEF ReadJob, Goto, Stream!Read, Stream!Deliver
<1>7. CASE ReadJobFails(w)
  BY <1>7 DEF ReadJobFails, Return, Goto, Stream!ReadLost, Stream!Deliver
<1>8. CASE ShutDown(w)
  BY <1>8 DEF ShutDown, Goto
<1>9. CASE Discard(w)
  BY <1>9 DEF Discard, Return, Goto, Stream!Ack, Stream!Drop, ConstAssumption
<1>10. CASE MarkProcessing(w)
  BY <1>10 DEF MarkProcessing, Goto
<1>11. CASE MarkProcessingFails(w)
  BY <1>11 DEF MarkProcessingFails, Stream!Drop
<1>12. CASE Download(w)
  BY <1>12 DEF Download, Goto
<1>13. CASE DownloadFails(w)
  BY <1>13 DEF DownloadFails, Goto
<1>14. CASE Transcode(w)
  BY <1>14 DEF Transcode, Goto
<1>15. CASE TranscodeFails(w)
  BY <1>15 DEF TranscodeFails, Goto
<1>16. CASE UploadFile(w)
  BY <1>16 DEF UploadFile, Goto
<1>17. CASE UploadFileFails(w)
  BY <1>17 DEF UploadFileFails, Goto
<1>18. CASE Publish(w)
  BY <1>18 DEF Publish, Repo!SetPlayback
<1>19. CASE PublishFails(w)
  BY <1>19 DEF PublishFails, Stream!Drop
<1>20. CASE MarkFailed(w)
  BY <1>20 DEF MarkFailed, Repo!UpdateStatus
<1>21. CASE MarkFailedFails(w)
  BY <1>21 DEF MarkFailedFails, Repo!UpdateStatus
<1>22. CASE AckJob(w)
  BY <1>22 DEF AckJob, Return, Goto, Stream!Ack, Stream!Drop
<1>23. CASE Stop(w)
  BY <1>23 DEF Stop
<1>24. CASE Crash(w)
  BY <1>24 DEF Crash, Goto, Stream!Drop
<1> QED
  BY <1>4, <1>5, <1>6, <1>7, <1>8, <1>9, <1>10, <1>11, <1>12, <1>13, <1>14,
     <1>15, <1>16, <1>17, <1>18, <1>19, <1>20, <1>21, <1>22, <1>23, <1>24 DEF WorkerStep

\* The entry of a job is the first one after the end of the old stream.
LEMMA NewEntry ==
    ASSUME stream \in Seq(Job), NEW j \in Job, NEW n \in Nat \ {0},
           Stream!EnqueueTranscode(j, n)
    PROVE  Len(stream) + 1 \in Stream!EntriesOf(j)'
<1>1. Len(stream) \in Nat
  BY LenProperties
<1> QED
  BY <1>1, Appended DEF Stream!EntriesOf

\* A claim on a video begins with the call to CompleteVideo that marks it, and
\* passes to an entry of its own, unless the client is not answered 200.
ApiClaimEffect ==
    /\ UNCHANGED pel
    /\ unanswered \subseteq unanswered'
    /\ \A v \in Video :
          \/ v \in unanswered'
          \/ completing'[v] > 0
          \/ Len(stream) + 1 \in Stream!EntriesOf(v)'
          \/ status'[v] = "pending"
          \/ status'[v] = status[v] /\ completing'[v] = completing[v]

LEMMA ApiClaim ==
    ASSUME SafetyInv, NEW v \in Video, ApiStep(v) \/ ClientStep(v)
    PROVE  ApiClaimEffect
<1> USE DEF ApiClaimEffect, repoVars, storeVars, streamVars, apiVars
<1>1. /\ status \in [Video -> Repo!Status \cup {"absent"}]
      /\ completing \in [Video -> Nat]
      /\ stream \in Seq(Job)
      /\ v \in Job
  BY DEF SafetyInv, TypeOK, Repo!RepoTypeOK, Stream!StreamTypeOK, Job
<1>2. CASE CreateVideo(v)
  BY <1>1, <1>2 DEF CreateVideo, Repo!Create
<1>3. CASE CompleteVideo(v)
  BY <1>1, <1>3 DEF CompleteVideo, Repo!UpdateStatus
<1>4. CASE CompleteVideoFails(v)
  BY <1>1, <1>4 DEF CompleteVideoFails, Repo!UpdateStatus
<1>5. CASE ClientPuts(v)
  BY <1>1, <1>5 DEF ClientPuts
<1>6. CASE PresignUpload(v)
  BY <1>1, <1>6 DEF PresignUpload
<1>7. CASE CreateVideoFails(v)
  BY <1>1, <1>7 DEF CreateVideoFails
<1>8. CASE EnqueueJob(v)
  <2>0. 2..MaxSends \subseteq Nat \ {0}
    OBVIOUS
  <2>1. Len(stream) + 1 \in Stream!EntriesOf(v)'
    BY <1>1, <1>8, <2>0, NewEntry DEF EnqueueJob
  <2>2. \A u \in Video : u # v => completing'[u] = completing[u]
    BY <1>1, <1>8 DEF EnqueueJob
  <2> QED
    BY <1>1, <1>8, <2>1, <2>2 DEF EnqueueJob, Stream!EnqueueTranscode
<1>9. CASE EnqueueJobFails(v)
  BY <1>1, <1>9 DEF EnqueueJobFails, Stream!EnqueueTranscode
<1> QED
  BY <1>2, <1>3, <1>4, <1>5, <1>6, <1>7, <1>8, <1>9 DEF ApiStep, ClientStep
------------------------------------------------------------------------------
(* Accounted *)

\* What is stranded stays stranded: nothing reads the pending list.
LEMMA Stranded_Stable ==
    ASSUME StreamSafe, [Stream!StreamNext]_streamVars,
           NEW e, Stream!Stranded(e)
    PROVE  Stream!Stranded(e)'
<1>1. /\ held \in [Worker -> Nat]
      /\ e \in pel
      /\ e \in 1..lastDelivered
      /\ lastDelivered \in Nat
      /\ \A c \in Worker : held[c] # e
  BY DEF StreamSafe, Stream!StreamTypeOK, Stream!CursorInv, Stream!Stranded
<1>2. e \in pel'
  BY <1>1
     DEF Stream!StreamNext, Stream!EnsureGroup, Stream!EnqueueTranscode,
         Stream!Read, Stream!ReadLost, Stream!Deliver,
         Stream!Ack, Stream!Drop, streamVars
<1>3. \A c \in Worker : held'[c] \in {0, held[c], lastDelivered + 1}
  BY <1>1
     DEF Stream!StreamNext, Stream!EnsureGroup, Stream!EnqueueTranscode,
         Stream!Read, Stream!ReadLost, Stream!Deliver,
         Stream!Ack, Stream!Drop, streamVars
<1>4. \A c \in Worker : held'[c] # e
  BY <1>1, <1>3
<1> QED
  BY <1>2, <1>4 DEF Stream!Stranded

\* A video given up stays given up, for the same reason.
LEMMA GivenUp_Stable ==
    ASSUME SafetyInv, [Stream!StreamNext]_streamVars,
           unanswered \subseteq unanswered', unmarked \subseteq unmarked',
           NEW v \in Video, GivenUp(v)
    PROVE  GivenUp(v)'
<1>1. StreamSafe
  BY DEF SafetyInv, TypeOK, StreamSafe
<1>2. Stream!EntriesOf(v) \subseteq Stream!EntriesOf(v)'
  BY <1>1, StreamGrows
<1>3. CASE StrandedJob(v)
  BY <1>1, <1>2, <1>3, Stranded_Stable DEF StrandedJob, GivenUp
<1>4. CASE v \in unanswered
  BY <1>4 DEF GivenUp
<1>5. CASE \E e \in unmarked : e \in Stream!EntriesOf(v)
  BY <1>2, <1>5 DEF GivenUp
<1> QED
  BY <1>3, <1>4, <1>5 DEF GivenUp

\* An entry that is not read yet stays unread while the cursor stays.
LEMMA Undelivered_Stable ==
    ASSUME SafetyInv, [Stream!StreamNext]_streamVars,
           lastDelivered' = lastDelivered, NEW e, Undelivered(e)
    PROVE  Undelivered(e)'
<1>1. StreamSafe
  BY DEF SafetyInv, TypeOK, StreamSafe
<1>2. /\ Len(stream) \in Nat
      /\ Len(stream') \in Nat
      /\ Len(stream) <= Len(stream')
      /\ lastDelivered \in Nat
  BY <1>1, StreamFacts, StreamGrows
<1> QED
  BY <1>2 DEF Undelivered

LEMMA Accounted_Api ==
    ASSUME SafetyInv, Accounted, ApiEffect, ApiClaimEffect,
           [Stream!StreamNext]_streamVars
    PROVE  Accounted'
<1> SUFFICES ASSUME NEW v \in Video, status'[v] \in {"uploaded", "processing"}
             PROVE  Carried(v)' \/ GivenUp(v)'
  BY DEF Accounted
<1>1. StreamSafe
  BY DEF SafetyInv, TypeOK, StreamSafe
<1>2. /\ Len(stream) \in Nat
      /\ Len(stream') \in Nat
      /\ lastDelivered \in Nat
      /\ lastDelivered <= Len(stream)
      /\ Stream!EntriesOf(v) \subseteq Stream!EntriesOf(v)'
      /\ UNCHANGED <<lastDelivered, held, pc, unmarked>>
  BY <1>1, StreamFacts, StreamGrows DEF ApiEffect, workerVars
<1>3. CASE v \in unanswered'
  BY <1>3 DEF GivenUp
<1>4. CASE completing'[v] > 0
  BY <1>4 DEF Carried
<1>5. CASE Len(stream) + 1 \in Stream!EntriesOf(v)'
  <2>1. PICK e : e = Len(stream) + 1 /\ e \in Stream!EntriesOf(v)'
    BY <1>5
  <2>2. e \in Nat /\ e <= Len(stream') /\ lastDelivered + 1 <= e
    BY <1>2, <2>1 DEF Stream!EntriesOf
  <2>3. Undelivered(e)'
    BY <1>2, <2>2 DEF Undelivered
  <2> QED BY <2>1, <2>3 DEF Carried
<1>6. CASE status'[v] = status[v] /\ completing'[v] = completing[v]
  <2>1. CASE GivenUp(v)
    BY <1>2, <2>1, GivenUp_Stable DEF ApiClaimEffect
  <2>2. CASE completing[v] > 0
    BY <1>6, <2>2 DEF Carried
  <2>3. CASE \E e \in Stream!EntriesOf(v) : Undelivered(e)
    BY <1>2, <2>3, Undelivered_Stable DEF Carried
  <2>4. CASE \E w \in Worker : pc[w] \in InHandle \ {"acking"} /\ Vid(w) = v
    <3>1. PICK w \in Worker : pc[w] \in InHandle \ {"acking"} /\ Vid(w) = v
      BY <2>4
    <3>2. held[w] # 0
      BY <3>1 DEF SafetyInv, WorkerInv
    <3>3. Vid(w)' = Vid(w)
      BY <1>1, <1>2, <3>2, StreamFacts, StreamGrows DEF Vid
    <3> QED BY <1>2, <3>1, <3>3 DEF Carried
  <2> QED
    BY <1>6, <2>1, <2>2, <2>3, <2>4 DEF Accounted, Carried
<1> QED
  BY <1>3, <1>4, <1>5, <1>6 DEF ApiClaimEffect

LEMMA Accounted_Worker ==
    ASSUME SafetyInv, Accounted, NEW w \in Worker, WorkerEffect(w), ClaimEffect(w),
           [Stream!StreamNext]_streamVars
    PROVE  Accounted'
<1> SUFFICES ASSUME NEW v \in Video, status'[v] \in {"uploaded", "processing"}
             PROVE  Carried(v)' \/ GivenUp(v)'
  BY DEF Accounted
<1>1. StreamSafe
  BY DEF SafetyInv, TypeOK, StreamSafe
<1>2. /\ held \in [Worker -> Nat]
      /\ pc \in [Worker -> PC]
      /\ held' = [held EXCEPT ![w] = held'[w]]
      /\ pc' = [pc EXCEPT ![w] = pc'[w]]
      /\ stream' = stream
      /\ UNCHANGED <<completing, unanswered>>
      /\ Stream!EntriesOf(v)' = Stream!EntriesOf(v)
  BY WorkerBefore
     DEF SafetyInv, TypeOK, WorkerEffect, PlaceEffect, RestEffect, apiVars
<1>3. /\ Len(stream) \in Nat
      /\ lastDelivered \in Nat
      /\ pel \subseteq 1..lastDelivered
      /\ \A d \in Worker : held[d] # 0 =>
            /\ held[d] \in pel
            /\ held[d] \in Stream!EntriesOf(Vid(d))
            /\ \A c \in Worker : held[c] = held[d] => c = d
  BY <1>1, StreamFacts DEF StreamSafe, Stream!CursorInv, Stream!HeldInv
\* The claim of the worker itself: it is settled, kept, stranded or noted.
<1>4. CASE Working(w) /\ Vid(w) = v
  <2>1. held[w] # 0 /\ held[w] \in pel /\ held[w] \in Stream!EntriesOf(v)
    BY <1>3, <1>4 DEF SafetyInv, WorkerInv, Working
  <2>2. CASE Working(w)' /\ held'[w] = held[w]
    BY <1>2, <1>4, <2>2 DEF Carried, Working, Vid
  <2>3. CASE held'[w] = 0 /\ pel' = pel
    <3>1. \A d \in Worker : held'[d] # held[w]
      BY <1>2, <1>3, <2>1, <2>3
    <3>2. PICK e : e = held[w] /\ e \in pel /\ e \in Stream!EntriesOf(v)
      BY <2>1
    <3>3. Stream!Stranded(e)'
      BY <2>3, <3>1, <3>2 DEF Stream!Stranded
    <3> QED
      BY <1>2, <3>2, <3>3 DEF GivenUp, StrandedJob
  <2>4. CASE held[w] \in unmarked'
    BY <1>2, <2>1, <2>4 DEF GivenUp
  <2> QED
    BY <1>4, <2>2, <2>3, <2>4 DEF ClaimEffect
\* The other claims on v stand as they did.
<1>5. CASE ~(Working(w) /\ Vid(w) = v)
  <2>1. status'[v] = status[v]
    BY <1>5 DEF SafetyInv, TypeOK, Repo!RepoTypeOK, ClaimEffect, WorkerEffect,
                RowEffect, Repo!UpdateStatus, Repo!SetPlayback
  <2>2. CASE GivenUp(v)
    BY <1>2, <2>2, GivenUp_Stable DEF ClaimEffect
  <2>3. CASE completing[v] > 0
    BY <1>2, <2>3 DEF Carried
  <2>4. CASE \E e \in Stream!EntriesOf(v) : Undelivered(e)
    <3>1. PICK e \in Stream!EntriesOf(v) : Undelivered(e)
      BY <2>4
    <3>2. CASE lastDelivered' = lastDelivered
      BY <1>2, <3>1, <3>2, Undelivered_Stable DEF Carried
    <3>3. CASE e # lastDelivered + 1 /\ lastDelivered' = lastDelivered + 1
      <4>1. Undelivered(e)'
        BY <1>2, <1>3, <3>1, <3>3 DEF Undelivered
      <4> QED BY <1>2, <3>1, <4>1 DEF Carried
    <3>4. CASE e = lastDelivered + 1 /\ lastDelivered' = lastDelivered + 1
      <4>1. e \in pel' /\ held[w] = 0
        BY <1>3, <3>4 DEF ClaimEffect
      <4>2. CASE Working(w)' /\ held'[w] = lastDelivered + 1
        BY <1>2, <3>1, <3>4, <4>2 DEF Carried, Working, Vid, Stream!EntriesOf
      <4>3. CASE held'[w] = 0
        <5>1. \A d \in Worker : held'[d] # e
          BY <1>2, <1>3, <3>4, <4>3
        <5> QED
          BY <1>2, <3>1, <4>1, <5>1 DEF GivenUp, StrandedJob, Stream!Stranded
      <4> QED
        BY <1>3, <3>4, <4>2, <4>3 DEF ClaimEffect
    <3> QED
      BY <3>2, <3>3, <3>4 DEF ClaimEffect
  <2>5. CASE \E d \in Worker : pc[d] \in InHandle \ {"acking"} /\ Vid(d) = v
    <3>1. PICK d \in Worker : pc[d] \in InHandle \ {"acking"} /\ Vid(d) = v
      BY <2>5
    <3>2. d # w
      BY <1>5, <3>1 DEF Working
    <3> QED
      BY <1>2, <3>1, <3>2 DEF Carried, Vid
  <2> QED
    BY <2>1, <2>2, <2>3, <2>4, <2>5 DEF Accounted, Carried
<1> QED
  BY <1>4, <1>5

LEMMA Accounted_Step ==
    ASSUME SafetyInv, Accounted, [Next]_vars, ConstAssumption
    PROVE  Accounted'
<1>1. [Stream!StreamNext]_streamVars
  BY StreamStep
<1>2. ASSUME ApiEffect, ApiClaimEffect PROVE Accounted'
  BY <1>1, <1>2, Accounted_Api
<1>3. ASSUME NEW v \in Video, ApiStep(v) \/ ClientStep(v)
      PROVE  Accounted'
  BY <1>2, <1>3, ApiStepEffect, ApiClaim DEF SafetyInv
<1>4. ASSUME StrayEntry
      PROVE  Accounted'
  <2>1. ApiClaimEffect
    BY <1>4 DEF StrayEntry, ApiClaimEffect, Stream!EnqueueTranscode, repoVars, apiVars
  <2> QED
    BY <1>2, <1>4, <2>1, StrayEntryEffect DEF SafetyInv
<1>5. ASSUME NEW w \in Worker, WorkerStep(w) \/ Stop(w) \/ Crash(w)
      PROVE  Accounted'
  BY <1>1, <1>5, SafetyInv_Placed, WorkerStepEffect, WorkerClaim, Accounted_Worker
<1>6. ASSUME UNCHANGED vars
      PROVE  Accounted'
  BY <1>6
     DEF Accounted, Carried, GivenUp, StrandedJob, Undelivered, Vid,
         Stream!EntriesOf, Stream!Stranded, vars, repoVars, streamVars, apiVars,
         workerVars
<1> QED
  BY <1>3, <1>4, <1>5, <1>6 DEF Next

\* Whatever fails and whoever dies, a video that shows "uploaded" or "processing"
\* is in somebody's care, or was given up in one of the three known ways.
THEOREM NothingLost == Spec => []Accounted
<1>1. Init => Accounted
  BY DEF Init, Repo!RepoInit, Accounted
<1> QED
  BY <1>1, Safety, Accounted_Step, ConstAssumption, PTL DEF Spec

\* A job that is stranded, by a crash, a lost reply or an early return of handle,
\* stays so: no step of any worker, restarted ones included, takes it up again.
THEOREM StrandedForGood ==
    Spec => [][\A v \in Video : StrandedJob(v) => StrandedJob(v)']_vars
<1>1. ASSUME SafetyInv, [Next]_vars, NEW v \in Video, StrandedJob(v)
      PROVE  StrandedJob(v)'
  <2>1. StreamSafe /\ [Stream!StreamNext]_streamVars
    BY <1>1, StreamStep DEF SafetyInv, TypeOK, StreamSafe
  <2>2. Stream!EntriesOf(v) \subseteq Stream!EntriesOf(v)'
    BY <2>1, StreamGrows
  <2> QED
    BY <1>1, <2>1, <2>2, Stranded_Stable DEF StrandedJob
<1>2. SafetyInv /\ [Next]_vars
         => [\A v \in Video : StrandedJob(v) => StrandedJob(v)']_vars
  BY <1>1
<1> QED
  BY <1>2, Safety, PTL DEF Spec
------------------------------------------------------------------------------
(* VideoLifecycle *)

LEMMA Lifecycle_Step ==
    ASSUME SafetyInv, [Next]_vars, ConstAssumption
    PROVE  [Lifecycle!Next]_(Lifecycle!vars)
<1>1. /\ status \in [Video -> Repo!Status \cup {"absent"}]
      /\ playback \in [Video -> Nat]
  BY DEF SafetyInv, TypeOK, Repo!RepoTypeOK
<1>2. ASSUME NEW v \in Video, ApiStep(v) \/ ClientStep(v)
      PROVE  [Lifecycle!Next]_(Lifecycle!vars)
  <2>1. CASE CreateVideo(v)
    BY <1>1, <2>1
       DEF CreateVideo, Repo!Create, Lifecycle!Next, Lifecycle!Created,
           Lifecycle!Becomes
  <2>2. CASE CompleteVideo(v) \/ CompleteVideoFails(v)
    BY <1>1, <2>2
       DEF CompleteVideo, CompleteVideoFails, Repo!UpdateStatus, Lifecycle!Next,
           Lifecycle!Uploaded, Lifecycle!Becomes
  <2>3. CASE UNCHANGED repoVars
    BY <2>3 DEF repoVars, Lifecycle!vars
  <2> QED
    BY <1>2, <2>1, <2>2, <2>3
       DEF ApiStep, ClientStep, PresignUpload, CreateVideoFails, EnqueueJob,
           EnqueueJobFails, ClientPuts
<1>3. ASSUME NEW w \in Worker, WorkerStep(w) \/ Stop(w) \/ Crash(w)
      PROVE  [Lifecycle!Next]_(Lifecycle!vars)
  <2> DEFINE v == Vid(w)
  <2>1. WorkerEffect(w)
    BY <1>3, SafetyInv_Placed, WorkerStepEffect
  <2>2. held[w] # 0 /\ v \in Video => Lifecycle!Completed(v)
    BY <2>1, WorkerBefore DEF Lifecycle!Completed
  <2>3. ASSUME held[w] # 0, v \in Video, NEW s \in {"processing", "failed"},
               Repo!UpdateStatus(v, s)
        PROVE  Lifecycle!Next
    BY <1>1, <2>2, <2>3
       DEF Repo!UpdateStatus, Lifecycle!Next, Lifecycle!Processing,
           Lifecycle!Failed, Lifecycle!Becomes, Lifecycle!Completed
  <2>4. ASSUME pc[w] = "publish", Repo!SetPlayback(v, "ready", held[w])
        PROVE  Lifecycle!Ready(v) /\ v \in Video
    <3>1. held[w] # 0 /\ v \in Video /\ playback[v] # held[w]
      BY <2>4 DEF SafetyInv, WorkerInv, UnpublishedInv, InHandle
    <3> QED
      BY <1>1, <2>2, <2>4, <3>1
         DEF Repo!SetPlayback, Lifecycle!Ready, Lifecycle!Becomes,
             Lifecycle!Completed
  <2> QED
    BY <2>1, <2>3, <2>4
       DEF WorkerEffect, RowEffect, Lifecycle!Next, Lifecycle!vars
<1>4. CASE StrayEntry \/ UNCHANGED vars
  BY <1>4 DEF StrayEntry, vars, repoVars, Lifecycle!vars
<1> QED
  BY <1>2, <1>3, <1>4 DEF Next

\* What a client sees by polling a video is a behaviour of VideoLifecycle: it is
\* pending until its upload was marked complete, and its stream and key change
\* only in the step that makes it ready.
THEOREM LifecycleCorrect == Spec => ImplementsLifecycle
<1>1. Init => Lifecycle!Init
  BY DEF Init, Repo!RepoInit, Lifecycle!Init
<1> QED
  BY <1>1, Safety, Lifecycle_Step, ConstAssumption, PTL
     DEF Spec, ImplementsLifecycle, Lifecycle!Spec
=============================================================================
