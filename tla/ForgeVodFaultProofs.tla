------------------------ MODULE ForgeVodFaultProofs ------------------------
(***************************************************************************)
(* A fault costs one video at most (OneVideoPerFault).                     *)
(*                                                                         *)
(* A SIGTERM is a fault that takes effect later, when the calls of the     *)
(* worker fail one after the other, so the videos given up cannot be       *)
(* charged to the faults by themselves.  FaultInv charges in advance: a    *)
(* video counts as doomed as soon as a stopping worker has its entry, and  *)
(* a stopping worker whose blocking Read can still return an entry counts  *)
(* by itself.                                                              *)
(***************************************************************************)
EXTENDS ForgeVodOutcomeProofs, FiniteSetTheorems

USE DEF Stream!NoEntry, Repo!NoPlayback, Repo!Absent, Store!NoObject

\* A delivered entry that was given up, or whose worker is told to stop.
DoomedEntry(e) ==
    /\ e \in 1..lastDelivered
    /\ \/ Stream!Stranded(e)
       \/ e \in unmarked
       \/ \E w \in stopping : held[w] = e

Doomed ==
    {v \in Video : v \in unanswered \/ \E e \in Stream!EntriesOf(v) : DoomedEntry(e)}

\* Workers that are told to stop while they wait for an entry.
Leaving == {w \in stopping : pc[w] = "idle"}

FaultInv ==
    /\ IsFiniteSet(Doomed) /\ IsFiniteSet(Leaving)
    /\ Cardinality(Doomed) + Cardinality(Leaving) <= faults
    /\ \A w \in Worker : pc[w] = "down" => w \notin stopping
    /\ unmarked \subseteq 1..lastDelivered
------------------------------------------------------------------------------
(* Counting *)

\* A set that gains one member at most.
LEMMA OneMore ==
    ASSUME NEW S, IsFiniteSet(S), NEW x, NEW T \in SUBSET (S \cup {x})
    PROVE  IsFiniteSet(T) /\ Cardinality(T) <= Cardinality(S) + 1
<1>1. IsFiniteSet(S \cup {x}) /\ Cardinality(S \cup {x}) <= Cardinality(S) + 1
  <2>1. Cardinality(S) \in Nat
    BY FS_CardinalityType
  <2>2. /\ IsFiniteSet(S \cup {x})
        /\ Cardinality(S \cup {x}) = IF x \in S THEN Cardinality(S) ELSE Cardinality(S) + 1
    BY FS_AddElement
  <2> QED BY <2>1, <2>2
<1>2. IsFiniteSet(T) /\ Cardinality(T) <= Cardinality(S \cup {x})
  BY <1>1, FS_Subset
<1> QED
  BY <1>1, <1>2, FS_CardinalityType

\* A set that loses a member.
LEMMA OneLess ==
    ASSUME NEW S, IsFiniteSet(S), NEW x \in S, NEW T \in SUBSET (S \ {x})
    PROVE  IsFiniteSet(T) /\ Cardinality(T) <= Cardinality(S) - 1
<1>1. IsFiniteSet(S \ {x}) /\ Cardinality(S \ {x}) = Cardinality(S) - 1
  BY FS_RemoveElement
<1> QED
  BY <1>1, FS_Subset

\* What a step may do to the two sets for a fault, and without one.
Charged(D, L, f, D1, L1, f1) ==
    \/ D1 \subseteq D /\ L1 \subseteq L /\ f1 \in {f, f + 1}
    \/ (\E x : D1 \subseteq D \cup {x}) /\ L1 \subseteq L /\ f1 = f + 1
    \/ /\ \E x : D1 \subseteq D \cup {x}
       /\ \E w \in L : L1 \subseteq L \ {w}
       /\ f1 \in {f, f + 1}
    \/ D1 \subseteq D /\ (\E w : L1 \subseteq L \cup {w}) /\ f1 = f + 1

LEMMA Counting ==
    ASSUME NEW D, NEW L, NEW f \in Nat, NEW D1, NEW L1, NEW f1,
           IsFiniteSet(D), IsFiniteSet(L), Cardinality(D) + Cardinality(L) <= f,
           Charged(D, L, f, D1, L1, f1)
    PROVE  /\ IsFiniteSet(D1) /\ IsFiniteSet(L1)
           /\ Cardinality(D1) + Cardinality(L1) <= f1
<1>1. Cardinality(D) \in Nat /\ Cardinality(L) \in Nat
  BY FS_CardinalityType
<1>2. \A S \in {D, L} : \A T : T \subseteq S => IsFiniteSet(T) /\ Cardinality(T) <= Cardinality(S)
  BY FS_Subset
<1>3. \A S \in {D, L} : \A T, x : T \subseteq S \cup {x} =>
         IsFiniteSet(T) /\ Cardinality(T) <= Cardinality(S) + 1
  BY OneMore
<1>4. \A w \in L : \A T : T \subseteq L \ {w} =>
         IsFiniteSet(T) /\ Cardinality(T) <= Cardinality(L) - 1
  BY OneLess
<1>5. IsFiniteSet(D1) /\ IsFiniteSet(L1)
  BY <1>2, <1>3, <1>4 DEF Charged
<1>6. Cardinality(D1) \in Nat /\ Cardinality(L1) \in Nat
  BY <1>5, FS_CardinalityType
<1>sum. Cardinality(D) + Cardinality(L) <= f
  OBVIOUS
<1>7. CASE D1 \subseteq D /\ L1 \subseteq L /\ f1 \in {f, f + 1}
  BY <1>1, <1>2, <1>6, <1>7
<1>8. CASE (\E x : D1 \subseteq D \cup {x}) /\ L1 \subseteq L /\ f1 = f + 1
  <2>1. Cardinality(D1) <= Cardinality(D) + 1
    BY <1>3, <1>8
  <2>2. Cardinality(L1) <= Cardinality(L)
    BY <1>2, <1>8
  <2>3. f1 = f + 1
    BY <1>8
  <2> QED BY <1>1, <1>5, <1>6, <1>sum, <2>1, <2>2, <2>3
<1>9. CASE /\ \E x : D1 \subseteq D \cup {x}
           /\ \E w \in L : L1 \subseteq L \ {w}
           /\ f1 \in {f, f + 1}
  <2>1. Cardinality(D1) <= Cardinality(D) + 1
    BY <1>3, <1>9
  <2>2. Cardinality(L1) <= Cardinality(L) - 1
    BY <1>4, <1>9
  <2>3. f1 >= f /\ f1 \in Nat
    BY <1>9
  <2> QED BY <1>1, <1>5, <1>6, <1>sum, <2>1, <2>2, <2>3
<1>10. CASE D1 \subseteq D /\ (\E w : L1 \subseteq L \cup {w}) /\ f1 = f + 1
  BY <1>1, <1>2, <1>3, <1>6, <1>10
<1> QED
  BY <1>5, <1>7, <1>8, <1>9, <1>10 DEF Charged
------------------------------------------------------------------------------
(* What a step can give up *)

\* The entry that a step of the worker is about: the one in hand, or the next
\* one to be read.
Concerned(w) == IF held[w] = 0 THEN lastDelivered + 1 ELSE held[w]

\* Without a fault, a worker that is not told to stop keeps its entry in hand
\* until it is acknowledged and notes no failure; one that waits for an entry
\* after it is told to stop takes the one it is given, or leaves.
ChargeEffect(w) ==
    /\ \A u \in Worker : u # w => (u \in stopping' <=> u \in stopping)
    /\ faults' \in {faults, faults + 1}
    /\ held'[w] \in {0, Concerned(w)}
    /\ \A e : e # Concerned(w) => (e \in pel' <=> e \in pel)
    /\ unmarked \subseteq unmarked'
    /\ unmarked' \subseteq unmarked \cup (IF held[w] = 0 THEN {} ELSE {held[w]})
    /\ pc'[w] = "down" => w \notin stopping'
    /\ w \in stopping' /\ pc'[w] = "idle" =>
          \/ w \in stopping /\ pc[w] = "idle"
          \/ faults' = faults + 1 /\ UNCHANGED <<pel, held, unmarked>>
    /\ faults' = faults =>
          /\ w \in stopping' => w \in stopping
          /\ w \notin stopping /\ Concerned(w) \in pel' => held'[w] = Concerned(w)
          /\ w \notin stopping => unmarked' = unmarked
          /\ held[w] = 0 /\ Concerned(w) \in pel' =>
                held'[w] = Concerned(w) /\ pc'[w] # "idle"

LEMMA WorkerCharge ==
    ASSUME SafetyInv, FaultInv, NEW w \in Worker, WorkerStep(w) \/ Stop(w) \/ Crash(w)
    PROVE  ChargeEffect(w)
<1>1. /\ pc \in [Worker -> PC]
      /\ held \in [Worker -> Nat]
      /\ stopping \in SUBSET Worker
      /\ group \in BOOLEAN
      /\ ~group => lastDelivered = 0
      /\ lastDelivered \in Nat
      /\ faults \in Nat
      /\ pel \subseteq 1..lastDelivered
  BY DEF SafetyInv, TypeOK, Stream!StreamTypeOK, Stream!CursorInv
<1>2. /\ pc[w] \in InHandle <=> held[w] # 0
      /\ pc[w] = "down" => w \notin stopping
  BY DEF SafetyInv, WorkerInv, FaultInv
<1>3. held[w] # 0 => held[w] \in pel
  BY StreamFacts DEF SafetyInv, Stream!HeldInv
<1> USE <1>1, <1>2, <1>3
        DEF ChargeEffect, Concerned, InHandle, Fault, CallOk, CallFails,
            repoVars, storeVars, streamVars, apiVars, workerVars
<1>4. CASE Start(w)
  BY <1>4 DEF Start, Goto, Stream!EnsureGroup
<1>5. CASE StartFails(w)
  BY <1>5 DEF StartFails, Stream!EnsureGroup
<1>6. CASE ReadJob(w)
  BY <1>6 DEF ReadJob, Goto, Stream!Read, Stream!Deliver
<1>7. CASE ReadJobFails(w)
  BY <1>7 DEF ReadJobFails, Return, Goto, Stream!ReadLost, Stream!Deliver
<1>8. CASE ShutDown(w)
  BY <1>8 DEF ShutDown, Goto
<1>9. CASE Discard(w)
  BY <1>9 DEF Discard, Return, Goto, Stream!Ack, Stream!Drop
<1>10. CASE MarkProcessing(w)
  BY <1>10 DEF MarkProcessing, Goto
<1>11. CASE MarkProcessingFails(w)
  BY <1>11 DEF MarkProcessingFails, Return, Goto, Stream!Drop
<1>12. CASE Download(w)
  BY <1>12 DEF Download, Goto
<1>13. CASE DownloadFails(w)
  BY <1>13 DEF DownloadFails, Goto
<1>14. CASE Transcode(w)
  BY <1>14 DEF Transcode, Goto
<1>15. CASE TranscodeFails(w)
  BY <1>15 DEF TranscodeFails, Goto
<1>16. CASE UploadFile(w)
  BY <1>16 DEF UploadFile, Goto
<1>17. CASE UploadFileFails(w)
  BY <1>17 DEF UploadFileFails, Goto
<1>18. CASE Publish(w)
  BY <1>18 DEF Publish, Goto
<1>19. CASE PublishFails(w)
  BY <1>19 DEF PublishFails, Return, Goto, Stream!Drop
<1>20. CASE MarkFailed(w)
  BY <1>20 DEF MarkFailed, Goto
<1>21. CASE MarkFailedFails(w)
  BY <1>21 DEF MarkFailedFails, Goto
<1>22. CASE AckJob(w)
  BY <1>22 DEF AckJob, Return, Goto, Stream!Ack, Stream!Drop
<1>23. CASE Stop(w)
  BY <1>23 DEF Stop
<1>24. CASE Crash(w)
  BY <1>24 DEF Crash, Goto, Stream!Drop
<1> QED
  BY <1>4, <1>5, <1>6, <1>7, <1>8, <1>9, <1>10, <1>11, <1>12, <1>13, <1>14,
     <1>15, <1>16, <1>17, <1>18, <1>19, <1>20, <1>21, <1>22, <1>23, <1>24
     DEF WorkerStep
------------------------------------------------------------------------------
(* FaultInv is inductive *)

LEMMA FaultInv_Worker ==
    ASSUME SafetyInv, FaultInv, NEW w \in Worker, WorkerEffect(w), ChargeEffect(w),
           [Stream!StreamNext]_streamVars
    PROVE  FaultInv'
<1>0. PICK X : X = Concerned(w)
  OBVIOUS
<1>1. /\ held \in [Worker -> Nat]
      /\ pc \in [Worker -> PC]
      /\ stopping \in SUBSET Worker /\ stopping' \in SUBSET Worker
      /\ held' = [held EXCEPT ![w] = held'[w]]
      /\ pc' = [pc EXCEPT ![w] = pc'[w]]
      /\ stream' = stream
      /\ unanswered' = unanswered
      /\ \A v \in Video : Stream!EntriesOf(v)' = Stream!EntriesOf(v)
      /\ lastDelivered \in Nat
  BY WorkerBefore
     DEF SafetyInv, TypeOK, WorkerEffect, PlaceEffect, RestEffect, apiVars
<1>typ. /\ pel \subseteq 1..lastDelivered
        /\ pc'[w] \in InHandle <=> held'[w] # 0
        /\ pc[w] \in InHandle <=> held[w] # 0
        /\ faults \in Nat
  BY DEF SafetyInv, TypeOK, WorkerInv, WorkerEffect, PlaceEffect, Stream!CursorInv
<1>2. /\ lastDelivered' \in Nat /\ lastDelivered <= lastDelivered'
      /\ pel' \subseteq 1..lastDelivered'
      /\ \A d \in Worker : held[d] # 0 => held[d] \in 1..lastDelivered
      /\ \A d \in Worker : held[d] # 0 => \A c \in Worker : held[c] = held[d] => c = d
  <2>1. StreamSafe
    BY DEF SafetyInv, TypeOK, StreamSafe
  <2> QED
    BY <2>1, StreamFacts, StreamGrows, StreamSafe_Step
       DEF StreamSafe, Stream!StreamTypeOK, Stream!CursorInv
<1>3. X \in Nat /\ X # 0
  <2>1. held[w] \in Nat
    BY <1>1
  <2> QED BY <1>0, <1>1, <2>1 DEF Concerned
<1>hand. held'[w] \in {0, X}
  BY <1>0 DEF ChargeEffect
\* An entry that the step does not concern is as doomed as it was.
<1>4. ASSUME NEW e, e # X, DoomedEntry(e)'
      PROVE  DoomedEntry(e)
  <2>1. e \in 1..lastDelivered' /\ (e \in pel' <=> e \in pel)
    BY <1>0, <1>4 DEF DoomedEntry, ChargeEffect
  <2>2. CASE Stream!Stranded(e)'
    <3>1. e \in pel
      BY <2>1, <2>2 DEF Stream!Stranded
    <3>2. \A c \in Worker : held[c] # e
      <4>1. \A c \in Worker : c # w => held[c] # e
        BY <1>1, <2>2 DEF Stream!Stranded
      <4>2. e # 0
        BY <2>1
      <4>3. held[w] # e
        BY <1>0, <1>4, <4>2 DEF Concerned
      <4> QED BY <4>1, <4>3
    <3> QED
      BY <1>1, <1>typ, <3>1, <3>2 DEF DoomedEntry, Stream!Stranded
  <2>3. CASE e \in unmarked'
    <3>1. e \in unmarked
      BY <1>0, <1>4, <2>3 DEF ChargeEffect, Concerned
    <3> QED BY <3>1 DEF DoomedEntry, FaultInv
  <2>4. CASE \E u \in stopping' : held'[u] = e
    <3>1. PICK u \in stopping' : held'[u] = e
      BY <2>4
    <3>2. u # w /\ u \in Worker /\ held[u] = e /\ e # 0
      BY <1>1, <1>hand, <1>4, <2>1, <3>1
    <3>3. u \in stopping
      BY <3>1, <3>2 DEF ChargeEffect
    <3> QED BY <1>2, <3>2, <3>3 DEF DoomedEntry
  <2> QED BY <1>4, <2>2, <2>3, <2>4 DEF DoomedEntry
<1>5. \E x : Doomed' \subseteq Doomed \cup {x}
  <2> SUFFICES ASSUME NEW v \in Video, v \in Doomed', v \notin Doomed
               PROVE  v = stream[X]
    BY DEF Doomed
  <2>1. PICK e \in Stream!EntriesOf(v) : DoomedEntry(e)'
    BY <1>1 DEF Doomed
  <2>2. ~DoomedEntry(e)
    BY DEF Doomed
  <2>3. e = X
    BY <1>4, <2>1, <2>2
  <2> QED BY <2>1, <2>3 DEF Stream!EntriesOf
\* Nor is the entry that it concerns, unless there was a fault or the worker is
\* one that waited.
<1>6. ASSUME faults' = faults, ~(w \in Leaving /\ w \notin Leaving')
      PROVE  DoomedEntry(X)' => DoomedEntry(X)
  <2> SUFFICES ASSUME DoomedEntry(X)' PROVE DoomedEntry(X)
    OBVIOUS
  <2>1. CASE held[w] # 0 /\ w \in stopping
    <3>1. X = held[w] /\ X \in 1..lastDelivered
      BY <1>0, <1>2, <2>1 DEF Concerned
    <3> QED BY <2>1, <3>1 DEF DoomedEntry
  <2>2. CASE held[w] # 0 /\ w \notin stopping
    <3>1. X = held[w] /\ X \in 1..lastDelivered
      BY <1>0, <1>2, <2>2 DEF Concerned
    <3>2. ~Stream!Stranded(X)'
      BY <1>0, <1>6, <2>2 DEF ChargeEffect, Stream!Stranded
    <3>3. X \in unmarked' => X \in unmarked
      BY <1>6, <2>2 DEF ChargeEffect
    <3>4. \A u \in stopping' : held'[u] # X
      <4>1. w \notin stopping'
        BY <1>6, <2>2 DEF ChargeEffect
      <4>2. \A u \in Worker : u # w => held'[u] # X
        BY <1>1, <1>2, <2>2, <3>1
      <4> QED BY <1>1, <4>1, <4>2
    <3> QED BY <3>1, <3>2, <3>3, <3>4 DEF DoomedEntry
  <2>3. CASE held[w] = 0
    <3>1. X = lastDelivered + 1
      BY <1>0, <2>3 DEF Concerned
    <3>2. ~Stream!Stranded(X)'
      BY <1>0, <1>6, <2>3 DEF ChargeEffect, Stream!Stranded
    <3>3. X \notin unmarked'
      BY <1>1, <2>3, <3>1 DEF ChargeEffect, FaultInv
    <3>4. \A u \in Worker : u # w => held'[u] # X
      BY <1>1, <1>2, <3>1
    <3>5. ~(w \in stopping' /\ held'[w] = X)
      <4> SUFFICES ASSUME w \in stopping', held'[w] = X PROVE FALSE
        OBVIOUS
      <4>1. w \in stopping /\ pc'[w] # "idle"
        BY <1>1, <1>typ, <1>3, <1>6 DEF ChargeEffect, InHandle
      <4>2. pc[w] = "idle"
        BY <1>1, <1>typ, <2>3, <4>1 DEF FaultInv, PC, InHandle
      <4> QED BY <1>6, <4>1, <4>2 DEF Leaving
    <3> QED BY <1>1, <3>2, <3>3, <3>4, <3>5 DEF DoomedEntry
  <2> QED BY <2>1, <2>2, <2>3
<1>7. ASSUME faults' = faults, ~(w \in Leaving /\ w \notin Leaving')
      PROVE  Doomed' \subseteq Doomed
  <2>1. \A e : DoomedEntry(e)' => DoomedEntry(e)
    BY <1>4, <1>6, <1>7
  <2> QED BY <1>1, <2>1 DEF Doomed
<1>8. \A u : u # w => (u \in Leaving' <=> u \in Leaving)
  BY <1>1 DEF Leaving, ChargeEffect
<1>9. Charged(Doomed, Leaving, faults, Doomed', Leaving', faults')
  <2>1. faults' \in {faults, faults + 1}
    BY DEF ChargeEffect
  <2>2. CASE w \in Leaving' /\ w \notin Leaving
    <3>1. faults' = faults + 1 /\ UNCHANGED <<pel, held, unmarked>>
      BY <2>2 DEF ChargeEffect, Leaving
    <3>2. held[w] = 0
      BY <1>1, <1>typ, <2>2, <3>1 DEF Leaving, InHandle
    <3>3. ~DoomedEntry(X)'
      <4>1. X = lastDelivered + 1
        BY <1>0, <3>2 DEF Concerned
      <4>2. X \notin pel /\ X \notin unmarked
        BY <1>1, <1>typ, <4>1 DEF FaultInv
      <4>3. \A u \in Worker : held[u] # X
        BY <1>1, <1>2, <4>1
      <4> QED BY <1>1, <3>1, <4>2, <4>3 DEF DoomedEntry, Stream!Stranded
    <3>4. \A e : DoomedEntry(e)' => DoomedEntry(e)
      BY <1>4, <3>3
    <3>5. Doomed' \subseteq Doomed
      BY <1>1, <3>4 DEF Doomed
    <3> QED BY <1>8, <3>1, <3>5 DEF Charged
  <2>3. CASE w \in Leaving /\ w \notin Leaving'
    BY <1>5, <1>8, <2>1, <2>3 DEF Charged
  <2>4. CASE w \in Leaving <=> w \in Leaving'
    <3>1. Leaving' \subseteq Leaving
      BY <1>8, <2>4
    <3> QED BY <1>5, <1>7, <2>1, <2>4, <3>1 DEF Charged
  <2> QED BY <2>2, <2>3, <2>4
<1>10. /\ IsFiniteSet(Doomed') /\ IsFiniteSet(Leaving')
       /\ Cardinality(Doomed') + Cardinality(Leaving') <= faults'
  BY <1>1, <1>typ, <1>9, Counting DEF FaultInv
<1>11. \A u \in Worker : pc'[u] = "down" => u \notin stopping'
  BY <1>1 DEF FaultInv, ChargeEffect
<1>12. unmarked' \subseteq 1..lastDelivered'
  BY <1>1, <1>2 DEF FaultInv, ChargeEffect
<1> QED
  BY <1>10, <1>11, <1>12 DEF FaultInv

\* A step that is not a worker's dooms a video by a fault only: one that a
\* client is not told 200 for.
ApiChargeEffect ==
    /\ UNCHANGED <<pel, unmarked>>
    /\ \/ UNCHANGED unanswered /\ faults' \in {faults, faults + 1}
       \/ faults' = faults + 1 /\ \E v : unanswered' = unanswered \cup {v}

LEMMA ApiCharge ==
    ASSUME NEW v \in Video, ApiStep(v) \/ ClientStep(v)
    PROVE  ApiChargeEffect
<1> USE DEF ApiChargeEffect, Fault, repoVars, storeVars, streamVars, apiVars, workerVars
<1>1. CASE CreateVideo(v) \/ CompleteVideo(v) \/ ClientPuts(v) \/ PresignUpload(v)
  BY <1>1 DEF CreateVideo, CompleteVideo, ClientPuts, PresignUpload
<1>2. CASE CompleteVideoFails(v) \/ CreateVideoFails(v)
  BY <1>2 DEF CompleteVideoFails, CreateVideoFails
<1>3. CASE EnqueueJob(v)
  BY <1>3 DEF EnqueueJob, Stream!EnqueueTranscode
<1>4. CASE EnqueueJobFails(v)
  BY <1>4 DEF EnqueueJobFails, Stream!EnqueueTranscode
<1> QED
  BY <1>1, <1>2, <1>3, <1>4 DEF ApiStep, ClientStep

LEMMA FaultInv_Api ==
    ASSUME SafetyInv, FaultInv, ApiEffect, ApiChargeEffect, [Stream!StreamNext]_streamVars
    PROVE  FaultInv'
<1>1. UNCHANGED <<lastDelivered, held, pel, unmarked, pc, stopping>>
  BY DEF ApiEffect, ApiChargeEffect, workerVars
<1>2. \A e : DoomedEntry(e)' <=> DoomedEntry(e)
  BY <1>1 DEF DoomedEntry, Stream!Stranded
<1>3. ASSUME NEW v \in Video, NEW e \in Stream!EntriesOf(v)', DoomedEntry(e)
      PROVE  e \in Stream!EntriesOf(v)
  <2>1. StreamSafe
    BY DEF SafetyInv, TypeOK, StreamSafe
  <2>2. e \in 1..Len(stream)
    BY <1>3, <2>1, StreamFacts DEF DoomedEntry
  <2>3. stream'[e] = stream[e]
    BY <2>1, <2>2, StreamGrows
  <2> QED BY <1>3, <2>2, <2>3 DEF Stream!EntriesOf
<1>4. \A v \in Doomed' : v \in Doomed \/ v \in unanswered'
  BY <1>2, <1>3 DEF Doomed
<1>5. unanswered \cap Video \subseteq Doomed
  BY DEF Doomed
<1>6. Doomed' \subseteq Video
  BY DEF Doomed
<1>7. Leaving' = Leaving
  BY <1>1 DEF Leaving
<1>8. Charged(Doomed, Leaving, faults, Doomed', Leaving', faults')
  <2>1. CASE UNCHANGED unanswered /\ faults' \in {faults, faults + 1}
    <3>1. Doomed' \subseteq Doomed
      BY <1>4, <1>5, <1>6, <2>1
    <3> QED BY <1>7, <2>1, <3>1 DEF Charged
  <2>2. CASE faults' = faults + 1 /\ \E v : unanswered' = unanswered \cup {v}
    <3>1. PICK v : unanswered' = unanswered \cup {v}
      BY <2>2
    <3>2. Doomed' \subseteq Doomed \cup {v}
      BY <1>4, <1>5, <1>6, <3>1
    <3> QED BY <1>7, <2>2, <3>2 DEF Charged
  <2> QED BY <2>1, <2>2 DEF ApiChargeEffect
<1>9. faults \in Nat
  BY DEF SafetyInv, TypeOK
<1>10. /\ IsFiniteSet(Doomed') /\ IsFiniteSet(Leaving')
       /\ Cardinality(Doomed') + Cardinality(Leaving') <= faults'
  BY <1>8, <1>9, Counting DEF FaultInv
<1> QED
  BY <1>1, <1>10 DEF FaultInv

LEMMA FaultInv_Step ==
    ASSUME SafetyInv, FaultInv, [Next]_vars, ConstAssumption
    PROVE  FaultInv'
<1>1. [Stream!StreamNext]_streamVars
  BY StreamStep
<1>2. ASSUME NEW v \in Video, ApiStep(v) \/ ClientStep(v)
      PROVE  FaultInv'
  BY <1>1, <1>2, ApiStepEffect, ApiCharge, FaultInv_Api DEF SafetyInv
<1>3. ASSUME StrayEntry
      PROVE  FaultInv'
  <2>1. ApiChargeEffect
    BY <1>3 DEF StrayEntry, ApiChargeEffect, Fault, Stream!EnqueueTranscode,
                apiVars, workerVars
  <2> QED
    BY <1>1, <1>3, <2>1, StrayEntryEffect, FaultInv_Api DEF SafetyInv
<1>4. ASSUME NEW w \in Worker, WorkerStep(w) \/ Stop(w) \/ Crash(w)
      PROVE  FaultInv'
  BY <1>1, <1>4, SafetyInv_Placed, WorkerStepEffect, WorkerCharge, FaultInv_Worker
<1>5. ASSUME UNCHANGED vars
      PROVE  FaultInv'
  <2>1. Doomed' = Doomed
    BY <1>5
       DEF Doomed, DoomedEntry, Stream!EntriesOf, Stream!Stranded, vars, streamVars,
           apiVars, workerVars
  <2>2. Leaving' = Leaving
    BY <1>5 DEF Leaving, vars, workerVars
  <2> QED
    BY <1>5, <2>1, <2>2 DEF FaultInv, vars, streamVars, workerVars
<1> QED
  BY <1>2, <1>3, <1>4, <1>5 DEF Next

LEMMA FaultInv_Init == Init => FaultInv
<1> SUFFICES ASSUME Init PROVE FaultInv
  OBVIOUS
<1>1. Doomed = {} /\ Leaving = {}
  BY DEF Init, Stream!StreamInit, Doomed, DoomedEntry, Leaving
<1> QED
  BY <1>1, FS_EmptySet DEF Init, FaultInv

LEMMA LostIsDoomed ==
    ASSUME SafetyInv, FaultInv, NEW lost, lost = {v \in Video : GivenUp(v)}
    PROVE  IsFiniteSet(lost) /\ Cardinality(lost) <= faults
<1>1. pel \subseteq 1..lastDelivered
  BY DEF SafetyInv, Stream!CursorInv
<1>2. lost \subseteq Doomed
  BY <1>1
     DEF GivenUp, StrandedJob, Doomed, DoomedEntry, FaultInv, Stream!Stranded
<1>3. IsFiniteSet(lost) /\ Cardinality(lost) <= Cardinality(Doomed)
  BY <1>2, FS_Subset DEF FaultInv
<1>4. /\ Cardinality(lost) \in Nat /\ Cardinality(Doomed) \in Nat
      /\ Cardinality(Leaving) \in Nat /\ faults \in Nat
  BY <1>3, FS_CardinalityType DEF FaultInv, SafetyInv, TypeOK
<1> QED
  BY <1>3, <1>4 DEF FaultInv

\* Every video that is given up, of however many, is paid for with a fault of its
\* own: without faults none is.
THEOREM FaultsCharged == Spec => []OneVideoPerFault
<1>1. SafetyInv /\ FaultInv => OneVideoPerFault
  BY LostIsDoomed DEF OneVideoPerFault
<1>2. SafetyInv /\ FaultInv /\ [Next]_vars => FaultInv'
  BY FaultInv_Step, ConstAssumption
<1> QED
  BY <1>1, <1>2, FaultInv_Init, Safety, PTL DEF Spec
------------------------------------------------------------------------------
(* An acknowledged job has been marked *)

\* Every job of a video, and every one about to be enqueued, comes from a call
\* that marked it.
CallInv ==
    \A v \in Video :
        /\ completing[v] <= calls[v]
        /\ Stream!EntriesOf(v) # {} => completing[v] < calls[v]

CompletingEffect ==
    \A v \in Video :
        \/ /\ completing'[v] = completing[v] /\ calls'[v] = calls[v]
           /\ Stream!EntriesOf(v)' = Stream!EntriesOf(v)
        \/ /\ completing'[v] <= completing[v] + 1 /\ calls'[v] = calls[v] + 1
           /\ Stream!EntriesOf(v)' = Stream!EntriesOf(v)
        \/ completing'[v] < completing[v] /\ calls'[v] = calls[v]

LEMMA ApiCompletes ==
    ASSUME SafetyInv, NEW v \in Video, ApiStep(v) \/ ClientStep(v)
    PROVE  CompletingEffect
<1>1. /\ completing \in [Video -> Nat] /\ calls \in [Video -> Nat]
      /\ stream \in Seq(Job) /\ v \in Job
  BY DEF SafetyInv, TypeOK, Stream!StreamTypeOK, Job
<1>2. CASE CreateVideo(v) \/ ClientPuts(v) \/ PresignUpload(v) \/ CreateVideoFails(v)
  BY <1>2
     DEF CompletingEffect, CreateVideo, ClientPuts, PresignUpload, CreateVideoFails,
         Stream!EntriesOf, streamVars, apiVars
<1>3. CASE CompleteVideo(v)
  BY <1>1, <1>3 DEF CompletingEffect, CompleteVideo, Stream!EntriesOf, streamVars
<1>4. CASE CompleteVideoFails(v)
  BY <1>1, <1>4 DEF CompletingEffect, CompleteVideoFails, Stream!EntriesOf, streamVars
<1>5. CASE EnqueueJob(v) \/ EnqueueJobFails(v)
  <2>1. /\ completing'[v] < completing[v]
        /\ \A u \in Video : u # v => completing'[u] = completing[u]
        /\ calls' = calls
    BY <1>1, <1>5 DEF EnqueueJob, EnqueueJobFails
  <2>2. \/ \E n \in Nat : Stream!EnqueueTranscode(v, n)
        \/ UNCHANGED streamVars
    <3>1. 1..MaxSends \subseteq Nat /\ 2..MaxSends \subseteq Nat
      OBVIOUS
    <3> QED
      BY <1>5, <3>1 DEF EnqueueJob, EnqueueJobFails
  <2>3. \A u \in Video : u # v => Stream!EntriesOf(u)' = Stream!EntriesOf(u)
    <3>1. CASE UNCHANGED streamVars
      BY <3>1 DEF Stream!EntriesOf, streamVars
    <3> QED
      BY <1>1, <2>2, <3>1, OthersKeepEntries
  <2> QED
    BY <2>1, <2>3 DEF CompletingEffect
<1> QED
  BY <1>2, <1>3, <1>4, <1>5 DEF ApiStep, ClientStep

LEMMA CallInv_Step ==
    ASSUME SafetyInv, CallInv, [Next]_vars, ConstAssumption
    PROVE  CallInv'
<1>1. /\ completing \in [Video -> Nat] /\ calls \in [Video -> Nat]
      /\ completing' \in [Video -> Nat] /\ calls' \in [Video -> Nat]
      /\ stream \in Seq(Job)
  BY SafetyInv_Step DEF SafetyInv, TypeOK, Stream!StreamTypeOK
<1>2. ASSUME CompletingEffect PROVE CallInv'
  <2> SUFFICES ASSUME NEW v \in Video
               PROVE  /\ completing'[v] <= calls'[v]
                      /\ Stream!EntriesOf(v)' # {} => completing'[v] < calls'[v]
    BY DEF CallInv
  <2>1. /\ completing[v] \in Nat /\ calls[v] \in Nat
        /\ completing'[v] \in Nat /\ calls'[v] \in Nat
    BY <1>1
  <2> QED
    BY <1>2, <2>1 DEF CompletingEffect, CallInv
<1>3. ASSUME NEW v \in Video, ApiStep(v) \/ ClientStep(v)
      PROVE  CallInv'
  BY <1>2, <1>3, ApiCompletes
<1>4. ASSUME StrayEntry
      PROVE  CallInv'
  <2>1. \A v \in Video : Stream!EntriesOf(v)' = Stream!EntriesOf(v)
    BY <1>1, <1>4, OthersKeepEntries DEF ConstAssumption, StrayEntry, Job
  <2> QED
    BY <1>4, <2>1 DEF StrayEntry, CallInv, apiVars
<1>5. ASSUME NEW w \in Worker, WorkerStep(w) \/ Stop(w) \/ Crash(w)
      PROVE  CallInv'
  <2>1. WorkerEffect(w)
    BY <1>5, SafetyInv_Placed, WorkerStepEffect
  <2> QED
    BY <2>1 DEF CallInv, WorkerEffect, PlaceEffect, RestEffect, Stream!EntriesOf, apiVars
<1>6. ASSUME UNCHANGED vars
      PROVE  CallInv'
  BY <1>6 DEF CallInv, Stream!EntriesOf, vars, streamVars, apiVars
<1> QED
  BY <1>3, <1>4, <1>5, <1>6 DEF Next

\* The only job of a video completed once is acknowledged when the video is ready
\* or failed, unless the video was given up.
AckedMarkedOrGivenUp ==
    \A v \in Video :
        /\ calls[v] = 1
        /\ Stream!EntriesOf(v) # {}
        /\ \A e \in Stream!EntriesOf(v) : ~Undelivered(e) /\ e \notin pel
        => status[v] \in {"ready", "failed"} \/ GivenUp(v)

LEMMA AckedCase ==
    ASSUME SafetyInv, CallInv, Accounted
    PROVE  AckedMarkedOrGivenUp
<1> SUFFICES ASSUME NEW v \in Video, calls[v] = 1, Stream!EntriesOf(v) # {},
                    \A e \in Stream!EntriesOf(v) : ~Undelivered(e) /\ e \notin pel
             PROVE  status[v] \in {"ready", "failed"} \/ GivenUp(v)
  BY DEF AckedMarkedOrGivenUp
<1>1. completing[v] = 0
  BY DEF SafetyInv, TypeOK, CallInv
<1>2. ~ \E w \in Worker : pc[w] \in InHandle \ {"acking"} /\ Vid(w) = v
  <2> SUFFICES ASSUME NEW w \in Worker, pc[w] \in InHandle, Vid(w) = v PROVE FALSE
    OBVIOUS
  <2>1. held[w] # 0
    BY DEF SafetyInv, WorkerInv
  <2>2. held[w] \in pel /\ held[w] \in 1..Len(stream)
    BY <2>1, StreamFacts DEF SafetyInv, TypeOK, StreamSafe, Stream!HeldInv
  <2> QED
    BY <2>2 DEF Vid, Stream!EntriesOf
<1>3. ~Carried(v)
  BY <1>1, <1>2 DEF Carried
<1>4. status[v] \notin {"absent", "pending"}
  BY DEF SafetyInv, OriginInv
<1>5. status[v] \in {"absent", "pending", "uploaded", "processing", "ready", "failed"}
  BY DEF SafetyInv, TypeOK, Repo!RepoTypeOK, Repo!Status
<1> QED
  BY <1>3, <1>4, <1>5 DEF Accounted

\* What worker.go:56-57 says holds as long as there is no fault, whatever fails in
\* the pipeline; with faults it fails for videos that are given up only.
THEOREM AckedMarked ==
    Spec => [](AckedMarkedOrGivenUp /\ (faults = 0 => AckedIsMarked))
<1>1. SafetyInv /\ FaultInv /\ CallInv /\ Accounted
         => AckedMarkedOrGivenUp /\ (faults = 0 => AckedIsMarked)
  <2> SUFFICES ASSUME SafetyInv, FaultInv, CallInv, Accounted
               PROVE  AckedMarkedOrGivenUp /\ (faults = 0 => AckedIsMarked)
    OBVIOUS
  <2>1. AckedMarkedOrGivenUp
    BY AckedCase
  <2>2. ASSUME faults = 0 PROVE \A v \in Video : ~GivenUp(v)
    <3>1. PICK lost : lost = {v \in Video : GivenUp(v)}
      OBVIOUS
    <3>2. IsFiniteSet(lost) /\ Cardinality(lost) <= 0
      BY <2>2, <3>1, LostIsDoomed
    <3>3. lost = {}
      BY <3>2, FS_CardinalityType, FS_EmptySet
    <3> QED
      BY <3>1, <3>3
  <2> QED
    BY <2>1, <2>2 DEF AckedMarkedOrGivenUp, AckedIsMarked
<1>2. Init => CallInv
  BY DEF Init, Stream!StreamInit, CallInv, Stream!EntriesOf
<1>3. SafetyInv /\ CallInv /\ [Next]_vars => CallInv'
  BY CallInv_Step, ConstAssumption
<1>4. SafetyInv /\ FaultInv /\ [Next]_vars => FaultInv'
  BY FaultInv_Step, ConstAssumption
<1> QED
  BY <1>1, <1>2, <1>3, <1>4, FaultInv_Init, Safety, NothingLost, PTL DEF Spec
=============================================================================
