---------------------------- MODULE PipelineProofs ----------------------------
(***************************************************************************)
(* Theorems about Pipeline.  For workers on hosts of their own a worker's  *)
(* directory changes in its own steps only, so what it holds at each stage *)
(* (StageInv) is preserved stage by stage, and so are the age of its       *)
(* source (FreshInv) and the origin of its files (CleanInv).  From these   *)
(* every run is one step of AtomicRun.  NoLeftovers needs none of them,    *)
(* and holds for workers that share a host.                                *)
(***************************************************************************)
EXTENDS Pipeline, TLAPS

\* The files of out/, as sets of numbers.
LEMMA OutFiles ==
    /\ NumRungs \in Nat /\ Master \in Out /\ Sprite \in Out
    /\ Vtt \in Out /\ Thumb \in Out /\ Rung \subseteq Out
    /\ Out \subseteq Nat
BY PipelineAssumption DEF Master, Sprite, Vtt, Thumb, Out, Rung

\* Planned files are files of out/, and there is one.
LEMMA PlannedFiles ==
    ASSUME NEW v \in 0..MaxPuts, v # None
    PROVE  Planned(v) \subseteq Out /\ Planned(v) # {}
<1>1. v \in 1..MaxPuts
  BY PipelineAssumption DEF None
<1>2. LadderOf[v] \subseteq Rung
  BY <1>1, PipelineAssumption
<1> QED
  BY <1>2, OutFiles DEF Planned

LEMMA InitTypeOK == Init => TypeOK
BY PipelineAssumption
   DEF Init, TypeOK, None, NoDir, NoOutput, NoFile, Content, PC

\* The types of the files a run makes.
LEMMA MadeType ==
    ASSUME TypeOK, NEW w \in Worker, NEW f
    PROVE  Made(w, f) \in Content
<1>1. /\ HostOf[w] \in Host
      /\ run[w] \in Nat /\ info[w] \in Nat
  BY PipelineAssumption DEF TypeOK
<1>2. Dir(w).key \in Nat /\ Dir(w).src \in Nat
  BY <1>1, PipelineAssumption DEF TypeOK, Dir
<1> QED
  BY <1>1, <1>2 DEF Made, Content, None

LEMMA StepTypeOK == TypeOK /\ [Next]_vars => TypeOK'
<1> SUFFICES ASSUME TypeOK, [Next]_vars PROVE TypeOK'
  OBVIOUS
<1> USE PipelineAssumption
<1> DEFINE DirType == [src : 0..MaxPuts, key : Nat, hasOut : BOOLEAN,
                       out : [Out -> Content]]
<1>n. None \in Nat /\ None \in 0..MaxPuts /\ NoOutput \in [Out -> Content]
  BY DEF None, NoOutput, NoFile, Content
<1>d. dir \in [Host -> DirType] /\ NoDir \in DirType
  BY <1>n DEF TypeOK, NoDir
<1>f. ASSUME NEW w \in Worker, Forget(w)
      PROVE  /\ pc' \in [Worker -> PC] /\ run' \in [Worker -> Nat]
             /\ info' \in [Worker -> 0..MaxPuts]
             /\ todo' \in [Worker -> SUBSET Out]
             /\ sent' \in [Worker -> [Out -> Content]]
             /\ since' \in [Worker -> 0..MaxPuts]
  BY <1>f, <1>n DEF Forget, Goto, TypeOK, PC
<1>1. CASE PutSource
  BY <1>1 DEF PutSource, TypeOK
<1>2. ASSUME NEW w \in Worker, Begin(w) PROVE TypeOK'
  <2>1. dir' \in [Host -> DirType]
    BY <1>2, <1>d DEF Begin
  <2>2. lastRun + 1 \in Nat
    BY DEF TypeOK
  <2>3. run' \in [Worker -> Nat] /\ lastRun' \in Nat /\ since' \in [Worker -> 0..MaxPuts]
    BY <1>2, <2>2 DEF Begin, TypeOK
  <2>4. pc' \in [Worker -> PC]
    BY <1>2 DEF Begin, Goto, TypeOK, PC, InProcess
  <2> QED
    BY <1>2, <2>1, <2>3, <2>4 DEF Begin, TypeOK
<1>3. ASSUME NEW w \in Worker, DownloadRaw(w) PROVE TypeOK'
  <2>1. dir' \in [Host -> DirType]
    BY <1>3, <1>d DEF DownloadRaw, TypeOK
  <2> QED
    BY <1>3, <2>1 DEF DownloadRaw, Goto, TypeOK, PC, InProcess
<1>4. ASSUME NEW w \in Worker, Probe(w) PROVE TypeOK'
  <2>1. Dir(w).src \in 0..MaxPuts
    BY <1>d DEF Dir
  <2>2. Planned(Dir(w).src) \subseteq Out
    BY <1>4, <2>1, PlannedFiles DEF Probe
  <2> QED
    BY <1>4, <2>1, <2>2 DEF Probe, Goto, TypeOK, PC, InProcess
<1>5. ASSUME NEW w \in Worker, WriteKeyMaterial(w) PROVE TypeOK'
  <2>1. dir' \in [Host -> DirType]
    BY <1>5, <1>d DEF WriteKeyMaterial, TypeOK
  <2> QED
    BY <1>5, <2>1 DEF WriteKeyMaterial, Goto, TypeOK, PC, InProcess
<1>6. ASSUME NEW w \in Worker, Write(w) PROVE TypeOK'
  <2>1. PICK f \in todo[w] :
           /\ dir' = [dir EXCEPT ![HostOf[w]].out[f] = Made(w, f)]
           /\ todo' = [todo EXCEPT ![w] = @ \ {f}]
           /\ Goto(w, IF todo[w] = {f} THEN "walk" ELSE "write")
    BY <1>6 DEF Write
  <2>2. Made(w, f) \in Content
    BY MadeType
  <2>3. dir' \in [Host -> DirType]
    BY <2>1, <2>2, <1>d
  <2> QED
    BY <1>6, <2>1, <2>3 DEF Write, Goto, TypeOK, PC, InProcess
<1>7. ASSUME NEW w \in Worker, ReadOutDir(w) PROVE TypeOK'
  BY <1>7 DEF ReadOutDir, Goto, TypeOK, PC, InProcess
<1>8. ASSUME NEW w \in Worker, PutFile(w) PROVE TypeOK'
  <2>1. PICK f \in todo[w] :
           /\ sent' = [sent EXCEPT ![w][f] = Dir(w).out[f]]
           /\ todo' = [todo EXCEPT ![w] = @ \ {f}]
           /\ Goto(w, IF todo[w] = {f} THEN "publish" ELSE "upload")
    BY <1>8 DEF PutFile
  <2>2. f \in Out /\ Dir(w).out[f] \in Content
    BY <1>d DEF TypeOK, Dir
  <2>3. sent' \in [Worker -> [Out -> Content]]
    BY <2>1, <2>2 DEF TypeOK
  <2> QED
    BY <1>8, <2>1, <2>3 DEF PutFile, Goto, TypeOK, PC, InProcess
<1>9. ASSUME NEW w \in Worker, StageFails(w) PROVE TypeOK'
  BY <1>9 DEF StageFails, Goto, TypeOK, PC
<1>10. ASSUME NEW w \in Worker, RemoveAll(w) PROVE TypeOK'
  <2>1. dir' \in [Host -> DirType]
    BY <1>10, <1>d DEF RemoveAll
  <2> QED
    BY <1>10, <2>1, <1>f DEF RemoveAll, TypeOK
<1>11. ASSUME NEW w \in Worker, Crash(w) PROVE TypeOK'
  BY <1>11, <1>f DEF Crash, TypeOK
<1>12. CASE UNCHANGED vars
  BY <1>12 DEF vars, TypeOK
<1> QED
  BY <1>1, <1>2, <1>3, <1>4, <1>5, <1>6, <1>7, <1>8, <1>9, <1>10, <1>11, <1>12
     DEF Next

\* Type correctness: a pipeline keeps its types whatever fails.
THEOREM PipelineTypeCorrect == Spec => []TypeOK
BY InitTypeOK, StepTypeOK, PTL DEF Spec
------------------------------------------------------------------------------
(* ResultIsOwn, for workers on hosts of their own *)

\* A step of w leaves other hosts and other workers alone.
Frame(w) ==
    /\ \A h \in Host \ {HostOf[w]} : dir'[h] = dir[h]
    /\ \A u \in Worker \ {w} :
          /\ pc'[u] = pc[u] /\ run'[u] = run[u] /\ info'[u] = info[u]
          /\ todo'[u] = todo[u] /\ sent'[u] = sent[u] /\ since'[u] = since[u]

WorkerAct(w) ==
    \/ Begin(w) \/ DownloadRaw(w) \/ Probe(w) \/ WriteKeyMaterial(w)
    \/ Write(w) \/ ReadOutDir(w) \/ PutFile(w)
    \/ StageFails(w) \/ RemoveAll(w) \/ Crash(w)

LEMMA ActFrame ==
    ASSUME TypeOK, NEW w \in Worker, WorkerAct(w)
    PROVE  Frame(w)
<1> USE DEF TypeOK, Goto, Frame
<1>1. CASE Begin(w) \/ DownloadRaw(w) \/ Probe(w) \/ WriteKeyMaterial(w)
  BY <1>1 DEF Begin, DownloadRaw, Probe, WriteKeyMaterial
<1>2. CASE Write(w)
  BY <1>2 DEF Write
<1>3. CASE ReadOutDir(w) \/ StageFails(w)
  BY <1>3 DEF ReadOutDir, StageFails
<1>4. CASE PutFile(w)
  BY <1>4 DEF PutFile
<1>5. CASE RemoveAll(w) \/ Crash(w)
  BY <1>5 DEF RemoveAll, Crash, Forget
<1> QED
  BY <1>1, <1>2, <1>3, <1>4, <1>5 DEF WorkerAct

\* A worker whose own state and directory stay keeps its StageInv.
LEMMA StageKept ==
    ASSUME NEW u \in Worker, StageInv(u), dir'[HostOf[u]] = dir[HostOf[u]],
           pc'[u] = pc[u], run'[u] = run[u], info'[u] = info[u],
           todo'[u] = todo[u], sent'[u] = sent[u]
    PROVE  StageInv(u)'
BY DEF StageInv, Dir, OwnFile

\* The worker that takes a step reaches a stage with what that stage supposes.
LEMMA ActStage ==
    ASSUME TypeOK, NEW w \in Worker, StageInv(w), WorkerAct(w)
    PROVE  StageInv(w)'
<1> USE PipelineAssumption
<1> DEFINE h == HostOf[w]
<1>h. h \in Host /\ h = HostOf[w]
  OBVIOUS
<1>n. None = 0 /\ pc[w] \in PC
  BY DEF None, TypeOK
<1> HIDE DEF h
<1>1. CASE Begin(w)
  <2>1. pc'[w] = "download" /\ run'[w] # None
    BY <1>1, <1>n DEF Begin, Goto, TypeOK
  <2> QED
    BY <2>1 DEF StageInv
<1>2. CASE DownloadRaw(w)
  <2>1. pc'[w] = "probe" /\ run'[w] = run[w] /\ pc[w] = "download"
    BY <1>2 DEF DownloadRaw, Goto, TypeOK
  <2>2. dir'[h].src # None
    BY <1>2, <1>h DEF DownloadRaw, TypeOK
  <2> QED
    BY <2>1, <2>2, <1>h DEF StageInv, Dir
<1>3. CASE Probe(w)
  <2>1. /\ pc'[w] = "key" /\ run'[w] = run[w] /\ pc[w] = "probe"
        /\ info'[w] = Dir(w).src /\ todo'[w] = Planned(Dir(w).src)
        /\ Dir(w).src # None /\ dir' = dir
    BY <1>3 DEF Probe, Goto, TypeOK
  <2> QED
    BY <2>1 DEF StageInv, Dir
<1>4. CASE WriteKeyMaterial(w)
  <2>1. /\ pc'[w] = "write" /\ pc[w] = "key"
        /\ run'[w] = run[w] /\ info'[w] = info[w] /\ todo'[w] = todo[w]
    BY <1>4 DEF WriteKeyMaterial, Goto, TypeOK
  <2>2. dir'[h].key = run[w] /\ dir'[h].src = dir[h].src
    BY <1>4, <1>h DEF WriteKeyMaterial, TypeOK
  <2> QED
    BY <2>1, <2>2, <1>h DEF StageInv, Dir
<1>5. CASE Write(w)
  <2>1. PICK f \in todo[w] :
           /\ dir' = [dir EXCEPT ![HostOf[w]].out[f] = Made(w, f)]
           /\ todo' = [todo EXCEPT ![w] = @ \ {f}]
           /\ Goto(w, IF todo[w] = {f} THEN "walk" ELSE "write")
    BY <1>5 DEF Write
  <2>2. /\ pc[w] = "write" /\ pc'[w] \in {"walk", "write"}
        /\ run'[w] = run[w] /\ info'[w] = info[w]
        /\ todo'[w] = todo[w] \ {f} /\ f \in Out
        /\ pc'[w] = "walk" => todo[w] = {f}
    BY <1>5, <2>1 DEF Write, Goto, TypeOK
  <2>3. Made(w, f) = OwnFile(w, f)
    <3>1. Dir(w).src = info[w] /\ Dir(w).key = run[w]
      BY <2>2 DEF StageInv
    <3> QED
      BY <3>1 DEF Made, OwnFile
  <2>4. /\ dir'[h].out[f] = OwnFile(w, f)
        /\ \A g \in Out \ {f} : dir'[h].out[g] = dir[h].out[g]
        /\ dir'[h].src = dir[h].src /\ dir'[h].key = dir[h].key
    BY <2>1, <2>2, <2>3, <1>h DEF TypeOK
  <2>5. OwnFile(w, f)' = OwnFile(w, f)
    BY <2>2 DEF OwnFile
  <2>6. Planned(info[w]) \subseteq Out
    BY <2>2, PlannedFiles DEF StageInv, TypeOK
  <2>7. \A g \in Planned(info[w]) :
           (pc'[w] = "write" /\ g \in todo'[w]) \/ dir'[h].out[g] = OwnFile(w, g)
    BY <2>2, <2>4, <2>6, <1>h DEF StageInv, Dir
  <2>8. \A g : OwnFile(w, g)' = OwnFile(w, g)
    BY <2>2 DEF OwnFile
  <2>9. info[w] # None /\ run[w] # None
    BY <2>2 DEF StageInv
  <2>10. dir'[h].src = info[w] /\ dir'[h].key = run[w]
    BY <2>2, <2>4, <1>h DEF StageInv, Dir
  <2> QED
    BY <2>2, <2>7, <2>8, <2>9, <2>10, <1>h DEF StageInv, Dir
<1>6. CASE ReadOutDir(w)
  <2> DEFINE names == {f \in Out : Dir(w).out[f] # NoFile}
  <2>1. /\ pc[w] = "walk" /\ todo'[w] = names /\ dir' = dir
        /\ pc'[w] = IF names = {} THEN "publish" ELSE "upload"
        /\ run'[w] = run[w] /\ info'[w] = info[w] /\ sent'[w] = sent[w]
    BY <1>6 DEF ReadOutDir, Goto, TypeOK
  <2>2. run[w] # None /\ info[w] # None
    BY <2>1 DEF StageInv
  <2>3. Planned(info[w]) \subseteq Out /\ Planned(info[w]) # {}
    BY <2>2, PlannedFiles DEF TypeOK
  <2>4. \A f \in Planned(info[w]) : f \in names
    <3> SUFFICES ASSUME NEW f \in Planned(info[w]) PROVE f \in names
      OBVIOUS
    <3>1. Dir(w).out[f] = OwnFile(w, f)
      BY <2>1 DEF StageInv
    <3>2. OwnFile(w, f).run # NoFile.run
      BY <2>2 DEF OwnFile, NoFile
    <3> QED
      BY <3>1, <3>2, <2>3
  <2>5. names # {}
    BY <2>3, <2>4
  <2>6. \A g : OwnFile(w, g)' = OwnFile(w, g)
    BY <2>1 DEF OwnFile
  <2> HIDE DEF names
  <2> QED
    BY <2>1, <2>2, <2>4, <2>5, <2>6 DEF StageInv, Dir
<1>7. CASE PutFile(w)
  <2>1. PICK f \in todo[w] :
           /\ sent' = [sent EXCEPT ![w][f] = Dir(w).out[f]]
           /\ todo' = [todo EXCEPT ![w] = @ \ {f}]
           /\ Goto(w, IF todo[w] = {f} THEN "publish" ELSE "upload")
    BY <1>7 DEF PutFile
  <2>2. /\ pc[w] = "upload" /\ pc'[w] \in {"publish", "upload"}
        /\ run'[w] = run[w] /\ info'[w] = info[w] /\ dir' = dir
        /\ todo'[w] = todo[w] \ {f} /\ f \in Out
        /\ pc'[w] = "publish" => todo[w] = {f}
    BY <1>7, <2>1 DEF PutFile, Goto, TypeOK
  <2>3. /\ sent'[w][f] = Dir(w).out[f]
        /\ \A g \in Out \ {f} : sent'[w][g] = sent[w][g]
    BY <2>1, <2>2 DEF TypeOK
  <2>4. Planned(info[w]) \subseteq Out
    BY <2>2, PlannedFiles DEF StageInv, TypeOK
  <2>5. \A g \in Planned(info[w]) :
           (pc'[w] = "upload" /\ g \in todo'[w]) \/ sent'[w][g] = OwnFile(w, g)
    BY <2>2, <2>3, <2>4 DEF StageInv
  <2>6. \A g : OwnFile(w, g)' = OwnFile(w, g)
    BY <2>2 DEF OwnFile
  <2> QED
    BY <2>2, <2>5, <2>6 DEF StageInv, Dir
<1>8. CASE StageFails(w)
  <2>1. pc'[w] = "failing"
    BY <1>8 DEF StageFails, Goto, TypeOK
  <2> QED
    BY <2>1 DEF StageInv
<1>9. CASE RemoveAll(w) \/ Crash(w)
  <2>1. pc'[w] = "idle"
    BY <1>9 DEF RemoveAll, Crash, Forget, Goto, TypeOK
  <2> QED
    BY <2>1 DEF StageInv
<1> QED
  BY <1>1, <1>2, <1>3, <1>4, <1>5, <1>6, <1>7, <1>8, <1>9 DEF WorkerAct

\* Nor are versions older, or files another run's, than they were.
LEMMA FreshKept ==
    ASSUME NEW u \in Worker, FreshInv(u), dir'[HostOf[u]] = dir[HostOf[u]],
           pc'[u] = pc[u], run'[u] = run[u], info'[u] = info[u], since'[u] = since[u],
           TypeOK, source' \in Nat, source <= source'
    PROVE  FreshInv(u)'
<1>1. /\ source \in Nat /\ info[u] \in Nat /\ since[u] \in Nat
      /\ HostOf[u] \in Host /\ dir[HostOf[u]].src \in Nat
  BY PipelineAssumption DEF TypeOK
<1> QED
  BY <1>1 DEF FreshInv, Dir

LEMMA CleanKept ==
    ASSUME NEW u \in Worker, CleanInv(u), dir'[HostOf[u]] = dir[HostOf[u]],
           pc'[u] = pc[u], run'[u] = run[u], sent'[u] = sent[u],
           HostOf[u] \in dirty => HostOf[u] \in dirty'
    PROVE  CleanInv(u)'
BY DEF CleanInv, Dir

LEMMA ActFresh ==
    ASSUME TypeOK, NEW w \in Worker, StageInv(w), FreshInv(w), WorkerAct(w)
    PROVE  FreshInv(w)'
<1> USE PipelineAssumption
<1>1. /\ source \in Nat /\ info[w] \in Nat /\ since[w] \in Nat /\ lastRun \in Nat
      /\ HostOf[w] \in Host /\ dir[HostOf[w]].src \in Nat
      /\ None = 0
  BY DEF TypeOK, None
<1>2. CASE Begin(w)
  <2>1. /\ pc'[w] = "download" /\ run'[w] = lastRun + 1 /\ since'[w] = source
        /\ source' = source /\ info'[w] = info[w] /\ pc[w] = "idle"
    BY <1>2 DEF Begin, Goto, TypeOK
  <2>2. info[w] = None
    BY <2>1 DEF FreshInv
  <2> QED
    BY <1>1, <2>1, <2>2 DEF FreshInv
<1>3. CASE DownloadRaw(w)
  <2>1. /\ pc'[w] = "probe" /\ run'[w] = run[w] /\ since'[w] = since[w]
        /\ source' = source /\ info'[w] = info[w] /\ pc[w] = "download"
    BY <1>3 DEF DownloadRaw, Goto, TypeOK
  <2>2. dir'[HostOf[w]].src = source
    BY <1>3 DEF DownloadRaw, TypeOK
  <2> QED
    BY <1>1, <2>1, <2>2 DEF FreshInv, Dir
<1>4. CASE Probe(w)
  <2>1. /\ pc'[w] = "key" /\ run'[w] = run[w] /\ since'[w] = since[w]
        /\ source' = source /\ info'[w] = Dir(w).src /\ pc[w] = "probe"
    BY <1>4 DEF Probe, Goto, TypeOK
  <2> QED
    BY <1>1, <2>1 DEF FreshInv
<1>5. CASE \/ WriteKeyMaterial(w) \/ Write(w) \/ ReadOutDir(w)
           \/ PutFile(w) \/ StageFails(w)
  <2>1. /\ pc[w] \in InProcess
        /\ pc'[w] \in {"write", "walk", "upload", "publish", "failing"}
        /\ UNCHANGED <<run, info, since, source>>
    BY <1>5 DEF WriteKeyMaterial, Write, ReadOutDir, PutFile, StageFails, Goto, TypeOK,
                InProcess
  <2> QED
    BY <1>1, <2>1 DEF FreshInv, InProcess
<1>6. CASE RemoveAll(w) \/ Crash(w)
  <2>1. /\ pc'[w] = "idle" /\ run'[w] = None /\ since'[w] = None /\ info'[w] = None
        /\ source' = source
    BY <1>6 DEF RemoveAll, Crash, Forget, Goto, TypeOK
  <2> QED
    BY <1>1, <2>1 DEF FreshInv
<1> QED
  BY <1>2, <1>3, <1>4, <1>5, <1>6 DEF WorkerAct

LEMMA ActClean ==
    ASSUME TypeOK, NEW w \in Worker, CleanInv(w), WorkerAct(w)
    PROVE  CleanInv(w)'
<1> USE PipelineAssumption
<1> DEFINE h == HostOf[w]
<1>1. h \in Host /\ h = HostOf[w]
  OBVIOUS
<1> HIDE DEF h
<1>2. CASE Begin(w)
  <2>1. /\ pc[w] = "idle" /\ pc'[w] = "download" /\ dirty' = dirty /\ sent' = sent
        /\ dir'[h].out = dir[h].out
    BY <1>1, <1>2 DEF Begin, Goto, TypeOK
  <2> QED
    BY <1>1, <2>1 DEF CleanInv, Dir
<1>3. CASE \/ DownloadRaw(w) \/ Probe(w) \/ WriteKeyMaterial(w) \/ ReadOutDir(w)
           \/ StageFails(w)
  <2>1. /\ pc'[w] # "idle" /\ dirty' = dirty /\ sent' = sent /\ run' = run
        /\ dir'[h].out = dir[h].out
    BY <1>1, <1>3 DEF DownloadRaw, Probe, WriteKeyMaterial, ReadOutDir, StageFails, Goto,
                      TypeOK
  <2> QED
    BY <1>1, <2>1 DEF CleanInv, Dir
<1>4. CASE Write(w)
  <2>1. PICK f \in todo[w] :
           /\ dir' = [dir EXCEPT ![HostOf[w]].out[f] = Made(w, f)]
           /\ Goto(w, IF todo[w] = {f} THEN "walk" ELSE "write")
    BY <1>4 DEF Write
  <2>2. pc'[w] # "idle" /\ dirty' = dirty /\ sent' = sent /\ run' = run
    BY <1>4, <2>1 DEF Write, Goto, TypeOK
  <2>3. \A g \in Out : dir'[h].out[g] = dir[h].out[g] \/ dir'[h].out[g] = Made(w, f)
    BY <1>1, <2>1 DEF TypeOK
  <2>4. Made(w, f).run = run[w]
    BY DEF Made
  <2> QED
    BY <1>1, <2>2, <2>3, <2>4 DEF CleanInv, Dir
<1>5. CASE PutFile(w)
  <2>1. PICK f \in todo[w] :
           /\ sent' = [sent EXCEPT ![w][f] = Dir(w).out[f]]
           /\ Goto(w, IF todo[w] = {f} THEN "publish" ELSE "upload")
    BY <1>5 DEF PutFile
  <2>2. pc'[w] # "idle" /\ dirty' = dirty /\ dir' = dir /\ run' = run /\ f \in Out
    BY <1>5, <2>1 DEF PutFile, Goto, TypeOK
  <2>3. \A g \in Out : sent'[w][g] = sent[w][g] \/ sent'[w][g] = Dir(w).out[g]
    BY <2>1, <2>2 DEF TypeOK
  <2> QED
    BY <2>2, <2>3 DEF CleanInv, Dir
<1>6. CASE RemoveAll(w)
  <2>1. dir'[h] = NoDir /\ sent'[w] = NoOutput
    BY <1>1, <1>6 DEF RemoveAll, Forget, TypeOK
  <2> QED
    BY <1>1, <2>1 DEF CleanInv, Dir, NoDir, NoOutput
<1>7. CASE Crash(w)
  BY <1>7 DEF Crash, CleanInv
<1> QED
  BY <1>2, <1>3, <1>4, <1>5, <1>6, <1>7 DEF WorkerAct

LEMMA StepPipelineInv ==
    ASSUME OwnHosts, PipelineInv, [Next]_vars
    PROVE  PipelineInv'
<1>1. TypeOK /\ TypeOK'
  BY StepTypeOK DEF PipelineInv
<1>2. source \in Nat /\ source' \in Nat
  BY <1>1, PipelineAssumption DEF TypeOK
<1>3. ASSUME NEW u \in Worker
      PROVE  StageInv(u)' /\ FreshInv(u)' /\ CleanInv(u)'
  <2>1. StageInv(u) /\ FreshInv(u) /\ CleanInv(u)
    BY DEF PipelineInv
  <2>2. CASE PutSource \/ UNCHANGED vars
    <3>1. source <= source' /\ UNCHANGED <<dir, pc, run, info, todo, sent, since, dirty>>
      BY <1>2, <2>2 DEF PutSource, vars
    <3> QED
      BY <1>1, <1>2, <2>1, <3>1, StageKept, FreshKept, CleanKept
  <2>3. ASSUME NEW w \in Worker, WorkerAct(w)
        PROVE  StageInv(u)' /\ FreshInv(u)' /\ CleanInv(u)'
    <3>1. CASE u = w
      BY <1>1, <2>1, <2>3, <3>1, ActStage, ActFresh, ActClean
    <3>2. CASE u # w
      <4>1. Frame(w)
        BY <1>1, <2>3, ActFrame
      <4>2. HostOf[u] \in Host \ {HostOf[w]}
        BY <3>2, PipelineAssumption DEF OwnHosts
      <4>3. source' = source
        BY <2>3 DEF WorkerAct, Begin, DownloadRaw, Probe, WriteKeyMaterial,
           Write, ReadOutDir, PutFile, StageFails, RemoveAll, Crash
      <4>4. HostOf[u] \in dirty => HostOf[u] \in dirty'
        BY <2>3, <4>2 DEF WorkerAct, Begin, DownloadRaw, Probe, WriteKeyMaterial,
           Write, ReadOutDir, PutFile, StageFails, RemoveAll, Crash
      <4> QED
        BY <1>1, <1>2, <2>1, <3>2, <4>1, <4>2, <4>3, <4>4, StageKept, FreshKept, CleanKept
           DEF Frame
    <3> QED
      BY <3>1, <3>2
  <2> QED
    BY <2>2, <2>3 DEF Next, WorkerAct
<1> QED
  BY <1>1, <1>3 DEF PipelineInv

LEMMA InitPipelineInv == Init => PipelineInv
<1> SUFFICES ASSUME Init, NEW w \in Worker
             PROVE  StageInv(w) /\ FreshInv(w) /\ CleanInv(w)
  BY InitTypeOK DEF PipelineInv
<1>1. /\ pc[w] = "idle" /\ run[w] = None /\ info[w] = None /\ since[w] = None
      /\ source = 0 /\ None = 0
  BY DEF Init, None
<1>2. dir[HostOf[w]] = NoDir /\ sent[w] = NoOutput
  BY PipelineAssumption DEF Init
<1>3. StageInv(w)
  BY <1>1 DEF StageInv
<1>4. FreshInv(w)
  BY <1>1 DEF FreshInv
<1>5. CleanInv(w)
  BY <1>2 DEF CleanInv, Dir, NoDir, NoOutput
<1> QED
  BY <1>3, <1>4, <1>5

\* The stages of a run hand on what they made, as long as no two workers share a
\* host.
THEOREM StagesCorrect == ASSUME OwnHosts PROVE Spec => []PipelineInv
<1>1. PipelineInv /\ [Next]_vars => PipelineInv'
  BY StepPipelineInv
<1> QED
  BY <1>1, InitPipelineInv, PTL DEF Spec

\* A Result is returned only for a tree this run made and put in full, whatever
\* crashed before it in the same directory.
THEOREM ResultCorrect == ASSUME OwnHosts PROVE Spec => []ResultIsOwn
<1>1. PipelineInv => ResultIsOwn
  BY DEF PipelineInv, StageInv, ResultIsOwn, OwnFile
<1> QED
  BY <1>1, StagesCorrect, PTL

\* Where no worker crashed since the last clean-up a job uploads its own files only.
THEOREM CleanRunsOwn == ASSUME OwnHosts PROVE Spec => []OwnWhenClean
<1>1. PipelineInv => OwnWhenClean
  BY DEF PipelineInv, CleanInv, OwnWhenClean
<1> QED
  BY <1>1, StagesCorrect, PTL
------------------------------------------------------------------------------
(* A run is atomic, for workers on hosts of their own *)

LEMMA AtomicInit == Init => Atomic!Init
BY DEF Init, Atomic!Init, Product, Atomic!Nothing, None

\* What a step that ends a run well has produced.
LEMMA WholeTree ==
    ASSUME NEW w \in Worker, TypeOK', StageInv(w)', pc'[w] = "publish"
    PROVE  Product(w)' = Atomic!Whole(run'[w], info'[w])
<1>1. info'[w] \in 1..MaxPuts
  BY PipelineAssumption DEF StageInv, TypeOK, None
<1>2. Product(w)' = [f \in Planned(info'[w]) |-> OwnFile(w, f)']
  BY DEF StageInv, Product
<1> QED
  BY <1>1, <1>2 DEF Atomic!Whole, OwnFile, None

\* What the steps of a worker do to what its run has produced.
LEMMA ProductKept ==
    ASSUME NEW u \in Worker, pc'[u] = pc[u], info'[u] = info[u], sent'[u] = sent[u]
    PROVE  Product(u)' = Product(u)
BY DEF Product

LEMMA AtomicStep ==
    ASSUME OwnHosts, PipelineInv, [Next]_vars
    PROVE  [Atomic!Next]_(Atomic!vars)
<1> USE PipelineAssumption
<1> DEFINE product == [w \in Worker |-> Product(w)]
<1>1. PipelineInv'
  BY StepPipelineInv
<1>2. CASE PutSource
  <2>1. UNCHANGED product
    BY <1>2 DEF PutSource, Product
  <2> QED
    BY <1>2, <2>1 DEF PutSource, Atomic!Next, Atomic!PutSource
<1>3. ASSUME NEW w \in Worker, WorkerAct(w) PROVE [Atomic!Next]_(Atomic!vars)
  <2>1. TypeOK /\ StageInv(w) /\ FreshInv(w) /\ TypeOK' /\ StageInv(w)' /\ FreshInv(w)'
    BY <1>1 DEF PipelineInv
  <2>2. \A u \in Worker \ {w} : Product(u)' = Product(u)
    BY <1>3, <2>1, ActFrame, ProductKept DEF Frame
  <2>3. product' = [product EXCEPT ![w] = Product(w)']
    BY <2>2
  <2>4. CASE Begin(w)
    <3>1. Product(w)' = Product(w)
      BY <2>1, <2>4 DEF Begin, Goto, Product, TypeOK
    <3>2. UNCHANGED product
      BY <2>2, <3>1
    <3>3. run[w] = 0
      BY <2>1, <2>4 DEF Begin, FreshInv, None
    <3>4. Atomic!Begin(w)
      BY <2>4, <3>2, <3>3 DEF Begin, Atomic!Begin
    <3> QED
      BY <3>4 DEF Atomic!Next
  <2>5. CASE RemoveAll(w) \/ Crash(w)
    <3>1. run[w] # 0
      BY <2>1, <2>5 DEF RemoveAll, Crash, FreshInv, None
    <3>2. Product(w)' = <<>>
      BY <2>1, <2>5 DEF RemoveAll, Crash, Forget, Goto, Product, TypeOK
    <3>3. Atomic!End(w)
      BY <2>3, <2>5, <3>1, <3>2
         DEF RemoveAll, Crash, Forget, Atomic!End, Atomic!Nothing, None
    <3> QED
      BY <3>3 DEF Atomic!Next
  <2>6. CASE ~Begin(w) /\ ~RemoveAll(w) /\ ~Crash(w)
    <3>1. /\ pc[w] \in InProcess /\ pc'[w] # "idle"
          /\ UNCHANGED <<source, lastRun, run, since>>
      BY <1>3, <2>1, <2>6
         DEF WorkerAct, DownloadRaw, Probe, WriteKeyMaterial, Write, ReadOutDir, PutFile,
             StageFails, Goto, TypeOK, InProcess
    <3>2. Product(w) = <<>>
      BY <3>1 DEF Product, InProcess
    <3>3. CASE pc'[w] # "publish"
      <4>1. Product(w)' = <<>>
        BY <3>3 DEF Product
      <4>2. UNCHANGED product
        BY <2>2, <3>2, <4>1
      <4> QED
        BY <3>1, <4>2 DEF Atomic!vars
    <3>4. CASE pc'[w] = "publish"
      <4>1. Product(w)' = Atomic!Whole(run[w], info'[w])
        BY <2>1, <3>1, <3>4, WholeTree
      <4>2. info'[w] \in since[w]..source \ {0}
        BY <2>1, <3>1, <3>4 DEF FreshInv, StageInv, None
      <4>3. run[w] # 0
        BY <2>1, <3>1 DEF FreshInv, InProcess, None
      <4>4. Atomic!Produce(w)
        BY <2>3, <3>1, <3>2, <4>1, <4>2, <4>3 DEF Atomic!Produce, Atomic!Nothing
      <4> QED
        BY <4>4 DEF Atomic!Next
    <3> QED
      BY <3>3, <3>4
  <2> QED
    BY <2>4, <2>5, <2>6
<1>4. CASE UNCHANGED vars
  <2>1. UNCHANGED product
    BY <1>4 DEF vars, Product
  <2> QED
    BY <1>4, <2>1 DEF vars, Atomic!vars
<1> QED
  BY <1>2, <1>3, <1>4 DEF Next, WorkerAct

\* Download, probe, key, files and uploads amount to one step, which makes the
\* whole tree of one version that was in the raw bucket while the run was on.
THEOREM RunsAtomic == ASSUME OwnHosts PROVE Spec => ImplementsAtomicRun
<1>1. PipelineInv /\ [Next]_vars => [Atomic!Next]_(Atomic!vars)
  BY AtomicStep
<1> QED
  BY <1>1, AtomicInit, StagesCorrect, PTL DEF Spec, ImplementsAtomicRun, Atomic!Spec
------------------------------------------------------------------------------
(* NoLeftovers, whether or not workers share hosts *)

LEMMA StepNoLeftovers ==
    ASSUME TypeOK, NoLeftovers, [Next]_vars
    PROVE  NoLeftovers'
<1> USE PipelineAssumption
<1> SUFFICES ASSUME NEW k \in Host, k \notin dirty',
                    \A w \in Worker : HostOf[w] = k => pc'[w] = "idle"
             PROVE  dir'[k] = NoDir
  BY DEF NoLeftovers
<1>1. CASE PutSource \/ UNCHANGED vars
  BY <1>1 DEF PutSource, vars, NoLeftovers
<1>2. ASSUME NEW w \in Worker, WorkerAct(w) PROVE dir'[k] = NoDir
  <2>1. CASE HostOf[w] # k
    <3>1. dir'[k] = dir[k] /\ \A u \in Worker \ {w} : pc'[u] = pc[u]
      BY <1>2, <2>1, ActFrame DEF Frame
    <3>2. k \notin dirty
      BY <1>2, <2>1 DEF WorkerAct, Begin, DownloadRaw, Probe, WriteKeyMaterial,
         Write, ReadOutDir, PutFile, StageFails, RemoveAll, Crash, TypeOK
    <3> QED
      BY <3>1, <3>2, <2>1 DEF NoLeftovers
  <2>2. CASE HostOf[w] = k
    <3>1. pc'[w] = "idle"
      BY <2>2
    <3>2. CASE RemoveAll(w)
      BY <3>2, <2>2 DEF RemoveAll, TypeOK
    <3>3. CASE Crash(w)
      BY <3>3, <2>2 DEF Crash
    <3>4. CASE ~RemoveAll(w) /\ ~Crash(w)
      <4>1. pc'[w] \in PC \ {"idle"}
        BY <1>2, <3>4 DEF WorkerAct, Begin, DownloadRaw, Probe, WriteKeyMaterial,
           Write, ReadOutDir, PutFile, StageFails, Goto, TypeOK, PC, InProcess
      <4> QED
        BY <4>1, <3>1
    <3> QED
      BY <3>2, <3>3, <3>4
  <2> QED
    BY <2>1, <2>2
<1> QED
  BY <1>1, <1>2 DEF Next, WorkerAct

\* A host keeps nothing of a video past its jobs unless a worker crashed there.
THEOREM CleansUp == Spec => []NoLeftovers
<1>1. Init => NoLeftovers
  BY DEF Init, NoLeftovers
<1>2. NoLeftovers /\ TypeOK /\ [Next]_vars => NoLeftovers'
  BY StepNoLeftovers
<1> QED
  BY <1>1, <1>2, PipelineTypeCorrect, PTL DEF Spec
==============================================================================
