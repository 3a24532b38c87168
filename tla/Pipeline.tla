------------------------------- MODULE Pipeline -------------------------------
(***************************************************************************)
(* Process and the part of handle around it (internal/worker/pipeline.go,  *)
(* worker.go), stage by stage, over the work directory <scratch>/<video>   *)
(* of the host a worker runs on.  ForgeVod takes the stages from probe to  *)
(* master manifest as one step; here they are taken apart.                 *)
(*                                                                         *)
(* All jobs are for one video: the directories of two videos are disjoint. *)
(* The work directory is named after the video, not after the job: workers *)
(* on one host share it, and after a crash the restarted worker finds what *)
(* was there.  It holds the source, keys/enc.key and out/.  The files of   *)
(* out/ are numbered in the lexical order in which the upload walks them:  *)
(* the renditions, each with its segments, master.m3u8, storyboard.jpg,    *)
(* storyboard.vtt, thumbnail.jpg.                                          *)
(*                                                                         *)
(* A run of Process is a number, which is also the name of its AES key; a  *)
(* PUT of the source gives it the next version.  A file says which run     *)
(* wrote it, with which key, and which version it comes from.              *)
(***************************************************************************)
EXTENDS Naturals

CONSTANTS
    Worker,
    Host,
    HostOf,      \* the host of each worker
    NumRungs,    \* rungs of the default ladder
    Turn,        \* the order in which Process writes the files of out/
    LadderOf,    \* per version of the source, the rungs LadderFor plans
    MaxPuts,     \* bound: PUTs of the source
    MaxRuns,     \* bound: runs of Process
    MaxCrashes   \* bound: crashes

Rung   == 1..NumRungs
Master == NumRungs + 1
Sprite == NumRungs + 2
Vtt    == NumRungs + 3
Thumb  == NumRungs + 4
Out    == 1..Thumb

ASSUME PipelineAssumption ==
    /\ HostOf \in [Worker -> Host]
    /\ NumRungs \in Nat
    /\ Turn \in [Out -> Nat]
    /\ MaxPuts \in Nat
    /\ LadderOf \in [1..MaxPuts -> SUBSET Rung]
    /\ MaxRuns \in Nat
    /\ MaxCrashes \in Nat

VARIABLES
    source,    \* the version in the raw bucket
    dir,       \* per host, the video's work directory
    pc,        \* where each worker is
    run,       \* the run it makes
    info,      \* the version Probe looked at
    todo,      \* files still to write, or still to put
    sent,      \* the objects the run has put, as they were read
    (* observed, not read by the program *)
    lastRun, crashes,
    since,     \* per worker, the version in the raw bucket when its run began
    dirty      \* hosts where a worker crashed since the last clean-up

vars == <<source, dir, pc, run, info, todo, sent, lastRun, crashes, since, dirty>>

None == 0                                     \* no run, no key, no version
NoFile == [run |-> None, key |-> None, ver |-> None]
Content == [run : Nat, key : Nat, ver : Nat]
NoOutput == [f \in Out |-> NoFile]

\* A work directory that is not there.
NoDir == [src |-> None, key |-> None, hasOut |-> FALSE, out |-> NoOutput]

InProcess == {"download", "probe", "key", "write", "walk", "upload"}
PC == InProcess \cup {"idle", "publish", "failing"}

TypeOK ==
    /\ source \in 0..MaxPuts
    /\ dir \in [Host -> [src : 0..MaxPuts, key : Nat, hasOut : BOOLEAN,
                         out : [Out -> Content]]]
    /\ pc \in [Worker -> PC]
    /\ run \in [Worker -> Nat]
    /\ info \in [Worker -> 0..MaxPuts]
    /\ todo \in [Worker -> SUBSET Out]
    /\ sent \in [Worker -> [Out -> Content]]
    /\ lastRun \in Nat
    /\ crashes \in Nat
    /\ since \in [Worker -> 0..MaxPuts]
    /\ dirty \in SUBSET Host

Init ==
    /\ source = None
    /\ dir = [h \in Host |-> NoDir]
    /\ pc = [w \in Worker |-> "idle"]
    /\ run = [w \in Worker |-> None]
    /\ info = [w \in Worker |-> None]
    /\ todo = [w \in Worker |-> {}]
    /\ sent = [w \in Worker |-> NoOutput]
    /\ lastRun = 0
    /\ crashes = 0
    /\ since = [w \in Worker |-> None]
    /\ dirty = {}

Dir(w) == dir[HostOf[w]]
Goto(w, l) == pc' = [pc EXCEPT ![w] = l]

\* What the master playlist and the row of the video refer to.
Planned(v) == LadderOf[v] \cup {Master, Sprite, Vtt, Thumb}

\* ffmpeg makes these from the source file.
FromSource == Rung \cup {Sprite, Thumb}

\* What the worker's run writes to f: ffmpeg reads the source and, for a
\* rendition, the key from the directory; the playlists and cues Process writes
\* itself come from what it probed.
Made(w, f) ==
    [run |-> run[w],
     key |-> IF f \in Rung THEN Dir(w).key ELSE None,
     ver |-> IF f \in FromSource THEN Dir(w).src ELSE info[w]]

\* Whether f can be written: out/ and what f is made from are there.
CanMake(w, f) ==
    /\ Dir(w).hasOut
    /\ f \in FromSource => Dir(w).src # None
    /\ f \in Rung => Dir(w).key # None
------------------------------------------------------------------------------
\* The client PUTs a source, or another one while its URL is valid.
PutSource ==
    /\ source < MaxPuts
    /\ source' = source + 1
    /\ UNCHANGED <<dir, pc, run, info, todo, sent, lastRun, crashes, since, dirty>>

\* handle has marked the video processing; the work directory and out/ are made.
Begin(w) ==
    /\ pc[w] = "idle"
    /\ lastRun < MaxRuns
    /\ lastRun' = lastRun + 1
    /\ run' = [run EXCEPT ![w] = lastRun + 1]
    /\ since' = [since EXCEPT ![w] = source]
    /\ dir' = [dir EXCEPT ![HostOf[w]].hasOut = TRUE]
    /\ Goto(w, "download")
    /\ UNCHANGED <<source, info, todo, sent, crashes, dirty>>

\* [variant] A source that is there is not downloaded again.
DownloadMissing(w) ==
    /\ pc[w] = "download"
    /\ source # None
    /\ dir' = [dir EXCEPT ![HostOf[w]].src = IF @ = None THEN source ELSE @]
    /\ Goto(w, "probe")
    /\ UNCHANGED <<source, run, info, todo, sent, lastRun, crashes, since, dirty>>

\* DownloadRaw: FGetObject replaces the file, and makes its directory anew.
DownloadRaw(w) ==
    /\ pc[w] = "download"
    /\ source # None
    /\ dir' = [dir EXCEPT ![HostOf[w]].src = source]
    /\ Goto(w, "probe")
    /\ UNCHANGED <<source, run, info, todo, sent, lastRun, crashes, since, dirty>>

\* Probe, and the ladder it leads to.
Probe(w) ==
    /\ pc[w] = "probe"
    /\ Dir(w).src # None
    /\ info' = [info EXCEPT ![w] = Dir(w).src]
    /\ todo' = [todo EXCEPT ![w] = Planned(Dir(w).src)]
    /\ Goto(w, "key")
    /\ UNCHANGED <<source, dir, run, sent, lastRun, crashes, since, dirty>>

\* [variant] A key file that is there is used again.
ReuseKeyMaterial(w) ==
    /\ pc[w] = "key"
    /\ dir' = [dir EXCEPT ![HostOf[w]].key = IF @ = None THEN run[w] ELSE @]
    /\ Goto(w, "write")
    /\ UNCHANGED <<source, run, info, todo, sent, lastRun, crashes, since, dirty>>

\* GenerateKey, and WriteKeyMaterial into a directory made if it is missing.
WriteKeyMaterial(w) ==
    /\ pc[w] = "key"
    /\ dir' = [dir EXCEPT ![HostOf[w]].key = run[w]]
    /\ Goto(w, "write")
    /\ UNCHANGED <<source, run, info, todo, sent, lastRun, crashes, since, dirty>>

\* [variant] ffmpeg is not told -y and leaves a rendition that is there alone.
WriteMissing(w) ==
    /\ pc[w] = "write"
    /\ \E f \in todo[w] :
          /\ \A g \in todo[w] : Turn[f] <= Turn[g]
          /\ CanMake(w, f)
          /\ dir' = [dir EXCEPT ![HostOf[w]].out[f] =
                        IF f \in Rung /\ @ # NoFile THEN @ ELSE Made(w, f)]
          /\ todo' = [todo EXCEPT ![w] = @ \ {f}]
          /\ Goto(w, IF todo[w] = {f} THEN "walk" ELSE "write")
    /\ UNCHANGED <<source, run, info, sent, lastRun, crashes, since, dirty>>

\* EncodeRendition, GenerateThumbnail, GenerateStoryboard or WriteFile: the next
\* file of out/ is written, whether it was there or not.
Write(w) ==
    /\ pc[w] = "write"
    /\ \E f \in todo[w] :
          /\ \A g \in todo[w] : Turn[f] <= Turn[g]
          /\ CanMake(w, f)
          /\ dir' = [dir EXCEPT ![HostOf[w]].out[f] = Made(w, f)]
          /\ todo' = [todo EXCEPT ![w] = @ \ {f}]
          /\ Goto(w, IF todo[w] = {f} THEN "walk" ELSE "write")
    /\ UNCHANGED <<source, run, info, sent, lastRun, crashes, since, dirty>>

\* UploadHLSDir: WalkDir reads the names in out/; with none it ends at once.
ReadOutDir(w) ==
    /\ pc[w] = "walk"
    /\ Dir(w).hasOut
    /\ LET names == {f \in Out : Dir(w).out[f] # NoFile}
       IN  /\ todo' = [todo EXCEPT ![w] = names]
           /\ Goto(w, IF names = {} THEN "publish" ELSE "upload")
    /\ UNCHANGED <<source, dir, run, info, sent, lastRun, crashes, since, dirty>>

\* UploadHLSDir: the next of these files is opened and put.
PutFile(w) ==
    /\ pc[w] = "upload"
    /\ \E f \in todo[w] :
          /\ \A g \in todo[w] : f <= g
          /\ Dir(w).out[f] # NoFile
          /\ sent' = [sent EXCEPT ![w][f] = Dir(w).out[f]]
          /\ todo' = [todo EXCEPT ![w] = @ \ {f}]
          /\ Goto(w, IF todo[w] = {f} THEN "publish" ELSE "upload")
    /\ UNCHANGED <<source, dir, run, info, lastRun, crashes, since, dirty>>

\* A stage returns an error: what it needs is missing, ffmpeg rejects its input,
\* the disk is full, a store fails or the context is cancelled.
StageFails(w) ==
    /\ pc[w] \in InProcess
    /\ Goto(w, "failing")
    /\ UNCHANGED <<source, dir, run, info, todo, sent, lastRun, crashes, since, dirty>>

\* What a worker between jobs remembers.
Forget(w) ==
    /\ Goto(w, "idle")
    /\ run' = [run EXCEPT ![w] = None]
    /\ info' = [info EXCEPT ![w] = None]
    /\ todo' = [todo EXCEPT ![w] = {}]
    /\ sent' = [sent EXCEPT ![w] = NoOutput]
    /\ since' = [since EXCEPT ![w] = None]

\* [variant] The directory is removed at the end of handle, which a failed run
\* does not reach, and not deferred.
RemoveAllOnSuccess(w) ==
    /\ pc[w] \in {"publish", "failing"}
    /\ dir' = IF pc[w] = "failing" THEN dir ELSE [dir EXCEPT ![HostOf[w]] = NoDir]
    /\ dirty' = dirty \ {HostOf[w]}
    /\ Forget(w)
    /\ UNCHANGED <<source, lastRun, crashes>>

\* handle has marked the video ready or failed; its deferred RemoveAll runs.
RemoveAll(w) ==
    /\ pc[w] \in {"publish", "failing"}
    /\ dir' = [dir EXCEPT ![HostOf[w]] = NoDir]
    /\ dirty' = dirty \ {HostOf[w]}
    /\ Forget(w)
    /\ UNCHANGED <<source, lastRun, crashes>>

\* The process dies, ffmpeg with it, and is started again where /tmp is what it
\* was.  A file it was writing counts as written or as not there.
Crash(w) ==
    /\ crashes < MaxCrashes
    /\ pc[w] # "idle"
    /\ crashes' = crashes + 1
    /\ dirty' = dirty \cup {HostOf[w]}
    /\ Forget(w)
    /\ UNCHANGED <<source, dir, lastRun>>

Next ==
    \/ PutSource
    \/ \E w \in Worker :
          \/ Begin(w) \/ DownloadRaw(w) \/ Probe(w) \/ WriteKeyMaterial(w)
          \/ Write(w) \/ ReadOutDir(w) \/ PutFile(w)
          \/ StageFails(w) \/ RemoveAll(w) \/ Crash(w)

Spec == Init /\ [][Next]_vars
------------------------------------------------------------------------------
(* Properties *)

OwnHosts == \A v, w \in Worker : HostOf[v] = HostOf[w] => v = w

\* When Process returns a Result, everything the master playlist and the row
\* will refer to was put by this run as this run wrote it: from the version it
\* probed and, for the renditions, with the key it returns.  This holds whatever
\* an earlier crash left in the directory and whenever the source is replaced,
\* for workers on hosts of their own.
ResultIsOwn ==
    \A w \in Worker : pc[w] = "publish" =>
        \A f \in Planned(info[w]) :
            sent[w][f] = [run |-> run[w],
                          key |-> IF f \in Rung THEN run[w] ELSE None,
                          ver |-> info[w]]

\* What the caller of Process sees of w's run: what the Result refers to, as it
\* was put.
Product(w) ==
    IF pc[w] = "publish" THEN [f \in Planned(info[w]) |-> sent[w][f]] ELSE <<>>

Atomic == INSTANCE AtomicRun
              WITH Tree <- [v \in 1..MaxPuts |-> Planned(v)],
                   Encrypted <- Rung,
                   product <- [w \in Worker |-> Product(w)]

\* The stages of a run, with all that can go on between them, amount to one step
\* that makes the whole tree of one version: one that was in the raw bucket
\* during this run and not before, although the source of an earlier run may
\* still be in the directory.
ImplementsAtomicRun == Atomic!Spec

\* A job uploads files of its own only, on a host where no worker crashed since
\* the last clean-up: only a crash or another worker leaves it files of others.
OwnWhenClean ==
    \A w \in Worker, f \in Out :
        HostOf[w] \notin dirty /\ sent[w][f] # NoFile => sent[w][f].run = run[w]

\* Nothing of a video stays on a host once its jobs there are done, failed ones
\* included, unless a worker crashed since the last clean-up.
NoLeftovers ==
    \A h \in Host \ dirty :
        (\A w \in Worker : HostOf[w] = h => pc[w] = "idle") => dir[h] = NoDir

\* worker.go:22, "base scratch directory for per-job work dirs": a job uploads
\* files of its own only.
PerJobDirs ==
    \A w \in Worker, f \in Out :
        sent[w][f] # NoFile => sent[w][f].run = run[w]
------------------------------------------------------------------------------
(* The inductive invariant behind ResultIsOwn *)

\* f as the worker's run writes it when nobody else touches its directory.
OwnFile(w, f) ==
    [run |-> run[w], key |-> IF f \in Rung THEN run[w] ELSE None, ver |-> info[w]]

\* What a worker's directory holds at each stage, and what it has put.
StageInv(w) ==
    /\ pc[w] \in {"key", "write", "walk", "upload", "publish"} =>
          info[w] # None
    /\ pc[w] = "probe" => Dir(w).src # None
    /\ pc[w] \in {"key", "write"} => Dir(w).src = info[w]
    /\ pc[w] = "write" => Dir(w).key = run[w]
    /\ pc[w] \notin {"idle", "failing", "publish"} => run[w] # None
    /\ pc[w] = "key" => todo[w] = Planned(info[w])
    /\ pc[w] \in {"write", "walk", "upload"} =>
          \A f \in Planned(info[w]) :
              (pc[w] = "write" /\ f \in todo[w]) \/ Dir(w).out[f] = OwnFile(w, f)
    /\ pc[w] \in {"upload", "publish"} =>
          \A f \in Planned(info[w]) :
              (pc[w] = "upload" /\ f \in todo[w]) \/ sent[w][f] = OwnFile(w, f)

\* The version a run works on is not older than the run.
FreshInv(w) ==
    /\ since[w] <= source
    /\ pc[w] = "idle" <=> run[w] = None
    /\ pc[w] = "idle" => since[w] = None /\ info[w] = None
    /\ pc[w] = "probe" => Dir(w).src \in since[w]..source
    /\ info[w] # None => info[w] \in since[w]..source

\* Files of another run are in a directory, or sent from it, after a crash only.
CleanInv(w) ==
    HostOf[w] \notin dirty =>
        \A f \in Out :
            /\ pc[w] = "idle" => Dir(w).out[f] = NoFile /\ sent[w][f] = NoFile
            /\ Dir(w).out[f] # NoFile => Dir(w).out[f].run = run[w]
            /\ sent[w][f] # NoFile => sent[w][f].run = run[w]

PipelineInv ==
    /\ TypeOK
    /\ \A w \in Worker : StageInv(w) /\ FreshInv(w) /\ CleanInv(w)
==============================================================================
