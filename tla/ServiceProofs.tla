----------------------------- MODULE ServiceProofs -----------------------------
(***************************************************************************)
(* Theorems about Service, for any number of API and worker processes and  *)
(* any number of failures.  ServiceInv is inductive: each start keeps what *)
(* main has done so far (StartInv) and takes nothing from a process that   *)
(* is up; each step of a request keeps RequestInv; and a request is served *)
(* by a process that is up only, so a job of this version meets what that  *)
(* process prepared.                                                       *)
(***************************************************************************)
EXTENDS Service, TLAPS

USE StartupAssumption DEF Process

\* The two buckets, by number.
LEMMA BucketNames ==
    /\ Len(Buckets) = 2 /\ DOMAIN Buckets = {1, 2}
    /\ Buckets[1] = "videos" /\ Buckets[2] = "streams"
BY DEF Buckets

LEMMA BothBuckets == HasBuckets <=> "videos" \in buckets /\ "streams" \in buckets
BY BucketNames DEF HasBuckets

\* {0} is no set of columns.
LEMMA AbsentIsNone == Absent \notin SUBSET Columns
BY DEF Absent, Columns

LEMMA InitStart == StartInit => StartInv
<1> SUFFICES ASSUME StartInit PROVE StartInv
  OBVIOUS
<1>1. StartTypeOK
  BY DEF StartInit, StartTypeOK, Absent, Columns, Running
<1>2. MainInv /\ UpIsPrepared
  BY DEF StartInit, MainInv, UpIsPrepared
<1> QED
  BY <1>1, <1>2 DEF StartInv

\* Only p moves, to a place in main.
Moved(p) ==
    /\ at' \in [Process -> Running \cup {"down", "exited"}]
    /\ next' \in [Process -> 0..5]
    /\ \A q \in Process \ {p} : at'[q] = at[q] /\ next'[q] = next[q]

LEMMA GotoType ==
    ASSUME StartTypeOK, NEW p \in Process, NEW l \in Running \cup {"down", "exited"},
           NEW n \in 0..5, Goto(p, l, n)
    PROVE  Moved(p) /\ at'[p] = l /\ next'[p] = n
BY DEF StartTypeOK, Goto, Moved

\* What one process does to main's places and to the stores, as far as the
\* others can tell.
Others(p) ==
    /\ \A q \in Process \ {p} : at'[q] = at[q] /\ next'[q] = next[q]
    /\ buckets \subseteq buckets'
    /\ \/ table' = table
       \/ table \in SUBSET Columns /\ table' \in SUBSET Columns /\ table \subseteq table'
       \/ table = Absent /\ table' = Columns

\* What holds of one process.
PlaceInv(p) ==
    /\ at[p] \in {"check", "make"} =>
          next[p] \in {1, 2} /\ (next[p] = 2 => "videos" \in buckets)
    /\ at[p] = "migrate" =>
          /\ p \in Api /\ HasBuckets /\ next[p] \in 0..5
          /\ next[p] # 0 => table # Absent /\ 1..(next[p] - 1) \subseteq table
    /\ at[p] = "up" => HasBuckets /\ (p \in Api => HasColumns)

LEMMA Places == MainInv /\ UpIsPrepared <=> \A p \in Process : PlaceInv(p)
BY DEF MainInv, UpIsPrepared, PlaceInv

\* A step of p takes nothing from the others.
LEMMA OthersKeep ==
    ASSUME NEW p \in Process, Others(p), NEW q \in Process \ {p}, PlaceInv(q)
    PROVE  PlaceInv(q)'
<1>1. HasBuckets => HasBuckets'
  BY BucketNames DEF HasBuckets, Others
<1>2. HasColumns => HasColumns'
  BY AbsentIsNone DEF HasColumns, Others
<1>3. table # Absent => table' # Absent
  BY AbsentIsNone DEF Others
<1>4. table # Absent => table \subseteq table'
  BY DEF Others
<1>5. at'[q] = at[q] /\ next'[q] = next[q] /\ buckets \subseteq buckets'
  BY DEF Others
<1> QED
  BY <1>1, <1>2, <1>3, <1>4, <1>5 DEF PlaceInv

\* BucketDone leaves p in its place when its buckets are there.
LEMMA BucketDoneKeeps ==
    ASSUME StartTypeOK, NEW p \in Process, next[p] \in {1, 2}, BucketDone(p),
           "videos" \in buckets', next[p] = 2 => "streams" \in buckets'
    PROVE  Moved(p) /\ PlaceInv(p)'
<1>b. next[p] = 2 => HasBuckets'
  BY BucketNames DEF HasBuckets
<1>1. CASE next[p] < Len(Buckets)
  <2>1. next[p] = 1 /\ Goto(p, "check", 2)
    BY <1>1, BucketNames DEF BucketDone
  <2>2. Moved(p) /\ at'[p] = "check" /\ next'[p] = 2
    BY <2>1, GotoType DEF Running
  <2> QED
    BY <2>2 DEF PlaceInv
<1>2. CASE ~(next[p] < Len(Buckets)) /\ p \in Api
  <2>1. next[p] = 2 /\ Goto(p, "migrate", 0)
    BY <1>2, BucketNames DEF BucketDone
  <2>2. Moved(p) /\ at'[p] = "migrate" /\ next'[p] = 0
    BY <2>1, GotoType DEF Running
  <2> QED
    BY <2>1, <2>2, <1>2, <1>b DEF PlaceInv
<1>3. CASE ~(next[p] < Len(Buckets)) /\ p \notin Api
  <2>1. next[p] = 2 /\ Goto(p, "up", 0)
    BY <1>3, BucketNames DEF BucketDone
  <2>2. Moved(p) /\ at'[p] = "up" /\ next'[p] = 0
    BY <2>1, GotoType DEF Running
  <2> QED
    BY <2>1, <2>2, <1>3, <1>b DEF PlaceInv
<1> QED
  BY <1>1, <1>2, <1>3

\* An exit leaves p down or gone.
LEMMA ExitKeeps ==
    ASSUME StartTypeOK, NEW p \in Process, Exit(p)
    PROVE  Moved(p) /\ PlaceInv(p)'
<1>1. PICK l \in {"down", "exited"} : Goto(p, l, 0)
  BY DEF Exit
<1>2. Moved(p) /\ at'[p] = l
  BY <1>1, GotoType
<1> QED
  BY <1>2 DEF PlaceInv

\* Each step of main keeps its own place and takes nothing from the others.
LEMMA MainStepKeeps ==
    ASSUME StartInv, NEW p \in Process, MainStep(p)
    PROVE  StartTypeOK' /\ Others(p) /\ PlaceInv(p)' /\ at[p] # "up"
<1> USE DEF StartInv
<1>p. PlaceInv(p)
  BY Places
<1>t. StartTypeOK /\ buckets \in SUBSET {"videos", "streams"} /\ exits \in Nat
  BY DEF StartTypeOK
<1>1. CASE Launch(p)
  <2>1. Goto(p, "config", 0)
    BY <1>1 DEF Launch
  <2>2. Moved(p) /\ at'[p] = "config"
    BY <1>t, <2>1, GotoType DEF Running
  <2> QED
    BY <1>1, <1>t, <2>2 DEF Launch, StartTypeOK, Others, PlaceInv, Moved
<1>2. CASE LoadConfig(p)
  <2>1. CASE p \in Configured
    <3>1. Goto(p, "postgres", 0)
      BY <1>2, <2>1 DEF LoadConfig
    <3>2. Moved(p) /\ at'[p] = "postgres"
      BY <1>t, <3>1, GotoType DEF Running
    <3> QED
      BY <1>2, <1>t, <3>2 DEF LoadConfig, StartTypeOK, Others, PlaceInv, Moved
  <2>2. CASE p \notin Configured
    BY <1>2, <1>t, <2>2, ExitKeeps DEF LoadConfig, StartTypeOK, Others, Moved
  <2> QED
    BY <2>1, <2>2
<1>3. CASE Connect(p)
  <2>1. CASE Goto(p, "redis", 0) /\ at[p] = "postgres"
    <3>1. Moved(p) /\ at'[p] = "redis" /\ next'[p] = 0
      BY <1>t, <2>1, GotoType DEF Running
    <3> QED
      BY <1>3, <1>t, <3>1, <2>1 DEF Connect, StartTypeOK, Others, PlaceInv, Moved
  <2>2. CASE Goto(p, "check", 1) /\ at[p] = "redis"
    <3>1. Moved(p) /\ at'[p] = "check" /\ next'[p] = 1
      BY <1>t, <2>2, GotoType DEF Running
    <3> QED
      BY <1>3, <1>t, <3>1, <2>2 DEF Connect, StartTypeOK, Others, PlaceInv, Moved
  <2> QED
    BY <1>3, <2>1, <2>2 DEF Connect
<1>4. CASE CheckBucket(p)
  <2>n. next[p] \in {1, 2} /\ (next[p] = 2 => "videos" \in buckets)
    BY <1>4, <1>p DEF CheckBucket, PlaceInv
  <2>1. CASE Buckets[next[p]] \in buckets
    <3>1. /\ BucketDone(p) /\ buckets' = buckets
          /\ "videos" \in buckets' /\ (next[p] = 2 => "streams" \in buckets')
      BY <1>4, <2>n, <2>1, BucketNames DEF CheckBucket
    <3> QED
      BY <1>4, <1>t, <2>n, <3>1, BucketDoneKeeps DEF CheckBucket, StartTypeOK, Others, Moved
  <2>2. CASE Buckets[next[p]] \notin buckets
    <3>1. Goto(p, "make", next[p]) /\ buckets' = buckets
      BY <1>4, <2>2 DEF CheckBucket
    <3>2. Moved(p) /\ at'[p] = "make" /\ next'[p] = next[p]
      BY <1>t, <2>n, <3>1, GotoType DEF Running
    <3> QED
      BY <1>4, <1>t, <2>n, <3>1, <3>2
         DEF CheckBucket, StartTypeOK, Others, PlaceInv, Moved
  <2> QED
    BY <2>1, <2>2
<1>5. CASE MakeBucket(p)
  <2>n. next[p] \in {1, 2} /\ (next[p] = 2 => "videos" \in buckets)
    BY <1>5, <1>p DEF MakeBucket, PlaceInv
  <2>b. /\ buckets' \in SUBSET {"videos", "streams"} /\ buckets \subseteq buckets'
        /\ "videos" \in buckets' /\ (next[p] = 2 => "streams" \in buckets')
    BY <1>5, <1>t, <2>n, BucketNames DEF MakeBucket
  <2>1. CASE Exit(p)
    BY <1>5, <1>t, <2>b, <2>1, ExitKeeps DEF MakeBucket, StartTypeOK, Others, Moved
  <2>2. CASE BucketDone(p)
    BY <1>5, <1>t, <2>b, <2>n, <2>2, BucketDoneKeeps DEF MakeBucket, StartTypeOK, Others,
                                                   Moved
  <2> QED
    BY <1>5, <2>1, <2>2 DEF MakeBucket
<1>6. CASE Migrate(p)
  <2>n. /\ p \in Api /\ HasBuckets /\ next[p] \in 0..5
        /\ next[p] # 0 => table # Absent /\ 1..(next[p] - 1) \subseteq table
    BY <1>6, <1>p DEF Migrate, PlaceInv
  <2>t. table \in SUBSET Columns \/ table = Absent
    BY DEF StartTypeOK
  <2>1. /\ table' \in SUBSET Columns /\ 1..next[p] \subseteq table'
        /\ \/ table \in SUBSET Columns /\ table \subseteq table'
           \/ table = Absent /\ table' = Columns
    <3>1. CASE next[p] = 0
      BY <1>6, <2>t, <3>1, AbsentIsNone DEF Migrate
    <3>2. CASE next[p] # 0
      <4>1. table' = table \cup {next[p]} /\ table \in SUBSET Columns
        BY <1>6, <2>n, <2>t, <3>2 DEF Migrate
      <4>2. next[p] \in 1..5 /\ 1..next[p] = 1..(next[p] - 1) \cup {next[p]}
        BY <2>n, <3>2
      <4> QED
        BY <4>1, <4>2, <2>n, <3>2 DEF Columns
    <3> QED
      BY <3>1, <3>2
  <2>2. HasBuckets' /\ table' # Absent /\ buckets' = buckets /\ exits' = exits
    BY <1>6, <2>1, <2>n, AbsentIsNone DEF Migrate, HasBuckets
  <2>3. CASE next[p] = 5
    <3>1. Goto(p, "up", 0) /\ table' = Columns
      BY <1>6, <2>1, <2>3 DEF Migrate, Columns
    <3>2. Moved(p) /\ at'[p] = "up"
      BY <1>t, <3>1, GotoType DEF Running
    <3>3. PlaceInv(p)'
      BY <2>2, <3>1, <3>2 DEF PlaceInv, HasColumns
    <3> QED
      BY <1>6, <1>t, <2>1, <2>2, <3>2, <3>3 DEF Migrate, StartTypeOK, Others, Moved
  <2>4. CASE next[p] # 5
    <3>1. Goto(p, "migrate", next[p] + 1) /\ next[p] + 1 \in 0..5
      BY <1>6, <2>n, <2>4 DEF Migrate
    <3>2. (next[p] + 1) - 1 = next[p]
      BY <2>n
    <3>3. Moved(p) /\ at'[p] = "migrate" /\ next'[p] = next[p] + 1
      BY <1>t, <3>1, GotoType DEF Running
    <3>4. PlaceInv(p)'
      BY <2>n, <2>1, <2>2, <3>1, <3>2, <3>3 DEF PlaceInv
    <3> QED
      BY <1>6, <1>t, <2>1, <2>2, <3>3, <3>4 DEF Migrate, StartTypeOK, Others, Moved
  <2> QED
    BY <2>3, <2>4
<1> QED
  BY <1>1, <1>2, <1>3, <1>4, <1>5, <1>6 DEF MainStep

\* A step that takes nothing from the others keeps StartInv.
LEMMA StartKept ==
    ASSUME StartInv, NEW p \in Process, Others(p), PlaceInv(p)', StartTypeOK'
    PROVE  StartInv'
<1>1. \A q \in Process : PlaceInv(q)
  BY Places DEF StartInv
<1>2. \A q \in Process : PlaceInv(q)'
  BY <1>1, OthersKeep
<1>3. MainInv' /\ UpIsPrepared'
  BY <1>2 DEF MainInv, UpIsPrepared, PlaceInv
<1> QED
  BY <1>3 DEF StartInv

\* A failing process takes nothing from the others either.
LEMMA DiesKeeps ==
    ASSUME StartInv, NEW p \in Process, Dies(p)
    PROVE  StartInv' /\ Others(p) /\ UNCHANGED <<buckets, table>>
<1>1. StartTypeOK /\ Exit(p) /\ UNCHANGED <<buckets, table>> /\ exits' \in Nat
  BY DEF StartInv, StartTypeOK, Dies
<1>2. Others(p) /\ PlaceInv(p)' /\ StartTypeOK'
  BY <1>1, ExitKeeps DEF Others, StartTypeOK, Moved
<1> QED
  BY <1>1, <1>2, StartKept

\* Nor does minio-init.
LEMMA MinioInitKeeps ==
    ASSUME StartInv, MinioInit
    PROVE  StartInv' /\ buckets \subseteq buckets' /\ UNCHANGED <<at, next, table>>
<1>1. /\ UNCHANGED <<at, next, table, exits>> /\ buckets \subseteq buckets'
      /\ buckets' \in SUBSET {"videos", "streams"}
  BY BucketNames DEF StartInv, StartTypeOK, MinioInit
<1>2. StartTypeOK'
  BY <1>1 DEF StartInv, StartTypeOK
<1>3. HasBuckets => HasBuckets'
  BY <1>1, BucketNames DEF HasBuckets
<1>4. MainInv' /\ UpIsPrepared'
  BY <1>1, <1>3 DEF StartInv, MainInv, UpIsPrepared, HasColumns
<1> QED
  BY <1>1, <1>2, <1>4 DEF StartInv
------------------------------------------------------------------------------
(* Requests *)

\* What each handler calls.
LEMMA CallsOf ==
    /\ Operations = {"ListVideos", "CreateVideo", "GetVideo", "CompleteVideo", "GetVideoKey"}
    /\ Calls["ListVideos"] = <<"select">>
    /\ Calls["CreateVideo"] = <<"insert", "presign">>
    /\ Calls["GetVideo"] = <<"select">>
    /\ Calls["CompleteVideo"] = <<"select", "update", "xadd">>
    /\ Calls["GetVideoKey"] = <<"select">>
BY DEF Operations, Calls

\* A lookup is the first call of its handler.
LEMMA LookupFirst ==
    ASSUME NEW o \in Operations
    PROVE  /\ Len(Calls[o]) \in Nat \ {0}
           /\ \A n \in 0..(Len(Calls[o]) - 1) : Calls[o][n + 1] = "select" => n = 0
<1>1. CASE o \in {"ListVideos", "GetVideo", "GetVideoKey"}
  <2>1. Calls[o] = <<"select">>
    BY <1>1, CallsOf
  <2> QED
    BY <2>1
<1>2. CASE o = "CreateVideo"
  <2>1. Calls[o] = <<"insert", "presign">>
    BY <1>2, CallsOf
  <2> QED
    BY <2>1
<1>3. CASE o = "CompleteVideo"
  <2>1. Calls[o] = <<"select", "update", "xadd">>
    BY <1>3, CallsOf
  <2> QED
    BY <2>1
<1> QED
  BY <1>1, <1>2, <1>3, CallsOf

\* The writes before any call, and with one call more.
LEMMA WritesGrow ==
    ASSUME NEW o, NEW n \in Nat
    PROVE  /\ WritesOf(o, 0) = {}
           /\ WritesOf(o, n + 1) = WritesOf(o, n) \cup ({Calls[o][n + 1]} \cap Writes)
           /\ WritesOf(o, n) \in SUBSET Writes
<1>1. 1..0 = {} /\ 1..(n + 1) = 1..n \cup {n + 1}
  OBVIOUS
<1> QED
  BY <1>1 DEF WritesOf

\* A handler accepts with a status that is neither an error nor a refusal.
LEMMA AcceptedIs == \A o : Accepted(o) \in {200, 201}
BY DEF Accepted

LEMMA InitRequest == HttpInit => HttpTypeOK /\ RequestInv
<1> SUFFICES ASSUME HttpInit PROVE HttpTypeOK /\ RequestInv
  OBVIOUS
<1>1. HttpTypeOK
  BY DEF HttpInit, HttpTypeOK
<1>2. RequestInv
  BY HttpAssumption
     DEF HttpInit, RequestInv, AnswerFits, LogTellsStatus, AnswerTellsEffect
<1> QED
  BY <1>1, <1>2

\* The parts of RequestInv, by stage.
LEMMA AcceptKeeps ==
    ASSUME HttpTypeOK, RequestInv,
           NEW o \in Operations \cup Pages \cup {"unmatched"}, NEW good \in BOOLEAN,
           Accept(o, good)
    PROVE  HttpTypeOK' /\ RequestInv' /\ stage' # "idle"
<1>1. /\ stage = "idle" /\ op' = o /\ ok' = good
      /\ resp' = None /\ effect' = {} /\ cut' = FALSE /\ called' = 0 /\ wire = None /\ recorded = None
  BY DEF Accept, HttpTypeOK, RequestInv
<1>2. CASE o = "unmatched" /\ stage' = "done" /\ wire' = 404 /\ UNCHANGED recorded
  <2>1. HttpTypeOK'
    BY <1>1, <1>2 DEF HttpTypeOK, Status
  <2> QED
    BY <1>1, <1>2, <2>1
       DEF RequestInv, AnswerFits, LogTellsStatus, AnswerTellsEffect, Operations, Calls
<1>3. CASE /\ o \in Operations \cup Pages
           /\ stage' = IF o \in Pages THEN "page" ELSE "bind"
           /\ recorded' = 200 /\ UNCHANGED wire
  <2>1. HttpTypeOK'
    BY <1>1, <1>3 DEF HttpTypeOK, Status
  <2> QED
    BY <1>1, <1>3, <2>1
       DEF RequestInv, AnswerFits, LogTellsStatus, AnswerTellsEffect
<1> QED
  BY <1>2, <1>3 DEF Accept

\* Each step of a request but the last.
LEMMA HttpStepKeeps ==
    ASSUME HttpTypeOK, RequestInv, HttpStep
    PROVE  /\ HttpTypeOK' /\ RequestInv' /\ stage # "idle"
           /\ stage' = "idle" => op' = None
<1> USE HttpAssumption DEF Status, Error
<1>1. CASE BindId
  <2>1. HttpTypeOK' /\ stage = "bind" /\ wire = None /\ recorded = 200
    BY <1>1 DEF BindId, WriteHeader, HttpTypeOK, RequestInv
  <2> QED
    BY <1>1, <2>1
       DEF BindId, WriteHeader, HttpTypeOK, RequestInv, AnswerFits, LogTellsStatus,
           AnswerTellsEffect
<1>2. CASE DecodeBody
  <2>1. /\ HttpTypeOK' /\ stage = "decode" /\ wire = None /\ recorded = 200
        /\ op \in Operations /\ called = 0 /\ effect = {} /\ resp = None /\ ~cut
        /\ UNCHANGED <<op, ok, called, resp, effect, cut>>
    BY <1>2 DEF DecodeBody, WriteHeader, HttpTypeOK, RequestInv
  <2>2. CASE WriteHeader(400) /\ stage' = "done"
    BY <2>1, <2>2
       DEF WriteHeader, RequestInv, AnswerFits, LogTellsStatus, AnswerTellsEffect
  <2>3. CASE stage' = "handle" /\ UNCHANGED <<wire, recorded>>
    <3>1. called < Len(Calls[op])
      BY <2>1, LookupFirst
    <3>2. effect = WritesOf(op, called)
      <4>1. WritesOf(op, 0) = {}
        BY WritesGrow
      <4> QED
        BY <2>1, <4>1
    <3> QED
      BY <2>1, <2>3, <3>1, <3>2
         DEF RequestInv, AnswerFits, LogTellsStatus, AnswerTellsEffect
  <2> QED
    BY <1>2, <2>2, <2>3 DEF DecodeBody
<1>3. CASE HandlerRefuses
  <2>1. /\ stage = "handle" /\ stage' = "visit" /\ op \in Operations /\ called \in Nat
        /\ called < Len(Calls[op]) /\ effect = WritesOf(op, called)
        /\ wire = None /\ recorded = 200 /\ resp' \in {400, 404} /\ ~cut
        /\ UNCHANGED <<op, ok, called, wire, recorded, effect, cut>>
    BY <1>3 DEF HandlerRefuses, HttpTypeOK, RequestInv
  <2>2. called = 0
    <3>1. called \in 0..(Len(Calls[op]) - 1)
      BY <2>1, LookupFirst
    <3> QED
      BY <1>3, <2>1, <3>1, LookupFirst DEF HandlerRefuses
  <2>3. effect = {}
    <3>1. WritesOf(op, 0) = {}
      BY WritesGrow
    <3> QED
      BY <2>1, <2>2, <3>1
  <2>4. HttpTypeOK'
    BY <2>1 DEF HttpTypeOK
  <2> QED
    BY <2>1, <2>3, <2>4 DEF RequestInv, AnswerFits, LogTellsStatus, AnswerTellsEffect
<1>4. CASE HandlerCalls
  <2>1. /\ stage = "handle" /\ op \in Operations /\ called \in Nat
        /\ called < Len(Calls[op]) /\ effect = WritesOf(op, called)
        /\ wire = None /\ recorded = 200 /\ resp = None /\ ~cut
        /\ called' = called + 1
        /\ UNCHANGED <<op, ok, wire, recorded, cut>>
    BY <1>4 DEF HandlerCalls, HttpTypeOK, RequestInv
  <2>2. effect' = WritesOf(op, called + 1) /\ effect' \in SUBSET Writes
    BY <1>4, <2>1, WritesGrow DEF HandlerCalls
  <2>3. CASE called' = Len(Calls[op])
    <3>1. stage' = "visit" /\ resp' = Accepted(op) /\ effect' = AllWritesOf(op)
      BY <1>4, <2>1, <2>2, <2>3 DEF HandlerCalls, AllWritesOf
    <3>2. HttpTypeOK'
      BY <2>1, <2>2, <3>1, AcceptedIs DEF HttpTypeOK
    <3> QED
      BY <2>1, <3>1, <3>2 DEF RequestInv, AnswerFits, LogTellsStatus, AnswerTellsEffect
  <2>4. CASE called' # Len(Calls[op])
    <3>1. stage' = "handle" /\ resp' = None
      BY <1>4, <2>1, <2>4 DEF HandlerCalls
    <3>2. called' < Len(Calls[op'])
      BY <2>1, <2>4, LookupFirst
    <3>3. HttpTypeOK'
      BY <2>1, <2>2, <3>1 DEF HttpTypeOK
    <3> QED
      BY <2>1, <2>2, <3>1, <3>2, <3>3
         DEF RequestInv, AnswerFits, LogTellsStatus, AnswerTellsEffect
  <2> QED
    BY <2>3, <2>4
<1>5. CASE HandlerFails
  <2>1. /\ stage = "handle" /\ stage' = "done" /\ UNCHANGED <<op, ok, called, cut>>
        /\ resp' = 500 /\ wire' = 500 /\ recorded' = 500
        /\ effect' \in SUBSET Writes
    BY <1>5 DEF HandlerFails, WriteHeader, HttpTypeOK, RequestInv
  <2>2. HttpTypeOK'
    BY <2>1 DEF HttpTypeOK
  <2> QED
    BY <2>1, <2>2 DEF RequestInv, AnswerFits, LogTellsStatus, AnswerTellsEffect
<1>6. CASE Visit
  <2>1. HttpTypeOK' /\ stage = "visit" /\ wire = None
    BY <1>6 DEF Visit, WriteHeader, HttpTypeOK, RequestInv
  <2>2. CASE WriteHeader(resp) /\ stage' = "body" /\ UNCHANGED resp
    BY <1>6, <2>1, <2>2
       DEF Visit, WriteHeader, RequestInv, AnswerFits, LogTellsStatus, AnswerTellsEffect
  <2>3. CASE WriteHeader(Error) /\ resp' = Error /\ stage' = "done"
    BY <1>6, <2>1, <2>3
       DEF Visit, WriteHeader, RequestInv, AnswerFits, LogTellsStatus, AnswerTellsEffect
  <2> QED
    BY <1>6, <2>2, <2>3 DEF Visit
<1>7. CASE WriteBody
  <2>1. stage = "body" /\ stage' = "done" /\ wire = resp /\ wire \in {200, 201, 400, 404}
    BY <1>7, AcceptedIs DEF WriteBody, RequestInv
  <2>2. UNCHANGED <<op, ok, called, resp, effect, wire>>
    BY <1>7, <2>1 DEF WriteBody, WriteHeader
  <2>3. AnswerTellsEffect'
    BY <2>1, <2>2, AcceptedIs DEF RequestInv, AnswerTellsEffect, AllWritesOf, WritesOf
  <2>4. recorded' \in {resp, 500} /\ (recorded' = wire' \/ (cut' /\ recorded' = 500))
    <3>1. recorded = resp
      BY <2>1 DEF RequestInv
    <3>2. CASE UNCHANGED <<wire, recorded, cut>>
      BY <2>1, <3>1, <3>2
    <3>3. CASE WriteHeader(Error) /\ cut' = TRUE
      BY <3>3 DEF WriteHeader
    <3> QED
      BY <1>7, <3>2, <3>3 DEF WriteBody
  <2>5. HttpTypeOK'
    <3>1. cut' \in BOOLEAN
      BY <1>7 DEF WriteBody, HttpTypeOK
    <3> QED
      BY <2>1, <2>2, <2>4, <3>1 DEF HttpTypeOK
  <2> QED
    BY <2>1, <2>2, <2>3, <2>4, <2>5 DEF RequestInv, AnswerFits, LogTellsStatus
<1>8. CASE ServePage
  <2>1. HttpTypeOK' /\ stage = "page" /\ stage' = "done" /\ wire = None /\ recorded = 200
    BY <1>8 DEF ServePage, WriteHeader, HttpTypeOK, RequestInv
  <2>2. op' \notin Operations
    BY <1>8, <2>1, CallsOf DEF ServePage, RequestInv, Pages
  <2> QED
    BY <1>8, <2>1, <2>2
       DEF ServePage, WriteHeader, RequestInv, AnswerFits, LogTellsStatus,
           AnswerTellsEffect
<1>9. CASE Complete
  BY <1>9 DEF Complete, HttpTypeOK, RequestInv, AnswerFits, LogTellsStatus,
              AnswerTellsEffect
<1> QED
  BY <1>1, <1>2, <1>3, <1>4, <1>5, <1>6, <1>7, <1>8, <1>9 DEF HttpStep
------------------------------------------------------------------------------
(* The composition *)

\* What Service adds to the types of its parts.
OwnTypeOK ==
    /\ server \in Api \cup {None}
    /\ jobs \in SUBSET Job
    /\ inHand \in [Worker -> Job \cup {None}]

\* A request is served by a process that is up.
Served ==
    /\ server = None <=> stage = "idle"
    /\ server # None => at[server] = "up"

LEMMA InvParts ==
    ServiceInv <=> /\ StartInv /\ HttpTypeOK /\ RequestInv
                   /\ OwnTypeOK /\ Served /\ WorkIsPrepared
BY DEF ServiceInv, TypeOK, StartInv, OwnTypeOK, Served

\* Prepared stays prepared.
Kept == HasBuckets /\ HasColumns => HasBuckets' /\ HasColumns'

LEMMA OthersKeepPrepared ==
    ASSUME NEW p \in Process, Others(p) PROVE Kept
<1>1. HasBuckets => HasBuckets'
  BY BucketNames DEF HasBuckets, Others
<1>2. HasColumns => HasColumns'
  BY AbsentIsNone DEF HasColumns, Others
<1> QED
  BY <1>1, <1>2 DEF Kept

LEMMA InitInv == Init => ServiceInv
<1> SUFFICES ASSUME Init PROVE ServiceInv
  OBVIOUS
<1>1. StartInv /\ HttpTypeOK /\ RequestInv
  BY InitStart, InitRequest DEF Init
<1>2. jobs \in SUBSET {"old"} /\ inHand = [w \in Worker |-> None] /\ server = None
  BY DEF Init
<1>3. WorkIsPrepared
  BY <1>2, ServiceAssumption DEF WorkIsPrepared, Job
<1>4. OwnTypeOK /\ Served
  BY <1>2 DEF OwnTypeOK, Served, Job, Init, HttpInit
<1> QED
  BY <1>1, <1>3, <1>4, InvParts

\* Each action keeps each part of ServiceInv.
LEMMA StepInv == ServiceInv /\ [Next]_vars => ServiceInv'
<1> SUFFICES ASSUME ServiceInv, [Next]_vars PROVE ServiceInv'
  OBVIOUS
<1>i. StartInv /\ HttpTypeOK /\ RequestInv /\ OwnTypeOK /\ Served /\ WorkIsPrepared
  BY InvParts
<1>q. ASSUME StartInv', HttpTypeOK', RequestInv', OwnTypeOK', Served', WorkIsPrepared'
      PROVE  ServiceInv'
  BY <1>q DEF ServiceInv, TypeOK, StartInv, OwnTypeOK, Served
<1>s. ASSUME UNCHANGED startVars
      PROVE  StartInv' /\ (HasBuckets' <=> HasBuckets) /\ (HasColumns' <=> HasColumns)
  BY <1>i, <1>s DEF startVars, StartInv, StartTypeOK, MainInv, UpIsPrepared,
                    HasBuckets, HasColumns
<1>h. ASSUME UNCHANGED httpVars
      PROVE  HttpTypeOK' /\ RequestInv' /\ stage' = stage
  BY <1>i, <1>h DEF httpVars, HttpTypeOK, RequestInv, AnswerFits, LogTellsStatus,
                    AnswerTellsEffect
<1>1. ASSUME NEW p \in Process, Start(p) PROVE ServiceInv'
  <2>1. /\ StartTypeOK' /\ Others(p) /\ PlaceInv(p)' /\ at[p] # "up"
        /\ UNCHANGED httpVars /\ UNCHANGED <<server, jobs, inHand>>
    BY <1>1, <1>i, MainStepKeeps DEF Start
  <2>2. StartInv' /\ Kept
    BY <1>i, <2>1, StartKept, OthersKeepPrepared
  <2>3. Served'
    BY <1>i, <1>h, <2>1 DEF Served, OwnTypeOK, Others
  <2>4. OwnTypeOK' /\ WorkIsPrepared'
    BY <1>i, <2>1, <2>2 DEF OwnTypeOK, WorkIsPrepared, Kept
  <2> QED
    BY <1>h, <2>1, <2>2, <2>3, <2>4, <1>q
<1>2. ASSUME NEW p \in Process, ProcessDies(p) PROVE ServiceInv'
  <2>1. StartInv' /\ Others(p) /\ Kept /\ jobs' = jobs
    BY <1>2, <1>i, DiesKeeps, OthersKeepPrepared DEF ProcessDies
  <2>2. inHand' = [w \in Worker |-> IF w = p THEN None ELSE inHand[w]]
    BY <1>2 DEF ProcessDies
  <2>3. CASE server = p
    <3>1. /\ server' = None /\ stage' = "idle" /\ op' = None /\ ok' = TRUE
          /\ called' = 0 /\ resp' = None
          /\ wire' = None /\ recorded' = None /\ effect' = {} /\ cut' = FALSE
      BY <1>2, <2>3 DEF ProcessDies
    <3>2. HttpTypeOK' /\ RequestInv'
      BY <3>1 DEF HttpTypeOK, RequestInv, AnswerFits, LogTellsStatus, AnswerTellsEffect
    <3>3. OwnTypeOK' /\ Served' /\ WorkIsPrepared'
      BY <1>i, <2>1, <2>2, <3>1, ServiceAssumption
         DEF OwnTypeOK, Served, WorkIsPrepared, Kept, Job
    <3> QED
      BY <2>1, <3>2, <3>3, <1>q
  <2>4. CASE server # p
    <3>1. UNCHANGED httpVars /\ server' = server
      BY <1>2, <2>4 DEF ProcessDies
    <3>2. server # None => at'[server] = at[server]
      BY <1>i, <2>1, <2>4 DEF Others, OwnTypeOK
    <3>3. Served'
      BY <1>i, <1>h, <3>1, <3>2 DEF Served
    <3>4. OwnTypeOK' /\ WorkIsPrepared'
      BY <1>i, <2>1, <2>2, <3>1, ServiceAssumption DEF OwnTypeOK, WorkIsPrepared, Kept, Job
    <3> QED
      BY <1>h, <2>1, <3>1, <3>3, <3>4, <1>q
  <2> QED
    BY <2>3, <2>4
<1>3. ASSUME ProvideBuckets PROVE ServiceInv'
  <2>1. StartInv' /\ buckets \subseteq buckets' /\ UNCHANGED <<at, table>>
    BY <1>3, <1>i, MinioInitKeeps DEF ProvideBuckets
  <2>2. Kept
    BY <2>1, BucketNames DEF Kept, HasBuckets, HasColumns
  <2>3. UNCHANGED httpVars /\ UNCHANGED <<server, jobs, inHand>>
    BY <1>3 DEF ProvideBuckets
  <2>4. OwnTypeOK' /\ Served' /\ WorkIsPrepared'
    BY <1>i, <1>h, <2>1, <2>2, <2>3 DEF OwnTypeOK, Served, WorkIsPrepared, Kept
  <2> QED
    BY <1>h, <2>1, <2>3, <2>4, <1>q
<1>4. ASSUME NEW a \in Api, Request(a) PROVE ServiceInv'
  <2>1. /\ at[a] = "up" /\ server' = a
        /\ UNCHANGED startVars /\ UNCHANGED <<jobs, inHand>>
        /\ HttpTypeOK' /\ RequestInv' /\ stage' # "idle"
    BY <1>4, <1>i, AcceptKeeps DEF Request
  <2>2. at' = at /\ HasBuckets /\ HasColumns
    BY <1>i, <2>1 DEF startVars, StartInv, UpIsPrepared
  <2>3. OwnTypeOK' /\ Served' /\ WorkIsPrepared'
    BY <1>i, <1>s, <2>1, <2>2, ServiceAssumption DEF OwnTypeOK, Served, WorkIsPrepared
  <2> QED
    BY <1>s, <2>1, <2>3, <1>q
<1>5. ASSUME Serve PROVE ServiceInv'
  <2>1. HttpTypeOK' /\ RequestInv' /\ stage # "idle"
    BY <1>5, <1>i, HttpStepKeeps DEF Serve
  <2>2. /\ server' = IF stage' = "idle" THEN None ELSE server
        /\ jobs' \subseteq jobs \cup {"new"} /\ UNCHANGED startVars /\ inHand' = inHand
    BY <1>5 DEF Serve
  <2>3. server # None /\ at[server] = "up" /\ HasBuckets /\ HasColumns
    BY <1>i, <2>1 DEF Served, WorkIsPrepared
  <2>4. OwnTypeOK' /\ Served' /\ WorkIsPrepared'
    BY <1>i, <1>s, <2>2, <2>3 DEF OwnTypeOK, Served, WorkIsPrepared, startVars, Job
  <2> QED
    BY <1>s, <2>1, <2>2, <2>4, <1>q
<1>6. ASSUME NEW w \in Worker, TakeJob(w) \/ FinishJob(w) PROVE ServiceInv'
  <2>1. UNCHANGED startVars /\ UNCHANGED httpVars /\ server' = server
    BY <1>6 DEF TakeJob, FinishJob
  <2>2. OwnTypeOK'
    BY <1>6, <1>i DEF TakeJob, FinishJob, OwnTypeOK
  <2>3. "new" \in jobs' \/ (\E v \in Worker : inHand'[v] = "new") =>
            "new" \in jobs \/ (\E v \in Worker : inHand[v] = "new")
    BY <1>6, <1>i, ServiceAssumption DEF Job, TakeJob, FinishJob, OwnTypeOK
  <2>4. Served'
    BY <1>i, <1>h, <2>1 DEF Served, startVars
  <2>5. WorkIsPrepared'
    BY <1>i, <1>s, <2>1, <2>3 DEF WorkIsPrepared
  <2> QED
    BY <1>s, <1>h, <2>1, <2>2, <2>4, <2>5, <1>q
<1>7. CASE UNCHANGED vars
  <2>1. UNCHANGED startVars /\ UNCHANGED httpVars /\ UNCHANGED <<server, jobs, inHand>>
    BY <1>7 DEF vars
  <2>2. OwnTypeOK' /\ Served' /\ WorkIsPrepared'
    BY <1>i, <1>s, <1>h, <2>1 DEF OwnTypeOK, Served, WorkIsPrepared, startVars
  <2> QED
    BY <1>s, <1>h, <2>1, <2>2, <1>q
<1> QED
  BY <1>1, <1>2, <1>3, <1>4, <1>5, <1>6, <1>7 DEF Next

LEMMA InvHolds == Spec => []ServiceInv
BY InitInv, StepInv, PTL DEF Spec

\* Types, for every number of processes and failures (TypeOK of Service).
THEOREM ServiceTypeCorrect == Spec => []TypeOK
<1>1. ServiceInv => TypeOK
  BY DEF ServiceInv
<1> QED
  BY <1>1, InvHolds, PTL

\* A process that is up finds both buckets and, for the API, every column,
\* however the starts, failures and restarts of main interleave.
THEOREM StartCorrect == Spec => []UpIsPrepared
<1>1. ServiceInv => UpIsPrepared
  BY DEF ServiceInv, StartInv
<1> QED
  BY <1>1, InvHolds, PTL

\* No job of this version meets a bucket or a column that is not there, though
\* workers do not migrate (cmd/worker/main.go) and may be up first.
THEOREM WorkPrepared == Spec => []WorkIsPrepared
<1>1. ServiceInv => WorkIsPrepared
  BY DEF ServiceInv
<1> QED
  BY <1>1, InvHolds, PTL

\* The client is sent the handler's status (api.gen.go Visit...Response).
THEOREM AnswersFit == Spec => []AnswerFits
<1>1. ServiceInv => AnswerFits
  BY DEF ServiceInv, RequestInv
<1> QED
  BY <1>1, InvHolds, PTL

\* RequestLogger logs what the client was sent, unless the body broke off.
THEOREM LogsTellStatus == Spec => []LogTellsStatus
<1>1. ServiceInv => LogTellsStatus
  BY DEF ServiceInv, RequestInv
<1> QED
  BY <1>1, InvHolds, PTL

\* What a client may conclude from its answer: a refused request has written
\* nothing, an accepted one all that its operation writes, whichever call of the
\* handler (internal/handlers/videos.go) failed, with or without effect.
THEOREM AnswersTellEffects == Spec => []AnswerTellsEffect
<1>1. ServiceInv => AnswerTellsEffect
  BY DEF ServiceInv, RequestInv
<1> QED
  BY <1>1, InvHolds, PTL

\* The invariant the others follow from.
THEOREM ServiceCorrect == Spec => []ServiceInv
BY InvHolds
==============================================================================
