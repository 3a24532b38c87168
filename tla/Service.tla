-------------------------------- MODULE Service --------------------------------
(***************************************************************************)
(* Startup and HttpApi together: requests are served by an API process     *)
(* that is up, a completed video puts a job into the stream, and a worker  *)
(* that is up takes it.  One request at a time; jobs are told apart by     *)
(* whether an earlier version of the API left them or this one wrote them. *)
(***************************************************************************)
EXTENDS Startup, HttpApi

VARIABLES
    server,    \* the API process that serves the request
    jobs,      \* the jobs in the stream
    inHand     \* per worker, the job it works on

vars == <<startVars, httpVars, server, jobs, inHand>>

Job == {"old", "new"}

ASSUME ServiceAssumption == None \notin Process \cup Job

TypeOK ==
    /\ StartTypeOK /\ HttpTypeOK
    /\ server \in Api \cup {None}
    /\ jobs \in SUBSET Job
    /\ inHand \in [Worker -> Job \cup {None}]

Init ==
    /\ StartInit /\ HttpInit
    /\ server = None
    /\ jobs \in IF table = Absent THEN {{}} ELSE {{}, {"old"}}
    /\ inHand = [w \in Worker |-> None]

\* main, up to ListenAndServe or Run.
Start(p) == MainStep(p) /\ UNCHANGED <<httpVars, server, jobs, inHand>>

ProvideBuckets == MinioInit /\ UNCHANGED <<httpVars, server, jobs, inHand>>

\* A process dies, with the request it serves or the job in its hand.
ProcessDies(p) ==
    /\ Dies(p)
    /\ IF server = p
       THEN /\ server' = None /\ stage' = "idle" /\ op' = None /\ ok' = TRUE
            /\ called' = 0 /\ resp' = None /\ wire' = None /\ recorded' = None
            /\ effect' = {} /\ cut' = FALSE
       ELSE UNCHANGED <<httpVars, server>>
    /\ inHand' = [w \in Worker |-> IF w = p THEN None ELSE inHand[w]]
    /\ UNCHANGED jobs

\* A client sends a request to an API that serves.
Request(a) ==
    /\ at[a] = "up"
    /\ \E o \in Operations \cup Pages \cup {"unmatched"}, good \in BOOLEAN : Accept(o, good)
    /\ server' = a
    /\ UNCHANGED <<startVars, jobs, inHand>>

\* The request gets on; an XADD of its handler puts a job into the stream.
Serve ==
    /\ HttpStep
    /\ jobs' = IF "xadd" \in effect' \ effect THEN jobs \cup {"new"} ELSE jobs
    /\ server' = IF stage' = "idle" THEN None ELSE server
    /\ UNCHANGED <<startVars, inHand>>

\* Run takes a job.
TakeJob(w) ==
    /\ at[w] = "up"
    /\ inHand[w] = None
    /\ \E j \in jobs : inHand' = [inHand EXCEPT ![w] = j] /\ jobs' = jobs \ {j}
    /\ UNCHANGED <<startVars, httpVars, server>>

\* handle is done with it.
FinishJob(w) ==
    /\ at[w] = "up"
    /\ inHand[w] # None
    /\ inHand' = [inHand EXCEPT ![w] = None]
    /\ UNCHANGED <<startVars, httpVars, server, jobs>>

Next ==
    \/ \E p \in Process : Start(p) \/ ProcessDies(p)
    \/ ProvideBuckets
    \/ \E a \in Api : Request(a)
    \/ Serve
    \/ \E w \in Worker : TakeJob(w) \/ FinishJob(w)

Spec == Init /\ [][Next]_vars

\* A worker that can start does, and its container is started again.  Nothing
\* else is owed: the API need not run and clients need not ask.
FairSpec == Spec /\ \A w \in Worker : WF_vars(Start(w))
------------------------------------------------------------------------------
\* A worker never migrates, and may be up before any API is: still no job of
\* this version meets a table without its columns, or a missing bucket, and no
\* request is served without them.
WorkIsPrepared ==
    /\ "new" \in jobs \/ (\E w \in Worker : inHand[w] = "new") =>
          HasBuckets /\ HasColumns
    /\ server # None => HasBuckets /\ HasColumns

\* Processes that start together race for the buckets, and the losers exit; each
\* worker that is configured is up in the end and stays up, while an API that
\* lost stays down.
WorkersRun ==
    \A w \in Worker \cap Configured : <>[](at[w] = "up")

ServiceInv ==
    /\ TypeOK /\ StartInv /\ RequestInv /\ WorkIsPrepared
    /\ server = None <=> stage = "idle"
    /\ server # None => at[server] = "up"
==============================================================================
