-------------------------------- MODULE Startup --------------------------------
(***************************************************************************)
(* The start of API and worker processes (main.go, cmd/worker/main.go):    *)
(* configuration, connections, the two buckets, and the migration of the   *)
(* videos table, which only the API runs.  Processes start at any time and *)
(* at once; a call that fails ends its process.  Docker starts a worker    *)
(* again (docker-compose.yml:90); nobody starts the API again.             *)
(*                                                                         *)
(* A call whose error follows its effect is that call and then an Exit.    *)
(***************************************************************************)
EXTENDS Naturals, Sequences

CONSTANTS
    Api, Worker,    \* processes
    Configured,     \* those whose environment has all that validate asks for
    MaxExits        \* bound: failing calls and crashes

Process == Api \cup Worker
Buckets == <<"videos", "streams">>
Columns == 1..5     \* the playback columns, in the order of addColumns
Absent == {0}       \* no table

ASSUME StartupAssumption ==
    /\ Api \cap Worker = {}
    /\ Configured \subseteq Process
    /\ MaxExits \in Nat

VARIABLES
    at,        \* where main is in each process
    next,      \* the bucket or the statement of the migration it is at
    buckets,   \* the buckets there are
    table,     \* the playback columns of the table
    exits

startVars == <<at, next, buckets, table, exits>>

Running == {"config", "postgres", "redis", "check", "make", "migrate", "up"}

StartTypeOK ==
    /\ at \in [Process -> Running \cup {"down", "exited"}]
    /\ next \in [Process -> 0..5]
    /\ buckets \in SUBSET {"videos", "streams"}
    /\ table \in (SUBSET Columns) \cup {Absent}
    /\ exits \in Nat

\* A first start, or one on the table of an earlier version, migrated in part if
\* an earlier migration broke off.
StartInit ==
    /\ at = [p \in Process |-> "down"]
    /\ next = [p \in Process |-> 0]
    /\ buckets = {}
    /\ table \in {Absent} \cup {1..n : n \in {0} \cup Columns}
    /\ exits = 0

Goto(p, l, n) ==
    /\ at' = [at EXCEPT ![p] = l]
    /\ next' = [next EXCEPT ![p] = n]

\* os.Exit(1), and what becomes of the process then.
Exit(p) == Goto(p, IF p \in Worker THEN "down" ELSE "exited", 0)

Launch(p) ==
    /\ at[p] = "down"
    /\ Goto(p, "config", 0)
    /\ UNCHANGED <<buckets, table, exits>>

\* config.Load
LoadConfig(p) ==
    /\ at[p] = "config"
    /\ IF p \in Configured THEN Goto(p, "postgres", 0) ELSE Exit(p)
    /\ UNCHANGED <<buckets, table, exits>>

\* postgres.New, redis.New: the ping is answered.
Connect(p) ==
    /\ \/ at[p] = "postgres" /\ Goto(p, "redis", 0)
       \/ at[p] = "redis" /\ Goto(p, "check", 1)
    /\ UNCHANGED <<buckets, table, exits>>

\* [variant] Only the raw bucket is ensured; that of the streams is left to
\* minio-init.
OnlyRawBucket(p) == IF p \in Api THEN Goto(p, "migrate", 0) ELSE Goto(p, "up", 0)

\* ensureBucket has what it wants; the API migrates after the last one.
BucketDone(p) ==
    IF next[p] < Len(Buckets) THEN Goto(p, "check", next[p] + 1)
    ELSE IF p \in Api THEN Goto(p, "migrate", 0) ELSE Goto(p, "up", 0)

\* [variant] The bucket is made without a look whether it exists.
SkipBucketCheck(p) ==
    /\ at[p] = "check"
    /\ Goto(p, "make", next[p])
    /\ UNCHANGED <<buckets, table, exits>>

\* ensureBucket asks whether the bucket exists...
CheckBucket(p) ==
    /\ at[p] = "check"
    /\ IF Buckets[next[p]] \in buckets THEN BucketDone(p)
                                       ELSE Goto(p, "make", next[p])
    /\ UNCHANGED <<buckets, table, exits>>

\* ...and makes it, an error if another process has made it since.
MakeBucket(p) ==
    /\ at[p] = "make"
    /\ IF Buckets[next[p]] \in buckets THEN Exit(p) ELSE BucketDone(p)
    /\ buckets' = buckets \cup {Buckets[next[p]]}
    /\ UNCHANGED <<table, exits>>

\* The minio-init container makes what is missing.
MinioInit ==
    /\ \E n \in DOMAIN Buckets : buckets' = buckets \cup {Buckets[n]}
    /\ buckets' # buckets
    /\ UNCHANGED <<at, next, table, exits>>

\* [variant] Without addColumns: IfNotExists leaves an old table as it is.
MigrateTableOnly(p) ==
    /\ at[p] = "migrate"
    /\ table' = IF table = Absent THEN Columns ELSE table
    /\ Goto(p, "up", 0)
    /\ UNCHANGED <<buckets, exits>>

\* Migrate, a statement at a time and in no transaction: CREATE TABLE IF NOT
\* EXISTS with all columns, then ADD COLUMN IF NOT EXISTS for each.
Migrate(p) ==
    /\ at[p] = "migrate"
    /\ table' = IF next[p] # 0 THEN table \cup {next[p]}
                ELSE IF table = Absent THEN Columns ELSE table
    /\ IF next[p] = 5 THEN Goto(p, "up", 0) ELSE Goto(p, "migrate", next[p] + 1)
    /\ UNCHANGED <<buckets, exits>>

\* A call returns an error, or the process dies.
Dies(p) ==
    /\ exits < MaxExits
    /\ at[p] \in Running
    /\ exits' = exits + 1
    /\ Exit(p)
    /\ UNCHANGED <<buckets, table>>

MainStep(p) ==
    Launch(p) \/ LoadConfig(p) \/ Connect(p) \/ CheckBucket(p) \/ MakeBucket(p)
        \/ Migrate(p)
------------------------------------------------------------------------------
HasBuckets == \A n \in DOMAIN Buckets : Buckets[n] \in buckets
HasColumns == table = Columns

\* Whatever raced or died before, a process that is up finds both buckets, and
\* behind a serving API the table has every column a row is written with.
UpIsPrepared ==
    \A p \in Process : at[p] = "up" => HasBuckets /\ (p \in Api => HasColumns)

\* What main has done so far, by where it is.
MainInv ==
    \A p \in Process :
        /\ at[p] \in {"check", "make"} =>
              next[p] \in {1, 2} /\ (next[p] = 2 => "videos" \in buckets)
        /\ at[p] = "migrate" =>
              /\ p \in Api /\ HasBuckets /\ next[p] \in 0..5
              /\ next[p] # 0 => table # Absent /\ 1..(next[p] - 1) \subseteq table

StartInv == StartTypeOK /\ MainInv /\ UpIsPrepared
==============================================================================
