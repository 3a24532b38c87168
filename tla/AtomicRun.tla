------------------------------ MODULE AtomicRun ------------------------------
(***************************************************************************)
(* A run of Process as its caller may think of it: in one step it makes    *)
(* and puts the whole tree of one version of the source, one that was in   *)
(* the raw bucket while it ran, encrypted with a key of its own; or        *)
(* nothing comes of it.  Pipeline implements this specification stage by   *)
(* stage, over a directory in which crashes leave what they please.        *)
(***************************************************************************)
EXTENDS Naturals

CONSTANTS
    Worker,
    Tree,        \* per version of the source, the files made from it
    Encrypted    \* the files that are encrypted

VARIABLES
    source,      \* the version in the raw bucket (0: none)
    lastRun,     \* runs that began
    run,         \* the run each worker makes (0: none)
    since,       \* the version in the raw bucket when it began
    product      \* what it put: per file the run, the key and the version

vars == <<source, lastRun, run, since, product>>

Nothing == <<>>

Init ==
    /\ source = 0
    /\ lastRun = 0
    /\ run = [w \in Worker |-> 0]
    /\ since = [w \in Worker |-> 0]
    /\ product = [w \in Worker |-> Nothing]

\* The source is put, or replaced.
PutSource ==
    /\ source' = source + 1
    /\ UNCHANGED <<lastRun, run, since, product>>

Begin(w) ==
    /\ run[w] = 0
    /\ lastRun' = lastRun + 1
    /\ run' = [run EXCEPT ![w] = lastRun + 1]
    /\ since' = [since EXCEPT ![w] = source]
    /\ UNCHANGED <<source, product>>

\* The tree of version v, as run r makes it.
Whole(r, v) ==
    [f \in Tree[v] |-> [run |-> r, key |-> IF f \in Encrypted THEN r ELSE 0, ver |-> v]]

Produce(w) ==
    /\ run[w] # 0
    /\ product[w] = Nothing
    /\ \E v \in since[w]..source \ {0} :
          product' = [product EXCEPT ![w] = Whole(run[w], v)]
    /\ UNCHANGED <<source, lastRun, run, since>>

\* The run is over, whether it produced anything or not.
End(w) ==
    /\ run[w] # 0
    /\ run' = [run EXCEPT ![w] = 0]
    /\ since' = [since EXCEPT ![w] = 0]
    /\ product' = [product EXCEPT ![w] = Nothing]
    /\ UNCHANGED <<source, lastRun>>

Next == PutSource \/ \E w \in Worker : Begin(w) \/ Produce(w) \/ End(w)

Spec == Init /\ [][Next]_vars
==============================================================================
