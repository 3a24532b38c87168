------------------------------- MODULE Overlap -------------------------------
(***************************************************************************)
(* ForgeVod with an observer that tells runs of one video that overlap     *)
(* from runs that follow each other.  Two runs encrypt with two keys and   *)
(* upload under one prefix; nothing in handle keeps them apart.  The       *)
(* observer is read by no action.                                          *)
(***************************************************************************)
EXTENDS ForgeVod

VARIABLE overlapped  \* videos whose last runs were under way at one time

observedVars == <<vars, overlapped>>

\* The worker is in Process, or about to publish its Result.
Producing(w) == pc[w] \in {"download", "transcode", "upload", "publish"}

Overlapping(v) ==
    \E w, x \in Worker :
        /\ w # x
        /\ Producing(w) /\ Vid(w) = v
        /\ Producing(x) /\ Vid(x) = v

\* In this step a run of the video begins.
Begins(v) == \E w \in Worker : ~Producing(w) /\ Producing(w)' /\ Vid(w) = v

\* A run that begins alone makes good for those before it.
Observe ==
    overlapped' = {v \in Video : \/ Overlapping(v)'
                                 \/ v \in overlapped /\ ~Begins(v)}

ObservedSpec ==
    /\ Init /\ overlapped = {}
    /\ [][Next /\ Observe]_observedVars

\* api/openapi.yaml:92-93 promises the key of the stream.  Without a second run
\* at the same time the promise is kept: a ready video is playable however many
\* jobs it has had, whatever the runs before the last one left half uploaded,
\* and wherever they broke off.
ReadyUnlessOverlapped ==
    \A v \in Video \ overlapped : status[v] = "ready" => Playable(v)
==============================================================================
