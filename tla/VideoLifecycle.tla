---------------------------- MODULE VideoLifecycle ----------------------------
(***************************************************************************)
(* What a client that polls GET /videos/{id} can rely on about a video,    *)
(* whatever handlers and workers do and however they fail.                 *)
(***************************************************************************)
EXTENDS Naturals

CONSTANT Video

VARIABLES status,    \* "absent", or the status the API reports
          playback   \* the run whose stream and key the API offers (0: none)

vars == <<status, playback>>

Init ==
    /\ status = [v \in Video |-> "absent"]
    /\ playback = [v \in Video |-> 0]

\* Nothing happens to a video until its upload was marked complete.
Completed(v) == status[v] \notin {"absent", "pending"}

Becomes(v, s) == status' = [status EXCEPT ![v] = s]

Created(v) ==
    /\ status[v] = "absent"
    /\ Becomes(v, "pending")
    /\ UNCHANGED playback

\* An upload can be marked complete at any time, and again.
Uploaded(v) ==
    /\ status[v] # "absent"
    /\ Becomes(v, "uploaded")
    /\ UNCHANGED playback

Processing(v) ==
    /\ Completed(v)
    /\ Becomes(v, "processing")
    /\ UNCHANGED playback

Failed(v) ==
    /\ Completed(v)
    /\ Becomes(v, "failed")
    /\ UNCHANGED playback

\* The stream and the key change in the very step that makes the video ready,
\* and to those of a run that has not just been published.
Ready(v) ==
    /\ Completed(v)
    /\ Becomes(v, "ready")
    /\ playback'[v] \notin {0, playback[v]}
    /\ playback' = [playback EXCEPT ![v] = playback'[v]]

Next ==
    \E v \in Video :
        Created(v) \/ Uploaded(v) \/ Processing(v) \/ Failed(v) \/ Ready(v)

Spec == Init /\ [][Next]_vars
===============================================================================
