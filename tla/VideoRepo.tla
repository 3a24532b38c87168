------------------------------ MODULE VideoRepo ------------------------------
(***************************************************************************)
(* The videos table (internal/repository/video/video.go).  Of a row the    *)
(* model keeps the status and the playback columns.  SetPlayback writes    *)
(* master_key, thumbnail_key, storyboard_key, enc_key_hex and duration in  *)
(* one UPDATE, all from one run of the pipeline, so one value stands for   *)
(* the five of them: the stream entry whose run produced them, 0 while     *)
(* they are empty.  Rows are never deleted.                                *)
(***************************************************************************)
EXTENDS Naturals

CONSTANT Video       \* the ids uuid.New can return

VARIABLES status,    \* the status column; "absent": there is no row
          playback   \* whose artifacts the playback columns name

repoVars == <<status, playback>>

Absent == "absent"
Status == {"pending", "uploaded", "processing", "ready", "failed"}

NoPlayback == 0

RepoTypeOK ==
    /\ status \in [Video -> Status \cup {Absent}]
    /\ playback \in [Video -> Nat]

RepoInit ==
    /\ status = [v \in Video |-> Absent]
    /\ playback = [v \in Video |-> NoPlayback]

\* INSERT of a new row: pending, and no playback columns.
Create(v) ==
    /\ status[v] = Absent
    /\ status' = [status EXCEPT ![v] = "pending"]
    /\ UNCHANGED playback

\* [variant] The UPDATE without a Column list writes the empty playback fields
\* of the model too.
UpdateAllColumns(v, s) ==
    /\ status' = [status EXCEPT ![v] = IF @ = Absent THEN @ ELSE s]
    /\ playback' = [playback EXCEPT ![v] = NoPlayback]

\* [variant] The UPDATE without WherePK writes every row.
UpdateEveryRow(v, s) ==
    /\ status' = [u \in Video |-> IF status[u] = Absent THEN Absent ELSE s]
    /\ UNCHANGED playback

\* UPDATE of status alone, whatever it was: no transition is refused.
UpdateStatus(v, s) ==
    /\ status' = [status EXCEPT ![v] = IF @ = Absent THEN @ ELSE s]
    /\ UNCHANGED playback

\* UPDATE of status and the playback columns together.
SetPlayback(v, s, k) ==
    /\ status' = [status EXCEPT ![v] = IF @ = Absent THEN @ ELSE s]
    /\ playback' = [playback EXCEPT ![v] = IF status[v] = Absent THEN @ ELSE k]

\* The row the key endpoint and the API representation read: a key is served,
\* and playback URLs are shown, for the run the playback columns name; with
\* empty columns the endpoint answers 404 and the URLs are left out.
GetVideoKey(v) == IF status[v] = Absent THEN NoPlayback ELSE playback[v]
==============================================================================
