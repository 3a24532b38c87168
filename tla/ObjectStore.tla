----------------------------- MODULE ObjectStore -----------------------------
(***************************************************************************)
(* The two MinIO buckets (internal/repository/storage/minio.go).           *)
(*                                                                         *)
(* Raw bucket: whether a video's source is there, and whether a presigned  *)
(* PUT URL for it is out and still valid (15 minutes).                     *)
(*                                                                         *)
(* HLS bucket: the pipeline's output tree of a video lies under the prefix *)
(* <video id>/, always with the same object keys.  UploadHLSDir walks the  *)
(* tree in lexical order: the variant playlists and their encrypted        *)
(* segments ("360p.m3u8", "360p_000.ts", ...), then "master.m3u8", then    *)
(* "storyboard.jpg", "storyboard.vtt" and "thumbnail.jpg".  Objects are    *)
(* numbered in that order, and an object's content is the stream entry     *)
(* whose run wrote it, 0 while there is none.                              *)
(***************************************************************************)
EXTENDS Naturals

CONSTANTS Video,       \* the ids uuid.New can return
          NumFiles,    \* objects in an output tree
          Master       \* the position of master.m3u8 in the walk

VARIABLES putUrl,      \* videos with a presigned PUT URL out and valid
          raw,         \* videos whose source is in the raw bucket
          hls          \* the HLS bucket

storeVars == <<putUrl, raw, hls>>

File == 1..NumFiles
Media == 1..(Master - 1)     \* variant playlists and encrypted segments
NoObject == 0

StoreTypeOK ==
    /\ putUrl \in SUBSET Video
    /\ raw \in SUBSET Video
    /\ hls \in [Video -> [File -> Nat]]

StoreInit ==
    /\ putUrl = {}
    /\ raw = {}
    /\ hls = [v \in Video |-> [f \in File |-> NoObject]]

PresignedPutRaw(v) ==
    /\ putUrl' = putUrl \cup {v}
    /\ UNCHANGED <<raw, hls>>

\* The client PUTs the source to the presigned URL, once or again.
PutRaw(v) ==
    /\ v \in putUrl
    /\ raw' = raw \cup {v}
    /\ UNCHANGED <<putUrl, hls>>

\* presignExpiry has passed.
ExpireUrl(v) ==
    /\ v \in putUrl
    /\ putUrl' = putUrl \ {v}
    /\ UNCHANGED <<raw, hls>>

\* [variant] The object's key lacks the prefix: all videos share one tree.
PutHLSWithoutPrefix(v, f, k) ==
    /\ hls' = [u \in Video |-> [hls[u] EXCEPT ![f] = k]]
    /\ UNCHANGED <<putUrl, raw>>

\* One FPutObject of UploadHLSDir; it overwrites what was there.
PutHLS(v, f, k) ==
    /\ hls' = [hls EXCEPT ![v][f] = k]
    /\ UNCHANGED <<putUrl, raw>>
==============================================================================
