------------------------- MODULE MCTranscodeStream -------------------------
(***************************************************************************)
(* TranscodeStream on its own for TLC: producers and consumers act in any  *)
(* order until MaxEntries entries were appended.                           *)
(***************************************************************************)
EXTENDS TranscodeStream

CONSTANT MaxEntries

MCNext ==
    \/ \E j \in Job, copies \in 1..MaxSends :
          Len(stream) + copies <= MaxEntries /\ EnqueueTranscode(j, copies)
    \/ EnsureGroup
    \/ \E c \in Consumer : Read(c)
    \/ \E c \in Consumer : ReadLost(c)
    \/ \E c \in Consumer : Ack(c)
    \/ \E c \in Consumer : Drop(c)

MCSpec == StreamInit /\ [][MCNext]_streamVars

\* A worker creates the group, reads on for as long as it runs and, one way or
\* the other, is done with every job it reads.
MCFairSpec ==
    /\ MCSpec
    /\ WF_streamVars(EnsureGroup)
    /\ \A c \in Consumer : WF_streamVars(Read(c)) /\ WF_streamVars(Ack(c) \/ Drop(c))

\* redis.go:52-53 says the group gives "at-least-once delivery and
\* pending-entry tracking": an entry that was delivered but whose consumer let
\* go of it without an acknowledgement is delivered again.
AtLeastOnce ==
    \A e \in 1..MaxEntries : Stranded(e) ~> \E c \in Consumer : held[c] = e
=============================================================================
