--------------------------- MODULE TranscodeStream ---------------------------
(***************************************************************************)
(* The Redis stream "transcode:jobs" with its consumer group               *)
(* "transcoders" (internal/repository/redis/redis.go): Queue appends jobs, *)
(* every worker process is a Consumer of the group.                        *)
(*                                                                         *)
(* An entry's id is its position in the stream (the code never trims the   *)
(* stream); a job is what the entry carries, the video it is for.  The     *)
(* group keeps a cursor (last-delivered-id) and the pending entries list.  *)
(* XREADGROUP is always called with ">", so it moves the cursor; no code   *)
(* reads the pending list (no XAUTOCLAIM, no XREADGROUP from an id).  The  *)
(* consumer an entry is pending for is left out: nothing looks at it.      *)
(***************************************************************************)
EXTENDS Naturals, Sequences, FiniteSets

CONSTANTS Job,        \* what an entry can carry
          Consumer,   \* the consumers of the group
          MaxSends    \* how often go-redis sends one command at most

VARIABLES
    stream,          \* the entries ever appended
    group,           \* does the consumer group exist?
    lastDelivered,   \* the group's cursor: entries 1..lastDelivered were read
    pel,             \* the entries delivered and not acknowledged
    held             \* the *redis.Job a consumer has in hand (0: none)

streamVars == <<stream, group, lastDelivered, pel, held>>

NoEntry == 0

\* The entries that carry job j.
EntriesOf(j) == {e \in 1..Len(stream) : stream[e] = j}

StreamTypeOK ==
    /\ stream \in Seq(Job)
    /\ group \in BOOLEAN
    /\ lastDelivered \in Nat
    /\ pel \in SUBSET Nat
    /\ held \in [Consumer -> Nat]

StreamInit ==
    /\ stream = <<>>
    /\ group = FALSE
    /\ lastDelivered = 0
    /\ pel = {}
    /\ held = [c \in Consumer |-> NoEntry]
------------------------------------------------------------------------------
(* Queue *)

\* XADD.  When the reply is lost go-redis sends the command again, and the
\* server has appended a copy for each time it arrived.
EnqueueTranscode(j, copies) ==
    /\ stream' = stream \o [i \in 1..copies |-> j]
    /\ UNCHANGED <<group, lastDelivered, pel, held>>
------------------------------------------------------------------------------
(* Consumer *)

\* [variant] The group starts at "$": what was appended before is skipped.
EnsureGroupFromEnd ==
    /\ group' = TRUE
    /\ lastDelivered' = IF group THEN lastDelivered ELSE Len(stream)
    /\ UNCHANGED <<stream, pel, held>>

\* XGROUP CREATE ... 0 MKSTREAM; BUSYGROUP leaves an existing group alone.
EnsureGroup ==
    /\ group' = TRUE
    /\ lastDelivered' = IF group THEN lastDelivered ELSE 0
    /\ UNCHANGED <<stream, pel, held>>

\* [variant] XREADGROUP with NOACK: nothing becomes pending.
DeliverNoAck ==
    /\ group
    /\ lastDelivered < Len(stream)
    /\ lastDelivered' = lastDelivered + 1
    /\ UNCHANGED <<stream, group, pel>>

\* What XREADGROUP COUNT 1 ">" does in the server: the next entry, if there
\* is one, becomes delivered and pending.
Deliver ==
    /\ group
    /\ lastDelivered < Len(stream)
    /\ lastDelivered' = lastDelivered + 1
    /\ pel' = pel \cup {lastDelivered + 1}
    /\ UNCHANGED <<stream, group>>

\* [variant] Job.ID is filled with the entry's video id.
ReadWithoutId(c) ==
    /\ held[c] = NoEntry
    /\ Deliver
    /\ held' = [held EXCEPT ![c] = stream[lastDelivered + 1]]

\* Read returns the delivered entry.  With no new entry Read returns nil and
\* changes nothing.
Read(c) ==
    /\ held[c] = NoEntry
    /\ Deliver
    /\ held' = [held EXCEPT ![c] = lastDelivered + 1]

\* Read fails although the server delivered: the reply is lost, the caller
\* logs the error and reads on.
ReadLost(c) ==
    /\ held[c] = NoEntry
    /\ Deliver
    /\ UNCHANGED held

\* XACK, the last thing a consumer does with its job.
Ack(c) ==
    /\ held[c] # NoEntry
    /\ pel' = pel \ {held[c]}
    /\ held' = [held EXCEPT ![c] = NoEntry]
    /\ UNCHANGED <<stream, group, lastDelivered>>

\* [variant] A naive retry: the group's cursor is set back before the entry.
DropAndRewind(c) ==
    /\ held[c] # NoEntry
    /\ held' = [held EXCEPT ![c] = NoEntry]
    /\ lastDelivered' = held[c] - 1
    /\ UNCHANGED <<stream, group, pel>>

\* The consumer lets go of its job without an XACK reaching the server: it
\* returns early, the XACK fails, or the process dies.
Drop(c) ==
    /\ held[c] # NoEntry
    /\ held' = [held EXCEPT ![c] = NoEntry]
    /\ UNCHANGED <<stream, group, lastDelivered, pel>>
------------------------------------------------------------------------------
StreamNext ==
    \/ \E j \in Job, copies \in 1..MaxSends : EnqueueTranscode(j, copies)
    \/ EnsureGroup
    \/ \E c \in Consumer : Read(c) \/ ReadLost(c) \/ Ack(c) \/ Drop(c)

StreamSpec == StreamInit /\ [][StreamNext]_streamVars
------------------------------------------------------------------------------
(* Properties *)

\* What HeldInv rests on: the cursor stays inside the stream, only delivered entries are pending, and
\* before the group exists nothing was delivered (XGROUP CREATE starts at 0).
CursorInv ==
    /\ lastDelivered <= Len(stream)
    /\ pel \subseteq 1..lastDelivered
    /\ ~group => lastDelivered = 0

\* An entry in hand is still in the pending list, and in nobody else's hands:
\* the workers of the group never process the same entry twice at once.
HeldInv ==
    \A c \in Consumer : held[c] # NoEntry =>
        /\ held[c] \in pel
        /\ \A d \in Consumer : held[d] = held[c] => d = c

\* Consumer.Read only ever hands out entries past the cursor, and nothing sets
\* the cursor back: an entry that was delivered once is never delivered again,
\* acknowledged or not, nor after a restart that calls EnsureGroup again.
NeverRedelivered ==
    [][/\ lastDelivered' >= lastDelivered
       /\ \A c \in Consumer :
             held'[c] \notin {held[c], NoEntry} =>
                 held'[c] \in (lastDelivered + 1)..lastDelivered']_streamVars

\* An entry is stranded when it is pending and no consumer has it in hand.
Stranded(e) == e \in pel /\ \A c \in Consumer : held[c] # e

\* The log, the cursor and the pending list are a destructive FIFO.
Fifo == INSTANCE JobQueue
            WITH MaxCopies <- MaxSends,
                 queue <- SubSeq(stream, lastDelivered + 1, Len(stream)),
                 hands <- [c \in Consumer |->
                             IF held[c] = NoEntry THEN <<>>
                             ELSE <<stream[held[c]]>>]

ImplementsFifo == Fifo!Spec
==============================================================================
