----------------------- MODULE TranscodeStreamProofs -----------------------
(***************************************************************************)
(* Proofs about the job stream, for any jobs and any consumers.            *)
(*                                                                         *)
(* Everything follows from StreamInv.  Its three parts need each other:    *)
(* HeldInv puts a held entry into the pending list, CursorInv the pending  *)
(* list below the cursor, so the entry that Read delivers next is in       *)
(* nobody's hands and was in nobody's hands before.                        *)
(***************************************************************************)
EXTENDS TranscodeStream, SequenceTheorems, TLAPS

StreamInv ==
    /\ StreamTypeOK
    /\ CursorInv
    /\ HeldInv

\* The invariant holds of an empty stream without a group.
LEMMA StreamInit_Inv == StreamInit => StreamInv
<1> SUFFICES ASSUME StreamInit PROVE StreamInv
  OBVIOUS
<1>1. stream \in Seq(Job) /\ Len(stream) = 0
  BY EmptySeq DEF StreamInit
<1>2. /\ group = FALSE
      /\ lastDelivered = 0
      /\ pel = {}
      /\ held = [c \in Consumer |-> NoEntry]
  BY DEF StreamInit
<1>3. StreamTypeOK
  BY <1>1, <1>2 DEF StreamTypeOK, NoEntry
<1>4. CursorInv /\ HeldInv
  BY <1>1, <1>2 DEF CursorInv, HeldInv
<1> QED
  BY <1>3, <1>4 DEF StreamInv

\* XADD, once or retried, only makes the stream longer.
LEMMA Enqueue_Inv ==
    ASSUME StreamInv, NEW j \in Job, NEW copies \in Nat, EnqueueTranscode(j, copies)
    PROVE  StreamInv'
<1> DEFINE t == [i \in 1..copies |-> j]
<1>1. /\ stream' \in Seq(Job)
      /\ Len(stream) <= Len(stream')
  <2>1. t \in Seq(Job)
    OBVIOUS
  <2>2. stream' = stream \o t /\ stream \in Seq(Job)
    BY DEF StreamInv, StreamTypeOK, EnqueueTranscode
  <2> HIDE DEF t
  <2> QED
    BY <2>1, <2>2, ConcatProperties, LenProperties
<1>2. UNCHANGED <<group, lastDelivered, pel, held>>
  BY DEF EnqueueTranscode
<1>3. StreamTypeOK'
  BY <1>1, <1>2 DEF StreamInv, StreamTypeOK
<1>4. CursorInv'
  BY <1>1, <1>2 DEF StreamInv, StreamTypeOK, CursorInv
<1>5. HeldInv'
  BY <1>2 DEF StreamInv, HeldInv
<1> QED
  BY <1>3, <1>4, <1>5 DEF StreamInv

\* XGROUP CREATE moves no cursor that matters: without a group it is at 0.
LEMMA EnsureGroup_Inv ==
    ASSUME StreamInv, EnsureGroup
    PROVE  StreamInv'
BY DEF StreamInv, StreamTypeOK, CursorInv, HeldInv, EnsureGroup

\* The entry XREADGROUP delivers is new to the pending list and to every hand.
LEMMA Deliver_Inv ==
    ASSUME StreamInv, Deliver
    PROVE  /\ CursorInv'
           /\ pel' \in SUBSET Nat
           /\ lastDelivered' \in Nat
           /\ \A c \in Consumer : held[c] # lastDelivered + 1
BY DEF StreamInv, StreamTypeOK, CursorInv, HeldInv, NoEntry, Deliver

LEMMA Read_Inv ==
    ASSUME StreamInv, NEW c \in Consumer, Read(c) \/ ReadLost(c)
    PROVE  StreamInv'
<1>1. Deliver
  BY DEF Read, ReadLost
<1>2. /\ CursorInv'
      /\ pel' \in SUBSET Nat
      /\ lastDelivered' \in Nat
      /\ \A d \in Consumer : held[d] # lastDelivered + 1
  BY <1>1, Deliver_Inv
<1>3. /\ pel \subseteq pel'
      /\ lastDelivered + 1 \in pel'
      /\ UNCHANGED <<stream, group>>
  BY <1>1 DEF Deliver
<1>4. \A d \in Consumer : held'[d] \in {held[d], lastDelivered + 1}
  BY DEF StreamInv, StreamTypeOK, Read, ReadLost
<1>5. held' \in [Consumer -> Nat]
  BY DEF StreamInv, StreamTypeOK, Read, ReadLost
<1>6. HeldInv'
  <2> SUFFICES ASSUME NEW d \in Consumer, held'[d] # NoEntry,
                      NEW e \in Consumer
               PROVE  /\ held'[d] \in pel'
                      /\ held'[e] = held'[d] => e = d
    BY DEF HeldInv
  <2>1. held'[d] \in pel'
    BY <1>3, <1>4 DEF StreamInv, HeldInv
  <2>2. held'[e] = held'[d] => e = d
    <3>1. CASE Read(c)
      BY <1>2, <3>1 DEF StreamInv, StreamTypeOK, HeldInv, Read
    <3>2. CASE ReadLost(c)
      BY <3>2 DEF StreamInv, HeldInv, ReadLost
    <3> QED BY <3>1, <3>2
  <2> QED BY <2>1, <2>2
<1> QED
  BY <1>2, <1>3, <1>5, <1>6 DEF StreamInv, StreamTypeOK

\* A consumer that lets go of its entry takes only that entry, which nobody
\* else holds, off the pending list.
LEMMA Release_Inv ==
    ASSUME StreamInv, NEW c \in Consumer, Ack(c) \/ Drop(c)
    PROVE  StreamInv'
<1>1. /\ UNCHANGED <<stream, group, lastDelivered>>
      /\ held' = [held EXCEPT ![c] = NoEntry]
      /\ pel' \subseteq pel
      /\ pel \ {held[c]} \subseteq pel'
  BY DEF Ack, Drop
<1>2. StreamTypeOK'
  BY <1>1 DEF StreamInv, StreamTypeOK, NoEntry
<1>3. CursorInv'
  BY <1>1 DEF StreamInv, CursorInv
<1>4. HeldInv'
  BY <1>1 DEF StreamInv, StreamTypeOK, HeldInv, NoEntry
<1> QED
  BY <1>2, <1>3, <1>4 DEF StreamInv

LEMMA StreamNext_Inv == StreamInv /\ [StreamNext]_streamVars => StreamInv'
<1> SUFFICES ASSUME StreamInv, [StreamNext]_streamVars
             PROVE  StreamInv'
  OBVIOUS
<1>1. CASE \E j \in Job, copies \in 1..MaxSends : EnqueueTranscode(j, copies)
  <2>1. 1..MaxSends \subseteq Nat
    OBVIOUS
  <2> QED
    BY <1>1, <2>1, Enqueue_Inv
<1>2. CASE EnsureGroup
  BY <1>2, EnsureGroup_Inv
<1>3. CASE \E c \in Consumer : Read(c) \/ ReadLost(c)
  BY <1>3, Read_Inv
<1>4. CASE \E c \in Consumer : Ack(c) \/ Drop(c)
  BY <1>4, Release_Inv
<1>5. CASE UNCHANGED streamVars
  BY <1>5 DEF StreamInv, StreamTypeOK, CursorInv, HeldInv, streamVars
<1> QED
  BY <1>1, <1>2, <1>3, <1>4, <1>5 DEF StreamNext

\* The state of Queue and Consumer is always well formed.
THEOREM StreamTypeCorrect == StreamSpec => []StreamTypeOK
<1>1. StreamInv => StreamTypeOK
  BY DEF StreamInv
<1> QED
  BY <1>1, StreamInit_Inv, StreamNext_Inv, PTL DEF StreamSpec

\* However many workers read the group, no two of them ever work on the same
\* entry, and what they work on is pending.
THEOREM HeldCorrect == StreamSpec => []HeldInv
<1>1. StreamInv => HeldInv
  BY DEF StreamInv
<1> QED
  BY <1>1, StreamInit_Inv, StreamNext_Inv, PTL DEF StreamSpec
------------------------------------------------------------------------------
\* What a step may hand out: entries between the old cursor and the new one.
FreshOnly ==
    /\ lastDelivered' >= lastDelivered
    /\ \A c \in Consumer :
          held'[c] \notin {held[c], NoEntry} =>
              held'[c] \in (lastDelivered + 1)..lastDelivered'

\* Only Read puts an entry into a hand, and only EnsureGroup and Deliver set the
\* cursor; EnsureGroup, when the cursor is still 0.
LEMMA Redelivery_Step ==
    ASSUME StreamInv, [StreamNext]_streamVars
    PROVE  FreshOnly
<1> USE DEF FreshOnly
<1>1. /\ lastDelivered \in Nat
      /\ held \in [Consumer -> Nat]
      /\ ~group => lastDelivered = 0
  BY DEF StreamInv, StreamTypeOK, CursorInv
<1>2. CASE \E j \in Job, copies \in 1..MaxSends : EnqueueTranscode(j, copies)
  BY <1>1, <1>2 DEF EnqueueTranscode
<1>3. CASE EnsureGroup
  BY <1>1, <1>3 DEF EnsureGroup
<1>4. CASE \E d \in Consumer : Read(d) \/ ReadLost(d)
  BY <1>1, <1>4 DEF Read, ReadLost, Deliver
<1>5. CASE \E d \in Consumer : Ack(d) \/ Drop(d)
  BY <1>1, <1>5 DEF Ack, Drop
<1>6. CASE UNCHANGED streamVars
  BY <1>1, <1>6 DEF streamVars
<1> QED
  BY <1>2, <1>3, <1>4, <1>5, <1>6 DEF StreamNext

\* No entry is handed out twice, acknowledged or not: delivery is at most once.
THEOREM NoRedelivery == StreamSpec => NeverRedelivered
<1>1. StreamInv /\ [StreamNext]_streamVars => [FreshOnly]_streamVars
  BY Redelivery_Step
<1> QED
  BY <1>1, StreamInit_Inv, StreamNext_Inv, PTL DEF StreamSpec, NeverRedelivered, FreshOnly
------------------------------------------------------------------------------
(* The stream implements the destructive FIFO of JobQueue *)

Waiting == SubSeq(stream, lastDelivered + 1, Len(stream))

InHand(c) == IF held[c] = NoEntry THEN <<>> ELSE <<stream[held[c]]>>

\* What is waiting is the stream past the cursor.
LEMMA SuffixProperties ==
    ASSUME NEW s \in Seq(Job), NEW d \in Nat, d <= Len(s)
    PROVE  LET q == SubSeq(s, d + 1, Len(s))
           IN  /\ q \in Seq(Job)
               /\ Len(q) = Len(s) - d
               /\ \A i \in 1 .. Len(s) - d : q[i] = s[d + i]
<1>1. Len(s) \in Nat
  BY LenProperties
<1>2. \A i \in d + 1 .. Len(s) : s[i] \in Job
  BY <1>1, ElementOfSeq
<1> DEFINE q == SubSeq(s, d + 1, Len(s))
<1>3. /\ q \in Seq(Job)
      /\ Len(q) = IF d + 1 <= Len(s) THEN Len(s) - (d + 1) + 1 ELSE 0
      /\ \A i \in 1 .. Len(s) - (d + 1) + 1 : q[i] = s[d + 1 + i - 1]
  BY <1>1, <1>2, SubSeqProperties
<1> HIDE DEF q
<1>4. /\ Len(q) = Len(s) - d
      /\ \A i \in 1 .. Len(s) - d : q[i] = s[d + i]
  BY <1>1, <1>3
<1> QED
  BY <1>3, <1>4 DEF q

\* What is appended to the stream is appended to what is waiting.
LEMMA SuffixOfConcat ==
    ASSUME NEW s \in Seq(Job), NEW t \in Seq(Job), NEW d \in Nat, d <= Len(s)
    PROVE  SubSeq(s \o t, d + 1, Len(s \o t)) = SubSeq(s, d + 1, Len(s)) \o t
<1> DEFINE st == s \o t
           q  == SubSeq(s, d + 1, Len(s))
           qt == q \o t
           r  == SubSeq(st, d + 1, Len(st))
<1>1. Len(s) \in Nat /\ Len(t) \in Nat
  BY LenProperties
<1>2. /\ st \in Seq(Job)
      /\ Len(st) = Len(s) + Len(t)
      /\ \A i \in 1 .. Len(s) + Len(t) :
            st[i] = IF i <= Len(s) THEN s[i] ELSE t[i - Len(s)]
  BY ConcatProperties
<1> HIDE DEF st
<1>3. /\ q \in Seq(Job)
      /\ Len(q) = Len(s) - d
      /\ \A i \in 1 .. Len(s) - d : q[i] = s[d + i]
  BY SuffixProperties
<1> HIDE DEF q
<1>4. /\ qt \in Seq(Job)
      /\ Len(qt) = Len(q) + Len(t)
      /\ \A i \in 1 .. Len(q) + Len(t) :
            qt[i] = IF i <= Len(q) THEN q[i] ELSE t[i - Len(q)]
  BY <1>3, ConcatProperties
<1> HIDE DEF qt
<1>5. d <= Len(st)
  BY <1>1, <1>2
<1>6. /\ r \in Seq(Job)
      /\ Len(r) = Len(st) - d
      /\ \A i \in 1 .. Len(st) - d : r[i] = st[d + i]
  BY <1>2, <1>5, SuffixProperties
<1> HIDE DEF r
<1>7. Len(r) = Len(qt)
  BY <1>1, <1>2, <1>3, <1>4, <1>6
<1>8. ASSUME NEW i \in 1 .. Len(r) PROVE r[i] = qt[i]
  <2>1. /\ i \in 1 .. Len(s) + Len(t) - d
        /\ d + i \in 1 .. Len(s) + Len(t)
        /\ r[i] = st[d + i]
    BY <1>1, <1>2, <1>6
  <2>2. CASE i <= Len(s) - d
    <3>1. r[i] = s[d + i]
      BY <1>1, <1>2, <2>1, <2>2
    <3>2. i \in 1 .. Len(s) - d /\ i \in 1 .. Len(q) + Len(t) /\ i <= Len(q)
      BY <1>1, <1>3, <2>1, <2>2
    <3>3. qt[i] = q[i]
      BY <1>4, <3>2
    <3>4. q[i] = s[d + i]
      BY <1>3, <3>2
    <3> QED BY <3>1, <3>3, <3>4
  <2>3. CASE ~(i <= Len(s) - d)
    <3>1. r[i] = t[d + i - Len(s)]
      BY <1>1, <1>2, <2>1, <2>3
    <3>2. i \in 1 .. Len(q) + Len(t) /\ ~(i <= Len(q))
      BY <1>1, <1>3, <2>1, <2>3
    <3>3. qt[i] = t[i - Len(q)]
      BY <1>4, <3>2
    <3>4. i - Len(q) = d + i - Len(s)
      BY <1>1, <1>3, <2>1
    <3> QED BY <3>1, <3>3, <3>4
  <2> QED BY <2>2, <2>3
<1>9. r = qt
  BY <1>4, <1>6, <1>7, <1>8, SeqEqual
<1> QED
  BY <1>9 DEF r, qt, q, st

\* The FIFO starts empty, and empty-handed.
LEMMA FifoInit == StreamInit => Fifo!Init
<1> SUFFICES ASSUME StreamInit PROVE Fifo!Init
  OBVIOUS
<1>1. stream = <<>> /\ lastDelivered = 0 /\ held = [c \in Consumer |-> NoEntry]
  BY DEF StreamInit
<1>2. Waiting = <<>>
  BY <1>1, EmptySeq, SubSeqEmpty DEF Waiting
<1>3. [c \in Consumer |-> InHand(c)] = [c \in Consumer |-> <<>>]
  BY <1>1 DEF InHand
<1> QED
  BY <1>2, <1>3 DEF Fifo!Init, Waiting, InHand

\* XADD is Put, of as many copies.
LEMMA FifoPut ==
    ASSUME StreamInv, NEW j \in Job, NEW n \in Nat, EnqueueTranscode(j, n)
    PROVE  Fifo!Put(j, n)
<1>1. stream' = stream \o [i \in 1..n |-> j]
  BY DEF EnqueueTranscode
<1> DEFINE t == [i \in 1..n |-> j]
<1>2. t \in Seq(Job)
  OBVIOUS
<1> HIDE DEF t
<1>3. /\ stream \in Seq(Job)
      /\ Len(stream) \in Nat
      /\ lastDelivered \in Nat
      /\ lastDelivered <= Len(stream)
      /\ pel \subseteq 1 .. lastDelivered
      /\ \A c \in Consumer : held[c] # NoEntry => held[c] \in pel
  BY LenProperties DEF StreamInv, StreamTypeOK, CursorInv, HeldInv
<1>4. stream' = stream \o t /\ UNCHANGED <<group, lastDelivered, pel, held>>
  BY <1>1 DEF t, EnqueueTranscode
<1>5. Waiting' = Waiting \o t
  <2>1. SubSeq(stream \o t, lastDelivered + 1, Len(stream \o t))
           = SubSeq(stream, lastDelivered + 1, Len(stream)) \o t
    BY <1>2, <1>3, SuffixOfConcat
  <2> QED BY <1>4, <2>1 DEF Waiting
<1>6. ASSUME NEW c \in Consumer PROVE InHand(c)' = InHand(c)
  <2>1. CASE held[c] = NoEntry
    BY <1>4, <2>1 DEF InHand
  <2>2. CASE held[c] # NoEntry
    <3>1. held[c] \in 1 .. Len(stream)
      <4>1. held[c] \in 1 .. lastDelivered
        BY <1>3, <2>2
      <4> QED BY <1>3, <4>1
    <3>2. (stream \o t)[held[c]] = stream[held[c]]
      <4>1. Len(t) \in Nat
        BY <1>2, LenProperties
      <4>2. held[c] \in 1 .. Len(stream) + Len(t) /\ held[c] <= Len(stream)
        BY <1>3, <3>1, <4>1
      <4> QED BY <1>2, <1>3, <4>2, ConcatProperties
    <3> QED BY <1>4, <3>2 DEF InHand
  <2> QED BY <2>1, <2>2
<1>7. [c \in Consumer |-> InHand(c)]' = [c \in Consumer |-> InHand(c)]
  BY <1>6
<1> QED
  BY <1>5, <1>7 DEF Fifo!Put, Waiting, InHand, t

\* Delivering an entry takes the oldest job off the queue.
LEMMA FifoHead ==
    ASSUME StreamInv, Deliver
    PROVE  /\ Waiting # <<>>
           /\ Head(Waiting) = stream[lastDelivered + 1]
           /\ Waiting' = Tail(Waiting)
<1>1. /\ stream \in Seq(Job)
      /\ Len(stream) \in Nat
      /\ lastDelivered \in Nat
      /\ lastDelivered < Len(stream)
      /\ lastDelivered' = lastDelivered + 1
      /\ stream' = stream
  BY LenProperties DEF StreamInv, StreamTypeOK, Deliver
<1>2. /\ lastDelivered + 1 \in 1 .. Len(stream)
      /\ Len(stream) \in lastDelivered + 1 .. Len(stream)
  BY <1>1
<1>3. /\ Head(Waiting) = stream[lastDelivered + 1]
      /\ Tail(Waiting) = SubSeq(stream, lastDelivered + 1 + 1, Len(stream))
  BY <1>1, <1>2, HeadTailOfSubSeq DEF Waiting
<1>4. Waiting' = SubSeq(stream, lastDelivered + 1 + 1, Len(stream))
  BY <1>1 DEF Waiting
<1>5. Waiting \in Seq(Job) /\ Len(Waiting) = Len(stream) - lastDelivered
  BY <1>1, SuffixProperties DEF Waiting
<1>6. Waiting # <<>>
  BY <1>1, <1>5, EmptySeq
<1> QED
  BY <1>3, <1>4, <1>6

\* A Read that returns the entry is Take; one whose reply is lost is Lose.
LEMMA FifoRead ==
    ASSUME StreamInv, NEW c \in Consumer
    PROVE  /\ Read(c) => Fifo!Take(c)
           /\ ReadLost(c) => Fifo!Lose
<1> DEFINE Hands == [d \in Consumer |-> InHand(d)]
<1>1. /\ held \in [Consumer -> Nat]
      /\ lastDelivered \in Nat
  BY DEF StreamInv, StreamTypeOK
<1>2. ASSUME Read(c) PROVE Fifo!Take(c)
  <2>1. /\ Waiting # <<>>
        /\ Head(Waiting) = stream[lastDelivered + 1]
        /\ Waiting' = Tail(Waiting)
    BY <1>2, FifoHead DEF Read
  <2>2. /\ held[c] = NoEntry
        /\ held' = [held EXCEPT ![c] = lastDelivered + 1]
        /\ stream' = stream
    BY <1>2 DEF Read, Deliver
  <2>3. Hands[c] = <<>>
    BY <2>2 DEF InHand
  <2>4. ASSUME NEW d \in Consumer
        PROVE  InHand(d)' = IF d = c THEN <<Head(Waiting)>> ELSE InHand(d)
    BY <1>1, <2>1, <2>2 DEF InHand, NoEntry
  <2>5. Hands' = [Hands EXCEPT ![c] = <<Head(Waiting)>>]
    BY <2>4
  <2> QED
    BY <2>1, <2>3, <2>5 DEF Fifo!Take, Waiting, InHand
<1>3. ASSUME ReadLost(c) PROVE Fifo!Lose
  <2>1. /\ Waiting # <<>>
        /\ Waiting' = Tail(Waiting)
    BY <1>3, FifoHead DEF ReadLost
  <2>2. Hands' = Hands
    BY <1>3 DEF ReadLost, Deliver, InHand
  <2> QED
    BY <2>1, <2>2 DEF Fifo!Lose, Waiting, InHand
<1> QED
  BY <1>2, <1>3

\* Acknowledged or not, a job that is let go is gone.
LEMMA FifoRelease ==
    ASSUME StreamInv, NEW c \in Consumer, Ack(c) \/ Drop(c)
    PROVE  Fifo!Release(c)
<1> DEFINE Hands == [d \in Consumer |-> InHand(d)]
<1>1. /\ held \in [Consumer -> Nat]
      /\ held[c] # NoEntry
      /\ held' = [held EXCEPT ![c] = NoEntry]
      /\ UNCHANGED <<stream, lastDelivered>>
  BY DEF StreamInv, StreamTypeOK, Ack, Drop
<1>2. Hands[c] # <<>>
  BY <1>1 DEF InHand
<1>3. ASSUME NEW d \in Consumer
      PROVE  InHand(d)' = IF d = c THEN <<>> ELSE InHand(d)
  BY <1>1 DEF InHand
<1>4. Hands' = [Hands EXCEPT ![c] = <<>>]
  BY <1>3
<1>5. Waiting' = Waiting
  BY <1>1 DEF Waiting
<1> QED
  BY <1>2, <1>4, <1>5 DEF Fifo!Release, Waiting, InHand

\* A step of the stream is a step of the FIFO, or none.
LEMMA FifoStep ==
    ASSUME StreamInv, [StreamNext]_streamVars
    PROVE  [Fifo!Next]_(Fifo!vars)
<1>1. CASE \E j \in Job, n \in 1..MaxSends : EnqueueTranscode(j, n)
  <2>1. 1..MaxSends \subseteq Nat
    OBVIOUS
  <2> QED
    BY <1>1, <2>1, FifoPut DEF Fifo!Next
<1>2. CASE EnsureGroup
  <2>1. UNCHANGED <<stream, lastDelivered, held>>
    BY <1>2 DEF EnsureGroup, StreamInv, CursorInv
  <2> QED BY <2>1 DEF Fifo!vars
<1>3. CASE \E c \in Consumer : Read(c) \/ ReadLost(c)
  BY <1>3, FifoRead DEF Fifo!Next
<1>4. CASE \E c \in Consumer : Ack(c) \/ Drop(c)
  BY <1>4, FifoRelease DEF Fifo!Next
<1>5. CASE UNCHANGED streamVars
  BY <1>5 DEF streamVars, Fifo!vars
<1> QED
  BY <1>1, <1>2, <1>3, <1>4, <1>5 DEF StreamNext

\* The log with its cursor and its pending list gives its users a destructive
\* FIFO and no more: what is let go without an acknowledgement is not put back.
THEOREM FifoCorrect == StreamSpec => ImplementsFifo
<1>1. StreamInv /\ [StreamNext]_streamVars => [Fifo!Next]_(Fifo!vars)
  BY FifoStep
<1> QED
  BY <1>1, FifoInit, StreamInit_Inv, StreamNext_Inv, PTL
     DEF StreamSpec, ImplementsFifo, Fifo!Spec
=============================================================================
