------------------------------ MODULE JobQueue ------------------------------
(***************************************************************************)
(* What the transcode queue really promises its users: a destructive FIFO. *)
(* A job that has left the queue is in one pair of hands or in none, and   *)
(* nothing ever puts it back.  TranscodeStream implements this             *)
(* specification with a log, a cursor and a pending set.                   *)
(***************************************************************************)
EXTENDS Naturals, Sequences

CONSTANTS Job, Consumer,
          MaxCopies   \* what a retried append can leave at most

VARIABLES queue,    \* the jobs not handed out yet, oldest first
          hands     \* what each consumer has in hand: one job, or <<>>

vars == <<queue, hands>>

Init ==
    /\ queue = <<>>
    /\ hands = [c \in Consumer |-> <<>>]

\* A producer appends a job; a retried append may leave more copies of it.
Put(j, copies) ==
    /\ queue' = queue \o [i \in 1..copies |-> j]
    /\ UNCHANGED hands

\* The oldest job goes to an idle consumer.
Take(c) ==
    /\ queue # <<>>
    /\ hands[c] = <<>>
    /\ hands' = [hands EXCEPT ![c] = <<Head(queue)>>]
    /\ queue' = Tail(queue)

\* The oldest job leaves the queue and reaches nobody.
Lose ==
    /\ queue # <<>>
    /\ queue' = Tail(queue)
    /\ UNCHANGED hands

\* A consumer lets go of its job, finished or not.
Release(c) ==
    /\ hands[c] # <<>>
    /\ hands' = [hands EXCEPT ![c] = <<>>]
    /\ UNCHANGED queue

Next ==
    \/ \E j \in Job, copies \in 1..MaxCopies : Put(j, copies)
    \/ Lose
    \/ \E c \in Consumer : Take(c) \/ Release(c)

Spec == Init /\ [][Next]_vars
=============================================================================
