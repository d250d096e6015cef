--------------------------- MODULE CallbackMailbox ---------------------------
(***************************************************************************)
(* What the callback queue of the native agent promises to its user, the   *)
(* main loop: a bounded mailbox.  Jobs are posted one at a time, in the    *)
(* order in which they were accepted; their results come back in the same  *)
(* order; a job that has been started is never recalled, one that has not  *)
(* can be discarded.  Threads, locks, the condition variable, the notify   *)
(* pipe and the counters of native_agent/src/callback_queue.c are absent:  *)
(* module CallbackQueue has them and implements this one.                  *)
(***************************************************************************)
EXTENDS Naturals, Sequences, FiniteSets

CONSTANTS Job,       \* heap blocks a job can be allocated in
          Capacity   \* C300X_CALLBACK_CAPACITY, at least one

VARIABLES fifo,      \* accepted jobs whose result has not been taken, oldest first
          finished,  \* how many jobs at the front of fifo have a result
          busy,      \* the job behind the finished ones is being posted
          closed     \* the main loop gave the mailbox up

mailboxVars == <<fifo, finished, busy, closed>>

Jobs(s) == {s[i] : i \in DOMAIN s}

Init ==
    /\ fifo = <<>>
    /\ finished = 0
    /\ busy = FALSE
    /\ closed = FALSE

\* Jobs the poster has begun: nothing takes them back.
Started == finished + (IF busy THEN 1 ELSE 0)

Accept(j) ==
    /\ ~closed
    /\ j \notin Jobs(fifo)
    /\ Len(fifo) < Capacity
    /\ fifo' = Append(fifo, j)
    /\ UNCHANGED <<finished, busy, closed>>

Begin ==
    /\ ~closed /\ ~busy
    /\ finished < Len(fifo)
    /\ busy' = TRUE
    /\ UNCHANGED <<fifo, finished, closed>>

Complete ==
    /\ busy
    /\ busy' = FALSE
    /\ IF closed THEN fifo' = <<>> /\ finished' = 0
                 ELSE fifo' = fifo /\ finished' = finished + 1
    /\ UNCHANGED closed

Collect ==
    /\ ~closed
    /\ finished > 0
    /\ fifo' = Tail(fifo)
    /\ finished' = finished - 1
    /\ UNCHANGED <<busy, closed>>

Discard ==
    /\ ~closed
    /\ fifo' = SubSeq(fifo, 1, Started)
    /\ UNCHANGED <<finished, busy, closed>>

Close ==
    /\ ~closed
    /\ closed' = TRUE
    /\ fifo' = SubSeq(fifo, finished + 1, Started)
    /\ finished' = 0
    /\ UNCHANGED busy

Next == (\E j \in Job : Accept(j)) \/ Begin \/ Complete \/ Collect \/ Discard \/ Close

Spec == Init /\ [][Next]_mailboxVars

Fairness ==
    WF_mailboxVars(Begin) /\ WF_mailboxVars(Complete) /\ WF_mailboxVars(Collect)

FairSpec == Spec /\ Fairness
=============================================================================
