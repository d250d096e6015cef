---------------------------- MODULE CallbackQueue ----------------------------
(***************************************************************************)
(* native_agent/src/callback_queue.c: the queue between the agent's main   *)
(* loop and the one detached worker thread that posts event callbacks.     *)
(*                                                                         *)
(* One action is one critical section of the queue's mutex, or one step    *)
(* outside it.  The worker tests its predicate and sleeps on the condition *)
(* variable in one critical section; a signal wakes it only while it       *)
(* sleeps.  Blocks of memory are explicit: Job is the set of heap blocks,  *)
(* allocated those in use, so that a leaked or twice-owned job is a state. *)
(***************************************************************************)
EXTENDS Integers, Sequences, FiniteSets

CONSTANTS Job,       \* heap blocks a struct c300x_callback_job can live in
          Capacity,  \* C300X_CALLBACK_CAPACITY
          NoJob,     \* the worker holds no job
          Outcome    \* what post() can leave in job->ok and job->error

ASSUME QueueAssumption ==
    /\ Capacity \in Nat \ {0}
    /\ NoJob \notin Job
    /\ "none" \notin Outcome

VARIABLES stopped,      \* queue->stopped
          outstanding,  \* queue->outstanding
          pending,      \* queue->pending[0 .. pending_count-1]
          done,         \* queue->done[0 .. done_count-1]
          notify,       \* bytes in the pipe the main loop polls
          worker,       \* where the worker thread is
          current,      \* the job the worker took off pending
          released,     \* the worker has freed the queue itself
          allocated,    \* blocks of Job allocated and not freed
          result,       \* outcome written in a job by post()
          main          \* the main loop: polling, or in apply_callback_results

queueVars == <<stopped, outstanding, pending, done, notify, worker, current,
               released, allocated, result, main>>

Jobs(s) == {s[i] : i \in DOMAIN s}

\* The job between pending and done, as a sequence of at most one job.
InFlight == IF current = NoJob THEN <<>> ELSE <<current>>

\* Every job the queue or its worker owns, in the order of acceptance.
Owned == done \o InFlight \o pending

QueueTypeOK ==
    /\ stopped \in BOOLEAN
    /\ outstanding \in Nat
    /\ pending \in Seq(Job)
    /\ done \in Seq(Job)
    /\ notify \in Nat
    /\ worker \in {"check", "waiting", "posting", "posted", "exited"}
    /\ current \in Job \cup {NoJob}
    /\ released \in BOOLEAN
    /\ allocated \in SUBSET Job
    /\ result \in [Job -> Outcome \cup {"none"}]
    /\ main \in {"loop", "drain"}

QueueInit ==
    /\ stopped = FALSE
    /\ outstanding = 0
    /\ pending = <<>>
    /\ done = <<>>
    /\ notify = 0
    /\ worker = "check"
    /\ current = NoJob
    /\ released = FALSE
    /\ allocated = {}
    /\ result = [j \in Job |-> "none"]
    /\ main = "loop"

\* pthread_cond_signal: lost unless the worker is asleep.
SignalForgotten == worker' = worker  \* variant: no pthread_cond_signal
Signal == worker' = IF worker = "waiting" THEN "check" ELSE worker

\* free(): what was in the blocks is gone.
Free(jobs) ==
    /\ allocated' = allocated \ jobs
    /\ result' = [j \in Job |-> IF j \in jobs THEN "none" ELSE result[j]]

-----------------------------------------------------------------------------
(* The main loop.  c300x_run closes the queue last: nothing submits, takes  *)
(* or discards once stopped is set.                                         *)

Full == outstanding = Capacity

IdleUnchecked == main = "loop"  \* variant: the queue is used after Close
Idle == main = "loop" /\ ~stopped

\* discard_pending_locked takes every pending job off the count.
Uncounted == outstanding - Len(pending)

ByteRead == notify - 1

ClosedJobs == Jobs(pending) \cup Jobs(done)

QueuedFirst(j) == <<j>> \o pending  \* variant: last in, first out
QueuedLast(j) == Append(pending, j)

\* c300x_callback_queue_submit, when it accepts: ownership moves to the queue.
\* The caller allocates the block with calloc just before.
Submit(j) ==
    /\ Idle
    /\ j \notin allocated
    /\ ~Full
    /\ pending' = QueuedLast(j)
    /\ outstanding' = outstanding + 1
    /\ allocated' = allocated \cup {j}
    /\ Signal
    /\ UNCHANGED <<stopped, done, notify, current, released, result, main>>

\* poll reports the pipe readable: apply_callback_results starts taking.
Wake ==
    /\ Idle
    /\ notify > 0
    /\ main' = "drain"
    /\ UNCHANGED <<stopped, outstanding, pending, done, notify, worker, current,
                   released, allocated, result>>

\* c300x_callback_queue_take with a result, which the caller uses and frees.
Take ==
    /\ main = "drain"
    /\ done # <<>>
    /\ done' = Tail(done)
    /\ outstanding' = outstanding - 1
    /\ notify' = ByteRead
    /\ Free({Head(done)})
    /\ UNCHANGED <<stopped, pending, worker, current, released, main>>

\* c300x_callback_queue_take returns NULL: the loop over results ends.
TakeNone ==
    /\ main = "drain"
    /\ done = <<>>
    /\ main' = "loop"
    /\ UNCHANGED <<stopped, outstanding, pending, done, notify, worker, current,
                   released, allocated, result>>

\* c300x_callback_queue_discard_pending.
DiscardPending ==
    /\ Idle
    /\ pending' = <<>>
    /\ outstanding' = Uncounted
    /\ Free(Jobs(pending))
    /\ UNCHANGED <<stopped, done, notify, worker, current, released, main>>

\* c300x_callback_queue_close: pending and finished jobs are freed, the pipe
\* and what is in it are gone, the worker is left to free the rest.
Close ==
    /\ Idle
    /\ stopped' = TRUE
    /\ pending' = <<>>
    /\ outstanding' = Uncounted
    /\ done' = <<>>
    /\ Free(ClosedJobs)
    /\ notify' = 0
    /\ Signal
    /\ UNCHANGED <<current, released, main>>

-----------------------------------------------------------------------------
(* The worker thread.                                                       *)

\* pthread_cond_wait: nothing to do, go to sleep releasing the lock.
WorkerWait ==
    /\ worker = "check"
    /\ ~stopped /\ pending = <<>>
    /\ worker' = "waiting"
    /\ UNCHANGED <<stopped, outstanding, pending, done, notify, current,
                   released, allocated, result, main>>

WorkerBegin ==
    /\ worker = "check"
    /\ ~stopped /\ pending # <<>>
    /\ current' = Head(pending)
    /\ pending' = Tail(pending)
    /\ worker' = "posting"
    /\ UNCHANGED <<stopped, outstanding, done, notify, released, allocated,
                   result, main>>

\* post(), without the lock: it writes the job's outcome.
WorkerPost(outcome) ==
    /\ worker = "posting"
    /\ result' = [result EXCEPT ![current] = outcome]
    /\ worker' = "posted"
    /\ UNCHANGED <<stopped, outstanding, pending, done, notify, current,
                   released, allocated, main>>

\* Back under the lock: hand the job to the main loop and write its byte, or
\* free it when the queue was closed during the post.
PostEnded == worker = "posted"

WorkerFinish ==
    /\ PostEnded
    /\ worker' = "check"
    /\ current' = NoJob
    /\ IF stopped
       THEN Free({current}) /\ UNCHANGED <<done, notify>>
       ELSE /\ done' = Append(done, current)
            /\ notify' = notify + 1
            /\ UNCHANGED <<allocated, result>>
    /\ UNCHANGED <<stopped, outstanding, pending, released, main>>

WorkerExit ==
    /\ worker = "check"
    /\ stopped
    /\ worker' = "exited"
    /\ released' = TRUE
    /\ UNCHANGED <<stopped, outstanding, pending, done, notify, current,
                   allocated, result, main>>

MainNext == (\E j \in Job : Submit(j)) \/ Wake \/ Take \/ TakeNone \/ DiscardPending \/ Close

WorkerNext == WorkerWait \/ WorkerBegin \/ (\E o \in Outcome : WorkerPost(o))
              \/ WorkerFinish \/ WorkerExit

QueueNext == MainNext \/ WorkerNext

QueueSpec == QueueInit /\ [][QueueNext]_queueVars

\* The worker is a thread of its own and every post has a timeout; the main
\* loop polls the pipe in every iteration and takes until nothing is left.
FairQueue == QueueSpec /\ WF_queueVars(WorkerNext) /\ WF_queueVars(Wake \/ Take \/ TakeNone)

-----------------------------------------------------------------------------
(* Correctness.                                                             *)

\* The counter that submit tests is exactly the number of jobs somewhere
\* between submit and take, over every interleaving of the worker with
\* submits, takes and discards: jobs being posted stay counted.
Accounting ==
    ~stopped => outstanding = Len(done) + Len(InFlight) + Len(pending)

\* Neither fixed array of C300X_CALLBACK_CAPACITY entries is overrun, nor can
\* it be when the job in flight is handed over.
ArraysFit == Len(pending) <= Capacity /\ Len(done) + Len(InFlight) <= Capacity

\* The pipe holds one byte per finished job, so the main loop's poll wakes
\* exactly while there is something to take.
NotifyMatchesDone == notify = Len(done)

\* Every allocated job has exactly one owner - pending, the worker, done - and
\* is reachable: discarding and closing leak nothing and free nothing twice.
Ownership ==
    /\ allocated = Jobs(Owned)
    /\ \A i, k \in DOMAIN Owned : Owned[i] = Owned[k] => i = k

\* The main loop only ever sees jobs whose outcome post() has written.
ResultsBeforeHandover ==
    /\ \A j \in Jobs(done) : result[j] # "none"
    /\ \A j \in Jobs(pending) : result[j] = "none"

\* The worker sleeps only while there is nothing to do: no wakeup is lost.
NoLostWakeup == worker = "waiting" => ~stopped /\ pending = <<>>

\* Once the worker has freed the queue nobody touches it again.
NoUseAfterRelease == [][~released]_queueVars

\* Every accepted job is taken by the main loop, discarded or freed by Close.
EveryJobResolved == \A j \in Job : j \in allocated ~> j \notin allocated

\* The queue implements the bounded mailbox.
Mailbox == INSTANCE CallbackMailbox WITH
    fifo <- Owned,
    finished <- Len(done),
    busy <- current # NoJob,
    closed <- stopped

\* What C300XCallbackQueue promises in every state and step: its counters and
\* arrays are true to the jobs, each job has one owner, the worker does not
\* sleep on work, and nobody touches the queue after it was freed.
QueueSafe == [](QueueTypeOK /\ Accounting /\ Ownership /\ NoLostWakeup) /\ NoUseAfterRelease
=============================================================================
