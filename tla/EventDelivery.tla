---------------------------- MODULE EventDelivery ----------------------------
(***************************************************************************)
(* Event delivery by the native agent (native_agent/src/http.c and         *)
(* system_metrics_monitor.c), on top of the callback queue: the one event  *)
(* subscription Home Assistant holds, the generation that tells its jobs   *)
(* from those of its predecessors, the dispatch of events to it, and the   *)
(* metrics monitor that repeats a sample until the subscriber has it.      *)
(*                                                                         *)
(* A handler of the main loop that dispatches several events is a list of  *)
(* calls still to make: the worker runs between any two of them.  Clocks   *)
(* and the network are abstract: an event may or may not be a duplicate    *)
(* within the de-duplication window, a sample may or may not be worth a    *)
(* delivery, the network may or may not be up when an event is dispatched. *)
(***************************************************************************)
EXTENDS CallbackQueue

CONSTANTS Callback,       \* callback URL and token of a subscriber
          Filter,         \* event filters subscribers ask for, nonempty
          Id,             \* opaque subscription ids; one may come back
          Metrics,        \* "system.metrics_changed"
          Doorbell,       \* "doorbell.pressed"
          Voicemail,      \* "answering_machine.messages_changed"
          Memos,          \* "memos.changed"
          NoSub,          \* there is no subscription
          MaxGeneration,  \* bound on callback_generation
          MaxSample       \* bound on the sample sequence

Event == {Metrics, Doorbell, Voicemail, Memos}

ASSUME DeliveryAssumption ==
    /\ \A f \in Filter : f # {} /\ f \subseteq Event
    /\ "ok" \in Outcome
    /\ Metrics \notin {Doorbell, Voicemail, Memos}
    /\ MaxGeneration \in Nat /\ MaxSample \in Nat \ {0}

VARIABLES
    sub,          \* runtime->subscriptions[0], or NoSub
    generation,   \* runtime->callback_generation
    job,          \* contents of the heap blocks of Job
    calls,        \* events the running handler has still to dispatch
    sample,       \* metrics.last.sample_sequence
    delivered,    \* metrics.last_delivered.sample_sequence, 0: none yet
    owed,         \* metrics.delivery_pending
    acks          \* history: samples in posts answered with success, this generation

deliveryVars == <<sub, generation, job, calls, sample, delivered, owed, acks>>
allVars == <<queueVars, deliveryVars>>

Subscription == [callback: Callback, events: Filter, id: Id, lastOk: BOOLEAN]

ASSUME NoSubAssumption == NoSub \notin Subscription

\* sample is the sequence number in a metrics job, 0 in any other.
Content == [callback: Callback, event: Event, id: Id,
            generation: 0 .. MaxGeneration, sample: 0 .. MaxSample]

DeliveryTypeOK ==
    /\ QueueTypeOK
    /\ sub \in Subscription \cup {NoSub}
    /\ generation \in 0 .. MaxGeneration
    /\ DOMAIN job = allocated /\ \A j \in DOMAIN job : job[j] \in Content
    /\ calls \in Seq(Event)
    /\ owed \in BOOLEAN
    /\ sample \in 1 .. MaxSample /\ delivered \in 0 .. MaxSample
    /\ acks \subseteq 0 .. MaxSample

\* c300x_run: the queue is created and the monitor takes its first sample.
DeliveryInit ==
    /\ QueueInit
    /\ sub = NoSub
    /\ generation = 0
    /\ job = <<>>
    /\ calls = <<>>
    /\ sample = 1
    /\ delivered = 0
    /\ owed = FALSE
    /\ acks = {}

\* subscription_matches_event, for the only subscription there is.
Matches(e) == sub # NoSub /\ e \in sub.events

\* The contents of the blocks still allocated after the step.
Kept == [k \in allocated' |-> job[k]]

\* The main loop is between two handlers.
Ready == Idle /\ calls = <<>>

-----------------------------------------------------------------------------
(* Dispatching.  A call of Metrics is system_metrics_dispatch_now, the only *)
(* source of that event: it marks the sample as owed and dispatches it.     *)

Calling(e) == Idle /\ calls # <<>> /\ e = Head(calls)

Owed(e) == owed \/ e = Metrics

\* dispatch_event_internal asks for fresh metrics after message events.
AfterDispatch(e) ==
    (IF e \in {Voicemail, Memos} THEN <<Metrics>> ELSE <<>>) \o Tail(calls)

\* Suppressed as a duplicate, or nobody subscribed to it.
DispatchNothing(e) ==
    /\ Calling(e)
    /\ e = Doorbell \/ ~Matches(e)
    /\ calls' = Tail(calls)
    /\ UNCHANGED <<queueVars, sub, generation, job, sample, delivered, owed, acks>>

\* Without a network the event is only noted, and no metrics follow.
DispatchOffline(e) ==
    /\ Calling(e) /\ Matches(e)
    /\ sub' = [sub EXCEPT !.lastOk = FALSE]
    /\ owed' = Owed(e)
    /\ calls' = Tail(calls)
    /\ UNCHANGED <<queueVars, generation, job, sample, delivered, acks>>

NewJob(e) == [callback |-> sub.callback, event |-> e, id |-> sub.id,
              generation |-> generation, sample |-> IF e = Metrics THEN sample ELSE 0]

\* queue_callback succeeds.
DispatchQueued(e, j) ==
    /\ Calling(e) /\ Matches(e)
    /\ Submit(j)
    /\ job' = [k \in allocated' |-> IF k = j THEN NewJob(e) ELSE job[k]]
    /\ owed' = Owed(e)
    /\ calls' = AfterDispatch(e)
    /\ UNCHANGED <<sub, generation, sample, delivered, acks>>

\* queue_callback finds the queue full.
DispatchRejected(e) ==
    /\ Calling(e) /\ Matches(e)
    /\ Full
    /\ sub' = [sub EXCEPT !.lastOk = FALSE]
    /\ owed' = Owed(e)
    /\ calls' = AfterDispatch(e)
    /\ UNCHANGED <<queueVars, generation, job, sample, delivered, acks>>

-----------------------------------------------------------------------------
(* Handlers that start calls.                                               *)

\* The device reports a ring or a changed message store.
DeviceEvent(e) ==
    /\ Ready
    /\ e # Metrics
    /\ calls' = <<e>>
    /\ UNCHANGED <<queueVars, sub, generation, job, sample, delivered, owed, acks>>

\* system_metrics_dispatch_if_due: a new sample; it is dispatched when one is
\* owed or none was ever delivered, and otherwise when it changed enough, the
\* heartbeat is due or the CPU is busy.
MonitorTick(due) ==
    /\ Ready
    /\ sample < MaxSample
    /\ sample' = sample + 1
    /\ (owed \/ delivered = 0) => due
    /\ calls' = IF due THEN <<Metrics>> ELSE <<>>
    /\ UNCHANGED <<queueVars, sub, generation, job, delivered, owed, acks>>

-----------------------------------------------------------------------------
(* Subscribing.                                                             *)

\* What a subscriber is sent at once: metrics, then the two message snapshots.
IfWanted(e, events) == IF e \in events THEN <<e>> ELSE <<>>
Snapshots(events) ==
    IfWanted(Metrics, events) \o IfWanted(Voicemail, events) \o IfWanted(Memos, events)

\* handle_subscriptions_post, an equal subscription: answered and refreshed.
SubscribeAgain ==
    /\ Ready
    /\ sub # NoSub
    /\ calls' = Snapshots(sub.events)
    /\ UNCHANGED <<queueVars, sub, generation, job, sample, delivered, owed, acks>>

NextGeneration == generation + 1

KeepPending == Idle /\ UNCHANGED queueVars  \* variant: old jobs stay queued
DropUncounted ==  \* variant: the jobs go, their places stay taken
    /\ Idle
    /\ pending' = <<>>
    /\ Free(Jobs(pending))
    /\ UNCHANGED <<stopped, outstanding, done, notify, worker, current, released, main>>
DropPending == DiscardPending

\* handle_subscriptions_post, a different one: it takes over the id, the jobs
\* of its predecessor are discarded and the one being posted becomes stale.
Subscribe(callback, events, id) ==
    /\ Ready
    /\ generation < MaxGeneration
    /\ IF sub = NoSub THEN TRUE
       ELSE id = sub.id /\ <<callback, events>> # <<sub.callback, sub.events>>
    /\ generation' = NextGeneration
    /\ DropPending
    /\ sub' = [callback |-> callback, events |-> events, id |-> id, lastOk |-> FALSE]
    /\ calls' = Snapshots(events)
    /\ acks' = {}
    /\ job' = Kept
    /\ UNCHANGED <<sample, delivered, owed>>

\* handle_subscription_delete, for the id of the subscription.
Unsubscribe ==
    /\ Ready
    /\ sub # NoSub
    /\ generation < MaxGeneration
    /\ generation' = NextGeneration
    /\ DropPending
    /\ sub' = NoSub
    /\ acks' = {}
    /\ job' = Kept
    /\ UNCHANGED <<calls, sample, delivered, owed>>

-----------------------------------------------------------------------------
(* Results.                                                                 *)

OwnIdOnly(j) == sub # NoSub /\ sub.id = job[j].id  \* variant: no generation test
Current(j) == OwnIdOnly(j) /\ job[j].generation = generation

\* c300x_system_metrics_monitor_delivered_sample: an older sample is ignored, a
\* newer one taken since keeps the delivery owed.
SampleDelivered(s) ==
    IF delivered # 0 /\ s < delivered
    THEN UNCHANGED <<delivered, owed>>
    ELSE delivered' = s /\ owed' = (s # sample)

\* apply_callback_results, for one job.
ApplyResult ==
    /\ Take
    /\ LET j == Head(done)
           ok == result[j] = "ok"
       IN  IF Current(j)
           THEN /\ sub' = [sub EXCEPT !.lastOk = ok]
                /\ IF ok /\ job[j].event = Metrics THEN SampleDelivered(job[j].sample)
                   ELSE UNCHANGED <<delivered, owed>>
           ELSE UNCHANGED <<sub, delivered, owed>>
    /\ job' = Kept
    /\ UNCHANGED <<generation, calls, sample, acks>>

\* The worker posts: an answered post reached the subscriber it was made for.
Post(outcome) ==
    /\ WorkerPost(outcome)
    /\ acks' = IF outcome = "ok" /\ job[current].generation = generation
               THEN acks \cup {job[current].sample} ELSE acks
    /\ UNCHANGED <<sub, generation, job, calls, sample, delivered, owed>>

\* The rest of the queue's steps, and the end of c300x_run.
QueueStep ==
    /\ WorkerWait \/ WorkerBegin \/ WorkerFinish \/ WorkerExit \/ (Ready /\ Wake) \/ TakeNone
       \/ (Ready /\ Close)
    /\ job' = Kept
    /\ UNCHANGED <<sub, generation, calls, sample, delivered, owed, acks>>

Dispatch ==
    \E e \in Event : \/ DispatchNothing(e) \/ DispatchOffline(e) \/ DispatchRejected(e)
                     \/ \E j \in Job : DispatchQueued(e, j)

DeliveryNext ==
    \/ Dispatch
    \/ \E e \in Event : DeviceEvent(e)
    \/ \E due \in BOOLEAN : MonitorTick(due)
    \/ SubscribeAgain
    \/ \E c \in Callback, f \in Filter, id \in Id : Subscribe(c, f, id)
    \/ Unsubscribe
    \/ ApplyResult
    \/ \E o \in Outcome : Post(o)
    \/ QueueStep

DeliverySpec == DeliveryInit /\ [][DeliveryNext]_allVars

-----------------------------------------------------------------------------
(* Correctness.                                                             *)

\* A success shown for the subscription is a post made for it since it was
\* registered: ids come back, so the late result of a predecessor with the
\* same id must not count ("ignores old completions", docs/native-agent.md).
StatusIsOwn == (sub # NoSub /\ sub.lastOk) => acks # {}

\* Between handlers, a metrics subscriber for whom nothing is owed has
\* acknowledged the last sample counted as delivered: replacing the subscriber,
\* a full queue, an outage or a late result never lose the debt.
MetricsNotForgotten ==
    (calls = <<>> /\ Matches(Metrics) /\ ~owed) => delivered \in acks

\* The worker begins a post only for the subscription of that moment: its
\* callback, an event of its filter.  Replacing or deleting it recalls all
\* jobs but the one already active.
PostsOnlyToSubscriber ==
    [][current' # current /\ current' # NoJob =>
          /\ sub # NoSub
          /\ job[current'].generation = generation
          /\ job[current'].callback = sub.callback
          /\ job[current'].event \in sub.events]_allVars

\* The composition drives the queue only through its operations: it implements
\* QueueSpec of the module it extends, which the runs check as a property.

\* In every state and step of the composition: what is shown as delivered was
\* acknowledged by this subscriber, no debt to it is lost, and no post is begun
\* for another one.
DeliveryTrue ==
    [](DeliveryTypeOK /\ StatusIsOwn /\ MetricsNotForgotten) /\ PostsOnlyToSubscriber
=============================================================================
