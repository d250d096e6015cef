-------------------------- MODULE EventRegistration --------------------------
(***************************************************************************)
(* custom_components/bticino_c300x/events.py: how Home Assistant keeps the *)
(* agent's event subscription alive.  A registration object runs attempts  *)
(* (list, then create or delete) from its start, a retry timer, a renewal  *)
(* timer and an entity-registry timer; attempts overlap at every await.    *)
(* The agent keeps its subscription in RAM only.                           *)
(*                                                                         *)
(* Time is abstract: an armed timer fires at any moment.  A request that   *)
(* Home Assistant gave up (timeout, cancelled task) may still reach the    *)
(* agent.  Preparing the callback transport only adds calls that can fail, *)
(* so it is part of the list call.  Ids are opaque and only ever compared  *)
(* with the id of the subscription there is: a DELETE under way is for     *)
(* that subscription or for one that is gone.                              *)
(***************************************************************************)
EXTENDS Naturals, FiniteSets

CONSTANTS Task,       \* slots for overlapping attempts
          Filter,     \* nonempty sets of active events
          Nothing,    \* no event has an enabled consumer
          NoSub,      \* the agent has no subscription
          MaxOrphans, \* bound on armed timers whose cancel function was lost
          MaxLate     \* bound on given-up requests still under way

ASSUME RegistrationAssumption ==
    /\ IsFiniteSet(Filter) /\ Nothing \notin Filter /\ NoSub \notin Filter
    /\ MaxOrphans \in Nat /\ MaxLate \in Nat

VARIABLES
    stopped,    \* the entry is unloaded: _stopped of the last registration
    attempt,    \* the attempts under way
    retry,      \* _retry_cancel is armed
    renewal,    \* _renewal_cancel is armed
    refresh,    \* _registry_refresh_cancel is armed
    orphans,    \* armed timers that were overwritten by a later one
    state,      \* connection_state.connection_state
    available,  \* connection_state.available
    grace,      \* connection_state.expire_unavailable is armed
    want,       \* _active_events_for_capabilities, now
    sub,        \* the events of the agent's subscription for this webhook
    late,       \* requests given up that the agent may still serve
    reach,      \* the agent answers
    world       \* "faulty", or from some time on "calm" or "dead"

timers == <<retry, renewal, refresh, orphans>>
connection == <<state, available, grace>>
environment == <<want, reach, world>>
vars == <<stopped, attempt, timers, connection, environment, sub, late>>

Idle == [stage |-> "idle"]
Post(events) == [op |-> "post", events |-> events]
Delete == [op |-> "delete", id |-> "current"]
Outdated == [op |-> "delete", id |-> "gone"]
Request == {Post(events) : events \in Filter} \cup {Delete, Outdated}
Stage == {Idle, [stage |-> "url"], [stage |-> "extras"]}
         \cup [stage: {"list"}, events: Filter \cup {Nothing}]
         \cup [stage: {"call"}, request: Request]

TypeOK ==
    /\ stopped \in BOOLEAN
    /\ attempt \in [Task -> Stage]
    /\ retry \in BOOLEAN /\ renewal \in BOOLEAN /\ refresh \in BOOLEAN
    /\ orphans \in 0 .. MaxOrphans
    /\ state \in {"connected", "reconnecting", "disconnected"}
    /\ available \in BOOLEAN /\ grace \in BOOLEAN
    /\ want \in Filter \cup {Nothing}
    /\ sub \in Filter \cup {NoSub}
    /\ late \subseteq Request /\ Cardinality(late) <= MaxLate
    /\ reach \in BOOLEAN
    /\ world \in {"faulty", "calm", "dead"}

Running(t) == attempt[t] # Idle
Calls == {attempt[t].request : t \in {u \in Task : attempt[u].stage = "call"}}
Armed == retry \/ renewal \/ refresh \/ orphans > 0

\* start: the first attempt begins.
Started(a) == \E t \in Task : a = [[u \in Task |-> Idle] EXCEPT ![t] = [stage |-> "url"]]

Init ==
    /\ stopped = FALSE
    /\ Started(attempt)
    /\ retry = FALSE /\ renewal = FALSE /\ refresh = FALSE /\ orphans = 0
    /\ state = "connected" /\ available = TRUE /\ grace = FALSE
    /\ want \in Filter \cup {Nothing}
    /\ sub = NoSub
    /\ late = {}
    /\ reach \in BOOLEAN
    /\ world = "faulty"

-----------------------------------------------------------------------------
(* Beginning an attempt.                                                    *)

CancelTimers == retry' = FALSE /\ renewal' = FALSE /\ refresh' = FALSE

\* _begin_register_attempt: every timer is cancelled, no other attempt is.
BeginIn(t) ==
    /\ ~Running(t)
    /\ attempt' = [attempt EXCEPT ![t] = [stage |-> "url"]]
    /\ CancelTimers
    /\ UNCHANGED <<stopped, connection, environment, sub, late>>

TimerFires ==
    /\ ~stopped
    /\ retry \/ renewal \/ refresh
    /\ \E t \in Task : BeginIn(t)
    /\ UNCHANGED orphans

\* A timer whose cancel function was overwritten still runs _register.
OrphanFires ==
    /\ orphans > 0
    /\ orphans' = orphans - 1
    /\ IF stopped
       THEN UNCHANGED <<stopped, attempt, retry, renewal, refresh, connection, environment,
                        sub, late>>
       ELSE \E t \in Task : BeginIn(t)

-----------------------------------------------------------------------------
(* Ending one.                                                              *)

\* Arming a timer over one that is still armed loses the latter.
Lost(armed) == IF armed THEN 1 ELSE 0

\* _schedule_unavailable_expiry and mark_reconnecting.
Reconnecting ==
    /\ state' = IF available THEN "reconnecting" ELSE "disconnected"
    /\ grace' = TRUE
    /\ UNCHANGED available

\* mark_connected.
Connected == state' = "connected" /\ available' = TRUE /\ grace' = FALSE

RetryForgotten == retry' = retry /\ UNCHANGED orphans  \* variant: no _schedule_retry
ScheduleRetry ==
    /\ orphans + Lost(retry) <= MaxOrphans
    /\ orphans' = orphans + Lost(retry)
    /\ retry' = TRUE

\* A call given up may still be served by the agent, or not.
GivenUp(calls) ==
    late' \in {l \in SUBSET (late \cup calls) : late \subseteq l /\ Cardinality(l) <= MaxLate}

CallsOf(t) == IF attempt[t].stage = "call" THEN {attempt[t].request} ELSE {}

\* _handle_registration_failure.  The refreshes of the extras stage catch their
\* own errors.
Fail(t) ==
    /\ Running(t) /\ attempt[t].stage # "extras"
    /\ ~reach \/ (attempt[t].stage = "url" /\ world = "faulty")
    /\ attempt' = [attempt EXCEPT ![t] = Idle]
    /\ Reconnecting
    /\ ScheduleRetry
    /\ GivenUp(CallsOf(t))
    /\ UNCHANGED <<stopped, renewal, refresh, environment, sub>>

RenewalForgotten(events) == UNCHANGED <<renewal, orphans>>  \* variant
ScheduleRenewal(events) ==
    IF events = Nothing THEN UNCHANGED <<renewal, orphans>>
    ELSE /\ orphans + Lost(renewal) <= MaxOrphans
         /\ orphans' = orphans + Lost(renewal)
         /\ renewal' = TRUE

\* The rest of _register_once once the subscription is settled, up to the
\* refreshes of the runtime and of the diagnostics.
Settled(t, events) ==
    /\ attempt' = [attempt EXCEPT ![t] = [stage |-> "extras"]]
    /\ ScheduleRenewal(events)
    /\ Connected
    /\ UNCHANGED <<stopped, retry, refresh, environment>>

ExtrasDone(t) ==
    /\ attempt[t].stage = "extras"
    /\ attempt' = [attempt EXCEPT ![t] = Idle]
    /\ UNCHANGED <<stopped, timers, connection, environment, sub, late>>

-----------------------------------------------------------------------------
(* The steps of _register_once, one per await.                              *)

\* The callback URL is known: only now the active events are read.
UrlReady(t) ==
    /\ attempt[t].stage = "url"
    /\ attempt' = [attempt EXCEPT ![t] = [stage |-> "list", events |-> want]]
    /\ UNCHANGED <<stopped, timers, connection, environment, sub, late>>

\* _ensure_subscription and _remove_inactive_subscriptions: what is left to
\* ask of the agent, given the list it returned.
NextCall(events) ==
    IF events = Nothing
    THEN IF sub = NoSub THEN {} ELSE {Delete}
    ELSE IF sub = events THEN {} ELSE {Post(events)}

ListAnswered(t) ==
    /\ attempt[t].stage = "list"
    /\ reach
    /\ NextCall(attempt[t].events) = {}
    /\ Settled(t, attempt[t].events)
    /\ UNCHANGED <<sub, late>>

CallNeeded(t) ==
    /\ attempt[t].stage = "list"
    /\ reach
    /\ \E r \in NextCall(attempt[t].events) :
          attempt' = [attempt EXCEPT ![t] = [stage |-> "call", request |-> r]]
    /\ UNCHANGED <<stopped, timers, connection, environment, sub, late>>

\* Once the subscription is gone a DELETE under way is for an id of the past.
Forget(r) == IF r = Delete THEN Outdated ELSE r
Forgotten(a) ==
    [t \in Task |-> IF a[t].stage = "call" THEN [a[t] EXCEPT !.request = Forget(@)] ELSE a[t]]

\* handle_subscriptions_post keeps the id, handle_subscription_delete ends it.
PostAnswered(t) ==
    /\ attempt[t].stage = "call" /\ attempt[t].request.op = "post"
    /\ reach
    /\ sub' = attempt[t].request.events
    /\ Settled(t, sub')
    /\ UNCHANGED late

DeleteAnswered(t) ==
    /\ attempt[t].stage = "call" /\ attempt[t].request = Delete
    /\ reach
    /\ sub' = NoSub
    /\ attempt' = Forgotten([attempt EXCEPT ![t] = [stage |-> "extras"]])
    /\ late' = {Forget(r) : r \in late}
    /\ Connected
    /\ UNCHANGED <<stopped, timers, environment>>

\* The agent answers 404 to the DELETE of an id it does not know.
DeleteRefused(t) ==
    /\ attempt[t].stage = "call" /\ attempt[t].request = Outdated
    /\ reach
    /\ attempt' = [attempt EXCEPT ![t] = Idle]
    /\ Reconnecting
    /\ ScheduleRetry
    /\ UNCHANGED <<stopped, renewal, refresh, environment, sub, late>>

\* The grace window ends: _expire.
GraceEnds ==
    /\ grace
    /\ grace' = FALSE
    /\ available' = FALSE
    /\ state' = "disconnected"
    /\ UNCHANGED <<stopped, attempt, timers, environment, sub, late>>

-----------------------------------------------------------------------------
(* What happens around it.                                                  *)

\* An entity is enabled, disabled or renamed: _schedule_registry_refresh.
RegistryChanges ==
    /\ world = "faulty"
    /\ want' \in Filter \cup {Nothing}
    /\ refresh' = ~stopped
    /\ UNCHANGED <<stopped, attempt, retry, renewal, orphans, connection, reach, world, sub, late>>

Cancelled == [u \in Task |-> Idle]

\* unregister, when the entry is unloaded.
Unregister ==
    /\ ~stopped
    /\ stopped' = TRUE
    /\ attempt' = Cancelled
    /\ CancelTimers
    /\ GivenUp(Calls)
    /\ UNCHANGED <<orphans, connection, environment, sub>>

\* async_request_agent_event_registration: the agent was discovered again, the
\* old object is unregistered and a new one starts.
Rediscovered ==
    /\ world = "faulty"
    /\ ~stopped
    /\ Started(attempt')
    /\ CancelTimers /\ orphans' = 0
    /\ GivenUp(Calls)
    /\ UNCHANGED <<stopped, connection, environment, sub>>

LinkChanges ==
    /\ world = "faulty"
    /\ reach' = ~reach
    /\ UNCHANGED <<stopped, attempt, timers, connection, want, world, sub, late>>

\* The agent process restarts: the subscription was in RAM.
AgentRestart ==
    /\ ~reach /\ world = "faulty"
    /\ sub # NoSub
    /\ sub' = NoSub
    /\ attempt' = Forgotten(attempt)
    /\ late' = {Forget(r) : r \in late}
    /\ UNCHANGED <<stopped, timers, connection, environment>>

LatePost ==
    /\ reach
    /\ \E r \in late : r.op = "post" /\ sub' = r.events /\ late' = late \ {r}
    /\ UNCHANGED <<stopped, attempt, timers, connection, environment>>

LateDelete ==
    /\ reach
    /\ Delete \in late
    /\ sub' = NoSub
    /\ attempt' = Forgotten(attempt)
    /\ late' = {Forget(r) : r \in late \ {Delete}}
    /\ UNCHANGED <<stopped, timers, connection, environment>>

\* From now on the agent is there and nothing changes, or it is gone for good.
WorldSettles ==
    /\ world = "faulty"
    /\ world' \in {"calm", "dead"}
    /\ reach' = (world' = "calm")
    /\ UNCHANGED <<stopped, attempt, timers, connection, want, sub, late>>

AttemptStep(t) == UrlReady(t) \/ ListAnswered(t) \/ CallNeeded(t) \/ PostAnswered(t)
                  \/ DeleteAnswered(t) \/ DeleteRefused(t) \/ ExtrasDone(t) \/ Fail(t)

Next ==
    \/ \E t \in Task : AttemptStep(t)
    \/ TimerFires \/ OrphanFires \/ GraceEnds
    \/ RegistryChanges \/ Unregister \/ Rediscovered
    \/ LinkChanges \/ AgentRestart \/ LatePost \/ LateDelete \/ WorldSettles

Spec == Init /\ [][Next]_vars

\* Every call has a timeout, every armed timer fires; what was given up either
\* arrives in the end or not at all.
FairSpec ==
    /\ Spec
    /\ \A t \in Task : WF_vars(AttemptStep(t))
    /\ WF_vars(TimerFires) /\ WF_vars(OrphanFires) /\ WF_vars(GraceEnds)

-----------------------------------------------------------------------------
(* Correctness.                                                             *)

\* A registration is never left without a next attempt: when none runs, a timer
\* is armed, unless there was nothing to register (then a change of the entity
\* registry arms one).
NeverSilent ==
    (~stopped /\ \A t \in Task : ~Running(t)) => (Armed \/ want = Nothing)

\* After unregister no attempt goes on or begins, whichever timer or task it
\* came from.
StoppedIsIdle == stopped => \A t \in Task : ~Running(t)

\* While the connection is not shown as connected, the grace window is running
\* or has ended: an outage cannot be hidden for ever, and a connected agent has
\* no timer left that would mark it unavailable.
GraceMatchesState == state # "connected" <=> (grace \/ ~available)

\* When the agent is back and nothing changes any more, the agent ends up with
\* exactly the events wanted and Home Assistant shows it as available -
\* whatever attempts overlapped, whatever was lost, late or restarted before.
EventuallyServed ==
    <>[](world = "calm" /\ ~stopped /\ want # Nothing
            => sub = want /\ available)

\* An agent that is gone is eventually shown as unavailable.
OutageShown == <>[](world = "dead" /\ ~stopped /\ want # Nothing => ~available)

\* The three above and the types, in every state.
RegistrationSafe == TypeOK /\ NeverSilent /\ StoppedIsIdle /\ GraceMatchesState

\* In the end either the agent serves Home Assistant or its outage is shown.
ServedOrShown == EventuallyServed /\ OutageShown
=============================================================================
