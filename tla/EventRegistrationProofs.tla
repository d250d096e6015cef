------------------------ MODULE EventRegistrationProofs ------------------------
(***************************************************************************)
(* Safety of the event registration for any number of overlapping          *)
(* attempts, any event sets and any bounds.  NeverSilent is not inductive: *)
(* an attempt that found nothing to register ends without a timer.  What   *)
(* is inductive is that, while something is wanted, a timer is armed or an *)
(* attempt runs that will arm one (Promise).                               *)
(***************************************************************************)
EXTENDS EventRegistration, FiniteSetTheorems, TLAPS

\* The attempt will arm a timer when it ends, whichever way.
WillArm(t) ==
    \/ attempt[t].stage = "url"
    \/ attempt[t].stage = "list" /\ attempt[t].events # Nothing
    \/ attempt[t].stage = "call" /\ attempt[t].request.op = "post"

Promise == ~stopped /\ want # Nothing => Armed \/ \E t \in Task : WillArm(t)

\* The types the argument needs.
Types ==
    /\ attempt \in [Task -> Stage]
    /\ orphans \in Nat
    /\ available \in BOOLEAN /\ grace \in BOOLEAN
    /\ retry \in BOOLEAN /\ renewal \in BOOLEAN /\ refresh \in BOOLEAN
    /\ want \in Filter \cup {Nothing}
    /\ late \subseteq Request

IInv == Types /\ Promise /\ StoppedIsIdle /\ GraceMatchesState

LEMMA StageShape ==
    ASSUME NEW a \in Stage
    PROVE  \/ a = Idle \/ a = [stage |-> "url"] \/ a = [stage |-> "extras"]
           \/ a.stage = "list" /\ a.events \in Filter \cup {Nothing}
           \/ a.stage = "call" /\ a.request \in Request
BY DEF Stage, Idle

LEMMA InitIInv == Init => IInv
<1>. SUFFICES ASSUME Init PROVE IInv
  OBVIOUS
<1>1. PICK t \in Task : attempt = [[u \in Task |-> Idle] EXCEPT ![t] = [stage |-> "url"]]
  BY DEF Init, Started
<1>2. Types
  BY <1>1 DEF Init, Types, Stage
<1>3. WillArm(t)
  BY <1>1 DEF WillArm
<1>. QED
  BY <1>2, <1>3 DEF Init, IInv, Promise, StoppedIsIdle, GraceMatchesState

-----------------------------------------------------------------------------
(* Every step preserves it.                                                 *)

\* Beginning an attempt cancels the timers but makes a promise of its own.
LEMMA BeginIInv ==
    ASSUME IInv, ~stopped, NEW t \in Task, BeginIn(t), orphans' \in Nat
    PROVE  IInv'
<1>. USE DEF IInv, BeginIn, CancelTimers, connection, environment
<1>1. [stage |-> "url"] \in Stage
  BY DEF Stage
<1>2. Types'
  BY <1>1 DEF Types
<1>3. WillArm(t)'
  BY DEF WillArm, Types
<1>4. Promise'
  BY <1>3 DEF Promise
<1>5. StoppedIsIdle' /\ GraceMatchesState'
  BY DEF StoppedIsIdle, GraceMatchesState
<1>. QED
  BY <1>2, <1>4, <1>5

\* An attempt that ends with its retry timer armed.
LEMMA RetryIInv ==
    ASSUME IInv, NEW t \in Task, Running(t),
           attempt' = [attempt EXCEPT ![t] = Idle], Reconnecting, ScheduleRetry,
           UNCHANGED <<stopped, renewal, refresh, environment>>,
           late' \subseteq Request
    PROVE  IInv'
<1>. USE DEF IInv, Reconnecting, ScheduleRetry, environment
<1>1. Types'
  BY DEF Types, Stage, Lost
<1>2. Promise'
  BY DEF Promise, Armed
<1>3. StoppedIsIdle' /\ GraceMatchesState'
  BY DEF StoppedIsIdle, GraceMatchesState, Running, Types
<1>. QED
  BY <1>1, <1>2, <1>3

\* An attempt that settles its subscription.
LEMMA SettledIInv ==
    ASSUME IInv, NEW t \in Task, Running(t), NEW events \in Filter \cup {Nothing},
           Settled(t, events), late' \subseteq Request,
           WillArm(t) => events # Nothing
    PROVE  IInv'
<1>. USE DEF IInv, Settled, Connected, environment
<1>1. ~stopped
  BY DEF StoppedIsIdle
<1>2. orphans' \in Nat /\ renewal' \in BOOLEAN /\ (renewal => renewal') /\ orphans' >= orphans
  <2>1. CASE events = Nothing
    BY <2>1 DEF Types, ScheduleRenewal
  <2>2. CASE events # Nothing
    <3>1. orphans \in Nat /\ Lost(renewal) \in Nat
      BY DEF Types, Lost
    <3>2. orphans' = orphans + Lost(renewal) /\ renewal' = TRUE
      BY <2>2 DEF ScheduleRenewal
    <3>. HIDE DEF IInv, Settled, Connected, environment
    <3>. QED
      BY <3>1, <3>2
  <2>. QED
    BY <2>1, <2>2
<1>3. Types'
  BY <1>2 DEF Types, Stage
<1>4. Promise'
  <2>1. CASE events # Nothing
    BY <2>1 DEF ScheduleRenewal, Promise, Armed
  <2>2. CASE events = Nothing
    <3>1. ~WillArm(t)
      BY <2>2
    <3>2. \A u \in Task : WillArm(u) => WillArm(u)'
      BY <3>1 DEF WillArm, Types
    <3>3. Armed => Armed'
      BY <1>2 DEF Armed, Types
    <3>. QED
      BY <3>2, <3>3 DEF Promise
  <2>. QED
    BY <2>1, <2>2
<1>5. StoppedIsIdle' /\ GraceMatchesState'
  BY <1>1 DEF StoppedIsIdle, GraceMatchesState
<1>. QED
  BY <1>3, <1>4, <1>5

\* Forgetting the id of a deleted subscription touches no promise.
LEMMA ForgottenKeeps ==
    ASSUME NEW a \in [Task -> Stage]
    PROVE  /\ Forgotten(a) \in [Task -> Stage]
           /\ \A t \in Task :
                /\ a[t].stage # "call" => Forgotten(a)[t] = a[t]
                /\ a[t].stage = "call" =>
                     /\ Forgotten(a)[t].stage = "call"
                     /\ Forgotten(a)[t].request = Forget(a[t].request)
<1>1. SUFFICES ASSUME NEW t \in Task
               PROVE  /\ Forgotten(a)[t] \in Stage
                      /\ a[t].stage # "call" => Forgotten(a)[t] = a[t]
                      /\ a[t].stage = "call" =>
                           /\ Forgotten(a)[t].stage = "call"
                           /\ Forgotten(a)[t].request = Forget(a[t].request)
  BY DEF Forgotten
<1>2. CASE a[t].stage # "call"
  BY <1>2 DEF Forgotten
<1>3. CASE a[t].stage = "call"
  <2>1. a[t] \in [stage: {"call"}, request: Request]
    BY <1>3 DEF Stage, Idle
  <2>2. Forget(a[t].request) \in Request
    BY <2>1 DEF Forget, Request
  <2>3. Forgotten(a)[t] = [a[t] EXCEPT !.request = Forget(@)]
    BY <1>3 DEF Forgotten
  <2>4. Forgotten(a)[t] \in [stage: {"call"}, request: Request]
    BY <2>1, <2>2, <2>3
  <2>. QED
    BY <1>3, <2>1, <2>3, <2>4 DEF Stage
<1>. QED
  BY <1>2, <1>3

LEMMA GivenUpRequests ==
    ASSUME late \subseteq Request, NEW calls \in SUBSET Request, GivenUp(calls)
    PROVE  late' \subseteq Request
BY DEF GivenUp

LEMMA CallsAreRequests ==
    ASSUME attempt \in [Task -> Stage]
    PROVE  Calls \subseteq Request /\ \A t \in Task : CallsOf(t) \subseteq Request
<1>1. ASSUME NEW t \in Task, attempt[t].stage = "call" PROVE attempt[t].request \in Request
  BY <1>1 DEF Stage, Idle
<1>. QED
  BY <1>1 DEF Calls, CallsOf

\* The steps of one attempt.
LEMMA AttemptIInv ==
    ASSUME IInv, NEW t \in Task, AttemptStep(t)
    PROVE  IInv'
<1>. USE DEF timers, connection, environment
<1>0. Types /\ (Running(t) => ~stopped)
  BY DEF IInv, StoppedIsIdle
<1>1. CASE UrlReady(t)
  <2>1. want \in Filter \cup {Nothing} /\ Running(t)
    BY <1>0, <1>1 DEF Types, UrlReady, Running, Idle
  <2>2. [stage |-> "list", events |-> want] \in Stage
    BY <2>1 DEF Stage
  <2>3. Types'
    BY <1>1, <1>0, <2>2 DEF UrlReady, Types
  <2>4. Promise'
    BY <1>1, <1>0 DEF UrlReady, Types, IInv, Promise, WillArm, Armed
  <2>5. StoppedIsIdle' /\ GraceMatchesState'
    BY <1>1, <1>0, <2>1 DEF UrlReady, IInv, StoppedIsIdle, GraceMatchesState
  <2>. QED
    BY <2>3, <2>4, <2>5 DEF IInv
<1>2. CASE ListAnswered(t)
  <2>1. Running(t) /\ attempt[t].events \in Filter \cup {Nothing}
    BY <1>0, <1>2 DEF Types, ListAnswered, Running, Idle, Stage
  <2>2. WillArm(t) => attempt[t].events # Nothing
    BY <1>2 DEF ListAnswered, WillArm
  <2>. QED
    BY <1>0, <1>2, <2>1, <2>2, SettledIInv DEF ListAnswered, Types
<1>3. CASE CallNeeded(t)
  <2>1. PICK r \in NextCall(attempt[t].events) :
           attempt' = [attempt EXCEPT ![t] = [stage |-> "call", request |-> r]]
    BY <1>3 DEF CallNeeded
  <2>2. Running(t) /\ attempt[t].events \in Filter \cup {Nothing}
    BY <1>0, <1>3 DEF Types, CallNeeded, Running, Idle, Stage
  <2>3. r \in Request /\ (attempt[t].events # Nothing => r.op = "post")
    BY <2>1, <2>2 DEF NextCall, Request, Post
  <2>4. [stage |-> "call", request |-> r] \in Stage
    BY <2>3 DEF Stage
  <2>5. Types'
    BY <1>0, <1>3, <2>1, <2>4 DEF CallNeeded, Types
  <2>6. \A u \in Task : WillArm(u) => WillArm(u)'
    BY <1>0, <1>3, <2>1, <2>3 DEF WillArm, Types, CallNeeded
  <2>7. Promise'
    BY <1>3, <2>6 DEF CallNeeded, IInv, Promise, Armed
  <2>8. StoppedIsIdle' /\ GraceMatchesState'
    BY <1>0, <1>3, <2>2 DEF CallNeeded, IInv, StoppedIsIdle, GraceMatchesState
  <2>. QED
    BY <2>5, <2>7, <2>8 DEF IInv
<1>4. CASE PostAnswered(t)
  <2>1. attempt[t].request \in Request /\ Running(t)
    BY <1>0, <1>4 DEF PostAnswered, Types, Stage, Idle, Running
  <2>2. attempt[t].request.events \in Filter
    BY <2>1, <1>4 DEF PostAnswered, Request, Post, Delete, Outdated
  <2>3. attempt[t].request.events # Nothing
    BY <2>2, RegistrationAssumption
  <2>4. Settled(t, attempt[t].request.events)
    BY <1>4 DEF PostAnswered
  <2>5. late' \subseteq Request
    BY <1>4, <1>0 DEF PostAnswered, Types
  <2>. QED
    BY <2>1, <2>2, <2>3, <2>4, <2>5, SettledIInv
<1>5. CASE DeleteAnswered(t)
  <2>. DEFINE a == [attempt EXCEPT ![t] = [stage |-> "extras"]]
  <2>1. a \in [Task -> Stage] /\ Running(t) /\ ~WillArm(t)
    BY <1>0, <1>5 DEF Types, DeleteAnswered, Stage, Running, Idle, WillArm, Delete
  <2>2. attempt' = Forgotten(a)
    BY <1>5 DEF DeleteAnswered
  <2>3. late' \subseteq Request
    BY <1>0, <1>5 DEF DeleteAnswered, Types, Forget, Request
  <2>4. Types'
    BY <1>0, <1>5, <2>1, <2>2, <2>3, ForgottenKeeps DEF DeleteAnswered, Types, Connected
  <2>5. ASSUME NEW u \in Task, WillArm(u) PROVE WillArm(u)'
    <3>1. u # t /\ a[u] = attempt[u]
      BY <1>0, <2>1, <2>5 DEF Types
    <3>2. CASE attempt[u].stage # "call"
      BY <2>1, <2>2, <2>5, <3>1, <3>2, ForgottenKeeps DEF WillArm
    <3>3. CASE attempt[u].stage = "call"
      <4>1. Forgotten(a)[u].stage = "call"
            /\ Forgotten(a)[u].request = Forget(attempt[u].request)
        BY <2>1, <3>1, <3>3, ForgottenKeeps
      <4>2. attempt[u].request.op = "post" /\ attempt[u].request # Delete
        BY <2>5, <3>3 DEF WillArm, Delete
      <4>. QED
        BY <2>2, <4>1, <4>2 DEF WillArm, Forget
    <3>. QED
      BY <3>2, <3>3
  <2>6. Promise'
    BY <1>5, <2>5 DEF DeleteAnswered, IInv, Promise, Armed
  <2>7. StoppedIsIdle' /\ GraceMatchesState'
    BY <1>0, <1>5, <2>1 DEF DeleteAnswered, Connected, IInv, StoppedIsIdle, GraceMatchesState
  <2>. QED
    BY <2>4, <2>6, <2>7 DEF IInv
<1>6. CASE DeleteRefused(t)
  <2>1. Running(t)
    BY <1>6 DEF DeleteRefused, Running, Idle
  <2>2. late' \subseteq Request
    BY <1>0, <1>6 DEF DeleteRefused, Types
  <2>. QED
    BY <1>6, <2>1, <2>2, RetryIInv DEF DeleteRefused
<1>7. CASE ExtrasDone(t)
  <2>1. Running(t) /\ ~WillArm(t)
    BY <1>7 DEF ExtrasDone, Running, Idle, WillArm
  <2>2. Types'
    BY <1>0, <1>7 DEF ExtrasDone, Types, Stage
  <2>3. \A u \in Task : WillArm(u) => WillArm(u)'
    BY <1>0, <1>7, <2>1 DEF WillArm, Types, ExtrasDone
  <2>4. Promise'
    BY <1>7, <2>3 DEF ExtrasDone, IInv, Promise, Armed
  <2>5. StoppedIsIdle' /\ GraceMatchesState'
    BY <1>0, <1>7, <2>1 DEF ExtrasDone, IInv, StoppedIsIdle, GraceMatchesState
  <2>. QED
    BY <2>2, <2>4, <2>5 DEF IInv
<1>8. CASE Fail(t)
  <2>1. late' \subseteq Request
    BY <1>0, <1>8, GivenUpRequests, CallsAreRequests DEF Fail, Types
  <2>. QED
    BY <1>8, <2>1, RetryIInv DEF Fail
<1>. QED
  BY <1>1, <1>2, <1>3, <1>4, <1>5, <1>6, <1>7, <1>8 DEF AttemptStep

\* The agent forgets its subscription: nothing else moves.
LEMMA ForgetIInv ==
    ASSUME IInv, attempt' = Forgotten(attempt), late' \subseteq Request,
           UNCHANGED <<stopped, timers, connection, environment>>
    PROVE  IInv'
<1>. USE DEF timers, connection, environment
<1>0. Types
  BY DEF IInv
<1>1. Types'
  BY <1>0, ForgottenKeeps DEF Types
<1>2. ASSUME NEW t \in Task
      PROVE  (WillArm(t) => WillArm(t)') /\ (attempt[t] = Idle => attempt'[t] = Idle)
  <2>1. CASE attempt[t].stage # "call"
    BY <1>0, <2>1, ForgottenKeeps DEF WillArm, Types
  <2>2. CASE attempt[t].stage = "call"
    <3>1. attempt'[t].stage = "call" /\ attempt'[t].request = Forget(attempt[t].request)
      BY <1>0, <2>2, ForgottenKeeps DEF Types
    <3>2. WillArm(t) => attempt[t].request.op = "post" /\ attempt[t].request # Delete
      BY <2>2 DEF WillArm, Delete
    <3>. QED
      BY <2>2, <3>1, <3>2 DEF WillArm, Forget, Idle
  <2>. QED
    BY <2>1, <2>2
<1>3. Promise' /\ StoppedIsIdle' /\ GraceMatchesState'
  BY <1>2 DEF IInv, Promise, Armed, StoppedIsIdle, GraceMatchesState, Running
<1>. QED
  BY <1>1, <1>3 DEF IInv

\* A step that leaves the registration alone.
LEMMA AloneIInv ==
    ASSUME IInv, UNCHANGED <<stopped, attempt, timers, connection, want>>,
           late' \subseteq Request
    PROVE  IInv'
BY DEF IInv, Types, Promise, Armed, WillArm, StoppedIsIdle, Running, GraceMatchesState,
       timers, connection

LEMMA NextIInv ==
    ASSUME IInv, [Next]_vars
    PROVE  IInv'
<1>0. Types
  BY DEF IInv
<1>1. CASE \E t \in Task : AttemptStep(t)
  BY <1>1, AttemptIInv
<1>2. CASE TimerFires
  <2>1. PICK t \in Task : BeginIn(t)
    BY <1>2 DEF TimerFires
  <2>. QED
    BY <1>0, <1>2, <2>1, BeginIInv DEF TimerFires, Types
<1>3. CASE OrphanFires
  <2>1. orphans' \in Nat
    BY <1>0, <1>3 DEF OrphanFires, Types
  <2>2. CASE stopped
    BY <1>0, <1>3, <2>1, <2>2 DEF OrphanFires, IInv, Types, Promise, StoppedIsIdle, Running,
       GraceMatchesState, connection, environment
  <2>3. CASE ~stopped
    <3>1. PICK t \in Task : BeginIn(t)
      BY <1>3, <2>3 DEF OrphanFires
    <3>. QED
      BY <2>1, <2>3, <3>1, BeginIInv
  <2>. QED
    BY <2>2, <2>3
<1>4. CASE GraceEnds
  BY <1>0, <1>4 DEF GraceEnds, IInv, Types, Promise, Armed, WillArm, StoppedIsIdle, Running,
     GraceMatchesState, timers, environment
<1>5. CASE RegistryChanges
  <2>1. want' \in Filter \cup {Nothing} /\ refresh' \in BOOLEAN
    BY <1>0, <1>5 DEF RegistryChanges, Types, IInv
  <2>2. Types'
    BY <1>0, <1>5, <2>1 DEF RegistryChanges, Types, connection
  <2>3. Promise' /\ StoppedIsIdle' /\ GraceMatchesState'
    BY <1>5 DEF RegistryChanges, IInv, Promise, Armed, StoppedIsIdle, Running,
       GraceMatchesState, connection
  <2>. QED
    BY <2>2, <2>3 DEF IInv
<1>6. CASE Unregister
  <2>1. late' \subseteq Request
    BY <1>0, <1>6, GivenUpRequests, CallsAreRequests DEF Unregister, Types
  <2>2. Types'
    BY <1>0, <1>6, <2>1 DEF Unregister, Types, Cancelled, CancelTimers, Stage,
       connection, environment
  <2>3. Promise' /\ StoppedIsIdle' /\ GraceMatchesState'
    BY <1>6 DEF Unregister, IInv, Promise, Cancelled, StoppedIsIdle, Running,
       GraceMatchesState, connection
  <2>. QED
    BY <2>2, <2>3 DEF IInv
<1>7. CASE Rediscovered
  <2>1. PICK t \in Task : attempt' = [[u \in Task |-> Idle] EXCEPT ![t] = [stage |-> "url"]]
    BY <1>7 DEF Rediscovered, Started
  <2>2. late' \subseteq Request
    BY <1>0, <1>7, GivenUpRequests, CallsAreRequests DEF Rediscovered, Types
  <2>3. Types'
    BY <1>0, <1>7, <2>1, <2>2 DEF Rediscovered, Types, CancelTimers, Stage,
       connection, environment
  <2>4. WillArm(t)'
    BY <2>1 DEF WillArm
  <2>5. Promise' /\ StoppedIsIdle' /\ GraceMatchesState'
    BY <1>7, <2>4 DEF Rediscovered, IInv, Promise, StoppedIsIdle, GraceMatchesState, connection
  <2>. QED
    BY <2>3, <2>5 DEF IInv
<1>8. CASE LinkChanges
  BY <1>0, <1>8, AloneIInv DEF LinkChanges, Types
<1>9. CASE AgentRestart
  <2>1. late' \subseteq Request
    BY <1>0, <1>9 DEF AgentRestart, Types, Forget, Request
  <2>. QED
    BY <1>9, <2>1, ForgetIInv DEF AgentRestart
<1>10. CASE LatePost
  BY <1>0, <1>10, AloneIInv DEF LatePost, Types, environment
<1>11. CASE LateDelete
  <2>1. late' \subseteq Request
    BY <1>0, <1>11 DEF LateDelete, Types, Forget, Request
  <2>. QED
    BY <1>11, <2>1, ForgetIInv DEF LateDelete
<1>12. CASE WorldSettles
  BY <1>0, <1>12, AloneIInv DEF WorldSettles, Types
<1>13. CASE UNCHANGED vars
  BY <1>0, <1>13, AloneIInv DEF vars, Types, environment
<1>. QED
  BY <1>1, <1>2, <1>3, <1>4, <1>5, <1>6, <1>7, <1>8, <1>9, <1>10, <1>11, <1>12, <1>13 DEF Next

-----------------------------------------------------------------------------
(* What follows for every behaviour.                                        *)

LEMMA Inductive == Spec => []IInv
BY InitIInv, NextIInv, PTL DEF Spec

\* The registration never falls silent: events.py always leaves an attempt
\* under way or a timer armed while an event is wanted, however many attempts
\* overlap and whichever calls fail.
THEOREM NeverSilentHolds == Spec => []NeverSilent
<1>1. IInv => NeverSilent
  <2>. SUFFICES ASSUME IInv, ~stopped, \A t \in Task : ~Running(t), want # Nothing PROVE Armed
    BY DEF NeverSilent
  <2>1. \A t \in Task : ~WillArm(t)
    BY DEF WillArm, Running, Idle
  <2>. QED
    BY <2>1 DEF IInv, Promise
<1>. QED
  BY <1>1, Inductive, PTL

\* unregister of events.py is final: no timer, lost or not, and no cancelled
\* task brings a stopped registration back.
THEOREM StoppedIsIdleHolds == Spec => []StoppedIsIdle
<1>1. IInv => StoppedIsIdle
  BY DEF IInv
<1>. QED
  BY <1>1, Inductive, PTL

\* The availability data.py shows and the grace timer of events.py agree at
\* every moment.
THEOREM GraceHolds == Spec => []GraceMatchesState
<1>1. IInv => GraceMatchesState
  BY DEF IInv
<1>. QED
  BY <1>1, Inductive, PTL

-----------------------------------------------------------------------------
(* What the types add to it: the bounds, and the state of the agent.        *)

Bounds ==
    /\ stopped \in BOOLEAN
    /\ orphans <= MaxOrphans
    /\ state \in {"connected", "reconnecting", "disconnected"}
    /\ sub \in Filter \cup {NoSub}
    /\ Cardinality(late) <= MaxLate
    /\ reach \in BOOLEAN
    /\ world \in {"faulty", "calm", "dead"}

LEMMA FiniteRequests == ASSUME NEW S \in SUBSET Request PROVE IsFiniteSet(S)
<1>. DEFINE posts == {Post(events) : events \in Filter}
            f == [events \in Filter |-> Post(events)]
<1>1. f \in Surjection(Filter, posts)
  BY DEF Surjection
<1>2. IsFiniteSet(posts)
  BY <1>1, FS_Surjection, RegistrationAssumption
<1>3. Request = (posts \cup {Delete}) \cup {Outdated}
  BY DEF Request
<1>. HIDE DEF posts
<1>4. IsFiniteSet(Request)
  BY <1>2, <1>3, FS_AddElement
<1>. QED
  BY <1>4, FS_Subset

\* Forgetting makes no request of none.
LEMMA ForgottenRequests ==
    ASSUME NEW S \in SUBSET Request
    PROVE  Cardinality({Forget(r) : r \in S}) <= Cardinality(S)
<1>1. IsFiniteSet(S) /\ IsFiniteSet(S \ {Delete})
  BY FiniteRequests
<1>2. Cardinality(S) \in Nat /\ Cardinality(S \ {Delete}) \in Nat
  BY <1>1, FS_CardinalityType
<1>3. CASE Delete \in S
  <2>1. {Forget(r) : r \in S} = (S \ {Delete}) \cup {Outdated}
    BY <1>3 DEF Forget
  <2>2. Cardinality(S \ {Delete}) = Cardinality(S) - 1
    BY <1>1, <1>3, FS_RemoveElement
  <2>. DEFINE R == S \ {Delete}
  <2>3. Cardinality(R \cup {Outdated}) = IF Outdated \in R THEN Cardinality(R) ELSE Cardinality(R) + 1
    BY <1>1, FS_AddElement
  <2>4. Cardinality(R) \in Nat /\ Cardinality(R) = Cardinality(S) - 1
    BY <1>2, <2>2
  <2>5. {Forget(r) : r \in S} = R \cup {Outdated}
    BY <2>1
  <2>. HIDE DEF R
  <2>6. Cardinality(R \cup {Outdated}) <= Cardinality(S)
    BY <1>2, <2>3, <2>4
  <2>. QED
    BY <2>5, <2>6
<1>4. CASE Delete \notin S
  <2>1. {Forget(r) : r \in S} = S
    BY <1>4 DEF Forget
  <2>. QED
    BY <1>2, <2>1
<1>. QED
  BY <1>3, <1>4

LEMMA SmallerLate ==
    ASSUME Bounds, Types, NEW S \in SUBSET late, late' = {Forget(r) : r \in S} \/ late' = S
    PROVE  Cardinality(late') <= MaxLate
<1>1. IsFiniteSet(late) /\ IsFiniteSet(S) /\ S \in SUBSET Request
  BY FiniteRequests DEF Types
<1>2. Cardinality(S) <= Cardinality(late)
  BY <1>1, FS_Subset
<1>3. Cardinality(late') <= Cardinality(S)
  <2>1. Cardinality(S) \in Nat
    BY <1>1, FS_CardinalityType
  <2>. QED
    BY <1>1, <2>1, ForgottenRequests
<1>4. Cardinality(late) \in Nat /\ Cardinality(S) \in Nat
  BY <1>1, FS_CardinalityType
<1>5. Cardinality(late') \in Nat
  <2>1. late' \in SUBSET Request
    BY <1>1 DEF Forget, Request
  <2>. QED
    BY <2>1, FiniteRequests, FS_CardinalityType
<1>. QED
  BY <1>2, <1>3, <1>4, <1>5, RegistrationAssumption DEF Bounds

LEMMA InitBounds == Init => Bounds
<1>. SUFFICES ASSUME Init PROVE Bounds
  OBVIOUS
<1>1. Cardinality(late) = 0
  BY FS_EmptySet DEF Init
<1>2. orphans <= MaxOrphans /\ Cardinality(late) <= MaxLate
  BY <1>1, RegistrationAssumption DEF Init
<1>. QED
  BY <1>2 DEF Init, Bounds

LEMMA NextBounds == ASSUME IInv, Bounds, [Next]_vars PROVE Bounds'
<1>. USE DEF timers, connection, environment
<1>0. Types /\ orphans \in Nat
  BY DEF IInv, Types
<1>1. ASSUME NEW t \in Task, AttemptStep(t) PROVE Bounds'
  <2>1. CASE UrlReady(t) \/ CallNeeded(t) \/ ExtrasDone(t)
    BY <2>1 DEF UrlReady, CallNeeded, ExtrasDone, Bounds
  <2>2. CASE ListAnswered(t) \/ PostAnswered(t)
    <3>1. PICK events \in Filter \cup {Nothing} : Settled(t, events)
      <4>1. CASE ListAnswered(t)
        <5>1. attempt[t].events \in Filter \cup {Nothing}
          BY <1>0, <4>1 DEF Types, ListAnswered, Idle, Stage
        <5>. QED
          BY <4>1, <5>1 DEF ListAnswered
      <4>2. CASE PostAnswered(t)
        <5>1. attempt[t].request \in Request
          BY <1>0, <4>2 DEF PostAnswered, Types, Stage, Idle
        <5>2. attempt[t].request.events \in Filter
          BY <4>2, <5>1 DEF PostAnswered, Request, Post, Delete, Outdated
        <5>. QED
          BY <4>2, <5>2 DEF PostAnswered
      <4>. QED
        BY <2>2, <4>1, <4>2
    <3>2. orphans' <= MaxOrphans
      BY <3>1 DEF Settled, ScheduleRenewal, Bounds
    <3>3. sub' \in Filter \cup {NoSub} /\ UNCHANGED late
      <4>1. CASE ListAnswered(t)
        BY <4>1 DEF ListAnswered, Bounds
      <4>2. CASE PostAnswered(t)
        <5>1. attempt[t].request \in Request
          BY <1>0, <4>2 DEF PostAnswered, Types, Stage, Idle
        <5>. QED
          BY <4>2, <5>1 DEF PostAnswered, Request, Post, Delete, Outdated
      <4>. QED
        BY <2>2, <4>1, <4>2
    <3>. QED
      BY <3>1, <3>2, <3>3 DEF Settled, Connected, Bounds
  <2>3. CASE DeleteAnswered(t)
    <3>1. Cardinality(late') <= MaxLate
      BY <1>0, <2>3, SmallerLate DEF DeleteAnswered
    <3>. QED
      BY <2>3, <3>1 DEF DeleteAnswered, Connected, Bounds
  <2>4. CASE DeleteRefused(t)
    BY <2>4 DEF DeleteRefused, Reconnecting, ScheduleRetry, Bounds
  <2>5. CASE Fail(t)
    BY <2>5 DEF Fail, Reconnecting, ScheduleRetry, GivenUp, Bounds
  <2>. QED
    BY <1>1, <2>1, <2>2, <2>3, <2>4, <2>5 DEF AttemptStep
<1>2. CASE TimerFires
  BY <1>2 DEF TimerFires, BeginIn, Bounds
<1>3. CASE OrphanFires
  <2>1. orphans' <= MaxOrphans
    BY <1>0, <1>3, RegistrationAssumption DEF OrphanFires, Bounds
  <2>. QED
    BY <1>3, <2>1 DEF OrphanFires, BeginIn, Bounds
<1>4. CASE GraceEnds \/ RegistryChanges
  BY <1>4 DEF GraceEnds, RegistryChanges, Bounds
<1>5. CASE Unregister
  BY <1>5 DEF Unregister, GivenUp, Bounds
<1>6. CASE Rediscovered
  BY <1>6, RegistrationAssumption DEF Rediscovered, GivenUp, Bounds
<1>7. CASE LinkChanges \/ WorldSettles
  BY <1>7 DEF LinkChanges, WorldSettles, Bounds
<1>8. CASE AgentRestart
  <2>1. Cardinality(late') <= MaxLate
    BY <1>0, <1>8, SmallerLate DEF AgentRestart
  <2>. QED
    BY <1>8, <2>1 DEF AgentRestart, Bounds
<1>9. CASE LatePost
  <2>1. PICK r \in late : r.op = "post" /\ sub' = r.events /\ late' = late \ {r}
    BY <1>9 DEF LatePost
  <2>2. r.events \in Filter
    BY <1>0, <2>1 DEF Types, Request, Post, Delete, Outdated
  <2>3. Cardinality(late') <= MaxLate
    BY <1>0, <2>1, SmallerLate
  <2>. QED
    BY <1>9, <2>1, <2>2, <2>3 DEF LatePost, Bounds
<1>10. CASE LateDelete
  <2>1. Cardinality(late') <= MaxLate
    BY <1>0, <1>10, SmallerLate DEF LateDelete
  <2>. QED
    BY <1>10, <2>1 DEF LateDelete, Bounds
<1>11. CASE UNCHANGED vars
  BY <1>11 DEF vars, Bounds
<1>. QED
  BY <1>1, <1>2, <1>3, <1>4, <1>5, <1>6, <1>7, <1>8, <1>9, <1>10, <1>11 DEF Next

\* All that event_registration checks in every state, for every number of
\* tasks, filters, lost timers and late requests: events.py keeps trying until
\* it is stopped, then it is quiet, and data.py shows what its timer says.
THEOREM RegistrationSafeHolds == Spec => []RegistrationSafe
<1>1. IInv /\ Bounds => TypeOK
  BY DEF IInv, Types, Bounds, TypeOK
<1>2. TypeOK /\ NeverSilent /\ IInv => RegistrationSafe
  BY DEF RegistrationSafe, IInv
<1>. QED
  BY <1>1, <1>2, InitBounds, NextBounds, Inductive, NeverSilentHolds, PTL DEF Spec
============================================================================
