------------------------------ MODULE SystemMetrics ------------------------------
(***************************************************************************)
(* custom_components/bticino_c300x/system_metrics.py: the one snapshot of  *)
(* the device's metrics in Home Assistant, fed by the agent's push events  *)
(* and by HTTP reads that all sensors share.  Pushes overtake each other   *)
(* and the answers of reads; the agent restarts, counting its samples from *)
(* one again under a new random instance id; old agents send no id.        *)
(*                                                                         *)
(* Instances are numbered in the order in which they ran: an order the     *)
(* environment has and the code does not know, it only compares ids.  An   *)
(* invalidation cancels the read under way, so the generation that would   *)
(* reject its answer as well is left out.                                  *)
(***************************************************************************)
EXTENDS Naturals, FiniteSets

CONSTANTS MaxInstance, \* bound on the runs of the agent
          MaxSample,   \* bound on the samples of one run
          MaxFlight    \* bound on the pushes under way

ASSUME MetricsAssumption ==
    MaxInstance \in Nat \ {0} /\ MaxSample \in Nat \ {0} /\ MaxFlight \in Nat

Legacy == 0  \* no instance_id, and then no sample_sequence either
Instance == 1 .. MaxInstance
Sample == [inst: Instance, seq: 1 .. MaxSample]
OldSample == [inst |-> Legacy, seq |-> 0]
Snapshot == Sample \cup {OldSample}
NoRead == [stage |-> "none"]
MetricsRead == {NoRead} \cup [stage: {"asked"}, overtaken: BOOLEAN]
        \cup [stage: {"answered"}, overtaken: BOOLEAN, metrics: Snapshot]

VARIABLES
    agent,    \* the agent's last sample
    flight,   \* pushes that Home Assistant has not handled yet
    read,     \* refresh_task
    snapshot,  \* runtime.system_metrics
    needs,    \* needs_refresh
    expired,  \* nothing is known, or expires_at has passed
    retired,  \* retired_instances; fewer than its 32 entries
    shown,    \* history: every instance that current has shown
    calm      \* from some time on the agent and the connection stay up

metricsVars == <<agent, flight, read, snapshot, needs, expired, retired, shown, calm>>

MetricsTypeOK ==
    /\ agent \in Snapshot
    /\ flight \subseteq Snapshot /\ Cardinality(flight) <= MaxFlight
    /\ read \in MetricsRead
    /\ snapshot \in Snapshot
    /\ needs \in BOOLEAN /\ expired \in BOOLEAN
    /\ retired \subseteq Instance /\ shown \subseteq Instance
    /\ calm \in BOOLEAN

Fresh == ~needs /\ ~expired

MetricsInit ==
    /\ agent \in {OldSample, [inst |-> 1, seq |-> 1]}
    /\ flight = {} /\ read = NoRead
    /\ snapshot = OldSample /\ needs = FALSE /\ expired = TRUE
    /\ retired = {} /\ shown = {}
    /\ calm = FALSE

-----------------------------------------------------------------------------
(* apply_system_metrics.                                                    *)

SameInstance(m) == m.inst # Legacy /\ m.inst = snapshot.inst

\* What every snapshot must satisfy, and what the answer of a read must.
Ordered(m) ==
    /\ m.inst \notin retired
    /\ SameInstance(m) => m.seq >= snapshot.seq
NotOvertaken(m) == read.overtaken => SameInstance(m) /\ m.seq > snapshot.seq
Downgrade(m) == snapshot.inst # Legacy /\ m.inst = Legacy

\* A duplicate of the sample does not extend its validity.
Duplicate(m) == SameInstance(m) /\ m.seq = snapshot.seq

RetiredNever(m) == retired  \* variant: an instance that is left is forgotten
Retired(m) ==
    IF snapshot.inst # Legacy /\ m.inst # snapshot.inst
    THEN retired \cup {snapshot.inst} ELSE retired

RefreshDone == FALSE

StoreMetrics(m) ==
    /\ snapshot' = m
    /\ needs' = RefreshDone
    /\ expired' = (Duplicate(m) /\ expired)
    /\ retired' = Retired(m)
    /\ shown' = shown \cup ({m.inst} \ {Legacy})

KeepSnapshot == UNCHANGED <<snapshot, needs, expired, retired, shown>>

\* A push event reaches the webhook.
PushArrives(m) ==
    /\ m \in flight
    /\ flight' = flight \ {m}
    /\ IF Ordered(m) /\ ~Downgrade(m)
       THEN /\ StoreMetrics(m)
            /\ read' = IF read = NoRead THEN NoRead ELSE [read EXCEPT !.overtaken = TRUE]
       ELSE KeepSnapshot /\ UNCHANGED read
    /\ UNCHANGED <<agent, calm>>

-----------------------------------------------------------------------------
(* async_system_metrics: one read for all callers.                          *)

MetricsReadStarts ==
    /\ read = NoRead
    /\ read' = [stage |-> "asked", overtaken |-> FALSE]
    /\ UNCHANGED <<agent, flight, calm>> /\ KeepSnapshot

AgentAnswers ==
    /\ read.stage = "asked"
    /\ read' = [stage |-> "answered", overtaken |-> read.overtaken, metrics |-> agent]
    /\ UNCHANGED <<agent, flight, calm>> /\ KeepSnapshot

ReadArrives ==
    /\ read.stage = "answered"
    /\ read' = NoRead
    /\ LET m == read.metrics
       IN  IF Ordered(m) /\ NotOvertaken(m) /\ (Downgrade(m) => needs)
           THEN StoreMetrics(m) ELSE KeepSnapshot
    /\ UNCHANGED <<agent, flight, calm>>

ReadFails ==
    /\ read # NoRead
    /\ read' = NoRead
    /\ UNCHANGED <<agent, flight, calm>> /\ KeepSnapshot

\* invalidate_system_metrics: the connection was lost or made anew.
Invalidate ==
    /\ ~calm
    /\ needs' = TRUE
    /\ read' = NoRead
    /\ UNCHANGED <<agent, flight, snapshot, expired, retired, shown, calm>>

\* The expiry timer, or the clock that metrics_are_fresh reads.
Expire ==
    /\ ~expired
    /\ expired' = TRUE
    /\ UNCHANGED <<agent, flight, read, snapshot, needs, retired, shown, calm>>

-----------------------------------------------------------------------------
(* The agent.                                                               *)

TakesSample ==
    /\ agent.inst # Legacy /\ agent.seq < MaxSample
    /\ agent' = [agent EXCEPT !.seq = @ + 1]
    /\ UNCHANGED <<flight, read, calm>> /\ KeepSnapshot

\* Instances are numbered by history: the next run is one nobody has seen.
Restarts ==
    /\ ~calm
    /\ \E i \in Instance :
          /\ \A m \in flight \cup {agent, snapshot} : m.inst < i
          /\ \A j \in shown : j < i
          /\ read.stage = "answered" => read.metrics.inst < i
          /\ agent' \in {OldSample, [inst |-> i, seq |-> 1]}
    /\ UNCHANGED <<flight, read, calm>> /\ KeepSnapshot

\* A change, a heartbeat or a delivery that is owed: the last sample is posted.
Push ==
    /\ Cardinality(flight \cup {agent}) <= MaxFlight
    /\ agent \notin flight
    /\ flight' = flight \cup {agent}
    /\ UNCHANGED <<agent, read, calm>> /\ KeepSnapshot

PushLost ==
    /\ ~calm
    /\ \E m \in flight : flight' = flight \ {m}
    /\ UNCHANGED <<agent, read, calm>> /\ KeepSnapshot

Calms ==
    /\ ~calm
    /\ calm' = TRUE
    /\ UNCHANGED <<agent, flight, read>> /\ KeepSnapshot

MetricsNext ==
    \/ \E m \in flight : PushArrives(m)
    \/ MetricsReadStarts \/ AgentAnswers \/ ReadArrives \/ ReadFails
    \/ Invalidate \/ Expire
    \/ TakesSample \/ Restarts \/ Push \/ PushLost \/ Calms

MetricsSpec == MetricsInit /\ [][MetricsNext]_metricsVars

\* The agent posts its heartbeat again and again (module EventDelivery: a
\* delivery that is owed stays owed); what is under way arrives.
FairMetrics ==
    /\ MetricsSpec
    /\ WF_metricsVars(Push)
    /\ WF_metricsVars(\E m \in flight : PushArrives(m))

-----------------------------------------------------------------------------
(* Correctness.                                                             *)

\* An instance that Home Assistant has left is never shown again, and within
\* one instance the samples only go forward - whatever is late or duplicated.
NoReturn ==
    [][snapshot' # snapshot /\ snapshot'.inst # Legacy =>
           IF snapshot'.inst = snapshot.inst THEN snapshot'.seq > snapshot.seq
           ELSE snapshot'.inst \notin shown]_metricsVars

\* Newer in the order in which the agent took the samples.
NotOlder(m, n) == m.inst > n.inst \/ (m.inst = n.inst /\ m.seq >= n.seq)

\* The answer of a read never takes the snapshot back to an older sample or to
\* an agent that is gone, although it may be overtaken by pushes of a later one.
ReadMovesForward ==
    [][ReadArrives /\ snapshot'.inst # Legacy => NotOlder(snapshot', snapshot)]_metricsVars

\* Once the connection is calm the snapshot is of the running instance and
\* needs no refresh, unless that very instance had been retired.
EventuallyCurrent ==
    <>[](calm /\ agent.inst # Legacy =>
             (snapshot.inst = agent.inst /\ ~needs) \/ agent.inst \in retired)

\* No snapshot at all, push or answer, takes the metrics back to an agent that
\* is gone.
NoRollback == [][snapshot'.inst # Legacy => NotOlder(snapshot', snapshot)]_metricsVars

\* The snapshot is a sample there was, and neither a push nor the answer of a
\* read takes it back to what it left.
SnapshotTrue == []MetricsTypeOK /\ NoReturn /\ ReadMovesForward
=============================================================================
