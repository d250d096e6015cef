--------------------------- MODULE MCAgentServices ---------------------------
(* The agent's callback queue, and what Home Assistant keeps in step with   *)
(* the agent, which share no state: a behaviour is one of one part, the     *)
(* others stay as they began.  The queue has three slots and one heap block *)
(* more than slots, so that it fills up, empties and fills again while the  *)
(* worker holds a job.                                                      *)
EXTENDS CallbackQueue, AgentUpdate, SetupRecovery, SystemMetrics, RepairIssues

VARIABLE part

Outcomes == {"delivered", "failed"}

\* At the start the patches of the display and of the firewalls are all active or
\* all off, and the agent maintains both firewalls or none.
AlikePatches == /\ \A p, q \in External : applied[p] = applied[q]
                /\ serviced \in {{}, Firewall}

AgentInit ==
    /\ part \in {"queue", "update", "recovery", "metrics", "issues"}
    /\ QueueInit
    /\ UpdateInit /\ AlikePatches
                  /\ (part # "update" => /\ serviced = {} /\ applied["qml"] = "old"
                                         /\ ~oldUpdater /\ ~selfUpdates)
    /\ RecoveryInit /\ (part # "recovery" => reach)
    /\ MetricsInit /\ (part # "metrics" => agent = OldSample)
    /\ IssuesInit /\ (part # "issues" => broken = {} /\ ~videoOn /\ offered = {})

QueuePart == /\ part = "queue" /\ QueueNext
             /\ UNCHANGED <<part, updateVars, recoveryVars, metricsVars, issueVars>>
UpdatePart == /\ part = "update" /\ UpdateNext
              /\ UNCHANGED <<part, queueVars, recoveryVars, metricsVars, issueVars>>
RecoveryPart == /\ part = "recovery" /\ RecoveryNext
                /\ UNCHANGED <<part, queueVars, updateVars, metricsVars, issueVars>>
MetricsPart == /\ part = "metrics" /\ MetricsNext
               /\ UNCHANGED <<part, queueVars, updateVars, recoveryVars, issueVars>>
IssuesPart == /\ part = "issues" /\ IssuesNext
              /\ UNCHANGED <<part, queueVars, updateVars, recoveryVars, metricsVars>>

AgentNext == QueuePart \/ UpdatePart \/ RecoveryPart \/ MetricsPart \/ IssuesPart

\* The fairness of each module, for the part that moves.
QueueFairness ==
    /\ WF_queueVars(part = "queue" /\ WorkerNext)
    /\ WF_queueVars(part = "queue" /\ (Wake \/ Take \/ TakeNone))
UpdateFairness ==
    /\ WF_updateVars(part = "update" /\ HomeAssistantSteps)
    /\ WF_updateVars(part = "update" /\ AgentSteps)
RecoveryFairness ==
    /\ WF_recoveryVars(part = "recovery" /\ (ValidateAnswered \/ ValidateFailed))
    /\ WF_recoveryVars(part = "recovery" /\ RetryFires)
    /\ WF_recoveryVars(part = "recovery" /\ (ProbeFailed \/ ProbeAnswered))
    /\ WF_recoveryVars(part = "recovery" /\ RecoveryReloads)
    /\ WF_recoveryVars(part = "recovery" /\ UserReloads)
    /\ WF_recoveryVars(part = "recovery" /\ (Registered \/ RegistrationFailed))
    /\ WF_recoveryVars(part = "recovery" /\ RegistrationTimer)
    /\ WF_recoveryVars(part = "recovery" /\ GraceEnds)
MetricsFairness ==
    /\ WF_metricsVars(part = "metrics" /\ Push)
    /\ WF_metricsVars(part = "metrics" /\ \E m \in flight : PushArrives(m))
IssuesFairness == WF_issueVars(part = "issues" /\ DiagnosticsStored)

AgentServicesSpec ==
    /\ AgentInit
    /\ [][AgentNext]_<<part, queueVars, updateVars, recoveryVars, metricsVars, issueVars>>
    /\ QueueFairness /\ UpdateFairness /\ RecoveryFairness
    /\ MetricsFairness /\ IssuesFairness

-----------------------------------------------------------------------------
(* The safety properties are those of the modules: a part that does not      *)
(* move keeps them as its initial state has them.  What must happen in the   *)
(* end is asked of the part that moves.                                      *)

\* Every job of the queue comes to an end, and the queue is a fair mailbox.
JobsResolve == part = "queue" => EveryJobResolved
MailboxHolds == Mailbox!Spec /\ (part = "queue" => Mailbox!Fairness)

\* An update ends, an issue that is not repaired comes back.
UpdateReturns == part = "update" => UpdateEnds
IssueComesBack == part = "issues" => ComesBack

\* Home Assistant catches up with an agent that was away: the snapshot follows
\* the running agent, and a setup without the agent comes to an end.
CaughtUp == /\ part = "metrics" => EventuallyCurrent
            /\ part = "recovery" => RecoveredOrReplaced
=============================================================================
