----------------------------- MODULE SetupRecovery -----------------------------
(***************************************************************************)
(* custom_components/bticino_c300x/runtime_manager.py: setting up the      *)
(* config entry.  The agent is asked for its capabilities once, while the  *)
(* entry is set up.  When it is offline then, the entry is loaded without  *)
(* capabilities and a recovery probes the agent until it answers, and then *)
(* reloads the entry.  The recovery sits where the event registration      *)
(* would: resources.unregister_event_registration cancels whichever there  *)
(* is.                                                                     *)
(*                                                                         *)
(* The event registration of events.py is reduced to whether an attempt or *)
(* a timer is pending; module EventRegistration has the rest.  Setup and   *)
(* unload hold the setup lock of the entry: a reload requested meanwhile   *)
(* waits for it.                                                           *)
(***************************************************************************)
EXTENDS Naturals

VARIABLES
    entry,        \* "setup": the agent is being asked; "loaded"
    capable,      \* runtime_data.capabilities is not empty
    owner,        \* whose cleanup unregister_event_registration is
    timer,        \* retry_cancel of the recovery is armed
    asking,       \* probe_task of the recovery awaits the agent
    reloading,    \* a recovery whose probe was answered awaits async_reload
    userReload,   \* the user asked for a reload
    registration, \* the event registration
    available,    \* connection_state.available
    state,        \* connection_state.connection_state
    grace,        \* connection_state.expire_unavailable is armed
    reach,        \* the agent answers
    world         \* "faulty", or from some time on "calm": the agent is there

recovery == <<owner, timer, asking, reloading>>
connection == <<available, state, grace>>
environment == <<reach, world>>
recoveryVars == <<entry, capable, recovery, userReload, registration, connection, environment>>

RecoveryTypeOK ==
    /\ entry \in {"setup", "loaded"}
    /\ capable \in BOOLEAN
    /\ owner \in {"none", "recovery", "registration"}
    /\ timer \in BOOLEAN
    /\ asking \in BOOLEAN /\ reloading \in BOOLEAN
    /\ userReload \in BOOLEAN
    /\ registration \in {"none", "attempt", "waiting", "idle"}
    /\ owner = "registration" <=> registration # "none"
    /\ available \in BOOLEAN /\ grace \in BOOLEAN
    /\ state \in {"connected", "reconnecting", "disconnected"}
    /\ reach \in BOOLEAN
    /\ world \in {"faulty", "calm"}

RecoveryInit ==
    /\ entry = "setup" /\ capable = FALSE
    /\ owner = "none" /\ timer = FALSE /\ asking = FALSE /\ reloading = FALSE
    /\ userReload = FALSE
    /\ registration = "none"
    /\ available = TRUE /\ state = "connected" /\ grace = FALSE
    /\ reach \in BOOLEAN
    /\ world = "faulty"

-----------------------------------------------------------------------------
(* Setup: async_validate_agent and async_register_callbacks.                *)

ValidateAnswered ==
    /\ entry = "setup" /\ reach
    /\ entry' = "loaded" /\ capable' = TRUE
    /\ owner' = "registration" /\ registration' = "attempt"
    /\ UNCHANGED <<timer, asking, reloading, userReload, connection, environment>>

\* mark_reconnecting, then mark_unavailable.
ShownUnavailable == available' = FALSE /\ state' = "disconnected" /\ UNCHANGED grace

ValidateFailed ==
    /\ entry = "setup" /\ ~reach
    /\ entry' = "loaded" /\ capable' = FALSE
    /\ owner' = "recovery" /\ timer' = TRUE
    /\ ShownUnavailable
    /\ UNCHANGED <<asking, reloading, userReload, registration, environment>>

-----------------------------------------------------------------------------
(* The recovery: _async_start_setup_recovery.                               *)

RetryFires ==
    /\ timer /\ ~asking
    /\ timer' = FALSE
    /\ asking' = TRUE
    /\ UNCHANGED <<entry, capable, owner, reloading, userReload, registration, connection,
                   environment>>

RetryForgotten == UNCHANGED timer  \* variant: no async_call_later
RetryAgain == timer' = TRUE

ProbeFailed ==
    /\ asking /\ ~reach
    /\ asking' = FALSE
    /\ ShownUnavailable
    /\ RetryAgain
    /\ UNCHANGED <<entry, capable, owner, reloading, userReload, registration, environment>>

\* From here on probe_task is None: _cancel does not stop the reload.  Bound:
\* one such reload at a time waits for the setup lock.
ProbeAnswered ==
    /\ asking /\ reach
    /\ ~reloading
    /\ asking' = FALSE
    /\ reloading' = TRUE
    /\ UNCHANGED <<entry, capable, owner, timer, userReload, registration, connection,
                   environment>>

\* _cancel of the recovery.
AskingLeft == asking  \* variant: the probe in flight is not cancelled
AskingCancelled == FALSE

Unregister == timer' = FALSE /\ asking' = AskingCancelled

-----------------------------------------------------------------------------
(* The entry is reloaded: unloaded, cleaned up, set up again.               *)

RegistrationClosed == "none"

\* cleanup_entry_runtime_resources; the next setup has a new connection state.
Unload ==
    /\ entry = "loaded"
    /\ entry' = "setup" /\ capable' = FALSE
    /\ Unregister
    /\ owner' = "none" /\ registration' = RegistrationClosed
    /\ available' = TRUE /\ state' = "connected" /\ grace' = FALSE
    /\ UNCHANGED environment

RecoveryReloads ==
    /\ reloading
    /\ reloading' = FALSE
    /\ Unload
    /\ UNCHANGED userReload

UserReloads ==
    /\ userReload
    /\ userReload' = FALSE
    /\ Unload
    /\ UNCHANGED reloading

UserAsks ==
    /\ world = "faulty"
    /\ ~userReload
    /\ userReload' = TRUE
    /\ UNCHANGED <<entry, capable, recovery, registration, connection, environment>>

-----------------------------------------------------------------------------
(* The agent announces itself by mDNS.                                      *)

\* config_flow.async_step_zeroconf and async_request_agent_event_registration:
\* whatever is registered is cancelled, an ordinary registration is started.
Rediscovered ==
    /\ entry = "loaded" /\ reach
    /\ Unregister
    /\ owner' = "registration" /\ registration' = "attempt"
    /\ UNCHANGED <<entry, capable, reloading, userReload, connection, environment>>

-----------------------------------------------------------------------------
(* The event registration.                                                  *)

\* Without capabilities there is no event to renew a subscription for.
Registered ==
    /\ registration = "attempt" /\ reach
    /\ registration' = IF capable THEN "waiting" ELSE "idle"
    /\ available' = TRUE /\ state' = "connected" /\ grace' = FALSE
    /\ UNCHANGED <<entry, capable, recovery, userReload, environment>>

RegistrationFailed ==
    /\ registration = "attempt" /\ ~reach
    /\ registration' = "waiting"
    /\ state' = IF available THEN "reconnecting" ELSE "disconnected"
    /\ grace' = TRUE
    /\ UNCHANGED <<entry, capable, recovery, userReload, available, environment>>

RegistrationTimer ==
    /\ registration = "waiting"
    /\ registration' = "attempt"
    /\ UNCHANGED <<entry, capable, recovery, userReload, connection, environment>>

GraceEnds ==
    /\ grace
    /\ grace' = FALSE /\ available' = FALSE /\ state' = "disconnected"
    /\ UNCHANGED <<entry, capable, recovery, userReload, registration, environment>>

-----------------------------------------------------------------------------
LinkChanges ==
    /\ world = "faulty"
    /\ reach' = ~reach
    /\ UNCHANGED <<entry, capable, recovery, userReload, registration, connection, world>>

\* From now on the agent is there.
AgentReturns ==
    /\ world = "faulty"
    /\ world' = "calm" /\ reach' = TRUE
    /\ UNCHANGED <<entry, capable, recovery, userReload, registration, connection>>

Progress ==
    \/ ValidateAnswered \/ ValidateFailed
    \/ RetryFires \/ ProbeFailed \/ ProbeAnswered
    \/ RecoveryReloads \/ UserReloads
    \/ Registered \/ RegistrationFailed

RecoveryNext ==
    \/ Progress \/ RegistrationTimer \/ GraceEnds
    \/ UserAsks \/ Rediscovered \/ LinkChanges \/ AgentReturns

RecoverySpec == RecoveryInit /\ [][RecoveryNext]_recoveryVars

\* Every request has a timeout, every armed timer fires, a requested reload
\* gets the setup lock.
FairRecovery ==
    /\ RecoverySpec
    /\ WF_recoveryVars(ValidateAnswered \/ ValidateFailed)
    /\ WF_recoveryVars(RetryFires) /\ WF_recoveryVars(ProbeFailed \/ ProbeAnswered)
    /\ WF_recoveryVars(RecoveryReloads) /\ WF_recoveryVars(UserReloads)
    /\ WF_recoveryVars(Registered \/ RegistrationFailed)
    /\ WF_recoveryVars(RegistrationTimer) /\ WF_recoveryVars(GraceEnds)

-----------------------------------------------------------------------------
(* Correctness.                                                             *)

\* A recovery that can still act is the one the entry's cleanup would cancel:
\* an unload or a rediscovery leaves no probe behind that would later reload
\* an entry set up meanwhile.
RecoveryIsOwned == timer \/ asking => entry = "loaded" /\ owner = "recovery"

\* While the recovery is in charge the entry is shown unavailable, and neither
\* a grace timer nor a registration of an earlier setup can change that.
OfflineIsShown ==
    owner = "recovery" => ~available /\ ~grace /\ registration = "none" /\ ~capable

\* Once the agent is back for good, an entry that was set up without it is
\* reloaded with the agent's capabilities, unless the event registration took
\* the recovery's place.
RecoveredOrReplaced ==
    (world = "calm" /\ owner = "recovery") ~> (capable \/ owner = "registration")

\* What the recovery is for: once the agent is back, an entry that was set up
\* without it is reloaded with the agent's capabilities.
ReloadedAfterReturn == (world = "calm" /\ entry = "loaded") ~> capable

\* The recovery of an entry that was set up without its agent is owned and shown.
RecoverySafe == RecoveryTypeOK /\ RecoveryIsOwned /\ OfflineIsShown
=============================================================================
