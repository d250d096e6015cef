------------------------------ MODULE EntrySetup ------------------------------
(***************************************************************************)
(* custom_components/bticino_c300x/runtime_manager.py and __init__.py: the *)
(* setup of a config entry step by step, with the settings that may change *)
(* at every await, the listener that reloads the entry when they do, the   *)
(* registered buttons that need the Display patch, and the startup sync    *)
(* that goes on after the setup.                                           *)
(*                                                                         *)
(* An agent that is offline during setup is module SetupRecovery; here the *)
(* entry is just loaded without it.  A setting is its revision and the     *)
(* device-UI option; a qml_status the agent does not advertise reads as    *)
(* "not patched".                                                          *)
(***************************************************************************)
EXTENDS Naturals

CONSTANTS MaxEdits,     \* bound on changes of the settings
          MaxRestarts   \* bound on restarts of the agent

ASSUME EntrySetupAssumption == MaxEdits \in Nat /\ MaxRestarts \in Nat

VARIABLES
    phase,     \* where the setup is, or what became of it
    form,      \* the stored entry: up to date, of an older version, without a host
    stored,    \* entry.data and entry.options
    used,      \* what the runtime was set up with
    seen,      \* previous, of _entry_update_listener
    asked,     \* reloads that wait for the setup lock
    missed,    \* history: settings changed while no listener was there
    held,      \* what the entry holds in Home Assistant
    online,    \* connection_state.available after async_validate_agent
    known,     \* runtime_data.qml_patch_status is that of an active patch
    gate,      \* _platform_gate_state_loaded
    buttons,   \* the GUI-dependent buttons of the entity registry
    startup,   \* where the startup sync task is
    report,    \* display_bridge_diagnostics: the outcome of the last call
    unsaid,    \* history: the last attempt had no callback URL, and only the log says so
    renew,     \* the agent lost its subscriptions: a new one will be created
    restarts,  \* restarts of the agent so far
    device     \* the device and its agent

settings == <<form, stored, used, seen, asked, missed>>
view == <<online, known, gate, buttons>>
agent == <<report, unsaid, renew, restarts, device>>
entryVars == <<phase, settings, held, view, startup, agent>>

Setting == [ui: {"unset", "on", "off"}, rev: 0 .. MaxEdits, marked: BOOLEAN]
Device == [patched: BOOLEAN, user: BOOLEAN, bridge: BOOLEAN, activations: 0 .. MaxEdits]
Phase == {"migrate", "failed", "validate", "gate", "activations", "platforms", "loaded",
          "stuck", "removed"}
Registered == {"gate", "activations", "platforms", "loaded", "stuck"}

EntryTypeOK ==
    /\ phase \in Phase
    /\ form \in {"current", "old", "hostless"}
    /\ stored \in Setting /\ used \in Setting /\ seen \in Setting
    /\ asked \in 0 .. MaxEdits + 1
    /\ missed \in BOOLEAN
    /\ held \subseteq {"webhooks", "runtime", "listener", "tracker"}
    /\ online \in BOOLEAN /\ known \in BOOLEAN /\ gate \in BOOLEAN
    /\ buttons \in {"none", "customised", "new"}
    /\ startup \in {"none", "bridge", "patch", "user", "ensure", "self_test"}
    /\ report \in {"none", "success", "failure"}
    /\ unsaid \in BOOLEAN /\ renew \in BOOLEAN
    /\ restarts \in 0 .. MaxRestarts
    /\ device \in Device

EntryInit ==
    /\ phase = "migrate"
    /\ form \in {"current", "old", "hostless"}
    /\ stored \in {[ui |-> u, rev |-> 0, marked |-> FALSE] : u \in {"unset", "on", "off"}}
    /\ used = stored /\ seen = stored
    /\ asked = 0 /\ missed = FALSE
    /\ held = {}
    /\ online = FALSE /\ known = FALSE /\ gate = FALSE
    /\ buttons \in {"none", "customised"}
    /\ startup = "none"
    /\ report = "none" /\ unsaid = FALSE /\ renew = FALSE /\ restarts = 0
    /\ \E p, u \in BOOLEAN :
          device = [patched |-> p, user |-> u, bridge |-> FALSE, activations |-> 0]

-----------------------------------------------------------------------------
(* Setup.                                                                   *)

\* async_migrate_entry and _required_config_present: what is missing in an
\* older entry is generated, a host cannot be.
Migrates ==
    /\ phase = "migrate"
    /\ IF form = "hostless"
       THEN phase' = "failed" /\ UNCHANGED form
       ELSE phase' = "validate" /\ form' = "current"
    /\ used' = stored
    /\ UNCHANGED <<stored, seen, asked, missed, held, view, startup, agent>>

\* entry_device_ui_enabled_or_patch_active.
Wanted(patched) == stored.ui = "on" \/ (stored.ui = "unset" /\ patched)

\* _async_remove_stale_gui_dependent_entities.
AfterRemoval(patched) == IF Wanted(patched) THEN buttons ELSE "none"

\* async_validate_agent is answered or fails; then, without an await, the
\* webhooks, the runtime data and the listener.  The steps of an offline
\* entry up to its platforms ask nothing.
AskedTooEarly == AfterRemoval(FALSE)  \* variant: the removal before the gate state
NotAskedYet == buttons

Validated ==
    /\ phase = "validate"
    /\ held' = {"webhooks", "runtime", "listener"}
    /\ seen' = stored
    /\ known' = FALSE /\ gate' = FALSE
    /\ online' \in BOOLEAN
    /\ IF online'
       THEN phase' = "gate" /\ buttons' = NotAskedYet
       ELSE phase' = "platforms" /\ buttons' = AfterRemoval(FALSE)
    /\ report' = "none" /\ unsaid' = FALSE
    /\ UNCHANGED <<form, stored, used, asked, missed, startup, renew, restarts, device>>

\* _async_sync_device_ui_patch: an error leaves the status as it is.
PatchRead ==
    \E answered \in BOOLEAN :
        /\ gate' = answered
        /\ known' = IF answered THEN device.patched ELSE known

GateRead ==
    /\ phase = "gate"
    /\ PatchRead
    /\ buttons' = AfterRemoval(known')
    /\ phase' = "activations"
    /\ UNCHANGED <<settings, held, online, startup, agent>>

\* _async_configure_device_activations: compared first, errors are logged.
ActivationsSynced ==
    /\ phase = "activations"
    /\ device' \in {device, [device EXCEPT !.activations = stored.rev]}
    /\ phase' = "platforms"
    /\ UNCHANGED <<settings, held, view, startup, report, unsaid, renew, restarts>>

\* async_forward_platforms, then the first step of the startup sync:
\* _async_track_display_bridge_updates.
PlatformsForwarded ==
    /\ phase = "platforms"
    /\ phase' = "loaded"
    /\ buttons' = IF online /\ Wanted(known) /\ buttons = "none" THEN "new" ELSE buttons
    /\ held' = IF stored.ui = "on" THEN held \cup {"tracker"} ELSE held
    /\ startup' = IF online THEN "bridge" ELSE "none"
    /\ UNCHANGED <<settings, online, known, gate, agent>>

-----------------------------------------------------------------------------
(* The startup sync: async_sync_device_state.                               *)

\* _async_configure_display_bridge: asked, compared by its hash, set if it
\* differs; each call can fail, the second one after the agent served it.  The
\* callback URL of an enabled bridge is generated before, outside the try: when
\* that raises, nothing is asked and nothing is marked.
BridgeWanted == stored.ui = "on"
FailureReported == report' = "failure"
ConfigureBridge ==
    /\ unsaid' = FALSE
    /\ \/ report' = "success" /\ device' = [device EXCEPT !.bridge = BridgeWanted]
       \/ FailureReported /\ device' \in {device, [device EXCEPT !.bridge = BridgeWanted]}
UrlRaises == BridgeWanted /\ unsaid' = TRUE /\ UNCHANGED <<report, device>>

\* What is raised ends the whole sync with a warning.
StartupBridge ==
    /\ startup = "bridge"
    /\ \/ ConfigureBridge /\ startup' = IF gate THEN "user" ELSE "patch"
       \/ UrlRaises /\ startup' = "none"
    /\ UNCHANGED <<phase, settings, held, view, renew, restarts>>

StartupPatch ==
    /\ startup = "patch"
    /\ PatchRead
    /\ startup' = "user"
    /\ UNCHANGED <<phase, settings, held, online, buttons, agent>>

\* settings() of the listener, without the marker of the updater, and what
\* the listener does: it runs while it is registered.
Changes(now) ==
    /\ stored' = now
    /\ IF "listener" \in held /\ now # seen
       THEN asked' = asked + 1 /\ seen' = now
       ELSE UNCHANGED <<asked, seen>>
    /\ missed' = (missed \/ ("listener" \notin held /\ phase = "validate"))
    /\ UNCHANGED <<form, used>>

\* _mark_homeassistant_media_user_bootstrapped.
Mark == IF stored.marked THEN UNCHANGED settings ELSE Changes([stored EXCEPT !.marked = TRUE])

\* _async_sync_device_user: the status, then the setup of the user if the
\* device lacks it.
StartupUser ==
    /\ startup = "user"
    /\ \/ startup' = "self_test" /\ UNCHANGED settings
       \/ ~device.user /\ startup' = "ensure" /\ UNCHANGED settings
       \/ device.user /\ startup' = "self_test" /\ Mark
    /\ UNCHANGED <<phase, held, view, agent>>

StartupEnsure ==
    /\ startup = "ensure"
    /\ startup' = "self_test"
    /\ \/ device' = [device EXCEPT !.user = TRUE] /\ Mark
       \/ device' \in {device, [device EXCEPT !.user = TRUE]} /\ UNCHANGED settings
    /\ UNCHANGED <<phase, held, view, report, unsaid, renew, restarts>>

StartupSelfTest ==
    /\ startup = "self_test"
    /\ startup' = "none"
    /\ UNCHANGED <<phase, settings, held, view, agent>>

\* The agent keeps the display bridge in RAM.  Its next subscription is a new
\* one, and on_runtime_registration_created configures the bridge again.
AgentRestarts ==
    /\ restarts < MaxRestarts
    /\ restarts' = restarts + 1
    /\ device' = [device EXCEPT !.bridge = FALSE]
    /\ renew' = TRUE
    /\ UNCHANGED <<phase, settings, held, view, startup, report, unsaid>>

RegistrationHook == ConfigureBridge \/ UrlRaises
RegistrationCreated ==
    /\ renew
    /\ phase = "loaded" /\ online
    /\ renew' = FALSE
    /\ RegistrationHook
    /\ UNCHANGED <<phase, settings, held, view, startup, restarts>>

-----------------------------------------------------------------------------
(* Changes, reload and removal.                                             *)

SettingsChange ==
    /\ phase # "removed"
    /\ stored.rev < MaxEdits
    /\ \E u \in {"on", "off"} :
          Changes([stored EXCEPT !.ui = u, !.rev = stored.rev + 1])
    /\ UNCHANGED <<phase, held, view, startup, agent>>

\* A Display patch is installed or removed, or lost with an update of the device.
PatchChanges ==
    /\ phase = "loaded" /\ startup = "none"
    /\ device' = [device EXCEPT !.patched = ~device.patched]
    /\ UNCHANGED <<phase, settings, held, view, startup, report, unsaid, renew, restarts>>

\* cleanup_entry_runtime_resources and C300XRuntimeResources.close; Home
\* Assistant itself removes the listener.
TaskCancelled == startup' = "none"
CleanUp == held' = {} /\ TaskCancelled

Reloads ==
    /\ phase = "loaded" /\ asked > 0
    /\ asked' = asked - 1
    /\ phase' = "validate"
    /\ used' = stored /\ missed' = FALSE
    /\ CleanUp
    /\ UNCHANGED <<form, stored, seen, view, agent>>

\* async_unload: a platform that does not unload keeps everything in place,
\* and Home Assistant reloads this entry no more.
UnloadRefused ==
    /\ phase = "loaded" /\ asked > 0
    /\ phase' = "stuck"
    /\ UNCHANGED <<settings, held, view, startup, agent>>

\* async_remove_entry.
Removed ==
    /\ phase \in {"loaded", "failed"}
    /\ phase' = "removed"
    /\ asked' = 0
    /\ buttons' = "none"
    /\ CleanUp
    /\ UNCHANGED <<form, stored, used, seen, missed, online, known, gate, agent>>

EntryNext ==
    \/ Migrates \/ Validated \/ GateRead \/ ActivationsSynced \/ PlatformsForwarded
    \/ StartupBridge \/ StartupPatch \/ StartupUser \/ StartupEnsure \/ StartupSelfTest
    \/ AgentRestarts \/ RegistrationCreated
    \/ SettingsChange \/ PatchChanges \/ Reloads \/ UnloadRefused \/ Removed

EntrySpec == EntryInit /\ [][EntryNext]_entryVars

-----------------------------------------------------------------------------
(* An entry that is not set up holds nothing, and no startup sync of it is *)
(* left: async_unload, async_remove_entry.                                 *)
NothingLeft == phase \notin Registered => held = {} /\ startup = "none"

(* A loaded entry with no reload ahead was set up with the settings there  *)
(* are, unless they changed before its listener was registered.            *)
Applied == phase = "loaded" /\ asked = 0 /\ ~missed => stored = used

(* With nothing under way, the display bridge of the agent is as the entry *)
(* wants it, or its diagnostics say that the last call failed, or it is    *)
(* wanted and the last attempt found no URL to call Home Assistant by,     *)
(* which no diagnostics say.                                               *)
BridgeServed ==
    phase = "loaded" /\ online /\ startup = "none" /\ ~renew /\ asked = 0
        => device.bridge = BridgeWanted \/ report = "failure" \/ (unsaid /\ BridgeWanted)

(* async_prepare, async_unload and the listener together: what an entry    *)
(* holds, that it runs with its settings, and that the device serves it.   *)
EntryConsistent == EntryTypeOK /\ NothingLeft /\ Applied /\ BridgeServed

(* The comment in async_prepare: a setup in which the agent answered never *)
(* removes the buttons of an entry that has them by its active patch, so   *)
(* what the user renamed or moved is kept, unless the status of the patch  *)
(* was asked for and not answered.                                         *)
ButtonsSurvive ==
    [][buttons = "customised" /\ buttons' = "none" /\ phase' # "removed"
        => stored.ui = "off" \/ ~device.patched \/ ~online'
           \/ (phase = "gate" /\ ~gate')]_entryVars
(* The entry, its settings and its device agree in every state, and the    *)
(* buttons survive every setup that has no reason to remove them.          *)
EntryKept == []EntryConsistent /\ ButtonsSurvive
=============================================================================
