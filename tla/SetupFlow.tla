------------------------------ MODULE SetupFlow ------------------------------
(***************************************************************************)
(* The config flow from the first page to the config entry, with the SSH   *)
(* bootstrap installer: manual and zeroconf flows run side by side for one *)
(* device.  A manual flow holds a unique id made of the host until it has  *)
(* learnt the stable id of the agent; the device may move, stop and be     *)
(* installed again while the pages are open.                               *)
(*                                                                         *)
(* A step of a flow that awaits the network is two actions.  The core of   *)
(* Home Assistant (unique ids, flows in progress) is external.             *)
(***************************************************************************)
EXTENDS Naturals, FiniteSets

CONSTANTS Flow, Host, MaxTokens, MaxTroubles

ASSUME SetupBounds == /\ MaxTokens \in Nat \ {0} /\ MaxTroubles \in Nat
                      /\ IsFiniteSet(Flow) /\ "nobody" \notin Flow /\ Host # {}

VARIABLES unit,         \* the device: address, running agent, tokens on disk and loaded
          named,        \* the agent reports a device id
          setupFlows,   \* the flows
          configEntries,\* the entry a flow made, or NoEntry
          nameless,     \* flows whose entry was made without the stable id
          tokensMade, troubles,
          lastWriter    \* the flow that wrote the device's configuration last

setupVars == <<unit, named, setupFlows, configEntries, nameless, tokensMade, troubles, lastWriter>>

Nobody == "nobody"
NoUid == <<"none">>
DomainUid == <<"domain">>
AgentUid == <<"stable">>
NoEntry == [uid |-> NoUid, host |-> "none", token |-> 0]
ManualUid(h) == <<"manual", h>>
StableUid == IF named THEN AgentUid ELSE DomainUid
ManualUids == {ManualUid(h) : h \in Host} \cup {DomainUid}   \* _entry_uses_manual_setup_unique_id
NewFlow == [step |-> "new", uid |-> NoUid, adopt |-> NoUid, host |-> "none", token |-> 0]
Forms == {"agent_missing", "agent_auth", "bootstrap", "features"}
Installing == {"connecting", "connected", "uploaded", "config_written", "startup", "open",
               "restarted", "checked", "verified"}
Steps == Forms \cup Installing \cup {"new", "probing", "matching", "adopting", "gone"}
Part == {"files", "startup", "firewall"}                \* what an install leaves behind

Live(f) == setupFlows[f].step \notin {"new", "gone"}
Entries == {f \in Flow : configEntries[f] # NoEntry}
Configured(uid) == \E f \in Entries : configEntries[f].uid = uid
InProgress(f, uid) == \E g \in Flow \ {f} : Live(g) /\ setupFlows[g].uid = uid
Heard(host) == unit.up /\ unit.at = host /\ "firewall" \in unit.parts
Reaches(host, token) == Heard(host) /\ token = unit.loaded

SetupInit ==
    /\ unit \in [at : {CHOOSE h \in Host : TRUE}, up : BOOLEAN, disk : {1}, loaded : {1},
                 parts : {{}, Part}]
    /\ unit.up => unit.parts = Part
    /\ named \in BOOLEAN
    /\ setupFlows = [f \in Flow |-> NewFlow]
    /\ configEntries = [f \in Flow |-> NoEntry]
    /\ nameless = {}
    /\ tokensMade = 1 /\ troubles = 0
    /\ lastWriter = Nobody

Goes(f, s) == setupFlows' = [setupFlows EXCEPT ![f].step = s]
FlowOnly == UNCHANGED <<unit, named, configEntries, nameless, tokensMade, troubles, lastWriter>>

(* async_set_unique_id and _abort_if_unique_id_configured: a flow ends     *)
(* when another flow or an entry has the id.                               *)
Taken(f, uid) == InProgress(f, uid) \/ Configured(uid)

(* async_step_user, up to the probe.                                       *)
AddressGiven(f, h) ==
    /\ setupFlows[f].step = "new"
    /\ setupFlows' = [setupFlows EXCEPT ![f] =
         [@ EXCEPT !.host = h, !.uid = ManualUid(h),
                   !.step = IF Taken(f, ManualUid(h)) THEN "gone" ELSE "probing"]]
    /\ FlowOnly

(* _async_probe_agent without a token: the agent asks for one, or it is    *)
(* missing; any other error counts as missing.  A discovered agent that    *)
(* does not answer ends its flow.                                          *)
Probed(f, found) ==
    /\ setupFlows[f].step = "probing"
    /\ found => Heard(setupFlows[f].host)
    /\ IF ~found /\ Heard(setupFlows[f].host)
         THEN troubles < MaxTroubles /\ troubles' = troubles + 1
         ELSE UNCHANGED troubles
    /\ Goes(f, IF found THEN "agent_auth"
               ELSE IF setupFlows[f].adopt = NoUid THEN "agent_missing" ELSE "gone")
    /\ UNCHANGED <<unit, named, configEntries, nameless, tokensMade, lastWriter>>

(* async_step_agent_missing: install the agent, or go on without it.       *)
MissingAnswered(f, install) ==
    /\ setupFlows[f].step = "agent_missing"
    /\ Goes(f, IF install THEN "bootstrap" ELSE "agent_auth")
    /\ FlowOnly

(* async_step_bootstrap_install: the duplicate check, then the installer   *)
(* with a new pair of tokens.                                              *)
InstallAsked(f) ==
    /\ setupFlows[f].step = "bootstrap"
    /\ Goes(f, IF Taken(f, ManualUid(setupFlows[f].host)) THEN "gone" ELSE "connecting")
    /\ FlowOnly

InstallStep(f, from, to) ==
    /\ setupFlows[f].step = from
    /\ unit.at = setupFlows[f].host
    /\ Goes(f, to)
    /\ UNCHANGED <<named, configEntries, nameless, tokensMade, troubles, lastWriter>>

(* The dependency, the request, the bundle and the SSH connection.         *)
Connected(f) == InstallStep(f, "connecting", "connected") /\ UNCHANGED unit

(* put_file replaces each payload that differs by a rename.                *)
Uploaded(f) ==
    /\ InstallStep(f, "connected", "uploaded")
    /\ unit' = [unit EXCEPT !.parts = @ \cup {"files"}]

(* _write_remote_file_sync of config.json, a rename; the running agent     *)
(* keeps the token it has loaded.                                          *)
ConfigWritten(f) ==
    /\ setupFlows[f].step = "uploaded"
    /\ unit.at = setupFlows[f].host
    /\ tokensMade < MaxTokens
    /\ tokensMade' = tokensMade + 1
    /\ unit' = [unit EXCEPT !.disk = tokensMade']
    /\ lastWriter' = f
    /\ setupFlows' = [setupFlows EXCEPT ![f].step = "config_written", ![f].token = tokensMade']
    /\ UNCHANGED <<named, configEntries, nameless, troubles>>

(* _install_startup_script_sync: the init script and its link, with the    *)
(* root file system writable for that one command.                         *)
StartupInstalled(f) ==
    /\ InstallStep(f, "config_written", "startup")
    /\ unit' = [unit EXCEPT !.parts = @ \cup {"startup"}]

FirewallOpened(f) ==
    /\ InstallStep(f, "startup", "open")
    /\ unit' = [unit EXCEPT !.parts = @ \cup {"firewall"}]

Restarted(f) ==
    /\ InstallStep(f, "open", "restarted")
    /\ unit' = [unit EXCEPT !.up = TRUE, !.loaded = unit.disk]

(* _verify_startup_sync and the core patch of the display files.           *)
StartupVerified(f) ==
    /\ InstallStep(f, "restarted", "checked")
    /\ "startup" \in unit.parts /\ unit.up
    /\ UNCHANGED unit

(* C300XDeviceInstallError at any command, a probe that fails, or the MQTT *)
(* migration: the form is shown again, and the device keeps what was done. *)
InstallFails(f) ==
    /\ setupFlows[f].step \in Installing
    /\ IF unit.at = setupFlows[f].host
         THEN troubles < MaxTroubles /\ troubles' = troubles + 1
         ELSE UNCHANGED troubles
    /\ Goes(f, "bootstrap")
    /\ UNCHANGED <<unit, named, configEntries, nameless, tokensMade, lastWriter>>

(* The probe with the new token.                                           *)
InstallProbed(f) ==
    /\ setupFlows[f].step = "checked"
    /\ Goes(f, IF Reaches(setupFlows[f].host, setupFlows[f].token) THEN "verified" ELSE "bootstrap")
    /\ FlowOnly

(* async_migrate_legacy_mqtt_for_connection, then the adoption.            *)
Migrated(f) ==
    /\ setupFlows[f].step = "verified"
    /\ Goes(f, "adopting")
    /\ FlowOnly

(* async_step_agent_auth: the token the user types.                        *)
TokenTyped(f, t) ==
    /\ setupFlows[f].step = "agent_auth"
    /\ setupFlows' = [setupFlows EXCEPT ![f].step = "adopting", ![f].token = t]
    /\ FlowOnly

(* _async_adopt_agent_unique_id: an agent that answers and has a device id *)
(* names the flow, and the other flows for that id are aborted.            *)
Adopted(f, answered) ==
    /\ setupFlows[f].step = "adopting"
    /\ answered => Reaches(setupFlows[f].host, setupFlows[f].token)
    /\ IF ~answered /\ Reaches(setupFlows[f].host, setupFlows[f].token)
         THEN troubles < MaxTroubles /\ troubles' = troubles + 1
         ELSE UNCHANGED troubles
    /\ setupFlows' = IF answered /\ named
                     THEN [g \in Flow |->
                             IF g = f THEN [setupFlows[f] EXCEPT !.step = "features", !.adopt = AgentUid]
                             ELSE IF Live(g) /\ setupFlows[g].uid = AgentUid
                                  THEN [setupFlows[g] EXCEPT !.step = "gone"] ELSE setupFlows[g]]
                     ELSE [setupFlows EXCEPT ![f].step = "features"]
    /\ UNCHANGED <<unit, named, configEntries, nameless, tokensMade, lastWriter>>

MakesAnyEntry(f, uid) ==
    /\ configEntries' = [configEntries EXCEPT ![f] =
         [uid |-> uid, host |-> setupFlows[f].host, token |-> setupFlows[f].token]]
    /\ nameless' = IF uid = AgentUid THEN nameless ELSE nameless \cup {f}

MakesEntry(f, uid) ==
    IF Configured(uid) THEN UNCHANGED <<configEntries, nameless>>
    ELSE /\ configEntries' = [configEntries EXCEPT ![f] =
              [uid |-> uid, host |-> setupFlows[f].host, token |-> setupFlows[f].token]]
         /\ nameless' = IF uid = AgentUid THEN nameless ELSE nameless \cup {f}

(* _async_create_setup_entry, after the pages of features, activations and *)
(* dashboard: with an adopted id the parallel flows are aborted first;     *)
(* without one a parallel flow for the host aborts this one.               *)
Created(f) ==
    LET uid == IF setupFlows[f].adopt # NoUid THEN setupFlows[f].adopt
               ELSE ManualUid(setupFlows[f].host) IN
    /\ setupFlows[f].step = "features"
    /\ setupFlows' = [g \in Flow |->
         IF g = f \/ (setupFlows[f].adopt # NoUid /\ Live(g) /\ setupFlows[g].uid = uid)
         THEN [setupFlows[g] EXCEPT !.step = "gone"] ELSE setupFlows[g]]
    /\ IF setupFlows[f].adopt = NoUid /\ InProgress(f, uid)
         THEN UNCHANGED <<configEntries, nameless>>
         ELSE MakesEntry(f, uid)
    /\ UNCHANGED <<unit, named, tokensMade, troubles, lastWriter>>

(* async_step_zeroconf: an entry or a flow with the id ends this flow; the *)
(* entry takes the new address.  The renewal of its event registration is  *)
(* EventRegistration's.                                                    *)
Discovered(f) ==
    /\ setupFlows[f].step = "new"
    /\ Heard(unit.at)
    /\ setupFlows' = [setupFlows EXCEPT ![f] =
         [@ EXCEPT !.host = unit.at, !.uid = StableUid, !.adopt = StableUid,
                   !.step = IF Taken(f, StableUid) THEN "gone"
                            ELSE IF named THEN "matching" ELSE "probing"]]
    /\ configEntries' = IF InProgress(f, StableUid) THEN configEntries
                        ELSE [g \in Flow |-> IF configEntries[g].uid = StableUid
                                THEN [configEntries[g] EXCEPT !.host = unit.at] ELSE configEntries[g]]
    /\ UNCHANGED <<unit, named, nameless, tokensMade, troubles, lastWriter>>

(* _async_abort_if_zeroconf_targets_existing_manual_entry: a manual entry  *)
(* at this address, or whose token this agent accepts, takes the id.       *)
Merged(f, e) ==
    /\ setupFlows[f].step = "matching"
    /\ e \in Entries /\ configEntries[e].uid \in ManualUids
    /\ configEntries[e].host = setupFlows[f].host
         \/ (configEntries[e].token # 0 /\ Reaches(setupFlows[f].host, configEntries[e].token))
    /\ configEntries' = [configEntries EXCEPT ![e].uid = AgentUid]
    /\ Goes(f, "gone")
    /\ UNCHANGED <<unit, named, nameless, tokensMade, troubles, lastWriter>>

NoneMatches(f) ==
    /\ setupFlows[f].step = "matching"
    /\ \A e \in Entries : configEntries[e].uid \in ManualUids =>
         /\ configEntries[e].host # setupFlows[f].host
         /\ configEntries[e].token = 0 \/ ~Reaches(setupFlows[f].host, configEntries[e].token)
    /\ Goes(f, "probing")
    /\ FlowOnly

Abandoned(f) ==
    /\ setupFlows[f].step \in Forms
    /\ Goes(f, "gone")
    /\ FlowOnly

(* The device: its agent stops, starts from the disk, or moves.            *)
UnitChanges(u) ==
    /\ troubles < MaxTroubles
    /\ troubles' = troubles + 1
    /\ unit' = u
    /\ UNCHANGED <<named, setupFlows, configEntries, nameless, tokensMade, lastWriter>>
AgentStops == unit.up /\ UnitChanges([unit EXCEPT !.up = FALSE])
AgentStarts == ~unit.up /\ {"files", "startup"} \subseteq unit.parts /\ UnitChanges([unit EXCEPT !.up = TRUE, !.loaded = unit.disk])
UnitMoves == \E h \in Host \ {unit.at} : UnitChanges([unit EXCEPT !.at = h])

FlowStep(f) ==
    \/ \E h \in Host : AddressGiven(f, h)
    \/ \E found \in BOOLEAN : Probed(f, found) \/ MissingAnswered(f, found) \/ Adopted(f, found)
    \/ InstallAsked(f) \/ Connected(f) \/ Uploaded(f) \/ ConfigWritten(f) \/ StartupInstalled(f)
    \/ FirewallOpened(f) \/ Restarted(f) \/ StartupVerified(f) \/ InstallFails(f)
    \/ InstallProbed(f) \/ Migrated(f)
    \/ \E t \in {0, unit.loaded} : TokenTyped(f, t)
    \/ Created(f)
    \/ Discovered(f) \/ NoneMatches(f)
    \/ \E e \in Flow : Merged(f, e)
    \/ Abandoned(f)

SetupNext == (\E f \in Flow : FlowStep(f)) \/ AgentStops \/ AgentStarts \/ UnitMoves
SetupSpec == SetupInit /\ [][SetupNext]_setupVars

-----------------------------------------------------------------------------
Uids == ManualUids \cup {NoUid, AgentUid}
SetupTypeOK ==
    /\ unit \in [at : Host, up : BOOLEAN, disk : 1..MaxTokens, loaded : 1..MaxTokens,
               parts : SUBSET Part]
    /\ setupFlows \in [Flow -> [step : Steps, uid : Uids, adopt : {NoUid, AgentUid, DomainUid},
                                host : Host \cup {"none"}, token : 0..MaxTokens]]
    /\ configEntries \in [Flow -> [uid : Uids, host : Host \cup {"none"}, token : 0..MaxTokens]]
    /\ nameless \subseteq Flow /\ lastWriter \in Flow \cup {Nobody}

(* One device has one entry, unless one was made without the stable id.    *)
OneEntryPerDevice == Cardinality(Entries) > 1 => nameless # {}

(* Two flows never work for the same unique id.                            *)
FlowsDistinct ==
    \A f, g \in Flow : f # g /\ Live(f) /\ Live(g) => setupFlows[f].uid # setupFlows[g].uid

(* The entry of the flow that installed the device last can talk to it,    *)
(* and the device starts its agent again after a power loss.               *)
InstallerServed ==
    \A f \in Entries : lastWriter = f => configEntries[f].token = unit.disk /\ unit.parts = Part

(* INVARIANT.  However manual and discovered flows, installs, moves and    *)
(* outages interleave, one device gets one entry, flows keep to different  *)
(* unique ids, and an installed device is reached by the entry it was      *)
(* installed for (config_flow.py:380-438, 831-873).                        *)
SetupTrue == SetupTypeOK /\ OneEntryPerDevice /\ FlowsDistinct /\ InstallerServed
=============================================================================
