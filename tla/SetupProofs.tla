----------------------------- MODULE SetupProofs -----------------------------
(***************************************************************************)
(* Proofs about an entry of Home Assistant: how it is set up, reloaded and *)
(* unloaded, how flows that run side by side make it, how it is edited, and *)
(* what owns its media, for any number of flows, addresses, tokens, clients *)
(* and changes.                                                            *)
(***************************************************************************)
EXTENDS EntrySetup, SetupFlow, OptionsFlow, MediaDecision, Sequences,
        FiniteSetTheorems, TLAPS

(***************************************************************************)
(* Entry setup.                                                            *)
(***************************************************************************)
SetUp == Registered \cup {"validate"}

\* What is registered has its listener, which has seen the settings there
\* are; a startup sync is that of an entry whose platforms are forwarded.
ListenerSees ==
    /\ startup # "none" => phase \in {"loaded", "stuck"}
    /\ phase \in Registered => "listener" \in held
    /\ "listener" \in held => seen = stored

\* Every reload that is asked for is of a revision, or of the user's marker.
ReloadsAreOfEdits == asked <= stored.rev + (IF stored.marked THEN 1 ELSE 0)

\* Applied and BridgeServed, from the steps on that establish them.
UsedSinceSetup == phase \in SetUp /\ asked = 0 /\ ~missed => stored = used
ServedSinceBridge ==
    phase = "loaded" /\ online /\ startup # "bridge" /\ ~renew /\ asked = 0
        => device.bridge = BridgeWanted \/ report = "failure" \/ (unsaid /\ BridgeWanted)

EntryInv == /\ EntryTypeOK /\ NothingLeft /\ ListenerSees /\ ReloadsAreOfEdits
            /\ UsedSinceSetup /\ ServedSinceBridge

LEMMA EntryInvConsistent == EntryInv => EntryConsistent
BY DEF EntryInv, EntryConsistent, Applied, UsedSinceSetup, BridgeServed, ServedSinceBridge, SetUp,
       Registered

LEMMA EntryInitInv == EntryInit => EntryInv
<1> SUFFICES ASSUME EntryInit PROVE EntryInv
  OBVIOUS
<1>1. device \in Device
  BY EntrySetupAssumption DEF EntryInit, Device
<1>2. stored \in Setting /\ used \in Setting /\ seen \in Setting /\ stored.rev = 0
  <2>1. PICK u \in {"unset", "on", "off"} : stored = [ui |-> u, rev |-> 0, marked |-> FALSE]
    BY DEF EntryInit
  <2>2. used = stored /\ seen = stored
    BY DEF EntryInit
  <2> QED
    BY <2>1, <2>2, EntrySetupAssumption DEF Setting
<1>3. EntryTypeOK
  <2>1. /\ phase = "migrate" /\ form \in {"current", "old", "hostless"}
        /\ asked = 0 /\ missed = FALSE /\ held = {}
        /\ online = FALSE /\ known = FALSE /\ gate = FALSE /\ buttons \in {"none", "customised"}
        /\ startup = "none" /\ report = "none" /\ unsaid = FALSE /\ renew = FALSE /\ restarts = 0
    BY DEF EntryInit
  <2> QED
    <3>1. asked \in 0 .. MaxEdits + 1 /\ restarts \in 0 .. MaxRestarts
      BY <2>1, EntrySetupAssumption
    <3> QED
      BY <1>1, <1>2, <2>1, <3>1 DEF EntryTypeOK, Phase
<1> QED
  BY <1>1, <1>2, <1>3, EntrySetupAssumption
   DEF EntryInit, EntryInv, NothingLeft, ListenerSees, Registered,
       ReloadsAreOfEdits, UsedSinceSetup, SetUp, ServedSinceBridge

\* What a change of the settings does while the entry is set up or being so.
LEMMA ChangesInv ==
  ASSUME EntryTypeOK, ListenerSees, ReloadsAreOfEdits, UsedSinceSetup,
         NEW now \in Setting, Changes(now),
         now.rev + (IF now.marked THEN 1 ELSE 0) > stored.rev + (IF stored.marked THEN 1 ELSE 0)
  PROVE  /\ stored' \in Setting /\ used' \in Setting /\ seen' \in Setting
         /\ form' \in {"current", "old", "hostless"} /\ missed' \in BOOLEAN
         /\ asked' \in 0 .. MaxEdits + 1 /\ ReloadsAreOfEdits'
         /\ "listener" \in held => seen' = stored'
         /\ phase \in Registered => asked' > 0
         /\ phase \in SetUp /\ asked' = 0 /\ ~missed' => stored' = used'
<1>1. stored' = now /\ used' = used /\ form' = form
  BY DEF Changes
<1>2. now # stored
  BY DEF EntryTypeOK, Setting
<1>3. CASE "listener" \in held
  <2>1. asked' = asked + 1 /\ seen' = now
    BY <1>2, <1>3 DEF Changes, ListenerSees
  <2>2. missed' = missed
    BY <1>3 DEF Changes, EntryTypeOK
  <2> QED
    BY <1>1, <1>3, <2>1, <2>2, EntrySetupAssumption
       DEF EntryTypeOK, Setting, ReloadsAreOfEdits
<1>4. CASE "listener" \notin held
  <2>1. asked' = asked /\ seen' = seen
        /\ IF phase = "validate" THEN missed' = TRUE ELSE missed' = missed
    BY <1>4 DEF Changes, EntryTypeOK
  <2>2. phase \notin Registered
    BY <1>4 DEF ListenerSees
  <2>3. ReloadsAreOfEdits'
    BY <1>1, <2>1 DEF EntryTypeOK, Setting, ReloadsAreOfEdits
  <2> QED
    BY <1>1, <1>4, <2>1, <2>2, <2>3 DEF EntryTypeOK, SetUp
<1> QED
  BY <1>3, <1>4

ServedByCall ==
    \/ device'.bridge = BridgeWanted /\ report' = "success"
    \/ report' = "failure"
    \/ unsaid' /\ BridgeWanted /\ report' = report

\* A call that configures the bridge serves it, or is reported as failed, or
\* had no URL to give.
LEMMA BridgeIsConfigured ==
  ASSUME EntryTypeOK, ConfigureBridge \/ UrlRaises
  PROVE  /\ ServedByCall /\ device' \in Device /\ unsaid' \in BOOLEAN
         /\ report' \in {"none", "success", "failure"}
BY DEF EntryTypeOK, Device, ConfigureBridge, UrlRaises, FailureReported, ServedByCall, BridgeWanted

\* The marker of the updater is a change of the settings, once.
LEMMA MarkInv ==
  ASSUME EntryInv, Mark
  PROVE  UNCHANGED settings \/
         /\ stored' \in Setting /\ used' \in Setting /\ seen' \in Setting
         /\ form' \in {"current", "old", "hostless"} /\ missed' \in BOOLEAN
         /\ asked' \in 0 .. MaxEdits + 1 /\ ReloadsAreOfEdits'
         /\ "listener" \in held => seen' = stored'
         /\ phase \in Registered => asked' > 0
         /\ phase \in SetUp /\ asked' = 0 /\ ~missed' => stored' = used'
<1>1. CASE stored.marked
  BY <1>1 DEF Mark
<1>2. CASE ~stored.marked
  <2> DEFINE now == [stored EXCEPT !.marked = TRUE]
  <2>1. now \in Setting /\ now.rev = stored.rev /\ now.marked /\ stored.rev \in Nat
    <3>1. stored \in Setting
      BY DEF EntryInv, EntryTypeOK
    <3>2. now \in Setting
      BY <3>1 DEF Setting
    <3>3. now.rev = stored.rev /\ now.marked = TRUE
      BY <3>1 DEF Setting
    <3>4. stored.rev \in Nat
      BY <3>1, EntrySetupAssumption DEF Setting
    <3> QED
      BY <3>2, <3>3, <3>4
  <2>2. Changes(now)
    BY <1>2 DEF Mark
  <2>3. now.rev + (IF now.marked THEN 1 ELSE 0) > stored.rev + (IF stored.marked THEN 1 ELSE 0)
    BY <1>2, <2>1
  <2> HIDE DEF now
  <2> QED
    BY <2>1, <2>2, <2>3, ChangesInv DEF EntryInv
<1> QED
  BY <1>1, <1>2

LEMMA EntryStep == EntryInv /\ [EntryNext]_entryVars => EntryInv'
<1> SUFFICES ASSUME EntryInv, [EntryNext]_entryVars PROVE EntryInv'
  OBVIOUS
<1> USE EntrySetupAssumption
    DEF EntryInv, EntryTypeOK, Phase, NothingLeft, ListenerSees, Registered, UsedSinceSetup, SetUp,
        ServedSinceBridge, settings, view, agent
<1>1. CASE Migrates
  BY <1>1 DEF Migrates, ReloadsAreOfEdits
<1>2. CASE Validated
  BY <1>2 DEF Validated, NotAskedYet, AfterRemoval, ReloadsAreOfEdits
<1>3. CASE GateRead
  BY <1>3 DEF GateRead, PatchRead, AfterRemoval, Device, ReloadsAreOfEdits
<1>4. CASE ActivationsSynced
  BY <1>4 DEF ActivationsSynced, ReloadsAreOfEdits, Setting, Device
<1>5. CASE PlatformsForwarded
  BY <1>5 DEF PlatformsForwarded, ReloadsAreOfEdits
<1>6. CASE StartupBridge
  <2>1. /\ ServedByCall /\ device' \in Device /\ unsaid' \in BOOLEAN
        /\ report' \in {"none", "success", "failure"}
    BY <1>6, BridgeIsConfigured DEF StartupBridge
  <2>2. /\ startup = "bridge" /\ startup' \in {"none", "user", "patch"}
        /\ UNCHANGED <<phase, settings, held, view, renew, restarts>>
    BY <1>6 DEF StartupBridge
  <2>3. EntryTypeOK'
    BY <2>1, <2>2
  <2>4. NothingLeft' /\ ListenerSees' /\ ReloadsAreOfEdits' /\ UsedSinceSetup'
    BY <2>2 DEF ReloadsAreOfEdits
  <2>5. ServedSinceBridge'
    BY <2>1, <2>2 DEF ServedByCall, BridgeWanted
  <2> QED
    BY <2>3, <2>4, <2>5
<1>7. CASE StartupPatch
  <2>1. gate' \in BOOLEAN /\ known' \in BOOLEAN
    BY <1>7 DEF StartupPatch, PatchRead, Device
  <2> QED
    BY <1>7, <2>1 DEF StartupPatch, ReloadsAreOfEdits, BridgeWanted
<1>8. CASE StartupUser
  BY <1>8, MarkInv DEF StartupUser, ReloadsAreOfEdits, BridgeWanted
<1>9. CASE StartupEnsure
  <2>1. device' \in Device /\ device'.bridge = device.bridge
    BY <1>9 DEF StartupEnsure, Device
  <2>2. /\ Mark \/ UNCHANGED settings
        /\ phase' = phase /\ startup = "ensure" /\ startup' = "self_test"
        /\ UNCHANGED <<held, view, report, unsaid, renew, restarts>>
    BY <1>9 DEF StartupEnsure
  <2> QED
    BY <2>1, <2>2, MarkInv DEF ReloadsAreOfEdits, BridgeWanted
<1>10. CASE StartupSelfTest
  BY <1>10 DEF StartupSelfTest, ReloadsAreOfEdits, BridgeWanted
<1>11. CASE AgentRestarts
  <2>1. device' \in Device
    BY <1>11 DEF AgentRestarts, Device
  <2>2. restarts' \in 0 .. MaxRestarts
    BY <1>11 DEF AgentRestarts
  <2> QED
    BY <1>11, <2>1, <2>2 DEF AgentRestarts, ReloadsAreOfEdits
<1>12. CASE RegistrationCreated
  <2>1. /\ ServedByCall /\ device' \in Device /\ unsaid' \in BOOLEAN
        /\ report' \in {"none", "success", "failure"}
    BY <1>12, BridgeIsConfigured DEF RegistrationCreated, RegistrationHook
  <2>2. renew' = FALSE /\ UNCHANGED <<phase, settings, held, view, startup, restarts>>
    BY <1>12 DEF RegistrationCreated
  <2>3. report' \in {"none", "success", "failure"} /\ unsaid' \in BOOLEAN
    BY <2>1
  <2> QED
    <3>0. device' \in Device
      BY <2>1
    <3>a. renew' \in BOOLEAN
      BY ONLY <2>2
    <3>b. /\ UNCHANGED <<phase, form, stored, used, seen, asked, missed, held, online, known, gate,
                         buttons, startup, restarts>>
      BY ONLY <2>2 DEF settings, view
    <3>1. EntryTypeOK'
      BY ONLY EntryTypeOK, <3>a, <3>b, <2>3, <3>0, ZenonT(90) DEF EntryTypeOK
    <3>2. NothingLeft' /\ ListenerSees' /\ ReloadsAreOfEdits' /\ UsedSinceSetup'
      BY <2>2 DEF ReloadsAreOfEdits
    <3>3. ServedSinceBridge'
      BY <2>1, <2>2 DEF ServedByCall, BridgeWanted
    <3> QED
      BY <3>1, <3>2, <3>3
<1>13. CASE SettingsChange
  <2>1. PICK u \in {"on", "off"} : Changes([stored EXCEPT !.ui = u, !.rev = stored.rev + 1])
    BY <1>13 DEF SettingsChange
  <2> DEFINE now == [stored EXCEPT !.ui = u, !.rev = stored.rev + 1]
  <2>2. now \in Setting /\ now.rev = stored.rev + 1 /\ now.marked = stored.marked
        /\ stored.rev \in Nat
    <3>1. stored \in Setting /\ stored.rev < MaxEdits
      BY <1>13 DEF SettingsChange
    <3>2. stored.rev + 1 \in 0 .. MaxEdits /\ stored.rev \in Nat
      BY <3>1 DEF Setting
    <3>3. now \in Setting
      BY <3>1, <3>2 DEF Setting
    <3>4. now.rev = stored.rev + 1
      BY <3>1 DEF Setting
    <3>5. now.marked = stored.marked
      BY <3>1 DEF Setting
    <3> QED
      BY <3>2, <3>3, <3>4, <3>5
  <2>3. now.rev + (IF now.marked THEN 1 ELSE 0) > stored.rev + (IF stored.marked THEN 1 ELSE 0)
    BY <2>2
  <2>4. UNCHANGED <<phase, held, view, startup, agent>>
    BY <1>13 DEF SettingsChange
  <2> HIDE DEF now
  <2>5. Changes(now)
    BY <2>1 DEF now
  <2> QED
    BY <2>2, <2>3, <2>4, <2>5, ChangesInv
<1>14. CASE PatchChanges
  <2>1. device' \in Device /\ device'.bridge = device.bridge
    BY <1>14 DEF PatchChanges, Device
  <2> QED
    BY <1>14, <2>1 DEF PatchChanges, ReloadsAreOfEdits, BridgeWanted
<1>15. CASE Reloads
  <2>1. asked' \in 0 .. MaxEdits + 1 /\ asked' < asked
    BY <1>15 DEF Reloads
  <2>2. ReloadsAreOfEdits'
    BY <1>15, <2>1 DEF Reloads, ReloadsAreOfEdits, Setting
  <2> QED
    <3>1. /\ phase' = "validate" /\ used' = stored /\ missed' = FALSE /\ held' = {}
          /\ startup' = "none" /\ UNCHANGED <<form, stored, seen, view, agent>>
      BY <1>15 DEF Reloads, CleanUp, TaskCancelled
    <3> QED
      BY <2>1, <2>2, <3>1
<1>16. CASE UnloadRefused
  BY <1>16 DEF UnloadRefused, ReloadsAreOfEdits
<1>17. CASE Removed
  BY <1>17 DEF Removed, CleanUp, TaskCancelled, ReloadsAreOfEdits, Setting
<1>18. CASE UNCHANGED entryVars
  BY <1>18 DEF entryVars, ReloadsAreOfEdits, BridgeWanted
<1> QED
  BY <1>1, <1>2, <1>3, <1>4, <1>5, <1>6, <1>7, <1>8, <1>9, <1>10, <1>11, <1>12, <1>13, <1>14,
     <1>15, <1>16, <1>17, <1>18 DEF EntryNext

\* An entry holds nothing unless it is set up, runs with the settings there
\* are, and is served by its device, or says that it is not, or has no URL to
\* be called by (runtime_manager.py, async_prepare).
THEOREM EntryConsistentHolds == EntrySpec => []EntryConsistent
BY EntryInitInv, EntryStep, EntryInvConsistent, PTL DEF EntrySpec

\* ButtonsSurvive: only a setup that was not told of an active patch, or a
\* removal, takes the buttons away (_async_remove_stale_gui_dependent_entities).
THEOREM ButtonsSurviveHolds == EntrySpec => ButtonsSurvive
<1> DEFINE Kept == buttons = "customised" /\ buttons' = "none" /\ phase' # "removed"
                     => stored.ui = "off" \/ ~device.patched \/ ~online'
                        \/ (phase = "gate" /\ ~gate')
<1>1. EntryInv /\ [EntryNext]_entryVars => [Kept]_entryVars
  <2> SUFFICES ASSUME EntryInv, EntryNext, buttons = "customised", buttons' = "none",
                      phase' # "removed"
               PROVE  stored.ui = "off" \/ ~device.patched \/ ~online'
                      \/ (phase = "gate" /\ ~gate')
    OBVIOUS
  <2>1. Validated \/ GateRead
    BY DEF EntryNext, Migrates, ActivationsSynced, PlatformsForwarded, StartupBridge,
           StartupPatch, StartupUser, StartupEnsure, StartupSelfTest, AgentRestarts,
           RegistrationCreated, SettingsChange, PatchChanges, Reloads, UnloadRefused, Removed, view
  <2>2. CASE Validated
    BY <2>2 DEF Validated, NotAskedYet
  <2>3. CASE GateRead
    BY <2>3 DEF GateRead, PatchRead, AfterRemoval, Wanted, EntryInv, EntryTypeOK, Setting
  <2> QED
    BY <2>1, <2>2, <2>3
<1> QED
  BY EntryInitInv, EntryStep, <1>1, PTL DEF EntrySpec, ButtonsSurvive

\* Both together (runtime_manager.py), for any number of edits, restarts and
\* failures.
THEOREM EntryKeptHolds == EntrySpec => EntryKept
BY EntryConsistentHolds, ButtonsSurviveHolds, PTL DEF EntryKept

(***************************************************************************)
(* The setup flows.                                                        *)
(***************************************************************************)
FlowState == [step : Steps, uid : Uids, adopt : {NoUid, AgentUid, DomainUid},
              host : Host \cup {"none"}, token : 0 .. MaxTokens]
EntryState == [uid : Uids, host : Host \cup {"none"}, token : 0 .. MaxTokens]
UnitState == [at : Host, up : BOOLEAN, disk : 1 .. MaxTokens, loaded : 1 .. MaxTokens,
              parts : SUBSET Part]

FlowTyped ==
    /\ unit \in UnitState /\ named \in BOOLEAN
    /\ setupFlows \in [Flow -> FlowState] /\ configEntries \in [Flow -> EntryState]
    /\ nameless \in SUBSET Flow /\ lastWriter \in Flow \cup {Nobody}
    /\ tokensMade \in 1 .. MaxTokens /\ troubles \in 0 .. MaxTroubles
    /\ \A f \in Flow : setupFlows[f].step # "new" => setupFlows[f].host \in Host

\* A flow that made an entry is over; while every entry was made with the
\* stable id there is at most one.
EntriesMade ==
    /\ \A f \in Entries : setupFlows[f].step = "gone"
    /\ nameless = {} => /\ \A f \in Entries : configEntries[f].uid = AgentUid
                        /\ \A f, g \in Entries : f = g

\* How far the installation of a flow has come, and what it has left behind.
Written == {"config_written", "startup", "open", "restarted", "checked", "verified", "adopting", "features"}
Before == {"bootstrap", "connecting", "connected", "uploaded", "gone"}
InstalledFiles(f) ==
    setupFlows[f].step \in {"uploaded", "config_written", "startup", "open", "restarted", "checked"}
        => "files" \in unit.parts
InstalledStartup(f) ==
    setupFlows[f].step \in {"startup", "open", "restarted", "checked"} => "startup" \in unit.parts
InstalledFirewall(f) ==
    setupFlows[f].step \in {"open", "restarted", "checked"} => "firewall" \in unit.parts
InstallPlaced(f) ==
    /\ InstalledFiles(f) /\ InstalledStartup(f) /\ InstalledFirewall(f)
    /\ setupFlows[f].step = "verified" => unit.parts = Part
\* The flow that wrote the configuration last holds the token of the device.
WriterPlaced(f) ==
    lastWriter = f =>
        /\ setupFlows[f].step \in Written \cup Before
        /\ setupFlows[f].step \in Written => setupFlows[f].token = unit.disk
        /\ setupFlows[f].step \in {"adopting", "features"} => unit.parts = Part
        /\ f \in Entries => configEntries[f].token = unit.disk /\ unit.parts = Part

SetupInv ==
    /\ FlowTyped /\ FlowsDistinct /\ EntriesMade
    /\ \A f \in Flow : InstallPlaced(f) /\ WriterPlaced(f)

LEMMA UidsDiffer ==
  /\ NoUid \notin ManualUids /\ NoUid # AgentUid /\ AgentUid \notin ManualUids /\ DomainUid # AgentUid
  /\ NoUid # DomainUid /\ DomainUid \in ManualUids
  /\ \A h \in Host : ManualUid(h) \in ManualUids
  /\ ManualUids \subseteq Uids /\ AgentUid \in Uids /\ NoUid \in Uids /\ StableUid \in {AgentUid, DomainUid}
<1>1. NoUid # AgentUid /\ DomainUid # AgentUid /\ NoUid # DomainUid
  BY DEF NoUid, AgentUid, DomainUid
<1>2. \A h \in Host : ManualUid(h) # NoUid /\ ManualUid(h) # AgentUid
  <2> TAKE h \in Host
  <2>1. Len(ManualUid(h)) = 2 /\ Len(NoUid) = 1 /\ Len(AgentUid) = 1
    BY DEF ManualUid, NoUid, AgentUid
  <2> QED
    BY <2>1
<1> QED
  BY <1>1, <1>2, Zenon DEF ManualUids, Uids, StableUid

LEMMA SetupInitInv == SetupInit => SetupInv
<1> SUFFICES ASSUME SetupInit PROVE SetupInv
  OBVIOUS
<1>1. /\ unit.at \in Host /\ unit.disk = 1 /\ unit.loaded = 1 /\ unit.up \in BOOLEAN /\ unit.parts \in SUBSET Part
      /\ unit \in UnitState
  <2>1. (CHOOSE h \in Host : TRUE) \in Host
    BY SetupBounds
  <2>2. unit \in [at : {CHOOSE h \in Host : TRUE}, up : BOOLEAN, disk : {1}, loaded : {1}, parts : {{}, Part}]
    BY DEF SetupInit
  <2>3. 1 \in 1 .. MaxTokens
    BY SetupBounds
  <2> QED
    BY <2>1, <2>2, <2>3 DEF UnitState
<1>2. /\ setupFlows = [f \in Flow |-> NewFlow] /\ configEntries = [f \in Flow |-> NoEntry]
      /\ nameless = {} /\ tokensMade = 1 /\ troubles = 0 /\ lastWriter = Nobody /\ named \in BOOLEAN
  BY DEF SetupInit
<1>3. NewFlow \in FlowState /\ NewFlow.step = "new" /\ NoEntry \in EntryState
  <2>1. NoUid \in Uids /\ "new" \in Steps /\ 0 \in 0 .. MaxTokens
    BY SetupBounds, UidsDiffer DEF Steps
  <2> QED
    BY <2>1 DEF NewFlow, NoEntry, FlowState, EntryState
<1>4. FlowTyped
  BY <1>1, <1>2, <1>3, SetupBounds DEF FlowTyped
<1>5. Entries = {} /\ \A f \in Flow : setupFlows[f].step = "new" /\ lastWriter # f
  BY <1>2, <1>3, SetupBounds DEF Entries, Nobody
<1>6. FlowsDistinct /\ EntriesMade
  BY <1>5 DEF FlowsDistinct, EntriesMade, Live
<1>7. \A f \in Flow : InstallPlaced(f) /\ WriterPlaced(f)
  BY <1>5 DEF InstallPlaced, InstalledFiles, InstalledStartup, InstalledFirewall, WriterPlaced
<1> QED
  BY <1>4, <1>6, <1>7 DEF SetupInv

\* One flow moves on, and what it installs adds to the device.
LEMMA FlowMoves ==
  ASSUME SetupInv, NEW f \in Flow, NEW r \in FlowState, setupFlows' = [setupFlows EXCEPT ![f] = r],
         setupFlows[f].step # "gone", r.step # "new", r.host \in Host,
         r.step # "gone" => \/ r.uid = setupFlows[f].uid /\ Live(f)
                           \/ \A g \in Flow \ {f} : Live(g) => setupFlows[g].uid # r.uid,
         unit' \in UnitState, unit.parts \subseteq unit'.parts, unit'.disk = unit.disk,
         UNCHANGED <<named, configEntries, nameless, lastWriter, tokensMade>>,
         troubles' \in 0 .. MaxTroubles,
         InstallPlaced(f)', WriterPlaced(f)'
  PROVE  SetupInv'
<1> USE DEF SetupInv
<1>1. setupFlows' \in [Flow -> FlowState] /\ setupFlows'[f] = r
      /\ \A g \in Flow \ {f} : setupFlows'[g] = setupFlows[g]
  BY DEF FlowTyped
<1>2. FlowTyped'
  BY <1>1 DEF FlowTyped
<1>3. FlowsDistinct'
  BY <1>1 DEF FlowsDistinct, Live
<1>4. f \notin Entries /\ Entries' = Entries /\ Entries \in SUBSET Flow
  BY DEF EntriesMade, Entries
<1>5. EntriesMade'
  BY <1>1, <1>4 DEF EntriesMade
<1>6. ASSUME NEW g \in Flow \ {f} PROVE InstallPlaced(g)' /\ WriterPlaced(g)'
  <2>0. unit.parts \in SUBSET Part /\ unit'.parts \in SUBSET Part
    BY DEF FlowTyped, UnitState
  <2>1. InstallPlaced(g)'
    <3>1. InstallPlaced(g)
      OBVIOUS
    <3> QED
      BY <1>1, <2>0, <3>1 DEF InstallPlaced, InstalledFiles, InstalledStartup, InstalledFirewall
  <2>2. WriterPlaced(g)'
    <3>1. WriterPlaced(g)
      OBVIOUS
    <3>2. unit.parts = Part => unit'.parts = Part
      BY <2>0
    <3> QED
      BY <1>1, <1>4, <3>1, <3>2 DEF WriterPlaced
  <2> QED
    BY <2>1, <2>2
<1> QED
  BY <1>2, <1>3, <1>5, <1>6

\* A flow goes from one step to another, and nothing else happens to it.
LEMMA FlowGoes ==
  ASSUME SetupInv, NEW f \in Flow, NEW to \in Steps \ {"new"}, Goes(f, to),
         setupFlows[f].step \notin {"gone", "new"},
         unit' \in UnitState, unit.parts \subseteq unit'.parts, unit'.disk = unit.disk,
         UNCHANGED <<named, configEntries, nameless, lastWriter, tokensMade>>,
         troubles' \in 0 .. MaxTroubles,
         to \in {"uploaded", "config_written", "startup", "open", "restarted", "checked"} => "files" \in unit'.parts,
         to \in {"startup", "open", "restarted", "checked"} => "startup" \in unit'.parts,
         to \in {"open", "restarted", "checked"} => "firewall" \in unit'.parts,
         to = "verified" => unit'.parts = Part,
         lastWriter = f => /\ to \in Written \cup Before
                           /\ to \in Written => setupFlows[f].step \in Written
                           /\ to \in {"adopting", "features"} => unit'.parts = Part
  PROVE  SetupInv'
<1> DEFINE r == [setupFlows[f] EXCEPT !.step = to]
<1>1. setupFlows[f] \in FlowState /\ setupFlows[f].host \in Host
  BY DEF SetupInv, FlowTyped
<1>2. /\ r \in FlowState /\ r.step = to /\ r.host = setupFlows[f].host /\ r.uid = setupFlows[f].uid
      /\ r.token = setupFlows[f].token
  BY <1>1 DEF FlowState
<1>3. setupFlows' = [setupFlows EXCEPT ![f] = r]
  BY DEF Goes
<1> HIDE DEF r
<1>4. setupFlows'[f] = r /\ Entries' = Entries /\ f \notin Entries
  BY <1>3 DEF SetupInv, FlowTyped, Entries, EntriesMade
<1>5. InstallPlaced(f)'
  BY <1>2, <1>4 DEF InstallPlaced, InstalledFiles, InstalledStartup, InstalledFirewall
<1>6. WriterPlaced(f)'
  <2>1. WriterPlaced(f)
    BY DEF SetupInv
  <2> QED
    BY <1>2, <1>4, <2>1 DEF WriterPlaced
<1>7. Live(f)
  BY DEF Live
<1> QED
  BY <1>1, <1>2, <1>3, <1>5, <1>6, <1>7, FlowMoves

\* The steps of a page, and of the installer.
LEMMA PagesKeepInv ==
  ASSUME SetupInv, NEW f \in Flow,
         \/ \E found \in BOOLEAN : Probed(f, found) \/ MissingAnswered(f, found)
         \/ InstallAsked(f) \/ InstallFails(f) \/ InstallProbed(f) \/ Migrated(f)
         \/ NoneMatches(f) \/ Abandoned(f)
  PROVE  SetupInv'
<1>0. /\ unit \in UnitState /\ troubles \in 0 .. MaxTroubles /\ MaxTroubles \in Nat
      /\ setupFlows[f] \in FlowState /\ InstallPlaced(f) /\ WriterPlaced(f) /\ unit.parts \in SUBSET Part
  BY SetupBounds DEF SetupInv, FlowTyped, UnitState
<1> DEFINE Same == UNCHANGED <<unit, named, configEntries, nameless, lastWriter, tokensMade>>
<1>a. Same => unit' \in UnitState /\ unit.parts \subseteq unit'.parts /\ unit'.disk = unit.disk
  BY <1>0
<1>b. troubles' = troubles + 1 /\ troubles < MaxTroubles => troubles' \in 0 .. MaxTroubles
  BY <1>0
<1>c. UNCHANGED troubles => troubles' \in 0 .. MaxTroubles
  BY <1>0
<1>1. ASSUME NEW found \in BOOLEAN, Probed(f, found) PROVE SetupInv'
  <2>1. Same /\ troubles' \in 0 .. MaxTroubles /\ setupFlows[f].step = "probing"
    BY <1>1, <1>b, <1>c DEF Probed
  <2>2. PICK to \in {"agent_auth", "agent_missing", "gone"} : Goes(f, to)
    BY <1>1 DEF Probed
  <2>3. lastWriter # f
    BY <1>0, <2>1 DEF WriterPlaced, Written, Before
  <2> QED
    BY <1>a, <2>1, <2>2, <2>3, FlowGoes DEF Steps, Forms, Installing
<1>2. ASSUME NEW install \in BOOLEAN, MissingAnswered(f, install) PROVE SetupInv'
  <2>1. Same /\ troubles' \in 0 .. MaxTroubles /\ setupFlows[f].step = "agent_missing"
    BY <1>2, <1>c DEF MissingAnswered, FlowOnly
  <2>2. PICK to \in {"bootstrap", "agent_auth"} : Goes(f, to)
    BY <1>2 DEF MissingAnswered
  <2>3. lastWriter # f
    BY <1>0, <2>1 DEF WriterPlaced, Written, Before
  <2> QED
    BY <1>a, <2>1, <2>2, <2>3, FlowGoes DEF Steps, Forms, Installing
<1>3. CASE InstallAsked(f)
  <2>1. Same /\ troubles' \in 0 .. MaxTroubles /\ setupFlows[f].step = "bootstrap"
    BY <1>3, <1>c DEF InstallAsked, FlowOnly
  <2>2. PICK to \in {"gone", "connecting"} : Goes(f, to)
    BY <1>3 DEF InstallAsked
  <2> QED
    BY <1>a, <2>1, <2>2, FlowGoes DEF Steps, Forms, Installing, Written, Before
<1>4. CASE InstallFails(f)
  <2>1. Same /\ troubles' \in 0 .. MaxTroubles /\ setupFlows[f].step \in Installing /\ Goes(f, "bootstrap")
    BY <1>4, <1>b, <1>c DEF InstallFails
  <2> QED
    BY <1>a, <2>1, FlowGoes DEF Steps, Forms, Installing, Written, Before
<1>5. CASE InstallProbed(f)
  <2>1. Same /\ troubles' \in 0 .. MaxTroubles /\ setupFlows[f].step = "checked"
    BY <1>5, <1>c DEF InstallProbed, FlowOnly
  <2>2. PICK to \in {"verified", "bootstrap"} : Goes(f, to)
    BY <1>5 DEF InstallProbed
  <2>3. unit.parts = Part
    BY <1>0, <2>1 DEF InstallPlaced, InstalledFiles, InstalledStartup, InstalledFirewall, Part
  <2> QED
    BY <1>a, <2>1, <2>2, <2>3, FlowGoes DEF Steps, Forms, Installing, Written, Before
<1>6. CASE Migrated(f)
  <2>1. Same /\ troubles' \in 0 .. MaxTroubles /\ setupFlows[f].step = "verified" /\ Goes(f, "adopting")
    BY <1>6, <1>c DEF Migrated, FlowOnly
  <2>3. unit.parts = Part
    BY <1>0, <2>1 DEF InstallPlaced
  <2> QED
    BY <1>a, <2>1, <2>3, FlowGoes DEF Steps, Forms, Installing, Written, Before
<1>7. CASE NoneMatches(f)
  <2>1. Same /\ troubles' \in 0 .. MaxTroubles /\ setupFlows[f].step = "matching" /\ Goes(f, "probing")
    BY <1>7, <1>c DEF NoneMatches, FlowOnly
  <2>3. lastWriter # f
    BY <1>0, <2>1 DEF WriterPlaced, Written, Before
  <2> QED
    BY <1>a, <2>1, <2>3, FlowGoes DEF Steps, Forms, Installing
<1>8. CASE Abandoned(f)
  <2>1. Same /\ troubles' \in 0 .. MaxTroubles /\ setupFlows[f].step \in Forms /\ Goes(f, "gone")
    BY <1>8, <1>c DEF Abandoned, FlowOnly
  <2> QED
    BY <1>a, <2>1, FlowGoes DEF Steps, Forms, Installing, Written, Before
<1> QED
  BY <1>1, <1>2, <1>3, <1>4, <1>5, <1>6, <1>7, <1>8

LEMMA InstallerKeepsInv ==
  ASSUME SetupInv, NEW f \in Flow,
         \/ Connected(f) \/ Uploaded(f) \/ StartupInstalled(f) \/ FirewallOpened(f)
         \/ Restarted(f) \/ StartupVerified(f)
  PROVE  SetupInv'
<1>0. /\ unit \in UnitState /\ troubles \in 0 .. MaxTroubles
      /\ setupFlows[f] \in FlowState /\ InstallPlaced(f) /\ WriterPlaced(f) /\ unit.parts \in SUBSET Part
  BY SetupBounds DEF SetupInv, FlowTyped, UnitState
<1> DEFINE Same == UNCHANGED <<named, configEntries, nameless, lastWriter, tokensMade>>
                   /\ troubles' \in 0 .. MaxTroubles
<1> USE DEF InstallStep, Steps, Forms, Installing, Written, Before
<1>1. CASE Connected(f)
  <2>1. Same /\ UNCHANGED unit /\ setupFlows[f].step = "connecting" /\ Goes(f, "connected")
    BY <1>0, <1>1 DEF Connected
  <2> QED
    BY <1>0, <2>1, FlowGoes
<1>2. CASE Uploaded(f)
  <2>1. Same /\ setupFlows[f].step = "connected" /\ Goes(f, "uploaded")
    BY <1>0, <1>2 DEF Uploaded
  <2>2. unit' \in UnitState /\ unit'.disk = unit.disk /\ unit'.parts = unit.parts \cup {"files"}
    BY <1>0, <1>2 DEF Uploaded, UnitState, Part
  <2> QED
    BY <1>0, <2>1, <2>2, FlowGoes
<1>3. CASE StartupInstalled(f)
  <2>1. Same /\ setupFlows[f].step = "config_written" /\ Goes(f, "startup")
    BY <1>0, <1>3 DEF StartupInstalled
  <2>2. unit' \in UnitState /\ unit'.disk = unit.disk /\ unit'.parts = unit.parts \cup {"startup"}
    BY <1>0, <1>3 DEF StartupInstalled, UnitState, Part
  <2>3. "files" \in unit.parts
    BY <1>0, <2>1 DEF InstallPlaced, InstalledFiles
  <2> QED
    BY <1>0, <2>1, <2>2, <2>3, FlowGoes
<1>4. CASE FirewallOpened(f)
  <2>1. Same /\ setupFlows[f].step = "startup" /\ Goes(f, "open")
    BY <1>0, <1>4 DEF FirewallOpened
  <2>2. unit' \in UnitState /\ unit'.disk = unit.disk /\ unit'.parts = unit.parts \cup {"firewall"}
    BY <1>0, <1>4 DEF FirewallOpened, UnitState, Part
  <2>3. "files" \in unit.parts /\ "startup" \in unit.parts
    BY <1>0, <2>1 DEF InstallPlaced, InstalledFiles, InstalledStartup
  <2> QED
    BY <1>0, <2>1, <2>2, <2>3, FlowGoes
<1>5. CASE Restarted(f)
  <2>1. Same /\ setupFlows[f].step = "open" /\ Goes(f, "restarted")
    BY <1>0, <1>5 DEF Restarted
  <2>2. unit' \in UnitState /\ unit'.disk = unit.disk /\ unit'.parts = unit.parts
    BY <1>0, <1>5 DEF Restarted, UnitState
  <2>3. "files" \in unit.parts /\ "startup" \in unit.parts /\ "firewall" \in unit.parts
    BY <1>0, <2>1 DEF InstallPlaced, InstalledFiles, InstalledStartup, InstalledFirewall
  <2> QED
    BY <1>0, <2>1, <2>2, <2>3, FlowGoes
<1>6. CASE StartupVerified(f)
  <2>1. Same /\ UNCHANGED unit /\ setupFlows[f].step = "restarted" /\ Goes(f, "checked")
    BY <1>0, <1>6 DEF StartupVerified
  <2>3. "files" \in unit.parts /\ "startup" \in unit.parts /\ "firewall" \in unit.parts
    BY <1>0, <2>1 DEF InstallPlaced, InstalledFiles, InstalledStartup, InstalledFirewall
  <2> QED
    BY <1>0, <2>1, <2>3, FlowGoes
<1> QED
  BY <1>1, <1>2, <1>3, <1>4, <1>5, <1>6

LEMMA AddressKeepsInv ==
  ASSUME SetupInv, NEW f \in Flow, NEW h \in Host, AddressGiven(f, h) PROVE SetupInv'
<1> DEFINE r == [setupFlows[f] EXCEPT !.host = h, !.uid = ManualUid(h),
                   !.step = IF Taken(f, ManualUid(h)) THEN "gone" ELSE "probing"]
<1>1. /\ setupFlows[f].step = "new" /\ setupFlows' = [setupFlows EXCEPT ![f] = r]
      /\ UNCHANGED <<unit, named, configEntries, nameless, tokensMade, troubles, lastWriter>>
  BY DEF AddressGiven, FlowOnly
<1>2. setupFlows[f] \in FlowState /\ unit \in UnitState /\ troubles \in 0 .. MaxTroubles
      /\ WriterPlaced(f)
  BY DEF SetupInv, FlowTyped
<1>3. /\ r \in FlowState /\ r.host = h /\ r.uid = ManualUid(h)
      /\ r.step = IF Taken(f, ManualUid(h)) THEN "gone" ELSE "probing"
  BY <1>2, UidsDiffer DEF FlowState, Steps
<1>4. r.step # "gone" => \A g \in Flow \ {f} : Live(g) => setupFlows[g].uid # r.uid
  BY <1>3 DEF Taken, InProgress
<1> HIDE DEF r
<1>5. setupFlows'[f] = r /\ r.step \in {"gone", "probing"}
  BY <1>1, <1>3 DEF SetupInv, FlowTyped
<1>6. lastWriter # f
  BY <1>1, <1>2 DEF WriterPlaced, Written, Before
<1>7. InstallPlaced(f)' /\ WriterPlaced(f)'
  BY <1>1, <1>5, <1>6 DEF InstallPlaced, InstalledFiles, InstalledStartup, InstalledFirewall, WriterPlaced
<1> QED
  BY <1>1, <1>2, <1>3, <1>4, <1>5, <1>7, FlowMoves

LEMMA TokenKeepsInv ==
  ASSUME SetupInv, NEW f \in Flow, NEW t \in {0, unit.loaded}, TokenTyped(f, t) PROVE SetupInv'
<1> DEFINE r == [setupFlows[f] EXCEPT !.step = "adopting", !.token = t]
<1>1. /\ setupFlows[f].step = "agent_auth" /\ setupFlows' = [setupFlows EXCEPT ![f] = r]
      /\ UNCHANGED <<unit, named, configEntries, nameless, tokensMade, troubles, lastWriter>>
  BY DEF TokenTyped, FlowOnly
<1>2. setupFlows[f] \in FlowState /\ unit \in UnitState /\ troubles \in 0 .. MaxTroubles
      /\ WriterPlaced(f) /\ setupFlows[f].host \in Host /\ Live(f)
  BY <1>1 DEF SetupInv, FlowTyped, Live
<1>3. t \in 0 .. MaxTokens
  BY <1>2, SetupBounds DEF UnitState
<1>4. r \in FlowState /\ r.host = setupFlows[f].host /\ r.uid = setupFlows[f].uid /\ r.step = "adopting"
  BY <1>2, <1>3 DEF FlowState, Steps
<1> HIDE DEF r
<1>5. setupFlows'[f] = r
  BY <1>1 DEF SetupInv, FlowTyped
<1>6. lastWriter # f
  BY <1>1, <1>2 DEF WriterPlaced, Written, Before
<1>7. InstallPlaced(f)' /\ WriterPlaced(f)'
  BY <1>1, <1>4, <1>5, <1>6 DEF InstallPlaced, InstalledFiles, InstalledStartup, InstalledFirewall, WriterPlaced
<1> QED
  BY <1>1, <1>2, <1>4, <1>7, FlowMoves

LEMMA ConfigKeepsInv == ASSUME SetupInv, NEW f \in Flow, ConfigWritten(f) PROVE SetupInv'
<1> USE DEF SetupInv
<1>0. /\ setupFlows[f] \in FlowState /\ unit \in UnitState /\ tokensMade \in 1 .. MaxTokens
      /\ MaxTokens \in Nat
  BY SetupBounds DEF FlowTyped
<1>1. /\ setupFlows[f].step = "uploaded" /\ tokensMade' \in 1 .. MaxTokens
      /\ unit' = [unit EXCEPT !.disk = tokensMade'] /\ lastWriter' = f
      /\ setupFlows' = [setupFlows EXCEPT ![f].step = "config_written", ![f].token = tokensMade']
      /\ UNCHANGED <<named, configEntries, nameless, troubles>>
  BY <1>0 DEF ConfigWritten
<1>2. unit' \in UnitState /\ unit'.disk = tokensMade' /\ unit'.parts = unit.parts
  BY <1>0, <1>1 DEF UnitState
<1> DEFINE r == [setupFlows[f] EXCEPT !.step = "config_written", !.token = tokensMade']
<1>3. r \in FlowState /\ r.step = "config_written" /\ r.token = tokensMade' /\ r.uid = setupFlows[f].uid
      /\ r.host = setupFlows[f].host
  <2>1. tokensMade' \in 0 .. MaxTokens
    BY <1>0, <1>1
  <2> QED
    BY <1>0, <2>1 DEF FlowState, Steps, Installing
<1>4. setupFlows' = [setupFlows EXCEPT ![f] = r]
  BY <1>1
<1> HIDE DEF r
<1>5. setupFlows' \in [Flow -> FlowState] /\ setupFlows'[f] = r
      /\ \A g \in Flow \ {f} : setupFlows'[g] = setupFlows[g]
  BY <1>3, <1>4 DEF FlowTyped
<1>6. FlowTyped'
  BY <1>1, <1>2, <1>3, <1>5 DEF FlowTyped
<1>7. FlowsDistinct'
  BY <1>1, <1>3, <1>5 DEF FlowsDistinct, Live
<1>8. Entries' = Entries /\ f \notin Entries /\ Entries \in SUBSET Flow
  BY <1>1 DEF Entries, EntriesMade
<1>9. EntriesMade'
  BY <1>1, <1>5, <1>8 DEF EntriesMade
<1>10. InstallPlaced(f)' /\ WriterPlaced(f)'
  BY <1>1, <1>2, <1>3, <1>5, <1>8
     DEF InstallPlaced, InstalledFiles, InstalledStartup, InstalledFirewall, WriterPlaced, Written
<1>11. ASSUME NEW g \in Flow \ {f} PROVE InstallPlaced(g)' /\ WriterPlaced(g)'
  <2>1. InstallPlaced(g) /\ lastWriter' # g
    BY <1>1
  <2> QED
    BY <1>2, <1>5, <2>1
       DEF InstallPlaced, InstalledFiles, InstalledStartup, InstalledFirewall, WriterPlaced
<1> QED
  BY <1>6, <1>7, <1>9, <1>10, <1>11

\* Flows are ended, and one of them moves on.
EndFlows(f, r, gone) ==
    /\ f \in Flow /\ r \in FlowState /\ gone \in SUBSET (Flow \ {f})
    /\ setupFlows' = [g \in Flow |-> IF g = f THEN r
                                    ELSE IF g \in gone THEN [setupFlows[g] EXCEPT !.step = "gone"]
                                    ELSE setupFlows[g]]
    /\ \A g \in gone : setupFlows[g].step # "new"

LEMMA FlowsEnd ==
  ASSUME SetupInv, NEW f, NEW r, NEW gone, EndFlows(f, r, gone)
  PROVE  /\ setupFlows' \in [Flow -> FlowState] /\ setupFlows'[f] = r
         /\ \A g \in Flow \ {f} :
               /\ setupFlows'[g].uid = setupFlows[g].uid /\ setupFlows'[g].host = setupFlows[g].host
               /\ setupFlows'[g].token = setupFlows[g].token
               /\ \/ setupFlows'[g].step = setupFlows[g].step
                  \/ setupFlows'[g].step = "gone" /\ setupFlows[g].step # "new"
<1> USE DEF EndFlows
<1>1. \A g \in Flow : setupFlows[g] \in FlowState
  BY DEF SetupInv, FlowTyped
<1>2. ASSUME NEW g \in Flow
      PROVE  LET e == [setupFlows[g] EXCEPT !.step = "gone"]
             IN  /\ e \in FlowState /\ e.uid = setupFlows[g].uid /\ e.host = setupFlows[g].host
                 /\ e.token = setupFlows[g].token /\ e.step = "gone"
  BY <1>1 DEF FlowState, Steps
<1>3. ASSUME NEW g \in Flow PROVE setupFlows'[g] \in FlowState
  BY <1>1, <1>2
<1>4. setupFlows' \in [Flow -> FlowState]
  BY <1>3
<1>5. ASSUME NEW g \in Flow \ {f}
      PROVE  /\ setupFlows'[g].uid = setupFlows[g].uid /\ setupFlows'[g].host = setupFlows[g].host
             /\ setupFlows'[g].token = setupFlows[g].token
             /\ \/ setupFlows'[g].step = setupFlows[g].step
                \/ setupFlows'[g].step = "gone" /\ setupFlows[g].step # "new"
  <2>1. CASE g \in gone
    BY <1>2, <2>1
  <2>2. CASE g \notin gone
    <3>1. setupFlows'[g] = setupFlows[g]
      BY <2>2
    <3> QED
      BY <3>1
  <2> QED
    BY <2>1, <2>2
<1>6. setupFlows'[f] = r
  OBVIOUS
<1> QED
  BY <1>4, <1>5, <1>6

\* The other flows keep their promises when some of them end.
LEMMA OthersKeep ==
  ASSUME SetupInv, NEW f \in Flow, UNCHANGED <<unit, lastWriter>>,
         \A g \in Flow \ {f} :
            /\ setupFlows'[g].token = setupFlows[g].token
            /\ setupFlows'[g].step = setupFlows[g].step \/ setupFlows'[g].step = "gone",
         \A g \in Flow \ {f} : g \in Entries' => g \in Entries /\ configEntries'[g].token = configEntries[g].token,
         NEW g \in Flow \ {f}
  PROVE  InstallPlaced(g)' /\ (lastWriter = g => setupFlows[g].step # "new") /\ WriterPlaced(g)'
<1>1. InstallPlaced(g) /\ WriterPlaced(g)
  BY DEF SetupInv
<1>2. InstallPlaced(g)'
  BY <1>1 DEF InstallPlaced, InstalledFiles, InstalledStartup, InstalledFirewall
<1>3. WriterPlaced(g)' /\ (lastWriter = g => setupFlows[g].step # "new")
  <2>1. CASE lastWriter = g
    BY <1>1, <2>1 DEF WriterPlaced, Written, Before
  <2>2. CASE lastWriter # g
    BY <2>2 DEF WriterPlaced
  <2> QED
    BY <2>1, <2>2
<1> QED
  BY <1>2, <1>3

LEMMA AdoptedKeepsInv ==
  ASSUME SetupInv, NEW f \in Flow, NEW answered \in BOOLEAN, Adopted(f, answered) PROVE SetupInv'
<1> USE DEF SetupInv
<1>0. /\ setupFlows[f] \in FlowState /\ setupFlows[f].step = "adopting" /\ setupFlows[f].host \in Host
      /\ troubles' \in 0 .. MaxTroubles
      /\ UNCHANGED <<unit, named, configEntries, nameless, tokensMade, lastWriter>>
  <2>1. setupFlows[f] \in FlowState /\ setupFlows[f].step = "adopting" /\ setupFlows[f].host \in Host
    BY DEF Adopted, FlowTyped
  <2>2. troubles \in 0 .. MaxTroubles /\ MaxTroubles \in Nat
    BY SetupBounds DEF FlowTyped
  <2>3. troubles' \in 0 .. MaxTroubles
    BY <2>2 DEF Adopted
  <2> QED
    BY <2>1, <2>3 DEF Adopted
<1>1. Entries' = Entries /\ Entries \in SUBSET Flow /\ f \notin Entries
  BY <1>0 DEF Entries, EntriesMade
<1>2. CASE answered /\ named
  <2> DEFINE r == [setupFlows[f] EXCEPT !.step = "features", !.adopt = AgentUid]
             gone == {g \in Flow \ {f} : Live(g) /\ setupFlows[g].uid = AgentUid}
  <2>1. /\ r \in FlowState /\ r.step = "features" /\ r.uid = setupFlows[f].uid
        /\ r.host = setupFlows[f].host /\ r.token = setupFlows[f].token
    BY <1>0 DEF FlowState, Steps, Forms
  <2>2. setupFlows' = [g \in Flow |-> IF g = f THEN r
                                     ELSE IF g \in gone THEN [setupFlows[g] EXCEPT !.step = "gone"]
                                     ELSE setupFlows[g]]
    BY <1>2 DEF Adopted
  <2>3. gone \in SUBSET (Flow \ {f}) /\ \A g \in gone : setupFlows[g].step # "new"
    BY DEF Live
  <2> HIDE DEF r, gone
  <2>4. /\ setupFlows' \in [Flow -> FlowState] /\ setupFlows'[f] = r
        /\ \A g \in Flow \ {f} :
              /\ setupFlows'[g].uid = setupFlows[g].uid /\ setupFlows'[g].host = setupFlows[g].host
              /\ setupFlows'[g].token = setupFlows[g].token
              /\ \/ setupFlows'[g].step = setupFlows[g].step
                 \/ setupFlows'[g].step = "gone" /\ setupFlows[g].step # "new"
    <3>1. EndFlows(f, r, gone)
      BY <2>1, <2>2, <2>3 DEF EndFlows
    <3> QED
      BY <3>1, FlowsEnd
  <2>5. FlowTyped'
    BY <1>0, <2>1, <2>4 DEF FlowTyped
  <2>6. FlowsDistinct'
    BY <1>0, <2>1, <2>4 DEF FlowsDistinct, Live
  <2>7. EntriesMade'
    BY <1>0, <1>1, <2>4 DEF EntriesMade
  <2>8. InstallPlaced(f)' /\ WriterPlaced(f)'
    <3>1. WriterPlaced(f)
      OBVIOUS
    <3> QED
      BY <1>0, <1>1, <2>1, <2>4, <3>1
         DEF InstallPlaced, InstalledFiles, InstalledStartup, InstalledFirewall, WriterPlaced, Written
  <2>9. \A g \in Flow \ {f} : InstallPlaced(g)' /\ WriterPlaced(g)'
    BY <1>0, <1>1, <2>4, OthersKeep
  <2> QED
    BY <2>5, <2>6, <2>7, <2>8, <2>9
<1>3. CASE ~(answered /\ named)
  <2> DEFINE r == [setupFlows[f] EXCEPT !.step = "features"]
  <2>1. r \in FlowState /\ r.step = "features" /\ r.uid = setupFlows[f].uid
        /\ r.host = setupFlows[f].host /\ r.token = setupFlows[f].token
    BY <1>0 DEF FlowState, Steps, Forms
  <2>2. setupFlows' = [setupFlows EXCEPT ![f] = r]
    BY <1>3 DEF Adopted
  <2> HIDE DEF r
  <2>3. setupFlows'[f] = r
    BY <2>2 DEF FlowTyped
  <2>4. InstallPlaced(f)' /\ WriterPlaced(f)'
    <3>1. WriterPlaced(f)
      OBVIOUS
    <3> QED
      BY <1>0, <1>1, <2>1, <2>3, <3>1
         DEF InstallPlaced, InstalledFiles, InstalledStartup, InstalledFirewall, WriterPlaced, Written
  <2>5. Live(f) /\ unit \in UnitState
    BY <1>0 DEF Live, FlowTyped
  <2> QED
    BY <1>0, <2>1, <2>2, <2>4, <2>5, FlowMoves
<1> QED
  BY <1>2, <1>3

LEMMA CreatedKeepsInv == ASSUME SetupInv, NEW f \in Flow, Created(f) PROVE SetupInv'
<1> USE DEF SetupInv
<1> DEFINE uid == IF setupFlows[f].adopt # NoUid THEN setupFlows[f].adopt
                  ELSE ManualUid(setupFlows[f].host)
           gone == {g \in Flow \ {f} : setupFlows[f].adopt # NoUid /\ Live(g) /\ setupFlows[g].uid = uid}
           r == [setupFlows[f] EXCEPT !.step = "gone"]
           made == [uid |-> uid, host |-> setupFlows[f].host, token |-> setupFlows[f].token]
<1>0. /\ setupFlows[f] \in FlowState /\ setupFlows[f].step = "features" /\ setupFlows[f].host \in Host
      /\ setupFlows[f].token \in 0 .. MaxTokens /\ WriterPlaced(f)
      /\ UNCHANGED <<unit, named, tokensMade, troubles, lastWriter>>
  BY DEF Created, FlowTyped, FlowState
<1>1. uid \in Uids /\ uid # NoUid /\ (uid = AgentUid \/ uid \in ManualUids)
  <2>1. setupFlows[f].adopt \in {NoUid, AgentUid, DomainUid}
    BY <1>0 DEF FlowState
  <2> QED
    BY <1>0, <2>1, UidsDiffer
<1>2. r \in FlowState /\ r.step = "gone" /\ r.host = setupFlows[f].host
  BY <1>0 DEF FlowState, Steps
<1>3. setupFlows' = [g \in Flow |-> IF g = f THEN r
                                   ELSE IF g \in gone THEN [setupFlows[g] EXCEPT !.step = "gone"]
                                   ELSE setupFlows[g]]
  BY DEF Created
<1>4. gone \in SUBSET (Flow \ {f}) /\ \A g \in gone : setupFlows[g].step # "new"
  BY DEF Live
<1>5. \/ UNCHANGED <<configEntries, nameless>>
      \/ /\ ~Configured(uid)
         /\ configEntries' = [configEntries EXCEPT ![f] = made]
         /\ nameless' = IF uid = AgentUid THEN nameless ELSE nameless \cup {f}
  BY DEF Created, MakesEntry
<1>6. made \in EntryState /\ made.uid = uid /\ made.token = setupFlows[f].token
  BY <1>0, <1>1 DEF EntryState
<1> HIDE DEF r, gone, uid, made
<1>7. /\ setupFlows' \in [Flow -> FlowState] /\ setupFlows'[f] = r
      /\ \A g \in Flow \ {f} :
            /\ setupFlows'[g].uid = setupFlows[g].uid /\ setupFlows'[g].host = setupFlows[g].host
            /\ setupFlows'[g].token = setupFlows[g].token
            /\ \/ setupFlows'[g].step = setupFlows[g].step
               \/ setupFlows'[g].step = "gone" /\ setupFlows[g].step # "new"
  <2>1. EndFlows(f, r, gone)
    BY <1>2, <1>3, <1>4 DEF EndFlows
  <2> QED
    BY <2>1, FlowsEnd
<1>8. FlowsDistinct'
  BY <1>2, <1>7 DEF FlowsDistinct, Live
<1>9. f \notin Entries /\ Entries \in SUBSET Flow
  BY <1>0 DEF Entries, EntriesMade
<1>10. CASE UNCHANGED <<configEntries, nameless>>
  <2>1. Entries' = Entries
    BY <1>10 DEF Entries
  <2>2. FlowTyped'
    BY <1>0, <1>2, <1>7, <1>10 DEF FlowTyped
  <2>3. EntriesMade'
    BY <1>7, <1>9, <1>10, <2>1 DEF EntriesMade
  <2>4. InstallPlaced(f)' /\ WriterPlaced(f)'
    BY <1>0, <1>2, <1>7, <1>9, <2>1
       DEF InstallPlaced, InstalledFiles, InstalledStartup, InstalledFirewall, WriterPlaced, Written, Before
  <2>5. \A g \in Flow \ {f} : InstallPlaced(g)' /\ WriterPlaced(g)'
    BY <1>0, <1>7, <1>10, <2>1, OthersKeep
  <2> QED
    BY <1>8, <2>2, <2>3, <2>4, <2>5
<1>11. CASE /\ ~Configured(uid) /\ configEntries' = [configEntries EXCEPT ![f] = made]
            /\ nameless' = IF uid = AgentUid THEN nameless ELSE nameless \cup {f}
  <2>1. /\ configEntries' \in [Flow -> EntryState] /\ configEntries'[f] = made
        /\ \A g \in Flow \ {f} : configEntries'[g] = configEntries[g]
    BY <1>6, <1>11 DEF FlowTyped
  <2>2. Entries' = Entries \cup {f}
    <3>1. made # NoEntry
      BY <1>1, <1>6 DEF NoEntry
    <3> QED
      BY <2>1, <3>1 DEF Entries
  <2>3. FlowTyped'
    BY <1>0, <1>2, <1>7, <1>11, <2>1 DEF FlowTyped
  <2>4. EntriesMade'
    <3>1. \A g \in Entries' : setupFlows'[g].step = "gone"
      BY <1>2, <1>7, <1>9, <2>2 DEF EntriesMade
    <3>2. ASSUME nameless' = {}
          PROVE  (\A g \in Entries' : configEntries'[g].uid = AgentUid) /\ \A g, h \in Entries' : g = h
      <4>1. uid = AgentUid /\ nameless = {}
        BY <1>11, <3>2
      <4>2. \A g \in Entries : configEntries[g].uid = AgentUid
        BY <4>1 DEF EntriesMade
      <4>3. Entries = {}
        BY <1>11, <4>1, <4>2 DEF Configured
      <4> QED
        BY <1>6, <2>1, <2>2, <4>1, <4>3
    <3> QED
      BY <3>1, <3>2 DEF EntriesMade
  <2>5. InstallPlaced(f)' /\ WriterPlaced(f)'
    BY <1>0, <1>2, <1>6, <1>7, <2>1
       DEF InstallPlaced, InstalledFiles, InstalledStartup, InstalledFirewall, WriterPlaced, Written, Before
  <2>6. \A g \in Flow \ {f} : g \in Entries' => g \in Entries /\ configEntries'[g].token = configEntries[g].token
    BY <2>1, <2>2
  <2>7. \A g \in Flow \ {f} : InstallPlaced(g)' /\ WriterPlaced(g)'
    BY <1>0, <1>7, <2>6, OthersKeep
  <2> QED
    BY <1>8, <2>3, <2>4, <2>5, <2>7
<1> QED
  BY <1>5, <1>10, <1>11

\* The entries change their address or their id, and keep their token.
LEMMA DiscoveryKeepsInv ==
  ASSUME SetupInv, NEW f \in Flow, Discovered(f) \/ \E e \in Flow : Merged(f, e) PROVE SetupInv'
<1> USE DEF SetupInv
<1>0. /\ setupFlows[f] \in FlowState /\ unit \in UnitState /\ unit.at \in Host
      /\ \A g \in Flow : configEntries[g] \in EntryState
  BY DEF FlowTyped, UnitState
<1>1. UNCHANGED <<unit, named, nameless, tokensMade, troubles, lastWriter>>
  BY DEF Discovered, Merged
<1>2. PICK r \in FlowState :
        /\ setupFlows' = [setupFlows EXCEPT ![f] = r] /\ setupFlows[f].step \in {"new", "matching"}
        /\ r.step \in {"gone", "matching", "probing"} /\ r.host \in Host
        /\ r.step # "gone" => \A g \in Flow \ {f} : Live(g) => setupFlows[g].uid # r.uid
  <2>1. CASE Discovered(f)
    <3> DEFINE r == [setupFlows[f] EXCEPT !.host = unit.at, !.uid = StableUid, !.adopt = StableUid,
                       !.step = IF Taken(f, StableUid) THEN "gone" ELSE IF named THEN "matching" ELSE "probing"]
    <3>1. setupFlows' = [setupFlows EXCEPT ![f] = r] /\ setupFlows[f].step = "new"
      BY <2>1 DEF Discovered
    <3>2. /\ r \in FlowState /\ r.host = unit.at /\ r.uid = StableUid
          /\ r.step = IF Taken(f, StableUid) THEN "gone" ELSE IF named THEN "matching" ELSE "probing"
      <4>1. StableUid \in Uids /\ StableUid \in {NoUid, AgentUid, DomainUid}
        BY UidsDiffer
      <4>2. (IF Taken(f, StableUid) THEN "gone" ELSE IF named THEN "matching" ELSE "probing") \in Steps
        BY DEF Steps
      <4> QED
        BY <1>0, <4>1, <4>2 DEF FlowState
    <3>3. r.step # "gone" => \A g \in Flow \ {f} : Live(g) => setupFlows[g].uid # r.uid
      BY <3>2 DEF Taken, InProgress
    <3>4. r.step \in {"gone", "matching", "probing"}
      BY <3>2
    <3> HIDE DEF r
    <3> QED
      BY <1>0, <3>1, <3>2, <3>3, <3>4
  <2>2. CASE \E e \in Flow : Merged(f, e)
    <3> DEFINE r == [setupFlows[f] EXCEPT !.step = "gone"]
    <3>1. setupFlows' = [setupFlows EXCEPT ![f] = r] /\ setupFlows[f].step = "matching"
      BY <2>2 DEF Merged, Goes
    <3>2. r \in FlowState /\ r.step = "gone" /\ r.host = setupFlows[f].host
      BY <1>0 DEF FlowState, Steps
    <3>3. setupFlows[f].host \in Host
      BY <3>1 DEF FlowTyped
    <3> HIDE DEF r
    <3> QED
      BY <3>1, <3>2, <3>3
  <2> QED
    BY <2>1, <2>2
<1>3. /\ configEntries' \in [Flow -> EntryState] /\ Entries' = Entries
      /\ \A g \in Flow : configEntries'[g].token = configEntries[g].token
      /\ nameless = {} => \A g \in Entries : configEntries'[g].uid = configEntries[g].uid
  <2>1. CASE configEntries' = configEntries
    BY <2>1 DEF FlowTyped, Entries
  <2>2. CASE configEntries' = [g \in Flow |-> IF configEntries[g].uid = StableUid
                                THEN [configEntries[g] EXCEPT !.host = unit.at] ELSE configEntries[g]]
    <3>1. ASSUME NEW g \in Flow
          PROVE  LET e == [configEntries[g] EXCEPT !.host = unit.at]
                 IN  e \in EntryState /\ e.token = configEntries[g].token /\ e.uid = configEntries[g].uid
      BY <1>0 DEF EntryState
    <3>2. ASSUME NEW g \in Flow
          PROVE  /\ configEntries'[g] \in EntryState /\ configEntries'[g].token = configEntries[g].token
                 /\ configEntries'[g].uid = configEntries[g].uid
                 /\ configEntries[g].uid # StableUid => configEntries'[g] = configEntries[g]
      <4>1. CASE configEntries[g].uid = StableUid
        BY <2>2, <3>1, <4>1
      <4>2. CASE configEntries[g].uid # StableUid
        BY <1>0, <2>2, <4>2
      <4> QED
        BY <4>1, <4>2
    <3>3. configEntries' \in [Flow -> EntryState]
      BY <2>2, <3>2
    <3>4. \A g \in Flow : configEntries'[g] = NoEntry <=> configEntries[g] = NoEntry
      <4>1. NoEntry.uid = NoUid /\ NoUid # StableUid
        BY UidsDiffer DEF NoEntry
      <4> QED
        BY <3>2, <4>1
    <3> QED
      BY <3>2, <3>3, <3>4 DEF Entries
  <2>3. ASSUME NEW e \in Flow, Merged(f, e)
        PROVE  <1>3
    <3>1. /\ e \in Entries /\ configEntries[e].uid \in ManualUids
          /\ configEntries' = [configEntries EXCEPT ![e].uid = AgentUid]
      BY <2>3 DEF Merged
    <3> DEFINE m == [configEntries[e] EXCEPT !.uid = AgentUid]
    <3>2. m \in EntryState /\ m.token = configEntries[e].token /\ m.uid = AgentUid
      BY <1>0, UidsDiffer DEF EntryState
    <3> HIDE DEF m
    <3>3. configEntries' = [configEntries EXCEPT ![e] = m]
      BY <3>1 DEF m
    <3>4. /\ configEntries' \in [Flow -> EntryState] /\ configEntries'[e] = m
          /\ \A g \in Flow \ {e} : configEntries'[g] = configEntries[g]
      BY <3>2, <3>3 DEF FlowTyped
    <3>5. m # NoEntry
      BY <3>2, UidsDiffer DEF NoEntry
    <3>6. Entries' = Entries
      BY <3>1, <3>4, <3>5 DEF Entries
    <3>7. nameless # {}
      BY <3>1, UidsDiffer DEF EntriesMade
    <3> QED
      BY <3>2, <3>4, <3>6, <3>7
  <2> QED
    BY <2>1, <2>2, <2>3 DEF Discovered
<1>4. setupFlows' \in [Flow -> FlowState] /\ setupFlows'[f] = r
      /\ \A g \in Flow \ {f} : setupFlows'[g] = setupFlows[g]
  BY <1>2 DEF FlowTyped
<1>5. FlowTyped'
  BY <1>1, <1>2, <1>3, <1>4 DEF FlowTyped
<1>6. FlowsDistinct'
  BY <1>2, <1>4 DEF FlowsDistinct, Live
<1>7. Entries \in SUBSET Flow /\ f \notin Entries
  BY <1>2 DEF EntriesMade, Entries
<1>8. EntriesMade'
  BY <1>1, <1>3, <1>4, <1>7 DEF EntriesMade
<1>9. lastWriter # f
  BY <1>2 DEF WriterPlaced, Written, Before
<1>10. InstallPlaced(f)' /\ WriterPlaced(f)'
  BY <1>1, <1>2, <1>4, <1>9
     DEF InstallPlaced, InstalledFiles, InstalledStartup, InstalledFirewall, WriterPlaced
<1>11. \A g \in Flow \ {f} : InstallPlaced(g)' /\ WriterPlaced(g)'
  BY <1>1, <1>3, <1>4, OthersKeep
<1> QED
  BY <1>5, <1>6, <1>8, <1>10, <1>11

\* The device stops, starts or moves, and nothing of its disk changes.
LEMMA DeviceKeepsInv ==
  ASSUME SetupInv, AgentStops \/ AgentStarts \/ UnitMoves \/ UNCHANGED setupVars PROVE SetupInv'
<1> USE DEF SetupInv
<1>1. /\ UNCHANGED <<named, setupFlows, configEntries, nameless, tokensMade, lastWriter>>
      /\ troubles' \in 0 .. MaxTroubles
      /\ unit' \in UnitState /\ unit'.disk = unit.disk /\ unit'.parts = unit.parts
  <2>0. unit \in UnitState /\ troubles \in 0 .. MaxTroubles /\ MaxTroubles \in Nat
    BY SetupBounds DEF FlowTyped
  <2>1. CASE AgentStops
    <3>1. /\ UNCHANGED <<named, setupFlows, configEntries, nameless, tokensMade, lastWriter>>
          /\ troubles' \in 0 .. MaxTroubles
      BY <2>0, <2>1 DEF AgentStops, UnitChanges
    <3>2. unit' \in UnitState /\ unit'.disk = unit.disk /\ unit'.parts = unit.parts
      BY <2>0, <2>1 DEF AgentStops, UnitChanges, UnitState
    <3> QED
      BY <3>1, <3>2
  <2>2. CASE AgentStarts
    <3>1. /\ UNCHANGED <<named, setupFlows, configEntries, nameless, tokensMade, lastWriter>>
          /\ troubles' \in 0 .. MaxTroubles
      BY <2>0, <2>2 DEF AgentStarts, UnitChanges
    <3>2. unit' \in UnitState /\ unit'.disk = unit.disk /\ unit'.parts = unit.parts
      BY <2>0, <2>2 DEF AgentStarts, UnitChanges, UnitState
    <3> QED
      BY <3>1, <3>2
  <2>3. CASE UnitMoves
    BY <2>0, <2>3 DEF UnitMoves, UnitChanges, UnitState
  <2>4. CASE UNCHANGED setupVars
    BY <2>0, <2>4 DEF setupVars
  <2> QED
    BY <2>1, <2>2, <2>3, <2>4
<1>2. FlowTyped'
  BY <1>1 DEF FlowTyped
<1>3. FlowsDistinct' /\ EntriesMade'
  BY <1>1 DEF FlowsDistinct, Live, EntriesMade, Entries
<1>4. \A f \in Flow : InstallPlaced(f)' /\ WriterPlaced(f)'
  BY <1>1 DEF InstallPlaced, InstalledFiles, InstalledStartup, InstalledFirewall, WriterPlaced, Entries
<1> QED
  BY <1>2, <1>3, <1>4

\* SetupTrue of module SetupFlow: one device gets one entry, two flows never
\* work for one unique id, and the entry of the flow that installed the device
\* last can talk to it (config_flow.py, device_installer.py).
THEOREM SetupTrueHolds == SetupSpec => []SetupTrue
<1>1. SetupInv /\ [SetupNext]_setupVars => SetupInv'
  BY PagesKeepInv, InstallerKeepsInv, AddressKeepsInv, TokenKeepsInv, ConfigKeepsInv, AdoptedKeepsInv,
     CreatedKeepsInv, DiscoveryKeepsInv, DeviceKeepsInv DEF SetupNext, FlowStep
<1>2. SetupInv => SetupTrue
  <2> SUFFICES ASSUME SetupInv PROVE SetupTrue
    OBVIOUS
  <2>1. SetupTypeOK
    BY DEF SetupInv, FlowTyped, SetupTypeOK, UnitState, FlowState, EntryState
  <2>2. OneEntryPerDevice
    <3> SUFFICES ASSUME nameless = {} PROVE ~(Cardinality(Entries) > 1)
      BY DEF OneEntryPerDevice
    <3>1. Entries \in SUBSET Flow /\ \A f, g \in Entries : f = g
      BY DEF SetupInv, EntriesMade, Entries
    <3>2. CASE Entries = {}
      BY <3>2, FS_EmptySet
    <3>3. CASE Entries # {}
      <4>1. PICK f \in Entries : Entries = {f}
        BY <3>1, <3>3
      <4>2. Cardinality({f}) = 1
        BY FS_Singleton
      <4> QED
        BY <4>1, <4>2
    <3> QED
      BY <3>2, <3>3
  <2>3. FlowsDistinct /\ InstallerServed
    <3>1. Entries \in SUBSET Flow
      BY DEF Entries
    <3> QED
      BY <3>1 DEF SetupInv, InstallerServed, WriterPlaced
  <2> QED
    BY <2>1, <2>2, <2>3 DEF SetupTrue
<1> QED
  BY SetupInitInv, <1>1, <1>2, PTL DEF SetupSpec

(***************************************************************************)
(* Options and reconfigure flows.                                          *)
(***************************************************************************)

\* The settings that are on a page, or were on the pages before it.
OnPage(page) ==
    CASE page = "connection" -> Connection
      [] page = "features" -> Connection \cup {"media"}
      [] page \in {"manage", "item"} -> Connection \cup {"media", "mode", "items"}
      [] page = "dashboard" -> Connection \cup Features
      [] OTHER -> {}

Page == {"closed", "connection", "features", "manage", "item", "dashboard"}

\* An open form holds the settings of its pages, and the activations fit when
\* the page of the dashboard is reached.
FormWell(filled) ==
    /\ filled.page \in Page /\ DOMAIN filled.value = OnPage(filled.page)
    /\ filled.page = "dashboard" => Len(filled.value.items) <= Limit(filled.value.mode)

\* The mode and the activations are saved together, the mark only in the data,
\* and a host that is saved as an option is the one that was chosen.
SavedTogether ==
    /\ "mode" \in DOMAIN options <=> "items" \in DOMAIN options
    /\ "mark" \notin DOMAIN options
    /\ "host" \in DOMAIN options => options["host"] = chosen["host"]

OptionsInv ==
    /\ OptionsTypeOK /\ EffectiveIsChosen /\ ActivationsFit
    /\ SavedTogether
    /\ \A f \in Kind : FormWell(dialog[f])

\* What is in force, and what the helpers on settings make.
LEMMA InForce ==
  ASSUME NEW d, NEW o
  PROVE  /\ DOMAIN Effective(d, o) = Keys
         /\ \A k \in Keys :
              Effective(d, o)[k] = IF k \in DOMAIN o /\ ~(k \in NonBlankFallback /\ o[k] = Blank)
                                   THEN o[k] ELSE d[k]
BY DEF Effective

LEMMA OverlaidIs ==
  ASSUME NEW f, NEW g
  PROVE  /\ DOMAIN Overlaid(f, g) = DOMAIN f \cup DOMAIN g
         /\ \A k \in DOMAIN g : Overlaid(f, g)[k] = g[k]
         /\ \A k \in DOMAIN f \ DOMAIN g : Overlaid(f, g)[k] = f[k]
BY DEF Overlaid

LEMMA OnlyIs ==
  ASSUME NEW f, NEW keys
  PROVE  /\ DOMAIN Only(f, keys) = DOMAIN f \cap keys
         /\ \A k \in DOMAIN f \cap keys : Only(f, keys)[k] = f[k]
BY DEF Only

\* Turning a page touches the form it is of.
LEMMA TurnedForms ==
  ASSUME OptionsInv, NEW f \in Kind, NEW filled, FormWell(filled), dialog' = [dialog EXCEPT ![f] = filled]
  PROVE  DOMAIN dialog' = Kind /\ \A g \in Kind : FormWell(dialog'[g])
BY DEF OptionsInv, OptionsTypeOK

\* A step that only turns pages keeps the invariant.
LEMMA PagesKeep ==
  ASSUME OptionsInv, Stored, changes' \in 0 .. MaxChanges,
         DOMAIN dialog' = Kind, \A g \in Kind : FormWell(dialog'[g])
  PROVE  OptionsInv'
BY DEF OptionsInv, OptionsTypeOK, Stored, EffectiveIsChosen, ActivationsFit, SavedTogether, Now

\* Changes are counted within their bound.
LEMMA CountedTyped ==
  ASSUME OptionsInv, NEW n \in Nat, Counted(n)
  PROVE  changes' \in 0 .. MaxChanges
BY OptionsAssumption DEF Counted, OptionsInv, OptionsTypeOK

LEMMA DiffersTyped == \A a, b : Differs(a, b) \in Nat
BY DEF Differs

\* The values a page is shown with.
LEMMA NowDomain == OptionsInv => DOMAIN Now = Keys
BY InForce DEF Now

\* A form that is turned to a page with what belongs there.
LEMMA TurnsWell ==
  ASSUME OptionsInv, NEW f \in Kind, NEW page \in Page, NEW value, Turned(f, page, value), Stored,
         changes' \in 0 .. MaxChanges, DOMAIN value = OnPage(page),
         page = "dashboard" => Len(value.items) <= Limit(value.mode)
  PROVE  OptionsInv'
<1> DEFINE filled == [page |-> page, value |-> value, edit |-> Blank]
<1>1. FormWell(filled)
  BY DEF FormWell
<1>2. dialog' = [dialog EXCEPT ![f] = filled]
  BY DEF Turned
<1> HIDE DEF filled
<1>3. DOMAIN dialog' = Kind /\ \A g \in Kind : FormWell(dialog'[g])
  BY <1>1, <1>2, TurnedForms
<1> QED
  BY <1>3, PagesKeep

LEMMA FormAt ==
  ASSUME OptionsInv, NEW f \in Kind, NEW page \in Page, At(f, page)
  PROVE  /\ DOMAIN dialog[f].value = OnPage(page)
         /\ page = "dashboard" => Len(dialog[f].value.items) <= Limit(dialog[f].value.mode)
BY DEF OptionsInv, At, FormWell

\* The mode that is chosen on the page of the activations.
LEMMA ManagedIs ==
  ASSUME OptionsInv, NEW f \in Kind, At(f, "manage"), NEW mode
  PROVE  /\ DOMAIN Managed(f, mode) = OnPage("manage")
         /\ Managed(f, mode).mode = mode /\ Managed(f, mode).items = dialog[f].value.items
<1>1. DOMAIN dialog[f].value = OnPage("manage")
  BY FormAt DEF Page
<1> QED
  BY <1>1 DEF Managed, OnPage, Connection

\* A write of the settings: what must be shown of it.
LEMMA WritesKeep ==
  ASSUME OptionsInv, Saves, version' = version, DOMAIN data' = Keys, DOMAIN options' \subseteq Keys,
         DOMAIN chosen' = Keys, changes' \in 0 .. MaxChanges,
         EffectiveIsChosen', ActivationsFit', SavedTogether',
         DOMAIN dialog' = Kind, \A g \in Kind : FormWell(dialog'[g])
  PROVE  OptionsInv'
<1>1. saves' \in 0 .. MaxSaves
  BY OptionsAssumption DEF Saves, OptionsInv, OptionsTypeOK
<1> QED
  BY <1>1 DEF OptionsInv, OptionsTypeOK

LEMMA FinishedKeeps == ASSUME OptionsInv, NEW f \in Kind, Finished(f) PROVE OptionsInv'
<1>1. PICK board \in Domain.board :
         LET new == [dialog[f].value EXCEPT !.board = board]
         IN /\ Counted(Differs(board, dialog[f].value.board))
            /\ Valid(new.items)
            /\ IF f = "options" THEN OptionsSaved(new) ELSE ReconfigureSaved(new)
            /\ chosen' = Overlaid(chosen, new)
  BY DEF Finished
<1> DEFINE new == [dialog[f].value EXCEPT !.board = board]
<1>2. At(f, "dashboard") /\ Saves /\ dialog' = [dialog EXCEPT ![f] = Closed] /\ version' = version
  BY DEF Finished
<1>3. /\ DOMAIN new = Connection \cup Features
      /\ Len(new.items) <= Limit(new.mode)
  <2>1. /\ DOMAIN dialog[f].value = OnPage("dashboard")
        /\ Len(dialog[f].value.items) <= Limit(dialog[f].value.mode)
    BY <1>2, FormAt DEF Page
  <2> QED
    BY <2>1 DEF OnPage, Connection, Features
<1>4. /\ Valid(new["items"]) /\ Len(new["items"]) <= Limit(new["mode"])
      /\ chosen' = Overlaid(chosen, new)
  BY <1>1, <1>3
<1>6. \/ options' = new /\ data' = data
      \/ data' = Overlaid(data, new) /\ options' = Only(options, Keys \ DOMAIN new)
  BY <1>1 DEF OptionsSaved, ReconfigureSaved
<1>7. changes' \in 0 .. MaxChanges
  BY <1>1, CountedTyped, DiffersTyped
<1> HIDE DEF new
<1>8. DOMAIN dialog' = Kind /\ \A g \in Kind : FormWell(dialog'[g])
  <2>1. FormWell(Closed)
    BY DEF FormWell, Closed, OnPage, Page
  <2> QED
    BY <1>2, <2>1, TurnedForms
<1>9. /\ DOMAIN data = Keys /\ DOMAIN chosen = Keys /\ DOMAIN options \subseteq Keys
      /\ "mark" \notin DOMAIN options
      /\ \A k \in Keys : Now[k] = chosen[k] \/ (k \in NonBlankFallback /\ chosen[k] = Blank)
  BY DEF OptionsInv, OptionsTypeOK, SavedTogether, EffectiveIsChosen
<1>10. Now["mark"] = data["mark"]
  BY <1>9, InForce DEF Now, Keys
<1>11. data["mark"] = chosen["mark"]
  BY <1>9, <1>10 DEF Keys, NonBlankFallback
<1>12. /\ DOMAIN chosen' = Keys /\ chosen'["mark"] = chosen["mark"]
       /\ \A k \in Connection \cup Features : chosen'[k] = new[k]
  <2>1. "mark" \notin Connection \cup Features /\ Keys = Connection \cup Features \cup {"mark"}
    BY DEF Keys, Connection, Features
  <2> QED
    BY <1>3, <1>4, <1>9, <2>1 DEF Overlaid
<1>13. Keys = Connection \cup Features \cup {"mark"} /\ "mark" \notin Connection \cup Features
       /\ {"mode", "items", "host"} \subseteq Connection \cup Features
  BY DEF Keys, Connection, Features
<1>14. CASE options' = new /\ data' = data
  <2>1. \A k \in Connection \cup Features :
           Now'[k] = IF k \in NonBlankFallback /\ new[k] = Blank THEN data[k] ELSE new[k]
    BY <1>3, <1>13, <1>14, InForce DEF Now
  <2>2. Now'["mark"] = data["mark"]
    BY <1>3, <1>13, <1>14, InForce DEF Now
  <2>3. EffectiveIsChosen'
    BY <1>11, <1>12, <1>13, <2>1, <2>2 DEF EffectiveIsChosen
  <2>4. Now'["items"] = new["items"] /\ Now'["mode"] = new["mode"]
    BY <1>13, <2>1 DEF NonBlankFallback
  <2>5. ActivationsFit'
    BY <1>4, <2>4 DEF ActivationsFit
  <2>6. SavedTogether'
    BY <1>3, <1>12, <1>13, <1>14 DEF SavedTogether
  <2> QED
    BY <1>2, <1>3, <1>7, <1>8, <1>9, <1>12, <1>13, <1>14, <2>3, <2>5, <2>6, WritesKeep
<1>15. CASE data' = Overlaid(data, new) /\ options' = Only(options, Keys \ DOMAIN new)
  <2>1. DOMAIN options' = {}
    BY <1>3, <1>9, <1>13, <1>15 DEF Only
  <2>2. /\ DOMAIN data' = Keys /\ data'["mark"] = data["mark"]
        /\ \A k \in Connection \cup Features : data'[k] = new[k]
    BY <1>3, <1>9, <1>13, <1>15 DEF Overlaid
  <2>3. \A k \in Keys : Now'[k] = data'[k]
    BY <2>1, InForce DEF Now
  <2>4. EffectiveIsChosen'
    BY <1>11, <1>12, <1>13, <2>2, <2>3 DEF EffectiveIsChosen
  <2>5. ActivationsFit'
    BY <1>4, <1>13, <2>2, <2>3 DEF ActivationsFit
  <2>6. SavedTogether'
    BY <2>1 DEF SavedTogether
  <2> QED
    BY <1>2, <1>7, <1>8, <1>12, <2>1, <2>2, <2>4, <2>5, <2>6, WritesKeep
<1> QED
  BY <1>6, <1>14, <1>15

\* The invariant where the writes are small: what is in force, key by key.
LEMMA NowIs ==
  ASSUME OptionsInv
  PROVE  \A k \in Keys : Now[k] = IF k \in DOMAIN options
                                     /\ ~(k \in NonBlankFallback /\ options[k] = Blank)
                                  THEN options[k] ELSE data[k]
BY InForce DEF Now

LEMMA SmallWrites ==
  ASSUME OptionsInv, Upgraded \/ CallbackRepaired \/ Marked \/ \E h \in Address : Rediscovered(h)
  PROVE  OptionsInv'
<1>0. /\ DOMAIN data = Keys /\ DOMAIN chosen = Keys /\ DOMAIN options \subseteq Keys
      /\ \A k \in Keys : Now[k] = chosen[k] \/ (k \in NonBlankFallback /\ chosen[k] = Blank)
      /\ DOMAIN dialog = Kind /\ \A g \in Kind : FormWell(dialog[g])
      /\ changes \in 0 .. MaxChanges
  BY DEF OptionsInv, OptionsTypeOK, EffectiveIsChosen
<1>1. \A k \in Keys : Now'[k] = IF k \in DOMAIN options'
                                   /\ ~(k \in NonBlankFallback /\ options'[k] = Blank)
                                THEN options'[k] ELSE data'[k]
  BY InForce DEF Now
<1>k. {"host", "callback", "mark", "mode", "items"} \subseteq Keys
      /\ {"callback", "mark", "mode", "items"} \cap NonBlankFallback = {}
  BY DEF Keys, Connection, Features, NonBlankFallback
<1>2. CASE Upgraded
  <2>1. /\ version' = 2 /\ UNCHANGED <<data, dialog, chosen, changes, saves>>
        /\ options' = Only(options, {k \in Keys : ~(k \in NonBlankFallback /\ k \in DOMAIN options
                                                 /\ options[k] = Blank /\ data[k] # Blank)})
    BY <1>2 DEF Upgraded
  <2>2. /\ DOMAIN options' \subseteq DOMAIN options
        /\ \A k \in DOMAIN options' : options'[k] = options[k]
        /\ \A k \in DOMAIN options \ DOMAIN options' : k \in NonBlankFallback /\ options[k] = Blank
    BY <1>0, <2>1 DEF Only
  <2>3. \A k \in Keys : Now'[k] = Now[k]
    BY <1>0, <1>1, <2>1, <2>2, NowIs
  <2>4. EffectiveIsChosen'
    BY <1>0, <2>1, <2>3 DEF EffectiveIsChosen
  <2>5. ActivationsFit'
    BY <1>k, <2>3 DEF ActivationsFit, OptionsInv
  <2>6. SavedTogether'
    BY <2>1, <2>2 DEF SavedTogether, OptionsInv, NonBlankFallback
  <2> QED
    BY <1>0, <2>1, <2>2, <2>4, <2>5, <2>6 DEF OptionsInv, OptionsTypeOK
<1>3. CASE CallbackRepaired
  <2>1. /\ Saves /\ options' = Overlaid(options, [callback |-> "url"])
        /\ chosen' = [chosen EXCEPT !["callback"] = "url"]
        /\ UNCHANGED <<data, version, dialog, changes>>
    BY <1>3 DEF CallbackRepaired
  <2>2. /\ DOMAIN options' = DOMAIN options \cup {"callback"} /\ options'["callback"] = "url"
        /\ \A k \in DOMAIN options \ {"callback"} : options'[k] = options[k]
    <3>1. DOMAIN [callback |-> "url"] = {"callback"} /\ [callback |-> "url"]["callback"] = "url"
      OBVIOUS
    <3> QED
      BY <2>1, <3>1 DEF Overlaid
  <2>3. \A k \in Keys : Now'[k] = IF k = "callback" THEN "url" ELSE Now[k]
    BY <1>0, <1>1, <1>k, <2>1, <2>2, NowIs
  <2>4. DOMAIN chosen' = Keys /\ \A k \in Keys : chosen'[k] = IF k = "callback" THEN "url" ELSE chosen[k]
    BY <1>0, <2>1
  <2>5. EffectiveIsChosen'
    BY <1>0, <2>3, <2>4 DEF EffectiveIsChosen
  <2>6. ActivationsFit'
    BY <1>k, <2>3 DEF ActivationsFit, OptionsInv
  <2>7. SavedTogether'
    BY <1>k, <2>2, <2>4 DEF SavedTogether, OptionsInv
  <2> QED
    BY <1>0, <1>k, <2>1, <2>2, <2>4, <2>5, <2>6, <2>7, WritesKeep
<1>4. CASE Marked
  <2>1. /\ Saves /\ data' = [data EXCEPT !["mark"] = TRUE]
        /\ chosen' = [chosen EXCEPT !["mark"] = TRUE]
        /\ UNCHANGED <<options, version, dialog, changes>>
    BY <1>4 DEF Marked
  <2>2. DOMAIN data' = Keys /\ \A k \in Keys : data'[k] = IF k = "mark" THEN TRUE ELSE data[k]
    BY <1>0, <2>1
  <2>3. DOMAIN chosen' = Keys /\ \A k \in Keys : chosen'[k] = IF k = "mark" THEN TRUE ELSE chosen[k]
    BY <1>0, <2>1
  <2>4. \A k \in Keys \ {"mark"} : Now'[k] = Now[k] /\ chosen'[k] = chosen[k]
    BY <1>1, <2>1, <2>2, <2>3, NowIs
  <2>a. Now'["mark"] = chosen'["mark"]
    <3>1. "mark" \notin DOMAIN options' /\ "mark" \in Keys
      BY <1>k, <2>1 DEF OptionsInv, SavedTogether
    <3>2. Now'["mark"] = data'["mark"]
      BY <1>1, <3>1
    <3> QED
      BY <1>0, <2>1, <3>1, <3>2
  <2>5. EffectiveIsChosen'
    BY <1>0, <2>4, <2>a DEF EffectiveIsChosen
  <2>6. ActivationsFit'
    BY <1>k, <2>4 DEF ActivationsFit, OptionsInv
  <2>7. SavedTogether'
    BY <1>k, <2>1, <2>3 DEF SavedTogether, OptionsInv
  <2> QED
    BY <1>0, <2>1, <2>2, <2>3, <2>5, <2>6, <2>7, WritesKeep
<1>5. ASSUME NEW h \in Address, Rediscovered(h) PROVE OptionsInv'
  <2>1. /\ Saves /\ data' = [data EXCEPT !["host"] = h]
        /\ chosen' = IF "host" \in DOMAIN options THEN chosen ELSE [chosen EXCEPT !["host"] = h]
        /\ UNCHANGED <<options, version, dialog, changes>>
    BY <1>5 DEF Rediscovered
  <2>2. DOMAIN data' = Keys /\ \A k \in Keys : data'[k] = IF k = "host" THEN h ELSE data[k]
    BY <1>0, <2>1
  <2>3. /\ DOMAIN chosen' = Keys
        /\ \A k \in Keys : chosen'[k] = IF k = "host" /\ "host" \notin DOMAIN options THEN h ELSE chosen[k]
    BY <1>0, <2>1
  <2>4. \A k \in Keys \ {"host"} : Now'[k] = Now[k]
    BY <1>1, <2>1, <2>2, NowIs
  <2>5. Now'["host"] = IF "host" \in DOMAIN options /\ options["host"] # Blank THEN options["host"] ELSE h
    BY <1>1, <1>k, <2>1, <2>2 DEF NonBlankFallback
  <2>6. Now'["host"] = chosen'["host"] \/ chosen'["host"] = Blank
    BY <1>k, <2>3, <2>5 DEF OptionsInv, SavedTogether
  <2>7. EffectiveIsChosen'
    BY <1>0, <2>3, <2>4, <2>6 DEF EffectiveIsChosen, NonBlankFallback
  <2>8. ActivationsFit'
    BY <1>k, <2>4 DEF ActivationsFit, OptionsInv
  <2>9. SavedTogether'
    BY <1>k, <2>1, <2>3 DEF SavedTogether, OptionsInv
  <2> QED
    BY <1>0, <2>1, <2>2, <2>3, <2>7, <2>8, <2>9, WritesKeep
<1> QED
  BY <1>2, <1>3, <1>4, <1>5

LEMMA PagesTurn ==
  ASSUME OptionsInv, NEW f \in Kind,
         \/ FormOpened(f) \/ ConnectionPosted(f) \/ FeaturesPosted(f) \/ ActivationsDone(f)
         \/ ItemAdded(f) \/ ItemEdited(f) \/ ItemRemoved(f) \/ ItemPosted(f) \/ FormClosed(f)
  PROVE  OptionsInv'
<1>0. changes \in 0 .. MaxChanges /\ DOMAIN Now = Keys
  BY NowDomain DEF OptionsInv, OptionsTypeOK
<1>1. CASE FormOpened(f)
  <2>1. DOMAIN Only(Now, Connection) = OnPage("connection")
    BY <1>0, OnlyIs DEF OnPage, Keys, Connection, Features
  <2> QED
    BY <1>0, <1>1, <2>1, TurnsWell DEF FormOpened, Pages, Page
<1>2. CASE ConnectionPosted(f)
  <2>1. PICK k \in Connection : \E v \in Domain[k] :
           /\ Counted(Differs(v, dialog[f].value[k]))
           /\ Turned(f, "features",
                     Overlaid([dialog[f].value EXCEPT ![k] = v], Only(Now, {"media"})))
    BY <1>2 DEF ConnectionPosted
  <2>2. PICK v \in Domain[k] :
           /\ Counted(Differs(v, dialog[f].value[k]))
           /\ Turned(f, "features",
                     Overlaid([dialog[f].value EXCEPT ![k] = v], Only(Now, {"media"})))
    BY <2>1
  <2>3. DOMAIN dialog[f].value = Connection
    BY <1>2, FormAt DEF ConnectionPosted, Page, OnPage
  <2>4. DOMAIN Overlaid([dialog[f].value EXCEPT ![k] = v], Only(Now, {"media"})) = OnPage("features")
    BY <1>0, <2>3, OnlyIs DEF Overlaid, Only, OnPage, Keys, Features
  <2>5. changes' \in 0 .. MaxChanges
    BY <2>2, CountedTyped, DiffersTyped
  <2> QED
    BY <1>2, <2>2, <2>4, <2>5, TurnsWell DEF ConnectionPosted, Page
<1>3. CASE FeaturesPosted(f)
  <2>1. PICK media \in Domain.media :
           /\ Counted(Differs(media, dialog[f].value.media))
           /\ Turned(f, "manage",
                     Overlaid([dialog[f].value EXCEPT !.media = media], Only(Now, {"mode", "items"})))
    BY <1>3 DEF FeaturesPosted
  <2>2. DOMAIN dialog[f].value = Connection \cup {"media"}
    BY <1>3, FormAt DEF FeaturesPosted, Page, OnPage
  <2>3. DOMAIN Overlaid([dialog[f].value EXCEPT !.media = media], Only(Now, {"mode", "items"}))
          = OnPage("manage")
    BY <1>0, <2>2, OnlyIs DEF Overlaid, Only, OnPage, Keys, Features
  <2>4. changes' \in 0 .. MaxChanges
    BY <2>1, CountedTyped, DiffersTyped
  <2> QED
    BY <1>3, <2>1, <2>3, <2>4, TurnsWell DEF FeaturesPosted, Page
<1>4. CASE ActivationsDone(f)
  <2>1. PICK mode \in Domain.mode :
           /\ Counted(ModeChanges(f, mode))
           /\ IF Len(dialog[f].value.items) <= Limit(mode)
              THEN Turned(f, "dashboard", Overlaid(Managed(f, mode), Only(Now, {"board"})))
              ELSE Turned(f, "manage", Managed(f, mode))
    BY <1>4 DEF ActivationsDone
  <2>2. /\ DOMAIN Managed(f, mode) = OnPage("manage")
        /\ Managed(f, mode).mode = mode /\ Managed(f, mode).items = dialog[f].value.items
    BY <1>4, ManagedIs DEF ActivationsDone
  <2>3. changes' \in 0 .. MaxChanges
    BY <2>1, CountedTyped, DiffersTyped DEF ModeChanges
  <2> DEFINE value == Overlaid(Managed(f, mode), Only(Now, {"board"}))
  <2>4. DOMAIN Only(Now, {"board"}) = {"board"}
    BY <1>0 DEF Only, Keys, Features
  <2>5. /\ DOMAIN value = OnPage("dashboard")
        /\ value["mode"] = mode /\ value["items"] = dialog[f].value.items
    BY <2>2, <2>4 DEF Overlaid, OnPage, Connection, Features
  <2>6. CASE Len(dialog[f].value.items) <= Limit(mode)
    <3>1. Turned(f, "dashboard", value)
      BY <2>1, <2>6
    <3> HIDE DEF value
    <3> QED
      BY <1>4, <2>3, <2>5, <2>6, <3>1, TurnsWell DEF ActivationsDone, Page
  <2>7. CASE ~(Len(dialog[f].value.items) <= Limit(mode))
    BY <1>4, <2>1, <2>2, <2>3, <2>7, TurnsWell DEF ActivationsDone, Page
  <2> QED
    BY <2>6, <2>7
<1>5. CASE ItemAdded(f)
  <2>1. PICK mode \in Domain.mode :
           /\ Counted(1 + ModeChanges(f, mode))
           /\ Turned(f, IF Len(dialog[f].value.items) >= Limit(mode) THEN "manage" ELSE "item",
                     Managed(f, mode))
    BY <1>5 DEF ItemAdded
  <2>2. DOMAIN Managed(f, mode) = OnPage("manage")
    BY <1>5, ManagedIs DEF ItemAdded
  <2>3. 1 + ModeChanges(f, mode) \in Nat
    BY DiffersTyped DEF ModeChanges
  <2>4. changes' \in 0 .. MaxChanges
    BY <2>1, <2>3, CountedTyped
  <2>5. PICK page \in {"manage", "item"} : Turned(f, page, Managed(f, mode))
    BY <2>1
  <2>6. OnPage(page) = OnPage("manage") /\ page \in Page /\ page # "dashboard"
    BY DEF OnPage, Page
  <2> QED
    BY <1>5, <2>2, <2>4, <2>5, <2>6, TurnsWell DEF ItemAdded
<1>6. CASE ItemEdited(f)
  <2>1. PICK mode \in Domain.mode, target \in ToSet(dialog[f].value.items) :
           /\ Counted(1 + ModeChanges(f, mode))
           /\ dialog' = [dialog EXCEPT ![f] = [page |-> "item", value |-> Managed(f, mode), edit |-> target]]
    BY <1>6 DEF ItemEdited
  <2>2. DOMAIN Managed(f, mode) = OnPage("manage")
    BY <1>6, ManagedIs DEF ItemEdited
  <2>3. 1 + ModeChanges(f, mode) \in Nat
    BY DiffersTyped DEF ModeChanges
  <2>4. changes' \in 0 .. MaxChanges
    BY <2>1, <2>3, CountedTyped
  <2> DEFINE filled == [page |-> "item", value |-> Managed(f, mode), edit |-> target]
  <2>5. FormWell(filled)
    BY <2>2 DEF FormWell, Page, OnPage
  <2>6. dialog' = [dialog EXCEPT ![f] = filled]
    BY <2>1
  <2> HIDE DEF filled
  <2>7. DOMAIN dialog' = Kind /\ \A g \in Kind : FormWell(dialog'[g])
    BY <2>5, <2>6, TurnedForms
  <2> QED
    BY <1>6, <2>4, <2>7, PagesKeep DEF ItemEdited
<1>7. CASE ItemRemoved(f)
  <2>1. PICK mode \in Domain.mode, target \in ToSet(dialog[f].value.items) :
           /\ Counted(1 + ModeChanges(f, mode))
           /\ Turned(f, "manage", [Managed(f, mode) EXCEPT !.items = SelectSeq(@, LAMBDA i : i # target)])
    BY <1>7 DEF ItemRemoved
  <2>2. DOMAIN Managed(f, mode) = OnPage("manage")
    BY <1>7, ManagedIs DEF ItemRemoved
  <2>3. 1 + ModeChanges(f, mode) \in Nat
    BY DiffersTyped DEF ModeChanges
  <2>4. changes' \in 0 .. MaxChanges
    BY <2>1, <2>3, CountedTyped
  <2>5. PICK rest : Turned(f, "manage", [Managed(f, mode) EXCEPT !.items = rest])
    BY <2>1
  <2>6. DOMAIN [Managed(f, mode) EXCEPT !.items = rest] = OnPage("manage")
    BY <2>2
  <2> QED
    BY <1>7, <2>4, <2>5, <2>6, TurnsWell DEF ItemRemoved, Page
<1>8. CASE ItemPosted(f)
  <2>1. At(f, "item") /\ Pages
    BY <1>8 DEF ItemPosted
  <2>2. DOMAIN dialog[f].value = OnPage("manage")
    BY <2>1, FormAt DEF OnPage, Page
  <2>3. \/ Turned(f, "manage", dialog[f].value)
        \/ \E items : Turned(f, "manage", [dialog[f].value EXCEPT !.items = items])
    BY <1>8 DEF ItemPosted
  <2>4. CASE Turned(f, "manage", dialog[f].value)
    BY <1>0, <2>1, <2>2, <2>4, TurnsWell DEF Pages, Page
  <2>5. ASSUME NEW items, Turned(f, "manage", [dialog[f].value EXCEPT !.items = items])
        PROVE  OptionsInv'
    <3>1. DOMAIN [dialog[f].value EXCEPT !.items = items] = OnPage("manage")
      BY <2>2
    <3> QED
      BY <1>0, <2>1, <2>5, <3>1, TurnsWell DEF Pages, Page
  <2> QED
    BY <2>3, <2>4, <2>5
<1>9. CASE FormClosed(f)
  <2>1. FormWell(Closed)
    BY DEF FormWell, Closed, OnPage, Page
  <2>2. DOMAIN dialog' = Kind /\ \A g \in Kind : FormWell(dialog'[g])
    BY <1>9, <2>1, TurnedForms DEF FormClosed
  <2> QED
    BY <1>0, <1>9, <2>2, PagesKeep DEF FormClosed, Pages
<1> QED
  BY <1>1, <1>2, <1>3, <1>4, <1>5, <1>6, <1>7, <1>8, <1>9

LEMMA OptionsStep == OptionsInv /\ [OptionsNext]_optionsVars => OptionsInv'
<1> SUFFICES ASSUME OptionsInv, [OptionsNext]_optionsVars PROVE OptionsInv'
  OBVIOUS
<1>1. CASE UNCHANGED optionsVars
  <2>1. Stored /\ dialog' = dialog /\ changes' = changes
    BY <1>1 DEF optionsVars, Stored
  <2> QED
    BY <2>1, PagesKeep DEF OptionsInv, OptionsTypeOK
<1> QED
  BY <1>1, SmallWrites, PagesTurn, FinishedKeeps DEF OptionsNext

LEMMA OptionsInitInv == OptionsInit => OptionsInv
<1> SUFFICES ASSUME OptionsInit PROVE OptionsInv
  OBVIOUS
<1>1. /\ DOMAIN data = Keys /\ data["items"] = <<"gate">> /\ data["mode"] = "auto"
      /\ chosen = data /\ dialog = [k \in Kind |-> Closed] /\ changes = 0 /\ saves = 0
      /\ data["token"] = "token" /\ version \in {1, 2}
  BY DEF OptionsInit, Keys, Connection, Features
<1>2. \/ DOMAIN options = {}
      \/ DOMAIN options = {"token"} /\ options["token"] = Blank
  BY DEF OptionsInit
<1>3. \A k \in Keys : Now[k] = data[k]
  BY <1>2, InForce DEF Now, NonBlankFallback
<1>4. EffectiveIsChosen
  BY <1>1, <1>3 DEF EffectiveIsChosen
<1>5. ActivationsFit
  <2>1. Now["items"] = <<"gate">> /\ Now["mode"] = "auto"
    BY <1>1, <1>3 DEF Keys, Features
  <2>2. Len(<<"gate">>) = 1 /\ DOMAIN <<"gate">> = {1}
    OBVIOUS
  <2>3. IsInjective(<<"gate">>) /\ ToSet(<<"gate">>) \cap Reserved = {}
    BY <2>2 DEF IsInjective, ToSet, Reserved
  <2> QED
    BY <2>1, <2>2, <2>3, OptionsAssumption DEF ActivationsFit, Valid, Limit
<1>6. SavedTogether
  BY <1>2 DEF SavedTogether
<1>7. FormWell(Closed)
  BY DEF FormWell, Closed, OnPage, Page
<1>8. OptionsTypeOK
  BY <1>1, <1>2, OptionsAssumption DEF OptionsTypeOK, Keys, Connection
<1> QED
  BY <1>1, <1>4, <1>5, <1>6, <1>7, <1>8 DEF OptionsInv

\* SettingsTrue of module OptionsFlow: whatever the two flows, the repair, the
\* rediscovery and the marks write, the settings in force are those last given
\* and the activations are a list the agent takes (config_flow.py,
\* entry_config.py), for any addresses and bounds.
THEOREM SettingsTrueHolds == OptionsSpec => []SettingsTrue
<1>1. OptionsInv => SettingsTrue
  BY DEF OptionsInv, SettingsTrue
<1> QED
  BY OptionsInitInv, OptionsStep, <1>1, PTL DEF OptionsSpec

(***************************************************************************)
(* Media decisions.                                                        *)
(***************************************************************************)
Owners == {"ring", "home_call", "agent", "external_media", "idle"}

\* What an owner, a state and a session owner say of each other.
LEMMA OwnerOf ==
  ASSUME NEW f
  PROVE  /\ Owner(f) \in Owners
         /\ SessionOwner(f) \in {"ring_answered", "ring_preview"} <=> Owner(f) = "ring"
         /\ SessionOwner(f) = "home_call" <=> Owner(f) = "home_call"
         /\ SessionOwner(f) = "idle" <=> Owner(f) = "idle"
<1>1. Owner(f) \in Owners
  BY DEF Owner, Owners
<1> QED
  BY <1>1 DEF SessionOwner, Owners

LEMMA StateOf ==
  ASSUME NEW f \in Fact, NEW n \in {0, 1}, NEW e \in BOOLEAN
  PROVE  /\ State(f, n, e) = "idle" => /\ Owner(f) = "idle" /\ f.clients = 0 /\ n = 0
                                       /\ "external" \notin f.flags
         /\ State(f, n, e) \in HomeStates => Owner(f) = "home_call"
         /\ State(f, n, e) \in CallStates \ HomeStates => Owner(f) = "ring"
         /\ State(f, n, e) = "ring_hanging_up" => Owner(f) = "ring"
         /\ ~e /\ "external" \in f.flags => State(f, n, e) = "external_media_active"
         /\ Owner(f) = "idle" /\ ~e /\ "external" \notin f.flags /\ f.clients = 0 /\ n = 0
              => State(f, n, e) = "idle"
         /\ Owner(f) = "ring" /\ ~e /\ "external" \notin f.flags => State(f, n, e) = RingState(f)
         /\ State(f, n, e) \in CallStates \ HomeStates
              => ~e /\ "external" \notin f.flags /\ State(f, n, e) = RingState(f)
<1>1. Owner(f) \in Owners /\ f.clients \in {0, 1}
  BY OwnerOf DEF Fact
<1>2. HomeState(f) \in HomeStates
  BY DEF HomeState, HomeStates
<1>3. RingState(f) \in (CallStates \ HomeStates) \cup {"ring_hanging_up"}
  BY DEF RingState, CallStates, HomeStates
<1>4. CASE e
  BY <1>4 DEF State, HomeStates, CallStates
<1>5. CASE ~e /\ "external" \in f.flags
  BY <1>5 DEF State, HomeStates, CallStates
<1>6. CASE ~e /\ "external" \notin f.flags /\ Owner(f) = "home_call"
  BY <1>2, <1>6 DEF State, HomeStates, CallStates
<1>7. CASE ~e /\ "external" \notin f.flags /\ Owner(f) = "ring"
  <2>1. State(f, n, e) = RingState(f)
    BY <1>7 DEF State
  <2> QED
    BY <1>3, <1>7, <2>1 DEF HomeStates, CallStates
<1>8. CASE ~e /\ "external" \notin f.flags /\ Owner(f) \notin {"home_call", "ring"}
  BY <1>1, <1>8 DEF State, HomeStates, CallStates, Owners
<1> QED
  BY <1>4, <1>5, <1>6, <1>7, <1>8

\* An answer that leads to a stream is one of a device that is free or rings.
Free(f) ==
    /\ "external" \notin f.flags /\ Owner(f) # "home_call"
    /\ f.clients > 0 => Owner(f) = "ring"

LEMMA JudgedFree ==
  ASSUME NEW f \in Fact, NEW e \in BOOLEAN
  PROVE  /\ Judged(f, e).step \in {"busy", "opens", "activates"}
         /\ Judged(f, e).on = f /\ Judged(f, e).joined \in BOOLEAN
         /\ Judged(f, e).step # "busy" => Free(f)
<1> DEFINE n == LocalSessions(f)
           state == State(f, n, e)
           consumer == Consumer(state)
<1>1. consumer \in {"ring_preview", "ring_answered", "doorbell_card"}
  BY DEF Consumer
<1>2. ASSUME Admitted(consumer, f, n) PROVE Free(f)
  <2>1. "external" \notin f.flags /\ Owner(f) # "home_call"
    BY <1>1, <1>2, OwnerOf DEF Admitted
  <2>2. ASSUME f.clients > 0 PROVE Owner(f) = "ring"
    BY <1>2, <2>2, OwnerOf DEF Admitted, Busy
  <2> QED
    BY <2>1, <2>2 DEF Free
<1> QED
  BY <1>2 DEF Judged

LEMMA SessionsOf == ASSUME NEW f, ready \in {0, 1} PROVE LocalSessions(f) \in {0, 1}
BY DEF LocalSessions

\* What the camera offers holds for every answer, number of sessions and error.
LEMMA OffersHold == ASSUME ready \in {0, 1}, rtspError \in BOOLEAN PROVE OfferHolds
<1> SUFFICES ASSUME NEW f \in Fact
             PROVE  LET state == State(f, LocalSessions(f), rtspError)
                    IN /\ Offers(state) = "start_stream"
                            => Admitted("doorbell_card", f, LocalSessions(f))
                       /\ Offers(state) = "answer_ring" /\ f.clients = 0 => CaptureAllowed(f)
                       /\ CaptureAllowed(f) => Owner(f) \in {"idle", "ring"}
  BY DEF OfferHolds
<1> DEFINE n == LocalSessions(f)
           state == State(f, n, rtspError)
<1>0. n \in {0, 1}
  BY SessionsOf
<1> HIDE DEF n
<1>1. ASSUME Offers(state) = "start_stream" PROVE Admitted("doorbell_card", f, n)
  <2>1. state = "idle"
    BY <1>1 DEF Offers
  <2>2. Owner(f) = "idle" /\ f.clients = 0 /\ n = 0 /\ "external" \notin f.flags
    BY <1>0, <2>1, StateOf
  <2> QED
    BY <2>2, OwnerOf DEF Admitted, Busy
<1>2. ASSUME Offers(state) = "answer_ring", f.clients = 0 PROVE CaptureAllowed(f)
  <2>1. state \in UnansweredStates
    BY <1>2 DEF Offers
  <2>2. Owner(f) = "ring" /\ "external" \notin f.flags /\ state = RingState(f)
    BY <1>0, <2>1, StateOf DEF UnansweredStates, CallStates, HomeStates
  <2>3. State(f, 0, FALSE) \in UnansweredStates
    BY <2>1, <2>2, StateOf
  <2>4. f.flags \cap {"ring_audio", "answer_requested", "answered"} = {}
    BY <2>1, <2>2 DEF RingState, UnansweredStates
  <2>5. SessionOwner(f) = "ring_preview"
    BY <2>2, <2>4 DEF SessionOwner
  <2>6. Admitted("capture", f, 0)
    BY <1>2, <2>2, <2>5 DEF Admitted, Busy, Compatible
  <2>7. ~CaptureBlocked(State(f, 0, FALSE))
    BY <2>3 DEF CaptureBlocked, UnansweredStates, CallStates, HomeStates
  <2> QED
    BY <2>6, <2>7 DEF CaptureAllowed
<1>3. ASSUME CaptureAllowed(f) PROVE Owner(f) \in {"idle", "ring"}
  <2>1. SessionOwner(f) \in {"idle", "ring_preview", "ring_answered"}
    BY <1>3 DEF CaptureAllowed, Admitted, Compatible
  <2> QED
    BY <2>1, OwnerOf
<1> QED
  BY <1>1, <1>2, <1>3 DEF n

\* An agent with nothing live is idle, whatever sessions are tracked here.
LEMMA IdlesAreIdle == IdleIsIdle
<1> SUFFICES ASSUME NEW f \in Fact, AgentIdle(f)
             PROVE  State(f, LocalSessions(f), FALSE) = "idle"
  BY DEF IdleIsIdle
<1>1. LocalSessions(f) = 0 /\ Owner(f) = "idle" /\ f.clients = 0 /\ "external" \notin f.flags
  BY DEF LocalSessions, AgentIdle
<1> QED
  BY <1>1, StateOf

\* What the watchdog stops is what it was told of.
Spared(f, stopped) ==
    /\ "external" \in f.flags => stopped = {}
    /\ "home_call" \in stopped => Owner(f) = "home_call"
    /\ "ring" \in stopped => Owner(f) = "ring"

LEMMA StopsSpare == ASSUME NEW f \in Fact PROVE Spared(f, StopsFor(f))
<1> DEFINE state == State(f, 0, FALSE)
<1>1. /\ "external" \in f.flags => state = "external_media_active"
      /\ state \in HomeStates => Owner(f) = "home_call"
      /\ state \in (CallStates \ HomeStates) \cup {"ring_hanging_up"} => Owner(f) = "ring"
  BY StateOf
<1> HIDE DEF state
<1>2. StopsFor(f) = CASE state \in HomeStates -> {"home_call"}
                      [] state \in (CallStates \ HomeStates) \cup {"ring_hanging_up"} -> {"ring", "video"}
                      [] state \in {"on_demand_active", "rtsp_busy"} -> {"video"}
                      [] OTHER -> {}
  BY DEF StopsFor, state
<1>3. CASE state \in HomeStates
  BY <1>1, <1>2, <1>3 DEF Spared, HomeStates
<1>4. CASE state \in (CallStates \ HomeStates) \cup {"ring_hanging_up"}
  <2>1. state \notin HomeStates /\ state \notin {"on_demand_active", "rtsp_busy"}
    BY <1>4 DEF HomeStates, CallStates
  <2>2. StopsFor(f) = {"ring", "video"}
    BY <1>2, <1>4, <2>1
  <2> QED
    BY <1>1, <1>4, <2>2 DEF Spared, CallStates, HomeStates
<1>5. CASE state \notin HomeStates /\ state \notin CallStates \cup {"ring_hanging_up"}
  <2>1. StopsFor(f) = {} \/ (StopsFor(f) = {"video"} /\ state \in {"on_demand_active", "rtsp_busy"})
    BY <1>2, <1>5
  <2> QED
    BY <1>1, <2>1 DEF Spared
<1> QED
  BY <1>3, <1>4, <1>5 DEF CallStates

PrepareStep == {"none", "asks", "waits", "activates", "opens", "open", "busy", "failed"}
Preparation == [step : PrepareStep, on : Fact \cup {NoFact}, joined : BOOLEAN]
Watching == [step : {"none", "asks", "done"}, on : Fact \cup {NoFact},
             stopped : SUBSET {"home_call", "ring", "video"}]

\* A preparation that has asked knows nothing yet, one that waits does.
DecisionInv ==
    /\ prepared \in Preparation /\ watching \in Watching
    /\ rtspError \in BOOLEAN /\ ready \in {0, 1}
    /\ watchdog \in [high : 0 .. Sustained, tripped : BOOLEAN, trips : 0 .. MaxTrips]
    /\ prepared.step = "asks" => prepared.on = NoFact
    /\ prepared.step = "waits" => prepared.on \in Fact
    /\ NobodyDisturbed /\ WatchdogSpares

LEMMA DecisionInvImplies == DecisionInv => DecisionsAgree
BY OffersHold, IdlesAreIdle
DEF DecisionInv, DecisionsAgree, DecisionTypeOK, Preparation, PrepareStep, Watching

LEMMA DecisionInitInv == DecisionInit => DecisionInv
<1> SUFFICES ASSUME DecisionInit PROVE DecisionInv
  OBVIOUS
<1>1. prepared \in Preparation /\ watching \in Watching
  BY DEF DecisionInit, Preparation, PrepareStep, Watching
<1>2. watchdog \in [high : 0 .. Sustained, tripped : BOOLEAN, trips : 0 .. MaxTrips]
  BY DEF DecisionInit, Sustained, MaxTrips
<1>3. NobodyDisturbed /\ WatchdogSpares
  BY DEF DecisionInit, NobodyDisturbed, WatchdogSpares
<1> QED
  BY <1>1, <1>2, <1>3 DEF DecisionInit, DecisionInv

\* The preparation's part of the invariant.
PreparedWell ==
    /\ prepared \in Preparation
    /\ prepared.step = "asks" => prepared.on = NoFact
    /\ prepared.step = "waits" => prepared.on \in Fact
    /\ NobodyDisturbed

LEMMA JudgedWell ==
  ASSUME NEW f \in Fact, NEW e \in BOOLEAN, prepared' = Judged(f, e)
  PROVE  PreparedWell'
<1> DEFINE j == Judged(f, e)
<1>1. /\ j.step \in {"busy", "opens", "activates"} /\ j.on = f /\ j.joined \in BOOLEAN
      /\ j.step # "busy" => Free(f)
  BY JudgedFree
<1>2. j = [step |-> j.step, on |-> j.on, joined |-> j.joined]
  BY DEF Judged
<1> HIDE DEF j
<1>3. j \in Preparation
  BY <1>1, <1>2 DEF Preparation, PrepareStep
<1>4. prepared' = j
  BY DEF j
<1> QED
  BY <1>1, <1>3, <1>4 DEF PreparedWell, NobodyDisturbed, Free

LEMMA WatchdogStep ==
  ASSUME DecisionInv, NEW high \in BOOLEAN, LoadSampled(high)
  PROVE  /\ watchdog' \in [high : 0 .. Sustained, tripped : BOOLEAN, trips : 0 .. MaxTrips]
         /\ \/ watching' = watching
            \/ watching' = [step |-> "asks", on |-> NoFact, stopped |-> {}]
<1>1. watchdog.high \in 0 .. 2 /\ watchdog.tripped \in BOOLEAN /\ watchdog.trips \in 0 .. 2
  BY DEF DecisionInv, Sustained, MaxTrips
<1>2. watchdog.trips < 2
  BY DEF LoadSampled, MaxTrips
<1>3. watchdog \in [high : 0 .. 2, tripped : BOOLEAN, trips : 0 .. 2]
  BY DEF DecisionInv, Sustained, MaxTrips
<1>4. CASE ~high
  <2>1. watchdog' = [high |-> 0, tripped |-> FALSE, trips |-> watchdog.trips] /\ watching' = watching
    BY <1>4 DEF LoadSampled
  <2>2. watchdog' \in [high : 0 .. 2, tripped : BOOLEAN, trips : 0 .. 2]
    BY <1>1, <2>1
  <2> QED
    BY <2>1, <2>2 DEF Sustained, MaxTrips
<1>5. CASE high /\ Trips
  <2>1. watchdog' = [watchdog EXCEPT !.tripped = TRUE, !.trips = @ + 1]
    BY <1>5 DEF LoadSampled
  <2>2. watchdog.trips + 1 \in 0 .. 2
    BY <1>1, <1>2
  <2> QED
    BY <1>3, <1>5, <2>1, <2>2 DEF LoadSampled, Sustained, MaxTrips
<1>6. CASE high /\ ~Trips
  <2>1. watchdog' = [watchdog EXCEPT !.high = IF @ < Sustained THEN @ + 1 ELSE @]
    BY <1>6 DEF LoadSampled
  <2>2. (IF watchdog.high < Sustained THEN watchdog.high + 1 ELSE watchdog.high) \in 0 .. 2
    BY <1>1 DEF Sustained
  <2> QED
    BY <1>3, <1>6, <2>1, <2>2 DEF LoadSampled, Sustained, MaxTrips
<1> QED
  BY <1>4, <1>5, <1>6

LEMMA DecisionStep == DecisionInv /\ [DecisionNext]_decisionVars => DecisionInv'
<1> SUFFICES ASSUME DecisionInv, [DecisionNext]_decisionVars PROVE DecisionInv'
  OBVIOUS
<1>0. /\ prepared \in Preparation /\ watching \in Watching
      /\ rtspError \in BOOLEAN /\ ready \in {0, 1} /\ PreparedWell
  BY DEF DecisionInv, PreparedWell
\* A step of the preparation, and what it leaves to the watchdog.
<1>a. ASSUME PreparedWell', rtspError' \in BOOLEAN, ready' \in {0, 1}, UNCHANGED <<watchdog, watching>>
      PROVE  DecisionInv'
  BY <1>a DEF DecisionInv, PreparedWell, WatchdogSpares
\* A step of the watchdog, and what it leaves to the preparation.
<1>b. ASSUME UNCHANGED <<prepared, rtspError, ready>>, watching' \in Watching, WatchdogSpares',
             watchdog' \in [high : 0 .. Sustained, tripped : BOOLEAN, trips : 0 .. MaxTrips]
      PROVE  DecisionInv'
  BY <1>b DEF DecisionInv, NobodyDisturbed
<1>1. CASE PrepareStarts \/ PrepareReturns
  <2>1. /\ \/ prepared' = [step |-> "none", on |-> NoFact, joined |-> FALSE]
           \/ prepared' = [step |-> "asks", on |-> NoFact, joined |-> FALSE]
        /\ rtspError' = rtspError /\ ready' \in {0, 1} /\ UNCHANGED <<watchdog, watching>>
    BY <1>0, <1>1 DEF PrepareStarts, PrepareReturns
  <2>2. /\ prepared' \in Preparation /\ prepared'.on = NoFact
        /\ prepared'.step \in {"none", "asks"}
    <3>1. CASE prepared' = [step |-> "none", on |-> NoFact, joined |-> FALSE]
      BY <3>1 DEF Preparation, PrepareStep
    <3>2. CASE prepared' = [step |-> "asks", on |-> NoFact, joined |-> FALSE]
      BY <3>2 DEF Preparation, PrepareStep
    <3> QED
      BY <2>1, <3>1, <3>2
  <2>3. PreparedWell'
    BY <2>2 DEF PreparedWell, NobodyDisturbed
  <2> QED
    BY <1>0, <1>a, <2>1, <2>3
<1>2. CASE WaitExpires
  <2>1. prepared.on \in Fact
    BY <1>2 DEF WaitExpires, DecisionInv
  <2>2. PreparedWell'
    BY <1>0, <1>2, <2>1, JudgedWell DEF WaitExpires
  <2> QED
    BY <1>0, <1>2, <1>a, <2>2 DEF WaitExpires
<1>3. CASE PrepareUnanswered
  <2>1. prepared' = [prepared EXCEPT !.step = "activates"] /\ prepared.on = NoFact
    BY <1>3 DEF PrepareUnanswered, DecisionInv
  <2>2. PreparedWell'
    BY <1>0, <2>1 DEF PreparedWell, Preparation, PrepareStep, NobodyDisturbed
  <2> QED
    BY <1>0, <1>3, <1>a, <2>2 DEF PrepareUnanswered
<1>4. CASE Activated \/ Opened \/ NotReady
  <2>1. /\ prepared.step \in {"activates", "opens"}
        /\ prepared' \in {[prepared EXCEPT !.step = s] : s \in {"opens", "open", "failed"}}
        /\ rtspError' \in BOOLEAN /\ ready' = ready /\ UNCHANGED <<watchdog, watching>>
    BY <1>0, <1>4 DEF Activated, Opened, NotReady
  <2>2. PICK s \in {"opens", "open", "failed"} : prepared' = [prepared EXCEPT !.step = s]
    BY <2>1
  <2>3. prepared' \in Preparation /\ prepared'.step = s /\ prepared'.on = prepared.on
    BY <1>0, <2>2 DEF Preparation, PrepareStep
  <2>4. PreparedWell'
    BY <1>0, <2>1, <2>3 DEF PreparedWell, NobodyDisturbed
  <2> QED
    BY <1>0, <1>a, <2>1, <2>4
<1>5. CASE SessionEnds
  BY <1>0, <1>5, <1>a DEF SessionEnds, PreparedWell, NobodyDisturbed
<1>6. ASSUME NEW f \in Fact, PrepareAnswered(f) PROVE DecisionInv'
  <2>1. CASE Blocked(f)
    <3>1. prepared' = [step |-> "waits", on |-> f, joined |-> FALSE]
      BY <1>6, <2>1 DEF PrepareAnswered
    <3>2. PreparedWell'
      BY <3>1 DEF PreparedWell, Preparation, PrepareStep, NobodyDisturbed
    <3> QED
      BY <1>0, <1>6, <1>a, <3>2 DEF PrepareAnswered
  <2>2. CASE ~Blocked(f)
    <3>1. PreparedWell'
      BY <1>0, <1>6, <2>2, JudgedWell DEF PrepareAnswered
    <3> QED
      BY <1>0, <1>6, <1>a, <3>1 DEF PrepareAnswered
  <2> QED
    BY <2>1, <2>2
<1>7. ASSUME NEW f \in Fact, WatchdogAnswered(f) PROVE DecisionInv'
  <2>1. watching' = [step |-> "done", on |-> f, stopped |-> StopsFor(f)]
    BY <1>7 DEF WatchdogAnswered
  <2>2. Spared(f, StopsFor(f))
    BY StopsSpare
  <2>3. StopsFor(f) \in SUBSET {"home_call", "ring", "video"}
    BY DEF StopsFor
  <2>4. watching' \in Watching
    BY <2>1, <2>3 DEF Watching
  <2>5. WatchdogSpares'
    BY <2>1, <2>2 DEF WatchdogSpares, Spared
  <2>6. UNCHANGED <<prepared, rtspError, ready, watchdog>>
    BY <1>7 DEF WatchdogAnswered
  <2> QED
    BY <1>b, <2>4, <2>5, <2>6 DEF DecisionInv
<1>8. CASE WatchdogUnanswered
  <2>1. watching' = [step |-> "done", on |-> NoFact, stopped |-> {"home_call", "ring", "video"}]
    BY <1>8 DEF WatchdogUnanswered
  <2>2. watching' \in Watching
    BY <2>1 DEF Watching
  <2>3. WatchdogSpares'
    BY <2>1 DEF WatchdogSpares
  <2> QED
    BY <1>8, <1>b, <2>2, <2>3 DEF WatchdogUnanswered, DecisionInv
<1>9. ASSUME NEW high \in BOOLEAN, LoadSampled(high) PROVE DecisionInv'
  <2>1. UNCHANGED <<prepared, rtspError, ready>>
    BY <1>9 DEF LoadSampled
  <2>2. watching' \in Watching /\ WatchdogSpares'
    BY <1>0, <1>9, WatchdogStep DEF Watching, WatchdogSpares, DecisionInv
  <2> QED
    BY <1>9, <1>b, <2>1, <2>2, WatchdogStep
<1>10. CASE UNCHANGED decisionVars
  BY <1>10 DEF decisionVars, DecisionInv, NobodyDisturbed, WatchdogSpares
<1> QED
  BY <1>1, <1>2, <1>3, <1>4, <1>5, <1>6, <1>7, <1>8, <1>9, <1>10 DEF DecisionNext

\* DecisionsAgree of module MediaDecision: a stream is only opened while nobody
\* else has the device, what the camera offers is admitted, and the watchdog
\* stops what it was told of, for every answer the agent can give
\* (state_machine.py, rtsp_policy.py, rtsp_orchestrator.py, media_watchdog.py).
THEOREM DecisionsAgreeHolds == DecisionSpec => []DecisionsAgree
BY DecisionInitInv, DecisionStep, DecisionInvImplies, PTL DEF DecisionSpec
=============================================================================
