----------------------------- MODULE AgentUpdate -----------------------------
(***************************************************************************)
(* The repair that updates the device agent: Home Assistant takes stock of *)
(* the patches that are active on the device, uploads the packaged bundle  *)
(* and has the agent apply it, or installs it over SSH; then it verifies   *)
(* the restarted agent and applies again the patches whose source changed. *)
(* The agent applies the files one by one, the manifest last.  A call may  *)
(* fail, its answer may be lost, the device may lose power and Home        *)
(* Assistant may restart between any two steps.                            *)
(*                                                                         *)
(* "old" and "new" are the versions before and after the packaged bundle.  *)
(***************************************************************************)
EXTENDS Naturals

CONSTANT MaxFailures

ASSUME UpdateBounds == MaxFailures \in Nat

VARIABLES disk,        \* version of each group of files on the device
          runs,        \* version of the running agent
          restartDue,  \* a restart of the agent is scheduled
          applied,     \* version of each patch that is active, or "off"
          serviced,    \* the firewalls that the agent's configuration lets it maintain
          oldUpdater,  \* the old agent does not install the new payload paths
          selfUpdates, \* the old agent can update itself
          staged,      \* the groups uploaded to the staging directory
          job,         \* the agent's apply request
          update,      \* the repair flow
          updateState, \* runtime_data.agent_update_state
          payloadDue,  \* entry.data[CONF_AGENT_UPDATE_PAYLOAD_PENDING]
          updateIssue, \* the Repairs issue is shown
          cut,         \* an attempt failed while or after the agent applied the bundle
          unseen,      \* active patches an attempt did not see and the agent does not refresh
          mishaps

updateVars == <<disk, runs, restartDue, applied, serviced, oldUpdater, selfUpdates, staged, job, update,
                updateState, payloadDue, updateIssue, cut, unseen, mishaps>>

Version == {"old", "new"}
Group == {"runtime", "scripts", "qml", "payload", "manifest"}
Firewall == {"firewall", "ipv6"}
External == Firewall \cup {"qml"}
Patch == External \cup {"schema"}          \* the schema is the device's configuration
NoInstall == [step |-> "none", todo |-> {}, changed |-> {}]
NoUpdate == [step |-> "none", ssh |-> FALSE, took |-> {}, changed |-> {}, twice |-> FALSE]
Waiting == {"none", "form", "ssh_form"}

(* compare_agent_bundle of what the running agent says of itself.          *)
PayloadOld == runs = "old" /\ oldUpdater
Matches == runs = "new" /\ disk["manifest"] = "new"
Compared(due) == [required |-> ~Matches \/ due,
                  self |-> selfUpdates \/ runs = "new",
                  bootstrap |-> PayloadOld]

UpdateInit ==
    /\ disk = [g \in Group |-> "old"]
    /\ runs = "old" /\ restartDue = FALSE
    /\ applied \in [Patch -> {"off", "old"}] /\ applied["schema"] = "old"
    /\ serviced \in SUBSET Firewall
    /\ oldUpdater \in BOOLEAN /\ selfUpdates \in BOOLEAN
    /\ staged = {} /\ job = NoInstall /\ update = NoUpdate
    /\ updateState = Compared(FALSE) /\ payloadDue = FALSE
    /\ updateIssue = TRUE /\ cut = FALSE /\ unseen = {} /\ mishaps = 0

Active(p) == applied[p] # "off"
Step(s) == update' = [update EXCEPT !.step = s]
UnitState == <<disk, runs, restartDue, applied, serviced>>
Fixed == <<oldUpdater, selfUpdates>>
Faults == <<cut, unseen, mishaps>>
Shown == <<updateState, payloadDue, updateIssue>>

-----------------------------------------------------------------------------
(* async_create_fix_flow and the confirmation; the state of the runtime    *)
(* chooses the path.                                                       *)
OpenRepair ==
    /\ update.step = "none" /\ updateIssue
    /\ update' = [NoUpdate EXCEPT !.step = IF updateState.self THEN "form" ELSE "ssh_form"]
    /\ UNCHANGED <<UnitState, Fixed, Shown, staged, job, Faults>>

CloseRepair ==
    /\ update.step \in {"form", "ssh_form"}
    /\ Step("none")
    /\ UNCHANGED <<UnitState, Fixed, Shown, staged, job, Faults>>

(* _async_capture_external_patch_state: three reads, each with a fallback  *)
(* of its own when it fails or the agent does not maintain the firewall:   *)
(* the cached status of the display patch, a firewall that the SSH         *)
(* installer applies, no IPv6 firewall.  `ui` says that the display is     *)
(* wanted by an option, or patched by that cached status.                  *)
Captured(unread, ui) ==
    LET ssh == update.step = "ssh_form"
        Known(p) == p \notin unread /\ (p \in Firewall => p \in serviced)
        Took(p) == CASE p = "qml"      -> ui \/ (Known(p) /\ Active(p))
                     [] p = "firewall" -> IF Known(p) THEN Active(p) ELSE ssh
                     [] p = "ipv6"     -> Known(p) /\ Active(p)
    IN  /\ update.step \in {"form", "ssh_form"}
        /\ unread # {} => mishaps < MaxFailures
        /\ mishaps' = IF unread = {} THEN mishaps ELSE mishaps + 1
        /\ update' = [step |-> IF ssh THEN "installing" ELSE "prepare", ssh |-> ssh,
                      took |-> {p \in External : Took(p)},
                      changed |-> {}, twice |-> updateState.bootstrap]
        /\ unseen' = unseen \cup {p \in External : /\ Active(p) /\ ~Took(p)
                                                   /\ ssh \/ p \notin serviced}
        /\ payloadDue' = (payloadDue \/ (update.step = "form" /\ updateState.bootstrap))
        /\ UNCHANGED <<UnitState, Fixed, updateState, updateIssue, staged, job, cut>>

(* async_apply_packaged_agent_update: the staging directory is emptied,    *)
(* then every file is sent in chunks, the manifest last.                   *)
Prepared ==
    /\ update.step = "prepare"
    /\ staged' = {}
    /\ Step("upload")
    /\ UNCHANGED <<UnitState, Fixed, Shown, job, Faults>>

Uploads(g) ==
    /\ update.step = "upload"
    /\ g \notin staged /\ (g = "manifest" => staged = Group \ {"manifest"})
    /\ staged' = staged \cup {g}
    /\ Step(IF g = "manifest" THEN "apply" ELSE "upload")
    /\ UNCHANGED <<UnitState, Fixed, Shown, job, Faults>>

(* apply_agent_update_files: what the two manifests say has changed.       *)
ManifestChanges == IF disk["manifest"] = "old" THEN {"runtime"} \cup Patch ELSE {}
JobSays == ManifestChanges \cup IF runs = "old" THEN {"runtime"} ELSE {}

ApplyAsked ==
    /\ update.step = "apply" /\ job = NoInstall
    /\ staged = Group
    /\ job' = [step |-> "files", changed |-> JobSays,
               todo |-> IF PayloadOld THEN Group \ {"payload"} ELSE Group]
    /\ UNCHANGED <<UnitState, Fixed, Shown, staged, update, Faults>>

(* apply_agent_update_file, in the order of C300X_AGENT_UPDATE_FILES.      *)
BeforeAny(g) == {}
Before(g) == CASE g = "runtime" -> {} [] g = "scripts" -> {"runtime"}
               [] g = "qml" -> {"runtime", "scripts"}
               [] g = "payload" -> {"runtime", "scripts", "qml"}
               [] g = "manifest" -> {"runtime", "scripts", "qml", "payload"}

ApplyFile(g) ==
    /\ job.step = "files" /\ g \in job.todo /\ Before(g) \cap job.todo = {}
    /\ disk' = [disk EXCEPT ![g] = "new"]
    /\ job' = [step |-> IF job.todo = {g} THEN "firewall" ELSE "files", todo |-> job.todo \ {g},
               changed |-> job.changed \cup (IF disk[g] = "old" THEN {g} \cap {"runtime", "qml"} ELSE {})]
    /\ UNCHANGED <<runs, restartDue, applied, serviced, Fixed, Shown, staged, update, Faults>>

(* apply_agent_update_firewall_patches: an active firewall whose source    *)
(* changed and that the agent maintains, one after the other; then the     *)
(* answer and the restart.                                                 *)
RestartForgotten == restartDue
RestartNeeded == restartDue \/ "runtime" \in job.changed

Refreshed(p) == IF p \in job.changed \cap serviced /\ Active(p)
                THEN [applied EXCEPT ![p] = "new"] ELSE applied

ApplyFirewall ==
    /\ job.step = "firewall"
    /\ applied' = Refreshed("firewall")
    /\ job' = [job EXCEPT !.step = "ipv6"]
    /\ UNCHANGED <<disk, runs, restartDue, serviced, staged, Fixed, Shown, update, Faults>>

ApplyIpv6 ==
    /\ job.step = "ipv6"
    /\ applied' = Refreshed("ipv6")
    /\ job' = [job EXCEPT !.step = "answer"]
    /\ staged' = {}
    /\ restartDue' = RestartNeeded
    /\ UNCHANGED <<disk, runs, serviced, Fixed, Shown, update, Faults>>

ApplyAnswered ==
    /\ job.step = "answer"
    /\ job' = NoInstall
    /\ IF update.step = "apply"
         THEN update' = [update EXCEPT !.step = "verify", !.changed = @ \cup job.changed]
         ELSE UNCHANGED update
    /\ UNCHANGED <<UnitState, Fixed, Shown, staged, Faults>>

(* The scheduled restart leaves time for the answer; one that meets a      *)
(* later request ends it like a power loss.                                *)
AgentRestarts ==
    /\ restartDue /\ job = NoInstall
    /\ runs' = disk["runtime"] /\ restartDue' = FALSE
    /\ UNCHANGED <<disk, applied, serviced, Fixed, Shown, staged, job, update, Faults>>

(* _async_verify_agent_after_update waits for an agent that matches the    *)
(* bundle; running out of attempts is a failure of the update.             *)
Verified ==
    /\ update.step = "verify"
    /\ Matches /\ ~PayloadOld
    /\ update' = [update EXCEPT !.step = IF update.twice THEN "prepare" ELSE "normalize",
                                !.twice = FALSE]
    /\ UNCHANGED <<UnitState, Fixed, Shown, staged, job, Faults>>

(* async_install_device_agent with the tokens of the entry: the payload of *)
(* the bundle, the configuration rewritten whole (the IPv6 firewall is not *)
(* maintained by it, device_installer.py:379), and the restart.            *)
Installs(g) ==
    /\ update.step = "installing"
    /\ g \in {"runtime", "scripts", "manifest", "qml"} /\ disk[g] = "old"
    /\ g = "qml" => disk["manifest"] = "new"
    /\ g = "manifest" => disk["runtime"] = "new" /\ disk["scripts"] = "new"
    /\ disk' = [disk EXCEPT ![g] = "new"]
    /\ update' = [update EXCEPT !.changed = @ \cup (IF g = "scripts" THEN Firewall ELSE {g})]
    /\ UNCHANGED <<runs, restartDue, applied, serviced, Fixed, Shown, staged, job, Faults>>

InstallRestarts ==
    LET kept == update.took \cap {"firewall"}
        rewritten == applied["schema"] = "old" \/ serviced # kept
    IN  /\ update.step = "installing"
        /\ \A g \in Group \ {"payload"} : disk[g] = "new"
        /\ applied' = [p \in Patch |-> IF p = "schema" \/ p \in kept THEN "new" ELSE applied[p]]
        /\ serviced' = kept
        /\ runs' = "new" /\ restartDue' = FALSE
        /\ update' = [update EXCEPT !.step = "restore_firewall",
                                    !.changed = @ \cup (IF rewritten THEN {"ipv6"} ELSE {})]
        /\ UNCHANGED <<disk, Fixed, Shown, staged, job, Faults>>

(* async_normalize_agent_config.                                           *)
Normalized ==
    /\ update.step = "normalize"
    /\ applied' = IF "schema" \in update.changed THEN [applied EXCEPT !["schema"] = "new"] ELSE applied
    /\ Step("restore_firewall")
    /\ UNCHANGED <<disk, runs, restartDue, serviced, Fixed, Shown, staged, job, Faults>>

(* _async_restore_external_patch_state: an active patch whose source has   *)
(* changed is applied again; before the IPv6 firewall the agent is told to *)
(* maintain it, which may fail unnoticed, and then it refuses to apply it. *)
Redoes(p) == p \in update.took \cap update.changed
ReappliesNone(p) == applied
Reapplies(p) == IF Redoes(p) THEN [applied EXCEPT ![p] = "new"] ELSE applied

Restored(p, here, next) ==
    /\ update.step = here
    /\ applied' = Reapplies(p)
    /\ Step(next)
    /\ UNCHANGED <<disk, runs, restartDue, serviced, Fixed, Shown, staged, job, Faults>>

Ipv6Enabled(ok) ==
    /\ update.step = "enable_ipv6"
    /\ ~ok => Redoes("ipv6") /\ mishaps < MaxFailures
    /\ mishaps' = IF ok THEN mishaps ELSE mishaps + 1
    /\ serviced' = IF ok /\ Redoes("ipv6") THEN serviced \cup {"ipv6"} ELSE serviced
    /\ IF Redoes("ipv6") /\ "ipv6" \notin serviced'
         THEN Step(IF update.ssh THEN "ssh_form" ELSE "form") /\ cut' = TRUE
         ELSE Step("restore_ipv6") /\ UNCHANGED cut
    /\ UNCHANGED <<disk, runs, restartDue, applied, Fixed, Shown, staged, job, unseen>>

(* The MQTT migration and the last validation; the mark of an unfinished   *)
(* payload goes with a self-update, and the issue unless the agent still   *)
(* needs the update.                                                       *)
Finished ==
    /\ update.step = "final"
    /\ payloadDue' = (update.ssh /\ payloadDue)
    /\ updateState' = Compared(payloadDue')
    /\ IF updateState'.required
         THEN Step(IF update.ssh THEN "ssh_form" ELSE "form") /\ UNCHANGED updateIssue
         ELSE update' = NoUpdate /\ updateIssue' = FALSE
    /\ UNCHANGED <<UnitState, Fixed, staged, job, Faults>>

-----------------------------------------------------------------------------
Mishap ==
    /\ mishaps < MaxFailures
    /\ mishaps' = mishaps + 1
    /\ cut' = (cut \/ disk["manifest"] = "new" \/ job # NoInstall)

(* Any exception shows the form again; the runtime keeps its update state. *)
UpdateFails ==
    /\ update.step \notin Waiting
    /\ Mishap
    /\ Step(IF update.ssh THEN "ssh_form" ELSE "form")
    /\ UNCHANGED <<UnitState, Fixed, Shown, staged, job, unseen>>

(* A file that does not match, or a firewall that cannot be refreshed, ends *)
(* the request: what was applied stays, without a restart.                 *)
ApplyFails ==
    /\ job.step \in {"files", "firewall", "ipv6"}
    /\ Mishap
    /\ job' = NoInstall
    /\ IF update.step = "apply" THEN Step("form") ELSE UNCHANGED update
    /\ UNCHANGED <<UnitState, Fixed, Shown, staged, unseen>>

(* The device loses power: the apply request dies with the agent.          *)
PowerLost ==
    /\ Mishap
    /\ runs' = disk["runtime"] /\ restartDue' = FALSE
    /\ job' = NoInstall
    /\ IF update.step \in Waiting THEN UNCHANGED update
       ELSE Step(IF update.ssh THEN "ssh_form" ELSE "form")
    /\ UNCHANGED <<disk, applied, serviced, Fixed, Shown, staged, unseen>>

(* The entry is set up again, by a reload or a restart of Home Assistant:  *)
(* the bundle is compared anew and the issue follows; a flow in the middle *)
(* of its work is lost with a restart only.                                *)
Reloads(lost) ==
    /\ lost => update.step \notin Waiting
    /\ IF lost THEN Mishap ELSE UNCHANGED <<Faults>>
    /\ update.step \in Waiting \/ lost
    /\ update' = NoUpdate
    /\ updateState' = Compared(payloadDue)
    /\ updateIssue' = updateState'.required
    /\ UNCHANGED <<UnitState, Fixed, payloadDue, staged, job, unseen>>

HomeAssistantSteps ==
    \/ Prepared \/ ApplyAsked \/ Verified \/ InstallRestarts \/ Normalized
    \/ \E g \in Group : Uploads(g) \/ Installs(g)
    \/ Restored("firewall", "restore_firewall", "enable_ipv6")
    \/ Ipv6Enabled(TRUE) \/ Ipv6Enabled(FALSE)
    \/ Restored("ipv6", "restore_ipv6", "restore_qml")
    \/ Restored("qml", "restore_qml", "final")
    \/ Finished
AgentSteps ==
    \/ \E g \in Group : ApplyFile(g)
    \/ ApplyFirewall \/ ApplyIpv6 \/ ApplyAnswered \/ AgentRestarts

UpdateNext ==
    \/ HomeAssistantSteps \/ AgentSteps
    \/ OpenRepair \/ CloseRepair
    \/ \E unread \in SUBSET External, ui \in BOOLEAN : Captured(unread, ui)
    \/ \E lost \in BOOLEAN : Reloads(lost)
    \/ UpdateFails \/ ApplyFails \/ PowerLost

UpdateSpec ==
    /\ UpdateInit /\ [][UpdateNext]_updateVars
    /\ WF_updateVars(HomeAssistantSteps) /\ WF_updateVars(AgentSteps)

-----------------------------------------------------------------------------
UpdateTypeOK ==
    /\ disk \in [Group -> Version] /\ runs \in Version /\ restartDue \in BOOLEAN
    /\ applied \in [Patch -> Version \cup {"off"}]
    /\ staged \subseteq Group /\ job.todo \subseteq Group
    /\ job.step \in {"none", "files", "firewall", "ipv6", "answer"}
    /\ update.step \in Waiting \cup {"prepare", "upload", "apply", "verify", "installing", "normalize",
                                    "restore_firewall", "enable_ipv6", "restore_ipv6", "restore_qml", "final"}
    /\ serviced \subseteq Firewall /\ unseen \subseteq External
    /\ {payloadDue, updateIssue, cut} \subseteq BOOLEAN /\ mishaps \in 0..MaxFailures

(* The manifest never promises files of the bundle that are not there,     *)
(* except between the steps of an SSH install.                             *)
ManifestIsTrue ==
    selfUpdates /\ disk["manifest"] = "new" => \A g \in {"runtime", "scripts", "qml"} : disk[g] = "new"

(* When no attempt was cut short, the repair goes away only once every     *)
(* patch comes from the new bundle, but for those that an attempt did not  *)
(* see because their status could not be read and that the agent does not  *)
(* refresh itself.                                                         *)
PatchesFollow == ~updateIssue /\ ~cut => \A p \in Patch \ unseen : applied[p] # "old"

(* An updater that cannot install the new payload is asked twice, however  *)
(* often the work is interrupted.                                          *)
PayloadFollows == selfUpdates /\ oldUpdater /\ ~updateIssue => disk["payload"] = "new"

(* INVARIANT.  Through failed calls, lost answers, power losses, restarts  *)
(* and retries, the manifest stays true, and the issue is cleared only     *)
(* when the payload is complete and, for an attempt that was not cut, all  *)
(* patches it could see follow (repairs.py:405-505, agent_update.c:168-222).            *)
UpdateTrue == UpdateTypeOK /\ ManifestIsTrue /\ PatchesFollow /\ PayloadFollows

(* LIVENESS.  A confirmed update ends, on a form or with the issue gone.   *)
UpdateEnds == (update.step \notin Waiting) ~> (update.step \in Waiting)
=============================================================================
