---------------------------- MODULE RepairIssues ----------------------------
(***************************************************************************)
(* The Repairs issues of one entry: what Home Assistant knows of the       *)
(* device, the synchronization that turns it into issues, and the repair   *)
(* flows that fix the device and take their own issue away.                *)
(*                                                                         *)
(* A check of the agent's self test stands for its class: "rtsp" for the   *)
(* capabilities too, "firewall" for the talkback port, "user" for the      *)
(* media user and its routing, "ipv6" for the optional firewall.           *)
(***************************************************************************)
EXTENDS Naturals

CONSTANTS MaxChanges,  \* changes of the device and of the connection
          MaxErrors    \* calls to the agent that fail

ASSUME RepairBounds == MaxChanges \in Nat /\ MaxErrors \in Nat

VARIABLES broken,      \* the checks that are broken on the device
          reachable,   \* connection_state.available
          videoOn,     \* CONF_VIDEO_ENABLED
          offered,     \* maintenance actions the agent advertises
          tested,      \* the failed checks of self_test_status
          userBroken,  \* device_user_status has a repair reason
          hookMissing, \* qml_patch_status: the core hook is missing
          target,      \* what is known of the agent's callback; "unsupported"
                       \* is the one of the display bridge
          issues,      \* the issues shown
          loading,     \* the startup synchronization of the entry is to come
          settled,     \* nothing has changed since the last synchronization
          fixing,      \* the media repair: its step and the checks it found
          changes, errors

issueVars == <<broken, reachable, videoOn, offered, tested, userBroken, hookMissing, target,
               issues, loading, settled, fixing, changes, errors>>

Check == {"rtsp", "firewall", "user", "startup", "ipv6", "hook"}
Offer == {"firewall_apply", "device_user_ensure"}
Issue == {"self_test", "callback", "media_setup", "device_user", "core_hook"}
NoFlow == [step |-> "none", found |-> {}]

IssuesInit ==
    /\ broken \in {{}, {"user"}, {"rtsp", "hook"}, {"firewall", "user"}, {"startup", "user", "ipv6"}}
    /\ reachable = TRUE /\ videoOn \in BOOLEAN /\ offered \in SUBSET Offer
    /\ tested = {} /\ userBroken = FALSE /\ hookMissing = FALSE /\ target = "unknown"
    /\ issues = {} /\ loading = TRUE /\ settled = FALSE /\ fixing = NoFlow /\ changes = 0 /\ errors = 0

AgentShown == <<broken, videoOn, offered>>
Known == <<tested, userBroken, hookMissing>>

-----------------------------------------------------------------------------
(* media_readiness: the optional IPv6 firewall is a warning.               *)
FailedChecks == (tested \ {"ipv6"}) \cup (IF target = "failed" THEN {"callback_url"} ELSE {})
Blocked == reachable /\ FailedChecks # {}

SomeUser(failed) == "user" \in failed
OnlyUser(failed) == failed # {} /\ failed \subseteq {"user"}
BeyondUser(failed) == failed \cap {"rtsp", "firewall"} # {}
Fixable(failed) ==
    (failed \cap {"rtsp"}) \cup {c \in failed : \/ c = "firewall" /\ "firewall_apply" \in offered
                                                \/ c = "user" /\ "device_user_ensure" \in offered}

(* async_sync_entry_repair_issues: every issue is created or deleted from  *)
(* the facts alone.                                                        *)
SelfTestIssue == reachable /\ tested \ {"ipv6"} # {}
CallbackIssue == target \in {"failed", "unsupported"}
HookIssue == reachable /\ videoOn /\ hookMissing
UserIssue == reachable /\ videoOn /\ userBroken /\ ~BeyondUser(FailedChecks)
MediaIssue == videoOn /\ Blocked /\ ~OnlyUser(FailedChecks) /\ Fixable(FailedChecks) # {}

IssueDue == [self_test |-> SelfTestIssue, callback |-> CallbackIssue, core_hook |-> HookIssue,
             device_user |-> UserIssue, media_setup |-> MediaIssue]
Synced == issues' = {i \in Issue : IssueDue'[i]} /\ settled' = TRUE

-----------------------------------------------------------------------------
MayFail == errors < MaxErrors /\ errors' = errors + 1

(* The startup synchronization: the self test, the media user and the      *)
(* patches are read one after the other; a read that fails leaves out what it   *)
(* would have told.                                                        *)
StartupSynced ==
    /\ reachable /\ loading /\ loading' = FALSE
    /\ \/ /\ tested' = broken \ {"hook"} /\ userBroken' = ("user" \in broken)
          /\ hookMissing' = ("hook" \in broken)
          /\ UNCHANGED errors
       \/ MayFail /\ tested' = broken \ {"hook"} /\ UNCHANGED <<userBroken, hookMissing>>
       \/ MayFail /\ userBroken' = ("user" \in broken) /\ UNCHANGED <<tested, hookMissing>>
    /\ UNCHANGED <<AgentShown, reachable, target, fixing, changes>>
    /\ Synced

(* _send_connection_update, at every change of the connection or of the    *)
(* event registration.                                                     *)
ConnectionUpdated(up, t) ==
    /\ changes < MaxChanges /\ changes' = changes + 1
    /\ <<up, t>> # <<reachable, target>> /\ (up => t # "unknown")
    /\ reachable' = up /\ target' = t
    /\ UNCHANGED <<AgentShown, Known, fixing, errors, loading>>
    /\ Synced

(* A diagnostics event of the agent is stored.                             *)
DiagnosticsKept == UNCHANGED <<issues, settled>>
DiagnosticsSynced == Synced

DiagnosticsStored ==
    /\ reachable
    /\ UNCHANGED <<AgentShown, reachable, Known, target, fixing, changes, errors, loading>>
    /\ DiagnosticsSynced

(* The media-user switch: its poll and its commands store the status.      *)
UserSwitched(on) ==
    /\ reachable /\ (on => "device_user_ensure" \in offered)
    /\ broken' = IF on THEN broken \ {"user"} ELSE broken
    /\ userBroken' = ("user" \in broken')
    /\ UNCHANGED <<videoOn, offered, reachable, tested, hookMissing, target, fixing, changes, errors, loading>>
    /\ Synced

AgentChanges(c) ==
    /\ changes < MaxChanges /\ changes' = changes + 1
    /\ broken' = IF c \in broken THEN broken \ {c} ELSE broken \cup {c}
    /\ UNCHANGED <<videoOn, offered, reachable, Known, target, issues, settled, fixing, errors, loading>>

(* A reload makes a new runtime that knows nothing yet.                    *)
LoadedAnew ==
    /\ tested' = {} /\ userBroken' = FALSE /\ hookMissing' = FALSE /\ target' = "unknown"
    /\ loading' = TRUE

UserReloadsEntry ==
    /\ changes < MaxChanges /\ changes' = changes + 1
    /\ LoadedAnew
    /\ UNCHANGED <<AgentShown, reachable, fixing, errors>>
    /\ Synced

-----------------------------------------------------------------------------
(* MediaSetupRepairFlow: the checks are read when the user confirms, which *)
(* may be long after; each repair is a call of its own, and the first that *)
(* fails shows the form again.                                             *)
Fixes(s) == fixing' = [fixing EXCEPT !.step = s]

MediaOpened ==
    /\ fixing.step = "none" /\ "media_setup" \in issues
    /\ Fixes("form")
    /\ UNCHANGED <<AgentShown, reachable, Known, target, issues, settled, changes, errors, loading>>

MediaConfirmed ==
    /\ fixing.step = "form"
    /\ fixing' = [step |-> IF ~reachable THEN "reload"
                           ELSE IF FailedChecks \subseteq {"startup", "callback_url"} THEN "delete"
                           ELSE "validate", found |-> FailedChecks]
    /\ UNCHANGED <<AgentShown, reachable, Known, target, issues, settled, changes, errors, loading>>

RepairOrder == <<"validate", "firewall", "user", "test", "status", "delete">>
After(s) == RepairOrder[(CHOOSE k \in 1..5 : RepairOrder[k] = s) + 1]
Repairs(s) == CASE s = "firewall" -> fixing.found \cap {"firewall"}
                [] s = "user" -> fixing.found \cap {"user"}
                [] OTHER -> {}

MediaRepaired(s) ==
    /\ fixing.step = s /\ s \in {"validate", "firewall", "user"}
    /\ broken' = broken \ Repairs(s)
    /\ userBroken' = IF Repairs(s) = {"user"} THEN FALSE ELSE userBroken
    /\ Fixes(After(s))
    /\ settled' = (settled /\ Repairs(s) # {"user"})
    /\ UNCHANGED <<videoOn, offered, reachable, tested, hookMissing, target, issues, changes, errors, loading>>

(* The self test and the status are read again; a failure is ignored.      *)
MediaChecked(s) ==
    /\ fixing.step = s /\ s \in {"test", "status"}
    /\ \/ /\ tested' = IF s = "test" THEN broken \ {"hook"} ELSE tested
          /\ userBroken' = IF s = "status" THEN "user" \in broken ELSE userBroken
          /\ UNCHANGED errors
       \/ MayFail /\ UNCHANGED <<tested, userBroken>>
    /\ settled' = FALSE
    /\ Fixes(After(s))
    /\ UNCHANGED <<AgentShown, reachable, hookMissing, target, issues, changes, loading>>

MediaFails ==
    /\ fixing.step \in {"validate", "firewall", "user"} /\ MayFail
    /\ Fixes("form")
    /\ UNCHANGED <<AgentShown, reachable, Known, target, issues, settled, changes, loading>>

MediaDone ==
    /\ fixing.step = "delete"
    /\ issues' = issues \ {"media_setup"} /\ settled' = FALSE
    /\ fixing' = NoFlow
    /\ UNCHANGED <<AgentShown, reachable, Known, target, changes, errors, loading>>

(* The connection was lost between the form and the answer: the entry is   *)
(* reloaded, which reads everything anew.                                  *)
MediaReloads ==
    /\ fixing.step = "reload"
    /\ LoadedAnew
    /\ issues' = issues \ {"media_setup"} /\ settled' = FALSE
    /\ fixing' = NoFlow
    /\ UNCHANGED <<AgentShown, reachable, changes, errors>>

(* DeviceUserRepairFlow, DeviceCoreQmlHookRepairFlow, CallbackUrlRepairFlow.*)
UserRepaired ==
    /\ "device_user" \in issues /\ "device_user_ensure" \in offered
    /\ broken' = broken \ {"user"} /\ userBroken' = FALSE
    /\ issues' = issues \ {"device_user"} /\ settled' = FALSE
    /\ UNCHANGED <<videoOn, offered, reachable, tested, hookMissing, target, fixing, changes, errors, loading>>

HookRepaired ==
    /\ "core_hook" \in issues
    /\ broken' = broken \ {"hook"} /\ hookMissing' = FALSE
    /\ issues' = issues \ {"core_hook"} /\ settled' = FALSE
    /\ UNCHANGED <<videoOn, offered, reachable, tested, userBroken, target, fixing, changes, errors, loading>>

CallbackRepaired ==
    /\ "callback" \in issues
    /\ LoadedAnew
    /\ issues' = issues \ {"callback"} /\ settled' = FALSE
    /\ UNCHANGED <<AgentShown, reachable, fixing, changes, errors>>

IssuesNext ==
    \/ StartupSynced \/ DiagnosticsStored \/ UserReloadsEntry
    \/ \E up \in BOOLEAN, t \in {"unknown", "ok", "failed", "unsupported"} : ConnectionUpdated(up, t)
    \/ \E on \in BOOLEAN : UserSwitched(on)
    \/ \E c \in Check : AgentChanges(c)
    \/ \E s \in {"validate", "firewall", "user", "test", "status"} : MediaRepaired(s) \/ MediaChecked(s)
    \/ MediaOpened \/ MediaConfirmed \/ MediaFails \/ MediaDone \/ MediaReloads
    \/ UserRepaired \/ HookRepaired \/ CallbackRepaired

IssuesSpec == IssuesInit /\ [][IssuesNext]_issueVars /\ WF_issueVars(DiagnosticsStored)

-----------------------------------------------------------------------------
IssuesTypeOK ==
    /\ broken \subseteq Check /\ tested \subseteq Check /\ offered \subseteq Offer
    /\ issues \subseteq Issue /\ {reachable, loading, videoOn, userBroken, hookMissing, settled} \subseteq BOOLEAN
    /\ fixing.found \subseteq Check \cup {"callback_url"}

(* What Home Assistant can repair has an issue that repairs it, although   *)
(* the issue of the media user gives way to the one of the media setup and *)
(* the other way round.                                                    *)
RepairOffered ==
    settled /\ reachable /\ videoOn =>
        /\ {"rtsp"} \cap tested # {} => "media_setup" \in issues
        /\ "firewall" \in tested /\ "firewall_apply" \in offered => "media_setup" \in issues
        /\ "user" \in tested /\ userBroken /\ "device_user_ensure" \in offered
             => {"media_setup", "device_user"} \cap issues # {}

(* "an offline agent does not prove that its media setup needs repair"     *)
OfflineBlamesNothing == settled /\ ~reachable => issues \subseteq {"callback"}

(* Optional IPv6 alone is not a problem, and no failure goes unmentioned.  *)
FailuresShown ==
    settled /\ reachable =>
        /\ FailedChecks # {} => {"self_test", "callback"} \cap issues # {}
        /\ tested \subseteq {"ipv6"} /\ target \in {"unknown", "ok"} => issues \subseteq {"device_user", "core_hook"}

(* INVARIANT.  Over every set of facts the device and the flows produce, a *)
(* synchronization leaves the issues that offer what can be repaired, none *)
(* that blames an agent that is offline, and some issue for every failure  *)
(* (repair_issues.py:80-98, 443-540).                                      *)
IssuesTrue == IssuesTypeOK /\ RepairOffered /\ OfflineBlamesNothing /\ FailuresShown

(* LIVENESS.  A flow takes its issue away whatever it repaired; as long as *)
(* the self test still says the media is broken, the issue comes back with *)
(* the next diagnostics of the agent (repairs.py:182-193,                  *)
(* agent_diagnostics.py:233).                                              *)
ComesBack == []<>(reachable /\ videoOn /\ "rtsp" \in tested => "media_setup" \in issues)
=============================================================================
