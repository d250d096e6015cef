---------------------------- MODULE DisplayPatch ----------------------------
(***************************************************************************)
(* The Display patch of one config entry: the QML files on the device, the *)
(* one maintenance script the agent runs at a time, the per-entry lock of  *)
(* qml_patch.py, and the status the entry stores and every button, switch  *)
(* and repair reads.  A job of the `holder` has the lock over an action    *)
(* and the status read that confirms it; a `reader` (the switch update,    *)
(* the setup sync, the options flow, a guard of a button) asks without the *)
(* lock.  A reload of the entry drops the lock while its job goes on: that *)
(* job is the `orphan`, which works beside the next holder.                *)
(***************************************************************************)
EXTENDS Naturals

CONSTANT MaxBegun     \* jobs, reads outside the lock and reloads of one run

ASSUME PatchBounds == MaxBegun \in Nat

VARIABLES files,    \* what the device's files hold: the feature and core parts
          script,   \* the script the agent runs: who asked and what
          call,     \* the pending request of each job and of a reader
          stored,   \* runtime_data.qml_patch_status
          patchJob, \* per user of a lock: its job, the step and what it saved
          doubt,    \* the stored status may lag the device, and why
          begun     \* jobs, reads and reloads so far

patchVars == <<files, script, call, stored, patchJob, doubt, begun>>

LockUser == {"holder", "orphan"}
Caller == LockUser \cup {"reader"}
Toggle == {"apply", "restore", "coreApply", "coreRestore"}
Kind == Toggle \cup {"update", "updateCore"}
Transient == {"patching", "restoring"}

OnDevice == {"patched", "original", "partial"}
Part == OnDevice \cup {"unknown"} \cup Transient
Status == [full : Part, core : Part]
Unread == [full |-> "unknown", core |-> "unknown"]
NoPatchJob == [kind |-> "none", step |-> "none", saved |-> Unread]
NoScript == [by |-> "nobody", what |-> "none"]
Quiet == [state |-> "none", what |-> "none", answer |-> Unread]

Unmarked(status) == status.full \notin Transient /\ status.core \notin Transient

\* What a status says of the files: of each part its state, or nothing.
Says(status, f) == status.full \in {f.full, "unknown"} /\ status.core \in {f.core, "unknown"}

Begins == begun < MaxBegun /\ begun' = begun + 1

PatchInit ==
    /\ files \in [full : {"original"}, core : {"patched", "original"}]
    /\ script = NoScript
    /\ call = [c \in Caller |-> Quiet]
    /\ stored = Unread
    /\ patchJob = [w \in LockUser |-> NoPatchJob]
    /\ doubt = {}
    /\ begun = 0

-----------------------------------------------------------------------------
(* The agent: one maintenance job at a time.                               *)

Ask(c, what) == [call EXCEPT ![c] = [Quiet EXCEPT !.state = "sent", !.what = what]]

(* start_maintenance_job: 409 maintenance_busy while another script runs   *)
ScriptStarts(c) ==
    /\ call[c].state = "sent"
    /\ IF script = NoScript
         THEN /\ script' = [by |-> c, what |-> call[c].what]
              /\ call' = [call EXCEPT ![c].state = "running"]
         ELSE /\ call' = [call EXCEPT ![c].state = "error"]
              /\ UNCHANGED script
    /\ UNCHANGED <<files, stored, patchJob, doubt, begun>>

(* qml_patch.sh: the full patch includes the core hook, restore leaves it  *)
Effect(what, f) ==
    CASE what = "apply"       -> [full |-> "patched", core |-> "patched"]
      [] what = "restore"     -> [f EXCEPT !.full = "original"]
      [] what = "coreApply"   -> [f EXCEPT !.core = "patched"]
      [] what = "coreRestore" -> [f EXCEPT !.core = "original"]
      [] OTHER                -> f

\* A script that is killed stops before, among or after the files it changes.
Reached(was, will) == IF was = will THEN {was} ELSE {was, "partial", will}

(* finish_maintenance_job: the script answers the status after its writes, *)
(* or that the GUI did not come back (reload_failed: nothing of the files);*)
(* a script that fails or is killed at its time limit answers an error.    *)
ScriptSucceeds ==
    /\ script # NoScript
    /\ files' = Effect(script.what, files)
    /\ doubt' = IF files' # files /\ script.by \notin LockUser THEN doubt \cup {"unreported"} ELSE doubt
    /\ \E answer \in {files'} \cup (IF files' = files THEN {} ELSE {Unread}) :
          call' = [c \in Caller |-> IF c # script.by THEN call[c]
                                   ELSE [call[c] EXCEPT !.state = "done", !.answer = answer]]
    /\ script' = NoScript
    /\ UNCHANGED <<stored, patchJob, begun>>

ScriptFails ==
    /\ script # NoScript
    /\ \E full \in Reached(files.full, Effect(script.what, files).full),
          core \in Reached(files.core, Effect(script.what, files).core) :
            files' = [full |-> full, core |-> core]
    /\ doubt' = IF files' # files THEN doubt \cup {"unreported"} ELSE doubt
    /\ call' = [c \in Caller |-> IF c # script.by THEN call[c]
                                 ELSE [call[c] EXCEPT !.state = "error"]]
    /\ script' = NoScript
    /\ UNCHANGED <<stored, patchJob, begun>>

ScriptEnds == ScriptSucceeds \/ ScriptFails

(* The HTTP client gives up; the script goes on for a connection that is   *)
(* gone.                                                                   *)
Disowned(c) == IF script.by = c THEN [script EXCEPT !.by = "nobody"] ELSE script

CallTimesOut(c) ==
    /\ call[c].state \in {"sent", "running"}
    /\ call' = [call EXCEPT ![c].state = "error"]
    /\ script' = Disowned(c)
    /\ UNCHANGED <<files, stored, patchJob, doubt, begun>>

-----------------------------------------------------------------------------
(* A status stored by whoever read it last.                                *)

StoreStatus(status) ==
    /\ stored' = status
    /\ doubt' = IF Says(status, files) THEN {} ELSE doubt \cup {"outdated"}

(* The lock: one job at a time, released on every way out (async with).    *)
Rests(w) == patchJob[w] = NoPatchJob

Marked(kind) ==
    CASE kind = "apply"       -> [stored EXCEPT !.full = "patching"]
      [] kind = "restore"     -> [stored EXCEPT !.full = "restoring"]
      [] kind = "coreApply"   -> [stored EXCEPT !.core = "patching"]
      [] kind = "coreRestore" -> [stored EXCEPT !.core = "restoring"]

(* _async_run_qml_patch_action_unlocked and the core variants: the         *)
(* transient status is stored before the action is sent.                   *)
JobStarts(kind) ==
    /\ Rests("holder")
    /\ Begins
    /\ patchJob' = [patchJob EXCEPT !["holder"] = [kind |-> kind, step |-> "act", saved |-> stored]]
    /\ stored' = Marked(kind)
    /\ call' = Ask("holder", kind)
    /\ UNCHANGED <<files, script, doubt>>

(* async_restore_qml_patches_after_update: the core hook first, no mark    *)
UpdateStarts(kind) ==
    /\ Rests("holder")
    /\ Begins
    /\ patchJob' = [patchJob EXCEPT !["holder"] = [kind |-> kind, step |-> "core", saved |-> stored]]
    /\ call' = Ask("holder", "coreApply")
    /\ UNCHANGED <<files, script, stored, doubt>>

Updating(w) == patchJob[w].kind \in {"update", "updateCore"}
Failed(c) == call[c].state = "error"
Answered(c) == call[c].state = "done"

Goes(w, step, what) ==
    /\ patchJob' = [patchJob EXCEPT ![w].step = step]
    /\ call' = Ask(w, what)
Leaves(w) ==
    /\ patchJob' = [patchJob EXCEPT ![w] = NoPatchJob]
    /\ call' = [call EXCEPT ![w] = Quiet]

(* The action raised: the previous status is put back.                     *)
KeepsMark(w) ==  \* variant: it is not
    /\ patchJob[w].step = "act" /\ Failed(w)
    /\ Leaves(w)
    /\ UNCHANGED <<files, script, stored, doubt, begun>>

ActionFails(w) ==
    /\ patchJob[w].step = "act" /\ Failed(w)
    /\ stored' = patchJob[w].saved
    /\ doubt' = doubt \cup (IF Says(patchJob[w].saved, files) THEN {} ELSE {"outdated"})
    /\ Leaves(w)
    /\ UNCHANGED <<files, script, begun>>

(* The answer confirms the action when its part is what was wanted.        *)
ActionConfirms(w) ==
    LET answer == call[w].answer
    IN  CASE patchJob[w].kind = "restore"     -> answer.full = "original"
          [] patchJob[w].kind = "coreApply"   -> answer.core = "patched"
          [] patchJob[w].kind = "coreRestore" -> answer.core = "original"
          [] OTHER                            -> answer.full = "patched"

ActionConfirmed(w) ==
    /\ patchJob[w].step = "act" /\ Answered(w)
    /\ ActionConfirms(w)
    /\ Goes(w, "confirm", "status")
    /\ UNCHANGED <<files, script, stored, doubt, begun>>

(* What a job does when it is done with its action: an update reloads the  *)
(* GUI, any other one leaves.                                              *)
ActionDone(w) == IF Updating(w) THEN Goes(w, "reload", "reload") ELSE Leaves(w)

\* Not confirmed: the answer itself is stored, and no status is read.
ActionNotConfirmed(w) ==
    /\ patchJob[w].step = "act" /\ Answered(w)
    /\ ~ActionConfirms(w)
    /\ StoreStatus(call[w].answer)
    /\ ActionDone(w)
    /\ UNCHANGED <<files, script, begun>>

CoreAnswered(w) ==
    /\ patchJob[w].step = "core" /\ Answered(w)
    /\ IF patchJob[w].kind = "update"
         THEN /\ patchJob' = [patchJob EXCEPT ![w] = [kind |-> "update", step |-> "act",
                                                     saved |-> call[w].answer]]
              /\ stored' = [call[w].answer EXCEPT !.full = "patching"]
              /\ call' = Ask(w, "apply")
              /\ UNCHANGED doubt
         ELSE /\ StoreStatus(call[w].answer)
              /\ Goes(w, "reload", "reload")
    /\ UNCHANGED <<files, script, begun>>

(* The confirming read, and after an update the GUI reload and a last read *)
ConfirmAnswered(w) ==
    /\ patchJob[w].step = "confirm" /\ Answered(w)
    /\ StoreStatus(call[w].answer)
    /\ ActionDone(w)
    /\ UNCHANGED <<files, script, begun>>

ReloadAnswered(w) ==
    /\ patchJob[w].step = "reload" /\ Answered(w)
    /\ Goes(w, "final", "status")
    /\ UNCHANGED <<files, script, stored, doubt, begun>>

FinalAnswered(w) ==
    /\ patchJob[w].step = "final" /\ Answered(w)
    /\ StoreStatus(call[w].answer)
    /\ Leaves(w)
    /\ UNCHANGED <<files, script, begun>>

\* A job that ends before it stored what came of its action: its mark may stay.
CutShort(w) == IF patchJob[w].step \in {"reload", "final"} THEN doubt ELSE doubt \cup {"cut"}

(* Any other request of the sequence raised: nothing is put back.          *)
KeepsLock(w) ==  \* variant: the lock is released on the normal way out only
    /\ patchJob[w].step \in {"core", "confirm", "reload", "final"} /\ Failed(w)
    /\ call' = [call EXCEPT ![w] = Quiet]
    /\ doubt' = CutShort(w)
    /\ UNCHANGED <<files, script, stored, patchJob, begun>>

StepFails(w) ==
    /\ patchJob[w].step \in {"core", "confirm", "reload", "final"} /\ Failed(w)
    /\ Leaves(w)
    /\ doubt' = CutShort(w)
    /\ UNCHANGED <<files, script, stored, begun>>

(* A job is cancelled at an await (`except Exception` lets CancelledError  *)
(* pass, so nothing is put back), or resumes while its entry has no        *)
(* runtime data.                                                           *)
JobCancelled(w) ==
    /\ ~Rests(w)
    /\ Leaves(w)
    /\ script' = Disowned(w)
    /\ doubt' = CutShort(w)
    /\ UNCHANGED <<files, stored, begun>>

(* The entry is unloaded and set up again: a fresh runtime_data that has   *)
(* read nothing, and a fresh lock (clear_entry_locks) although a job of    *)
(* the old one goes on.  Bound: one job of earlier loads at a time; those  *)
(* that waited for the dropped lock are not followed.                      *)
EntryReloads ==
    /\ Rests("orphan")
    /\ Begins
    /\ patchJob' = [holder |-> NoPatchJob, orphan |-> patchJob["holder"]]
    /\ call' = [call EXCEPT !["holder"] = Quiet, !["orphan"] = call["holder"]]
    /\ script' = IF script.by = "holder" THEN [script EXCEPT !.by = "orphan"] ELSE script
    /\ stored' = Unread
    /\ doubt' = {}
    /\ UNCHANGED files

-----------------------------------------------------------------------------
(* async_refresh_qml_patch_status without the lock, and its direct copies. *)

StatusReadStarts ==
    /\ call["reader"] = Quiet
    /\ Begins
    /\ call' = Ask("reader", "status")
    /\ UNCHANGED <<files, script, stored, patchJob, doubt>>

ReadEnds ==
    /\ \/ /\ Answered("reader")
          /\ StoreStatus(call["reader"].answer)
       \/ /\ Failed("reader")
          /\ UNCHANGED <<stored, doubt>>
    /\ call' = [call EXCEPT !["reader"] = Quiet]
    /\ UNCHANGED <<files, script, patchJob, begun>>

JobSteps(w) == ActionFails(w) \/ ActionConfirmed(w) \/ ActionNotConfirmed(w) \/ CoreAnswered(w)
               \/ ConfirmAnswered(w) \/ ReloadAnswered(w) \/ FinalAnswered(w) \/ StepFails(w)

PatchNext ==
    \/ \E kind \in Toggle : JobStarts(kind)
    \/ \E kind \in {"update", "updateCore"} : UpdateStarts(kind)
    \/ \E c \in Caller : ScriptStarts(c) \/ CallTimesOut(c)
    \/ ScriptEnds
    \/ \E w \in LockUser : JobSteps(w) \/ JobCancelled(w)
    \/ EntryReloads
    \/ StatusReadStarts
    \/ ReadEnds

(* The agent's loop starts and finishes scripts (10 s at most), and Home   *)
(* Assistant's event loop resumes a task whose request ended.              *)
PatchFairness ==
    /\ WF_patchVars(ScriptEnds)
    /\ \A c \in Caller : WF_patchVars(ScriptStarts(c))
    /\ \A w \in LockUser : WF_patchVars(JobSteps(w))
    /\ WF_patchVars(ReadEnds)

PatchSpec == PatchInit /\ [][PatchNext]_patchVars /\ PatchFairness
-----------------------------------------------------------------------------
PatchTypeOK ==
    /\ files \in [full : OnDevice, core : OnDevice]
    /\ stored \in Status
    /\ \A w \in LockUser : patchJob[w].kind \in Kind \cup {"none"}
    /\ script.by \in Caller \cup {"nobody"}

NobodyWorks == \A w \in LockUser : Rests(w)

(* What the stored status says of the device is true unless one of the     *)
(* named accidents happened since it was last read: a script that changed  *)
(* files and whose end nobody heard of (unreported), an answer or a        *)
(* previous status stored after a later write (outdated), a job cancelled  *)
(* or failed between its action and its confirming read (cut).  An action  *)
(* that was not confirmed is none of them, nor is a failure of an update   *)
(* after that, nor that jobs of two loads of the entry work side by side.  *)
StoredOrDoubted == (NobodyWorks /\ Unmarked(stored) /\ doubt = {}) => Says(stored, files)

(* A transient status is shown only while a job works, or after one that   *)
(* was cut, or that put back a status left over from such a one.           *)
TransientExplained ==
    (NobodyWorks /\ ~Unmarked(stored)) => doubt \cap {"cut", "outdated"} # {}

DisplayPatchTrue == PatchTypeOK /\ StoredOrDoubted /\ TransientExplained

(* Every job gives the lock back: the next toggle, repair or update gets   *)
(* its turn (the requests time out and `async with` releases).             *)
LockReturned == \A w \in LockUser : ~Rests(w) ~> Rests(w)
=============================================================================
