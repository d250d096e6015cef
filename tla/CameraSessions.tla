---------------------------- MODULE CameraSessions ----------------------------
(***************************************************************************)
(* custom_components/bticino_c300x/camera.py with camera_media/            *)
(* session_lifecycle.py, background_tasks.py and rtsp_orchestrator.py: the *)
(* WebRTC sessions of the doorbell camera and of Home Calls.  An offer     *)
(* starts media on the device and registers a session; a browser that goes *)
(* away, an agent that ends the media, a service that stops it and the     *)
(* removal of the entity close sessions, each in its own task, with an     *)
(* await between any two steps.                                            *)
(*                                                                         *)
(* A cancelled task gets a CancelledError at the await it is in, whatever  *)
(* became of the request it waited for.  ICE candidates, logging and the   *)
(* client's messages are left out.                                         *)
(***************************************************************************)
EXTENDS Naturals, FiniteSets

CONSTANTS Session,  \* ids of sessions, each offered once
          MaxEnds   \* bound on media that rings, ends by itself or is stopped by a service

ASSUME CameraSessionsAssumption == IsFiniteSet(Session) /\ MaxEnds \in Nat

VARIABLES
    active,   \* _webrtc_sessions.active
    offer,    \* _webrtc_sessions.offers: the offer task of an id
    close,    \* the call of _async_close_webrtc_session that popped an id
    later,    \* the background close of an id that waits for its offer
    ended,    \* ids an ended media event or status has named, still to close
    lock,     \* _rtsp_prepare_lock: the id it is held for
    stopping, \* whose media a service is stopping, or that its caller was cancelled
              \* when the sessions had been collected for their removal
    removal,  \* async_will_remove_from_hass
    current,  \* entry.runtime_data is the camera's
    media,    \* what the device does
    spent,    \* the ids offered and the ends so far
    forgiven,  \* history: a stop failed or was given up, the answer to a start was
               \* lost, or the agent said the call was over
    cut       \* history: the cleanup of an offer was cancelled

camVars == <<active, offer, close, later, ended, lock, stopping, removal, current, media,
             spent, forgiven, cut>>

None == [owner |-> "none"]
NoTask == [stage |-> "none"]
Free == [id |-> "free"]

Stages == {"asks", "accepted", "decides", "provider", "prepares", "opened", "answered",
           "failing", "cleans", "unowned", "stopping"}
Stopping == {"waits", "drains"}
Ringing == {"none", "preview", "call"}
Nobody == "nobody"
Astray == "astray"
Owner == {"doorbell", "home_call"}

CameraTypeOK ==
    /\ \A s \in Session : active[s] = None \/ active[s].owner \in Owner
    /\ \A s \in Session : offer[s] = NoTask \/ offer[s].stage \in Stages
    /\ \A s \in Session : close[s] = NoTask \/ close[s].stage \in {"ends", "refreshes"} \cup Stopping
    /\ \A s \in Session : later[s] \in {"none", "plain", "stop"}
    /\ ended \subseteq Session
    /\ removal \in {"none", "tasks", "sessions", "media", "done"}
    /\ stopping \in Owner \cup {Nobody, Astray}
    /\ {current, forgiven, cut} \subseteq BOOLEAN
    /\ media \in {"idle", "video", "ring", "call"}
    /\ spent \in [offers: SUBSET Session, ends: 0 .. MaxEnds]

CameraInit ==
    /\ active = [s \in Session |-> None]
    /\ offer = [s \in Session |-> NoTask] /\ close = [s \in Session |-> NoTask]
    /\ later = [s \in Session |-> "none"]
    /\ ended = {} /\ lock = Free /\ stopping = Nobody
    /\ removal = "none" /\ current = TRUE
    /\ media = "idle"
    /\ spent = [offers |-> {}, ends |-> 0]
    /\ forgiven = FALSE /\ cut = FALSE

closing == removal # "none"
At(s, stage) == offer[s] # NoTask /\ offer[s].stage = stage
Awaits(s, stage) == At(s, stage) /\ ~offer[s].cancelled
SessionGoes(s, stage) == offer' = [offer EXCEPT ![s].stage = stage]
OfferEnds(s) == offer' = [offer EXCEPT ![s] = NoTask]
Called(s) == offer[s].owner = "home_call"

\* _has_webrtc_sessions_for_resource.
Shared(resource) == \E s \in Session : active[s] # None /\ active[s].resource = resource

-----------------------------------------------------------------------------
(* Closing a session: _async_close_webrtc_session.                          *)

\* History: who used the media of a session, ready, when it was popped.
Users(s) == {t \in Session \ {s} :
                active[t] # None /\ active[t].ready /\ active[t].resource = active[s].resource}

\* The session is popped; an id that is not there has nothing to close.
Closes(s, stop, force, by) ==
    IF active[s] = None THEN UNCHANGED <<active, close>>
    ELSE /\ active' = [active EXCEPT ![s] = None]
         /\ close' = [close EXCEPT ![s] = [stage |-> "ends", was |-> active[s], stop |-> stop,
                                           force |-> force, by |-> by, others |-> Users(s)]]

\* Its task is cancelled, before the offer came to its cleanup, or in background.
Interrupted(s) ==
    \/ close[s].by = "failed" /\ offer[s] # NoTask /\ offer[s].cancelled
    \/ close[s].by \in {"user", "ended"} /\ removal = "tasks"

\* The provider has closed it.  Only now is asked who else uses the media.
LastOfAll(s) == TRUE  \* variant: other sessions of the resource are not looked for
LastOfResource(s) == ~Shared(close[s].was.resource)

Decided(s, stops) ==
    IF stops THEN [close EXCEPT ![s].stage = "waits"] ELSE [close EXCEPT ![s] = NoTask]

ProviderClosed(s) ==
    /\ close[s] # NoTask /\ close[s].stage = "ends" /\ ~Interrupted(s)
    /\ LET last == close[s].stop /\ LastOfResource(s) IN
       close' = IF close[s].was.ring = "preview"
                THEN [close EXCEPT ![s].stage = "refreshes", ![s].stop = last]
                ELSE Decided(s, last /\ (close[s].force \/ close[s].was.ring = "none"))
    /\ UNCHANGED <<active, offer, later, ended, lock, stopping, removal, current, media, spent, forgiven, cut>>

\* The preview is still one, or its status cannot be read; or it is not one any more.
PreviewRefreshed(s) ==
    /\ close[s] # NoTask /\ close[s].stage = "refreshes" /\ ~Interrupted(s)
    /\ \/ close' = Decided(s, close[s].stop /\ close[s].force)
       \/ close' = IF close[s].stop THEN [close EXCEPT ![s].stage = "waits", ![s].was.ring = "none"]
                   ELSE [close EXCEPT ![s] = NoTask]
    /\ UNCHANGED <<active, offer, later, ended, lock, stopping, removal, current, media, spent, forgiven, cut>>

StopBegins(s) ==
    /\ close[s] # NoTask /\ close[s].stage = "waits" /\ ~Interrupted(s)
    /\ lock = Free
    /\ lock' = [id |-> s, for |-> "close"]
    /\ close' = [close EXCEPT ![s].stage = "drains"]
    /\ UNCHANGED <<active, offer, later, ended, stopping, removal, current, media, spent, forgiven, cut>>

\* The agent's answer to a stop: async_stop_home_call, or hangup and
\* async_stop_doorbell_video.
Stopped(owner) ==
    CASE owner = "home_call" /\ media = "call" -> "idle"
      [] owner = "doorbell" /\ media \in {"video", "ring"} -> "idle"
      [] OTHER -> media

\* After the drain; errors are suppressed.
MediaStopped(s) ==
    /\ close[s] # NoTask /\ close[s].stage = "drains" /\ ~Interrupted(s)
    /\ \/ media' = Stopped(close[s].was.owner) /\ UNCHANGED forgiven
       \/ forgiven' = TRUE /\ UNCHANGED media
    /\ lock' = Free
    /\ close' = [close EXCEPT ![s] = NoTask]
    /\ UNCHANGED <<active, offer, later, ended, stopping, removal, current, spent, cut>>

\* Unload must be able to finish a close interrupted after its pop.
Restored(s) == IF active[s] = None THEN [active EXCEPT ![s] = close[s].was] ELSE active

LockKept(s) == lock  \* variant: the lock is not released
LockLeft(s) == IF close[s].stage = "drains" THEN Free ELSE lock

CloseCancelled(s) ==
    /\ close[s] # NoTask /\ Interrupted(s)
    /\ active' = Restored(s)
    /\ media' \in IF close[s].stage = "drains" THEN {media, Stopped(close[s].was.owner)} ELSE {media}
    /\ lock' = LockLeft(s)
    /\ close' = [close EXCEPT ![s] = NoTask]
    /\ UNCHANGED <<offer, later, ended, stopping, removal, current, spent, forgiven, cut>>

-----------------------------------------------------------------------------
(* The offer.                                                               *)

\* _async_handle_webrtc_offer: a browser that asks for audio, with a new id.
Offered(s) ==
    /\ ~closing
    /\ s \notin spent.offers
    /\ spent' = [spent EXCEPT !.offers = @ \cup {s}]
    /\ \E owner \in Owner :
          offer' = [offer EXCEPT ![s] = [stage |-> IF owner = "home_call" THEN "asks" ELSE "decides",
                                         owner |-> owner, started |-> FALSE, called |-> FALSE,
                                         cancelled |-> FALSE]]
    /\ UNCHANGED <<active, close, later, ended, lock, stopping, removal, current, media, forgiven, cut>>

\* async_start_home_call reaches an idle device, even for a cancelled caller.
CallAccepted(s) ==
    /\ At(s, "asks") /\ media = "idle"
    /\ media' = "call"
    /\ SessionGoes(s, "accepted")
    /\ UNCHANGED <<active, close, later, ended, lock, stopping, removal, current, spent, forgiven, cut>>

CallStarted(s) ==
    /\ Awaits(s, "accepted")
    /\ offer' = [offer EXCEPT ![s].stage = "decides", ![s].called = TRUE]
    /\ UNCHANGED <<active, close, later, ended, lock, stopping, removal, current, media, spent, forgiven, cut>>

\* _provider_webrtc_resource_id.
Resource(owner, ring) == IF owner = "doorbell" /\ ring THEN "ring" ELSE owner

\* The decision snapshot, the provider, then the session.
Registers(s) ==
    /\ Awaits(s, "decides")
    /\ \E ring \in IF ~Called(s) /\ media = "ring" THEN Ringing \ {"none"} ELSE {"none"} :
          active' = [active EXCEPT ![s] = [owner |-> offer[s].owner, ready |-> FALSE, ring |-> ring,
                                           resource |-> Resource(offer[s].owner, ring # "none")]]
    /\ SessionGoes(s, "provider")
    /\ UNCHANGED <<close, later, ended, lock, stopping, removal, current, media, spent, forgiven, cut>>

\* stream_source: async_prepare_rtsp_stream and its Home Call sibling.
PrepareBegins(s) ==
    /\ Awaits(s, "provider") /\ lock = Free
    /\ lock' = [id |-> s, for |-> "prepare"]
    /\ SessionGoes(s, "prepares")
    /\ UNCHANGED <<active, close, later, ended, stopping, removal, current, media, spent, forgiven, cut>>

\* The video is activated unless a ring has it; Home Call media and, by
\* raise_if_rtsp_admission_denied, other local sessions are in the way.
OfferAdmitted(s) ==
    IF Called(s) THEN media = "call"
    ELSE media \in {"idle", "ring"} \/ (media = "video" /\ \A t \in Session : ~(active[t] # None /\ active[t].ready))

Prepared(s) ==
    /\ Awaits(s, "prepares") /\ OfferAdmitted(s)
    /\ media' = IF media = "idle" THEN "video" ELSE media
    /\ lock' = Free
    /\ offer' = [offer EXCEPT ![s].stage = "opened", ![s].started = TRUE]
    /\ UNCHANGED <<active, close, later, ended, stopping, removal, current, spent, forgiven, cut>>

\* The provider answers, or sends an error message.
ProviderAnswers(s) ==
    /\ Awaits(s, "opened")
    /\ IF active[s] = None THEN OfferEnds(s) /\ UNCHANGED <<active, close>>
       ELSE \/ OfferEnds(s)
               /\ active' = [active EXCEPT ![s].ready = TRUE]
               /\ UNCHANGED close
            \/ SessionGoes(s, "failing")
               /\ Closes(s, offer[s].started \/ Called(s), FALSE, "failed")
    /\ UNCHANGED <<later, ended, lock, stopping, removal, current, media, spent, forgiven, cut>>

\* The offer awaits the close that it began; one of others is none of its business.
OwnClose(s) == close[s] # NoTask /\ close[s].by \in {"failed", "cleanup"}

FailedClosed(s) ==
    /\ Awaits(s, "failing") /\ ~OwnClose(s)
    /\ OfferEnds(s)
    /\ UNCHANGED <<active, close, later, ended, lock, stopping, removal, current, media, spent, forgiven, cut>>

\* _async_cleanup_failed_provider_offer closes what was registered.
Cleans(s, stop) ==
    /\ SessionGoes(s, "cleans")
    /\ Closes(s, stop, FALSE, "cleanup")
    /\ lock' = IF lock = [id |-> s, for |-> "prepare"] THEN Free ELSE lock

\* An error of the agent, the provider or the RTSP bridge: also a start that
\* the agent accepted and whose answer is lost.
OfferFails(s) ==
    /\ \E stage \in {"asks", "accepted", "decides", "provider", "prepares", "opened"} : Awaits(s, stage)
    /\ Cleans(s, ~Called(s) /\ offer[s].started)
    /\ forgiven' = (forgiven \/ At(s, "accepted"))
    /\ UNCHANGED <<later, ended, stopping, removal, current, media, spent, cut>>

\* A session that was not registered any more, and media it had started: the
\* video is stopped unless a ring has it.
CleanedMedia(s) ==
    IF ~Called(s) /\ offer[s].started /\ media = "video" /\ active[s] = None THEN {media, "idle"} ELSE {media}

\* A cancelled Home Call offer may have been accepted before it was told.
CallMayRun(s) == Called(s) /\ (offer[s].called \/ offer[s].cancelled) /\ current
Cleaned(s) ==
    /\ At(s, "cleans") /\ ~OwnClose(s)
    /\ media' \in CleanedMedia(s)
    /\ IF CallMayRun(s) THEN SessionGoes(s, "unowned") ELSE OfferEnds(s)
    /\ UNCHANGED <<active, close, later, ended, lock, stopping, removal, current, spent, forgiven, cut>>

\* _async_stop_unowned_home_call: a failed offer must not stop media shared
\* by a surviving session.
UnownedChecked(s) ==
    /\ At(s, "unowned") /\ lock = Free
    /\ IF current /\ ~Shared("home_call")
       THEN SessionGoes(s, "stopping") /\ lock' = [id |-> s, for |-> "unowned"]
       ELSE OfferEnds(s) /\ UNCHANGED lock
    /\ UNCHANGED <<active, close, later, ended, stopping, removal, current, media, spent, forgiven, cut>>

UnownedStopped(s) ==
    /\ At(s, "stopping")
    /\ \/ media' = Stopped("home_call") /\ UNCHANGED forgiven
       \/ forgiven' = TRUE /\ UNCHANGED media
    /\ lock' = Free
    /\ OfferEnds(s)
    /\ UNCHANGED <<active, close, later, ended, stopping, removal, current, spent, cut>>

-----------------------------------------------------------------------------
(* Cancellation of an offer.                                                *)

\* In its cleanup nothing handles a CancelledError any more.
InCleanup(s) == \E stage \in {"cleans", "unowned", "stopping"} : At(s, stage)

\* During unload sessions stay registered for the final forced close.
OfferCancelled(s) ==
    /\ offer[s] # NoTask /\ offer[s].cancelled /\ ~OwnClose(s)
    /\ ~InCleanup(s)
    /\ IF closing
       THEN /\ IF Called(s) /\ current /\ active[s] = None THEN SessionGoes(s, "unowned") ELSE OfferEnds(s)
            /\ lock' = IF lock = [id |-> s, for |-> "prepare"] THEN Free ELSE lock
            /\ UNCHANGED <<active, close>>
       ELSE Cleans(s, current /\ ~Called(s) /\ offer[s].started)
    /\ UNCHANGED <<later, ended, stopping, removal, current, media, spent, forgiven, cut>>

\* cancel_offer: once, so that repeated closes cannot interrupt the cleanup.
Cancellable(s) == offer[s] # NoTask /\ ~offer[s].cancelled

\* What a CancelledError leaves of an offer: its handler, or, in the cleanup,
\* nothing but the restored session.
Unwound(s) ==
    IF InCleanup(s) THEN NoTask ELSE [offer[s] EXCEPT !.cancelled = TRUE]
RestoredIn(S) == [s \in Session |-> IF s \in S /\ active[s] = None /\ close[s] # NoTask
                                    THEN close[s].was ELSE active[s]]

\* Every offer of S is cancelled: those in their cleanup end right here.
Cancel(S) ==
    LET cleanup == {s \in S : InCleanup(s)}
        closed == {s \in cleanup : close[s] # NoTask /\ close[s].by = "cleanup"}
        holds == {s \in cleanup : lock # Free /\ lock.id = s}
    IN  /\ offer' = [s \in Session |-> IF s \in S THEN Unwound(s) ELSE offer[s]]
        /\ active' = RestoredIn(closed)
        /\ close' = [s \in Session |-> IF s \in closed THEN NoTask ELSE close[s]]
        /\ lock' = IF holds # {} THEN Free ELSE lock
        /\ cut' = (cut \/ \E s \in cleanup : Called(s))

\* close_webrtc_session: the subscription of the browser ends.
ClientLeaves(s) ==
    /\ ~closing /\ later[s] = "none" /\ (offer[s] # NoTask \/ active[s] # None)
    /\ close[s] # NoTask => close[s].by # "user"
    /\ later' = [later EXCEPT ![s] =
                    IF active[s] # None /\ active[s].owner = "home_call" THEN "stop" ELSE "plain"]
    /\ Cancel(IF Cancellable(s) THEN {s} ELSE {})
    /\ UNCHANGED <<ended, stopping, removal, current, media, spent, forgiven>>

\* close_after_offer.
LaterCloses(s) ==
    /\ later[s] # "none" /\ ~closing /\ offer[s] = NoTask
    /\ later' = [later EXCEPT ![s] = "none"]
    /\ Closes(s, later[s] = "stop", FALSE, "user")
    /\ UNCHANGED <<offer, ended, lock, stopping, removal, current, media, spent, forgiven, cut>>

-----------------------------------------------------------------------------
(* The services that stop the media of an owner: the sessions first.        *)

Stops(s) == close[s] # NoTask /\ close[s].by = "stop"

\* async_prepare_doorbell_video_stop, async_prepare_home_call_stop: all the
\* owner's sessions at once, without a stop of their own.  Without a session
\* the agent is asked at once: MediaChanges.
StopAsked(owner) ==
    /\ removal \in {"none", "tasks"} /\ stopping = Nobody
    /\ spent.ends < MaxEnds
    /\ stopping' = owner /\ spent' = [spent EXCEPT !.ends = @ + 1]
    /\ LET S == {s \in Session : active[s] # None /\ active[s].owner = owner} IN
       /\ S # {}
       /\ active' = [s \in Session |-> IF s \in S THEN None ELSE active[s]]
       /\ close' = [s \in Session |->
                       IF s \in S THEN [stage |-> "ends", was |-> active[s], stop |-> FALSE, force |-> FALSE,
                                       by |-> "stop", others |-> Users(s)]
                       ELSE close[s]]
    /\ UNCHANGED <<offer, later, ended, lock, removal, current, media, forgiven, cut>>

\* The clients are gone: the agent is asked, unless its video was idle before.
StopAnswered ==
    /\ stopping \in Owner /\ \A s \in Session : ~Stops(s)
    /\ stopping' = Nobody
    /\ \/ media' = Stopped(stopping) /\ UNCHANGED forgiven
       \/ forgiven' = (forgiven \/ stopping = "home_call") /\ UNCHANGED media
    /\ UNCHANGED <<active, offer, close, later, ended, lock, removal, current, spent, cut>>

\* The caller of the service is cancelled, and with it what closes for it.
StopGivenUp ==
    LET S == {s \in Session : Stops(s)} IN
    /\ stopping \in Owner
    /\ stopping' = IF removal \in {"sessions", "done"} THEN Astray ELSE Nobody
    /\ active' = RestoredIn(S)
    /\ close' = [s \in Session |-> IF s \in S \/ close[s] = NoTask THEN NoTask
                                    ELSE [close[s] EXCEPT !.others = @ \ S]]
    /\ forgiven' = (forgiven \/ stopping = "home_call")
    /\ UNCHANGED <<offer, later, ended, lock, removal, current, media, spent, cut>>

-----------------------------------------------------------------------------
(* The device.                                                              *)

\* Somebody rings; a call or the video ends by itself.
MediaChanges ==
    /\ spent.ends < MaxEnds
    /\ spent' = [spent EXCEPT !.ends = @ + 1]
    /\ media' = IF media = "idle" THEN "ring" ELSE "idle"
    /\ UNCHANGED <<active, offer, close, later, ended, lock, stopping, removal, current, forgiven, cut>>

\* _close_webrtc_sessions_from_event, _async_reconcile_local_sessions and
\* _async_close_finished_home_call_sessions: the agent says that the media of
\* an owner is over.  Its sessions are not ready any more and will be closed
\* one after the other without a stop.
SaidToBeOver(owner) ==
    /\ ~closing /\ ended = {} /\ spent.ends > 0
    /\ (owner = "home_call" => media # "call") /\ (owner = "doorbell" => media \notin {"video", "ring"})
    /\ ended' = {s \in Session : active[s] # None /\ active[s].owner = owner}
    /\ ended' # {}
    /\ active' = [s \in Session |-> IF s \in ended' /\ owner = "home_call"
                                    THEN [active[s] EXCEPT !.ready = FALSE] ELSE active[s]]
    /\ UNCHANGED <<offer, close, later, lock, stopping, removal, current, media, spent, forgiven, cut>>

EndedCloses(s) ==
    /\ ~closing /\ s \in ended
    /\ \A t \in Session : close[t] # NoTask => close[t].by # "ended"
    /\ ended' = ended \ {s}
    /\ forgiven' = (forgiven \/ (active[s] # None /\ active[s].owner = "home_call"))
    /\ Closes(s, FALSE, FALSE, "ended")
    /\ UNCHANGED <<offer, later, lock, stopping, removal, current, media, spent, cut>>

-----------------------------------------------------------------------------
(* The removal of the entity: async_will_remove_from_hass.                  *)

\* CameraBackgroundTasks.close: no new work, every task is cancelled, also an
\* offer that was cancelled before.
RemovalBegins ==
    /\ ~closing
    /\ removal' = "tasks"
    /\ current' \in BOOLEAN
    /\ later' = [s \in Session |-> "none"] /\ ended' = {}
    /\ Cancel({s \in Session : offer[s] # NoTask})
    /\ UNCHANGED <<stopping, media, spent, forgiven>>

\* The tasks have ended; a close that runs for somebody else goes on.
TasksGone ==
    /\ removal = "tasks"
    /\ \A s \in Session : offer[s] = NoTask /\ (close[s] = NoTask \/ Stops(s))
    /\ removal' = "sessions"
    /\ UNCHANGED <<active, offer, close, later, ended, lock, stopping, current, media, spent, forgiven, cut>>

SessionRemoved(s) ==
    /\ removal = "sessions" /\ active[s] # None
    /\ \A t \in Session : close[t] = NoTask \/ Stops(t)
    /\ Closes(s, current, current, "remove")
    /\ UNCHANGED <<offer, later, ended, lock, stopping, removal, current, media, spent, forgiven, cut>>

LastStop ==
    /\ removal = "sessions" /\ \A s \in Session : close[s] = NoTask \/ Stops(s)
    /\ (\A s \in Session : active[s] = None) \/ stopping = Astray
    /\ removal' = "done"
    /\ \/ media' = (IF current THEN Stopped("doorbell") ELSE media) /\ UNCHANGED forgiven
       \/ current /\ forgiven' = TRUE /\ UNCHANGED media
    /\ UNCHANGED <<active, offer, close, later, ended, lock, stopping, current, spent, cut>>

CloseSteps(s) == ProviderClosed(s) \/ PreviewRefreshed(s) \/ StopBegins(s) \/ MediaStopped(s) \/ CloseCancelled(s)
OfferSteps(s) ==
    \/ CallStarted(s) \/ Registers(s) \/ PrepareBegins(s) \/ Prepared(s)
    \/ ProviderAnswers(s) \/ FailedClosed(s) \/ OfferFails(s) \/ Cleaned(s)
    \/ UnownedChecked(s) \/ UnownedStopped(s) \/ OfferCancelled(s)
RemovalSteps == TasksGone \/ LastStop \/ \E s \in Session : SessionRemoved(s)

CameraNext ==
    \/ \E s \in Session :
          \/ Offered(s) \/ CallAccepted(s) \/ ClientLeaves(s) \/ LaterCloses(s) \/ EndedCloses(s)
          \/ CloseSteps(s) \/ OfferSteps(s)
    \/ MediaChanges \/ RemovalBegins \/ RemovalSteps
    \/ \E owner \in Owner : SaidToBeOver(owner) \/ StopAsked(owner)
    \/ StopAnswered \/ StopGivenUp

\* Requests and probes time out, the lock is handed on in turn.
CameraFairness ==
    /\ \A s \in Session : /\ WF_camVars(CloseSteps(s)) /\ WF_camVars(OfferSteps(s))
                          /\ SF_camVars(StopBegins(s) \/ PrepareBegins(s) \/ UnownedChecked(s))
    /\ WF_camVars(RemovalSteps)

CameraSpec == CameraInit /\ [][CameraNext]_camVars /\ CameraFairness

-----------------------------------------------------------------------------
(* The lock is held by a task that is under way, and released by it.       *)
LockOwned ==
    lock # Free =>
        LET s == lock.id
        IN  CASE lock.for = "close"   -> close[s] # NoTask /\ close[s].stage = "drains"
              [] lock.for = "prepare" -> At(s, "prepares")
              [] lock.for = "unowned" -> At(s, "stopping")

(* A Home Call that an offer started is some task's or session's, unless   *)
(* its stop failed or was given up, the answer to its start was lost, the  *)
(* agent said it was over, the entry has a new runtime, or a cleanup was    *)
(* cancelled.                                                               *)
CallIsOwned ==
    media = "call" /\ ~forgiven /\ current =>
        \/ stopping = "home_call"
        \/ \E s \in Session :
              \/ offer[s] # NoTask /\ Called(s)
              \/ active[s] # None /\ active[s].owner = "home_call"
              \/ close[s] # NoTask /\ close[s].was.owner = "home_call"

(* A session that closes does not stop the media under another one that    *)
(* was ready before and still is there.                                    *)
SharedIsSpared ==
    [][\A s \in Session :
          MediaStopped(s) /\ media' # media /\ ~closing =>
              \A t \in close[s].others : active[t] = None]_camVars

(* An entity that is gone holds no session.                                *)
NothingRemains == removal = "done" => \A s \in Session : active[s] = None /\ offer[s] = NoTask

(* The lock, the call and the sessions have their owners; a stop that was   *)
(* given up while the entity was removed leaves its session behind.         *)
CameraConsistent ==
    /\ CameraTypeOK /\ LockOwned
    /\ stopping # Astray => NothingRemains
    /\ ~cut => CallIsOwned

(* The removal of the entity ends: no task waits for the lock of another   *)
(* that waits for it.                                                       *)
RemovalIsOver == closing => removal = "done"
RemovalEnds == []<>RemovalIsOver
(* Lock, call and sessions have their owners in every state, and a session *)
(* that closes spares the media of the others.                             *)
CameraKept == []CameraConsistent /\ SharedIsSpared
=============================================================================
