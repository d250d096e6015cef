----------------------------- MODULE MediaDecision -----------------------------
(***************************************************************************)
(* custom_components/bticino_c300x/camera_media/state_machine.py,          *)
(* rtsp_policy.py and rtsp_orchestrator.py with media_watchdog.py: what    *)
(* Home Assistant makes of the agent's answer to a video status request,   *)
(* who may open the stream, and how a stream is prepared while the device  *)
(* goes on as it likes.                                                    *)
(*                                                                         *)
(* An answer is what the agent can report: its owner is computed from its  *)
(* flags as native_agent/src/video_rtsp.c:462-475 does.  The doorstation's *)
(* audio gain, which is set on the way, decides nothing and is left out.   *)
(***************************************************************************)
EXTENDS Integers, FiniteSets

VARIABLES
    prepared,   \* async_prepare_rtsp_stream: its step, and the answer it goes by
    rtspError,  \* _last_rtsp_error is set
    ready,      \* HA-side sessions that are ready
    watchdog,   \* AgentCpuWatchdog: since when the load is high, tripped
    watching    \* agent_cpu_watchdog_task and the answer it got

decisionVars == <<prepared, rtspError, ready, watchdog, watching>>

RingFlag == {"ring_media", "ring_audio", "answer_requested", "answered", "hangup"}
HomeFlag == {"home_running", "home_active", "home_answered"}

\* What may be going on at the device.
Going ==
    {{}, {"media"}, {"starting"}, {"external"}, {"media", "stopping"}, {"stopping"}}
    \cup {{"ring_call"} \cup r : r \in SUBSET RingFlag}
    \cup {{"home_running"}, {"home_running", "home_active"}, HomeFlag}

Fact == [flags : Going, clients : {0, 1}]
NoFact == [flags |-> {"nothing known"}, clients |-> 0]

\* normalize_doorbell_video: media_owner, window_available.
Owner(f) ==
    IF "ring_call" \in f.flags THEN "ring"
    ELSE IF f.flags \cap HomeFlag # {} THEN "home_call"
    ELSE IF "media" \in f.flags THEN "agent"
    ELSE IF "external" \in f.flags THEN "external_media"
    ELSE "idle"
Window(f) == Owner(f) \in {"ring", "agent"}

\* status_reports_agent_idle.
AgentIdle(f) ==
    /\ f.clients = 0 /\ ~Window(f)
    /\ f.flags \cap {"media", "starting", "stopping", "external"} = {}
    /\ Owner(f) = "idle"

\* _active_local_media_sessions.
LocalSessions(f) == IF AgentIdle(f) THEN 0 ELSE ready

-----------------------------------------------------------------------------
(* derive_media_state: the state for an answer, the sessions that are ready *)
(* here and the error of an earlier attempt.                                *)

HomeState(f) == IF "home_answered" \in f.flags THEN "home_call_active" ELSE "home_call_ringing"

RingState(f) ==
    LET taken == f.flags \cap {"answered", "ring_audio"} # {}
    IN IF "hangup" \in f.flags THEN "ring_hanging_up"
       ELSE IF "answer_requested" \in f.flags THEN "ring_answering"
       ELSE IF taken THEN "ring_active"
       ELSE IF "ring_media" \in f.flags THEN "ring_preview_active"
       ELSE "ring_pending"

State(f, sessions, error) ==
    IF error THEN "error"
    ELSE IF "external" \in f.flags THEN "external_media_active"
    ELSE IF Owner(f) = "home_call" THEN HomeState(f)
    ELSE IF Owner(f) = "ring" THEN RingState(f)
    ELSE IF f.clients + sessions > 0
         THEN IF Owner(f) = "agent" THEN "on_demand_active" ELSE "rtsp_busy"
    ELSE IF Owner(f) = "idle" THEN "idle"
    ELSE "unknown"

HomeStates == {"home_call_ringing", "home_call_active"}
CallStates == HomeStates \cup {"ring_pending", "ring_preview_active", "ring_answering", "ring_active"}
UnansweredStates == {"ring_pending", "ring_preview_active"}
CaptureBlocked(state) == state # "idle" /\ state \notin CallStates \ HomeStates

\* primary_action.
Offers(state) ==
    CASE state = "idle" -> "start_stream"
      [] state \in UnansweredStates -> "answer_ring"
      [] state \in HomeStates \cup {"ring_active"} -> "hangup"
      [] state = "on_demand_active" -> "stop_stream"
      [] OTHER -> "none"

-----------------------------------------------------------------------------
(* decide_rtsp_admission.                                                   *)

SessionOwner(f) ==
    CASE Owner(f) = "ring" ->
           IF f.flags \cap {"ring_audio", "answer_requested", "answered"} # {}
           THEN "ring_answered" ELSE "ring_preview"
      [] Owner(f) = "agent" -> "doorbell_card"
      [] OTHER -> Owner(f)

Compatible(consumer) ==
    CASE consumer = "capture" -> {"ring_preview", "ring_answered"}
      [] consumer = "ring_answered" -> {"ring_preview", "ring_answered"}
      [] OTHER -> {consumer}

\* One client at a time: the agent's max_clients is 1, so nothing is shared.
BusyIgnored(f, sessions) == FALSE  \* variant: the clients there are are not counted
Busy(f, sessions) == f.clients > 0 \/ sessions > 0

Admitted(consumer, f, sessions) ==
    LET owner == SessionOwner(f)
    IN /\ "external" \notin f.flags
       /\ owner = "home_call" => consumer = "home_call"
       /\ \/ consumer = "ring_answered" /\ owner = "ring_preview"
          \/ ~Busy(f, sessions) /\ owner \in {"idle"} \cup Compatible(consumer)

\* rtsp_consumer_for_doorbell_request, and the card for media that is no call.
Consumer(state) ==
    CASE state \in UnansweredStates -> "ring_preview"
      [] state \in {"ring_answering", "ring_active"} -> "ring_answered"
      [] OTHER -> "doorbell_card"

\* raise_if_ring_capture_blocked: nothing of the camera's memory counts.
CaptureAllowed(f) == Admitted("capture", f, 0) /\ ~CaptureBlocked(State(f, 0, FALSE))

-----------------------------------------------------------------------------
(* async_prepare_rtsp_stream, one at a time: _rtsp_prepare_lock.            *)

DecisionInit ==
    /\ prepared = [step |-> "none", on |-> NoFact, joined |-> FALSE]
    /\ rtspError = FALSE
    /\ ready = 0
    /\ watchdog = [high |-> 0, tripped |-> FALSE, trips |-> 0]
    /\ watching = [step |-> "none", on |-> NoFact, stopped |-> {}]

PrepareStarts ==
    /\ prepared.step = "none"
    /\ prepared' = [step |-> "asks", on |-> NoFact, joined |-> FALSE]
    /\ UNCHANGED <<rtspError, ready, watchdog, watching>>

\* A call the agent reports is joined; for anything else it is activated.
Judged(f, error) ==
    LET state == State(f, LocalSessions(f), error)
        step == IF state \in HomeStates \/ ~Admitted(Consumer(state), f, LocalSessions(f)) THEN "busy"
                ELSE IF state \in CallStates THEN "opens"
                ELSE "activates"
    IN [step |-> step, on |-> f, joined |-> step = "opens"]

\* async_wait_for_call_media_after_external_event goes on asking until the
\* external session has gone or a call has come of it.
Blocked(f) == State(f, LocalSessions(f), rtspError) = "external_media_active"

PrepareAnswered(f) ==
    /\ prepared.step \in {"asks", "waits"}
    /\ prepared' = IF Blocked(f) THEN [step |-> "waits", on |-> f, joined |-> FALSE]
                 ELSE Judged(f, rtspError)
    /\ UNCHANGED <<rtspError, ready, watchdog, watching>>

WaitExpires ==
    /\ prepared.step = "waits"
    /\ prepared' = Judged(prepared.on, rtspError)
    /\ UNCHANGED <<rtspError, ready, watchdog, watching>>

\* An agent that does not answer the status request is asked to activate.
PrepareUnanswered ==
    /\ prepared.step = "asks"
    /\ prepared' = [prepared EXCEPT !.step = "activates"]
    /\ UNCHANGED <<rtspError, ready, watchdog, watching>>

\* async_warmup_video; a refusal for an external session counts as success
\* when it turns out to be the ring call (_api_media.py).
Activated ==
    /\ prepared.step = "activates"
    /\ prepared' \in {[prepared EXCEPT !.step = "opens"], [prepared EXCEPT !.step = "failed"]}
    /\ UNCHANGED <<rtspError, ready, watchdog, watching>>

\* async_wait_for_rtsp_ready: the bridge answers, or never did in time.
Opened ==
    /\ prepared.step = "opens"
    /\ prepared' = [prepared EXCEPT !.step = "open"]
    /\ rtspError' = FALSE
    /\ UNCHANGED <<ready, watchdog, watching>>

NotReady ==
    /\ prepared.step = "opens"
    /\ prepared' = [prepared EXCEPT !.step = "failed"]
    /\ rtspError' = TRUE
    /\ UNCHANGED <<ready, watchdog, watching>>

PrepareReturns ==
    /\ prepared.step \in {"open", "busy", "failed"}
    /\ ready' \in {ready, IF prepared.step = "open" THEN 1 ELSE ready}
    /\ prepared' = [step |-> "none", on |-> NoFact, joined |-> FALSE]
    /\ UNCHANGED <<rtspError, watchdog, watching>>

SessionEnds ==
    /\ ready = 1
    /\ ready' = 0
    /\ UNCHANGED <<prepared, rtspError, watchdog, watching>>

-----------------------------------------------------------------------------
(* The CPU watchdog: AgentCpuWatchdog.evaluate on every sample, and the     *)
(* task that stops what may be Home Assistant's.                            *)

Sustained == 2  \* samples in AGENT_CPU_WATCHDOG_SECONDS
MaxTrips == 2   \* bound on trips

\* A sample without a load is no sample.
Trips == watchdog.high = Sustained /\ ~watchdog.tripped

TaskRuns == watching.step = "asks"

LoadSampled(high) ==
    /\ watchdog.trips < MaxTrips
    /\ IF ~high
       THEN /\ watchdog' = [high |-> 0, tripped |-> FALSE, trips |-> watchdog.trips]
            /\ UNCHANGED watching
       ELSE IF Trips
            THEN /\ watchdog' = [watchdog EXCEPT !.tripped = TRUE, !.trips = @ + 1]
                 /\ watching' = IF TaskRuns THEN watching
                                ELSE [step |-> "asks", on |-> NoFact, stopped |-> {}]
            ELSE /\ watchdog' = [watchdog EXCEPT !.high = IF @ < Sustained THEN @ + 1 ELSE @]
                 /\ UNCHANGED watching
    /\ UNCHANGED <<prepared, rtspError, ready>>

\* _async_stop_media_for_watchdog; without an answer it stops everything.
StopsFor(f) ==
    LET state == State(f, 0, FALSE)
    IN CASE state \in HomeStates -> {"home_call"}
         [] state \in (CallStates \ HomeStates) \cup {"ring_hanging_up"} -> {"ring", "video"}
         [] state \in {"on_demand_active", "rtsp_busy"} -> {"video"}
         [] OTHER -> {}

WatchdogAnswered(f) ==
    /\ TaskRuns
    /\ watching' = [step |-> "done", on |-> f, stopped |-> StopsFor(f)]
    /\ UNCHANGED <<prepared, rtspError, ready, watchdog>>

WatchdogUnanswered ==
    /\ TaskRuns
    /\ watching' = [step |-> "done", on |-> NoFact, stopped |-> {"home_call", "ring", "video"}]
    /\ UNCHANGED <<prepared, rtspError, ready, watchdog>>

DecisionNext ==
    \/ PrepareStarts \/ WaitExpires \/ PrepareUnanswered \/ Activated \/ Opened \/ NotReady
    \/ PrepareReturns \/ SessionEnds \/ WatchdogUnanswered
    \/ \E f \in Fact : PrepareAnswered(f) \/ WatchdogAnswered(f)
    \/ \E high \in BOOLEAN : LoadSampled(high)

DecisionSpec == DecisionInit /\ [][DecisionNext]_decisionVars

-----------------------------------------------------------------------------
DecisionTypeOK ==
    /\ prepared.step \in {"none", "asks", "waits", "activates", "opens", "open", "busy", "failed"}
    /\ prepared.on \in Fact \cup {NoFact}
    /\ rtspError \in BOOLEAN
    /\ ready \in {0, 1}
    /\ watchdog \in [high : 0 .. Sustained, tripped : BOOLEAN, trips : 0 .. MaxTrips]
    /\ watching.step \in {"none", "asks", "done"}

(* A stream is opened, with the device's status known, only while nobody   *)
(* else has the device: no external session, no Home Call, no client.      *)
NobodyDisturbed ==
    prepared.step \in {"activates", "opens", "open"} /\ prepared.on # NoFact =>
        /\ "external" \notin prepared.on.flags
        /\ Owner(prepared.on) # "home_call"
        /\ prepared.on.clients > 0 => Owner(prepared.on) = "ring"

(* What the camera offers holds: a stream it offers to start is admitted,  *)
(* and so is the capture of whatever it offers to answer, unless another   *)
(* client has the preview.                                                 *)
OfferHolds ==
    \A f \in Fact :
        LET state == State(f, LocalSessions(f), rtspError)
        IN /\ Offers(state) = "start_stream" => Admitted("doorbell_card", f, LocalSessions(f))
           /\ Offers(state) = "answer_ring" /\ f.clients = 0 => CaptureAllowed(f)
           /\ CaptureAllowed(f) => Owner(f) \in {"idle", "ring"}

(* An agent with nothing live is never taken for busy, whatever sessions   *)
(* Home Assistant still tracks.                                            *)
IdleIsIdle == \A f \in Fact : AgentIdle(f) => State(f, LocalSessions(f), FALSE) = "idle"

(* The watchdog stops what it was told of, never an external session.      *)
WatchdogSpares ==
    watching.step = "done" /\ watching.on # NoFact =>
        /\ "external" \in watching.on.flags => watching.stopped = {}
        /\ "home_call" \in watching.stopped => Owner(watching.on) = "home_call"
        /\ "ring" \in watching.stopped => Owner(watching.on) = "ring"

(* derive_media_state, decide_rtsp_admission, the orchestrator and the     *)
(* watchdog agree on whose the device is.  What is said of every answer    *)
(* depends on the sessions and the error alone, which is why it is enough  *)
(* to ask it when a preparation begins and the watchdog has not acted.     *)
DecisionsAgree ==
    /\ DecisionTypeOK /\ NobodyDisturbed /\ WatchdogSpares
    /\ prepared.step = "asks" /\ watching.step = "none" => OfferHolds /\ IdleIsIdle
=============================================================================
