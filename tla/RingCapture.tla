----------------------------- MODULE RingCapture -----------------------------
(***************************************************************************)
(* A ring is recorded, transcribed and judged: the capture service         *)
(* (use_cases/ring_capture.py, ring_capture.py), its talkback thread       *)
(* (ring_talkback.py), the transcription (ring_ai.py) and the decision     *)
(* (ring_decision.py, use_cases/ring_analysis.py).  The four meet in files *)
(* of fixed names: every capture overwrites latest.raw.wav when its ffmpeg *)
(* starts and latest.capture.json when it is over, a transcription reads   *)
(* the two in two jobs, a decision reads its result and the metadata.      *)
(* Left out: the video, the wording of a transcript (a phrase matches or   *)
(* does not), and times: a capture older than 60 s is a refused one.       *)
(***************************************************************************)
EXTENDS Naturals, FiniteSets

CONSTANTS MaxCaptures, MaxDecisions,
          MaxCalls          \* captures and decisions together
ASSUME CaptureAssumption == /\ MaxCaptures \in Nat \ {0} /\ MaxDecisions \in Nat
                            /\ MaxCalls \in Nat

VARIABLES captures, capture, talkback, recorders, files, answered, unheard,
          transcription, result, decisions, decision, used, opened, excused
captureVars == <<captures, capture, talkback, recorders, files, answered, unheard,
                 transcription, result, decisions, decision, used, opened, excused>>
analysisVars == <<transcription, result, decisions, decision, used, opened, excused>>
recordingVars == <<captures, capture, talkback, recorders, files, answered, unheard>>

CaptureId == 1 .. MaxCaptures
DecisionId == 1 .. MaxDecisions
NoCapture == 0
Transcript == [id: 0 .. MaxCaptures, of: 0 .. MaxCaptures, torn: BOOLEAN]
NoTranscript == [id |-> NoCapture, of |-> NoCapture, torn |-> FALSE]
NotTranscribing == [step |-> "idle", id |-> NoCapture, of |-> NoCapture, torn |-> FALSE]

CaptureTypeOK ==
  /\ captures \in 0 .. MaxCaptures
  /\ capture \in [id: 0 .. MaxCaptures, talks: BOOLEAN,
                  step: {"idle", "checking", "preparing", "recording", "settling", "writing", "closing"}]
  /\ talkback \in [CaptureId -> {"none", "waiting", "announcing", "keeping", "failed", "ended"}]
  /\ recorders \subseteq CaptureId
  /\ files \in [meta: 0 .. MaxCaptures, wav: 0 .. MaxCaptures]
  /\ answered \in 0 .. MaxCaptures /\ unheard \subseteq CaptureId
  /\ transcription.step \in {"idle", "sourced", "sent"} /\ result \in Transcript
  /\ decisions \in 0 .. MaxDecisions
  /\ \A n \in DecisionId: decision[n].step \in {"idle", "read", "unlocking", "marking"}
  /\ used \in 0 .. MaxCaptures /\ opened \in [CaptureId -> Nat]
  /\ excused \subseteq CaptureId

CaptureInit ==
  /\ captures = 0 /\ recorders = {} /\ answered = NoCapture /\ unheard = {}
  /\ capture = [step |-> "idle", id |-> NoCapture, talks |-> FALSE]
  /\ talkback = [i \in CaptureId |-> "none"]
  /\ files = [meta |-> NoCapture, wav |-> NoCapture]
  /\ transcription = NotTranscribing /\ result = NoTranscript
  /\ decisions = 0 /\ used = NoCapture /\ excused = {}
  /\ decision = [n \in DecisionId |-> [step |-> "idle", id |-> NoCapture]]
  /\ opened = [i \in CaptureId |-> 0]

Goes(step) == capture' = [capture EXCEPT !.step = step]
CaptureFree == capture.step = "idle"

(***************************************************************************)
(* The capture service.                                                    *)
(***************************************************************************)
\* A call is refused while one runs; else it takes the entry's lock.
CaptureAsked(talks) ==
  /\ CaptureFree /\ captures < MaxCaptures /\ captures + decisions < MaxCalls
  /\ captures' = captures + 1
  /\ capture' = [step |-> "checking", id |-> captures + 1, talks |-> talks]
  /\ UNCHANGED <<talkback, recorders, files, answered, unheard, analysisVars>>

\* The first status: the device is busy, cannot be asked, or the capture goes on.
CaptureChecked ==
  /\ capture.step = "checking"
  /\ Goes("idle") \/ (~capture.talks /\ Goes("preparing"))
  /\ UNCHANGED <<captures, talkback, recorders, files, answered, unheard, analysisVars>>

\* The call is answered first; the answer may fail, or be lost on its way back.
RingAnswered ==
  /\ capture.step = "checking" /\ capture.talks /\ answered' = capture.id
  /\ \/ Goes("preparing") /\ UNCHANGED unheard
     \/ Goes("idle") /\ unheard' = unheard \cup {capture.id}
  /\ UNCHANGED <<captures, talkback, recorders, files, analysisVars>>

\* A capture that talks records sound: ffmpeg opens the one WAV file.
Overwritten(i) == [files EXCEPT !.wav = IF recorders = {} THEN i ELSE NoCapture]

\* The answered media run; arguments, second status, RTSP probe, directories, codec; then both tasks start.
RecordingStarts ==
  LET i == capture.id IN
  /\ capture.step = "preparing" /\ Goes("recording")
  /\ recorders' = recorders \cup {i}
  /\ IF capture.talks
     THEN /\ talkback' = [talkback EXCEPT ![i] = "waiting"] /\ files' = Overwritten(i)
          /\ transcription' = IF transcription.step = "sourced"
                              THEN [transcription EXCEPT !.torn = TRUE] ELSE transcription
     ELSE UNCHANGED <<talkback, files, transcription>>
  /\ UNCHANGED <<captures, answered, unheard, result, decisions, decision, used, opened, excused>>

\* Any of these fails, or the answered call ends or is not ready within five seconds.
PrepareFails ==
  /\ capture.step = "preparing" /\ Goes("closing")
  /\ UNCHANGED <<captures, talkback, recorders, files, answered, unheard, analysisVars>>

\* ffmpeg has ended: with the clip, its frames and its WAV, or with an error or its timeout.
RecordingEnds ==
  /\ capture.step = "recording" /\ capture.id \in recorders
  /\ recorders' = recorders \ {capture.id}
  /\ Goes("settling") \/ Goes("closing")
  /\ UNCHANGED <<captures, talkback, files, answered, unheard, analysisVars>>

\* The talkback task failed: so does the capture.  Else it is stopped, and waited for two seconds.
TalkbackSettled ==
  LET i == capture.id IN
  /\ capture.step = "settling"
  /\ IF talkback[i] = "failed" THEN Goes("closing") /\ UNCHANGED talkback
     ELSE /\ Goes("writing")
          /\ talkback' = [talkback EXCEPT ![i] = IF @ = "waiting" THEN "ended" ELSE @]
  /\ UNCHANGED <<captures, recorders, files, answered, unheard, analysisVars>>

Described(i) == [files EXCEPT !.meta = i]

MetadataWritten ==
  /\ capture.step = "writing" /\ Goes("closing")
  /\ files' = Described(capture.id) \/ UNCHANGED files
  /\ UNCHANGED <<captures, talkback, recorders, answered, unheard, analysisVars>>

\* The caller is cancelled (a restarted script): ffmpeg is not killed with its task.
CaptureCancelled ==
  /\ capture.step \in {"preparing", "recording", "settling"}
  /\ Goes("closing")
  /\ UNCHANGED <<captures, talkback, recorders, files, answered, unheard, analysisVars>>

Records(i) == capture.id = i /\ capture.step = "recording"
OrphanEnds(i) ==
  /\ i \in recorders
  /\ ~Records(i)
  /\ recorders' = recorders \ {i}
  /\ UNCHANGED <<captures, capture, talkback, files, answered, unheard, analysisVars>>

\* The finally blocks: the talkback is told to stop, an answered call is hung up.
CaptureClosed ==
  LET i == capture.id IN
  /\ capture.step = "closing" /\ Goes("idle")
  /\ talkback' = [talkback EXCEPT ![i] = IF @ = "waiting" THEN "ended" ELSE @]
  /\ IF capture.talks THEN \/ answered' = NoCapture /\ UNCHANGED unheard
                           \/ unheard' = unheard \cup {i} /\ UNCHANGED answered
                      ELSE UNCHANGED <<answered, unheard>>
  /\ UNCHANGED <<captures, recorders, files, analysisVars>>

(***************************************************************************)
(* The talkback task waits for the call's sound; then its thread plays an  *)
(* announcement to its end, and silence until it is told to stop.          *)
(***************************************************************************)
StopOnSuccess(i) == capture.id = i /\ capture.step \in {"settling", "writing"}
StopSet(i) == ~Records(i)

TalkbackReady(i) ==
  /\ talkback[i] = "waiting"
  /\ \E next \in {"announcing", "keeping", "failed"}: talkback' = [talkback EXCEPT ![i] = next]
  /\ UNCHANGED <<captures, capture, recorders, files, answered, unheard, analysisVars>>
Announced(i) ==
  /\ talkback[i] = "announcing"
  /\ \E next \in {"keeping", "failed"}: talkback' = [talkback EXCEPT ![i] = next]
  /\ UNCHANGED <<captures, capture, recorders, files, answered, unheard, analysisVars>>
TalkbackEnds(i) ==
  /\ talkback[i] = "keeping" /\ StopSet(i)
  /\ talkback' = [talkback EXCEPT ![i] = "ended"]
  /\ UNCHANGED <<captures, capture, recorders, files, answered, unheard, analysisVars>>

(***************************************************************************)
(* The transcription names the capture of the metadata it read first.      *)
(***************************************************************************)
Sourced ==
  /\ transcription.step = "idle" /\ decisions < MaxDecisions
  /\ transcription' = [step |-> "sourced", id |-> files.meta, of |-> NoCapture,
                       torn |-> files.wav # files.meta]
  /\ UNCHANGED <<recordingVars, result, decisions, decision, used, opened, excused>>
AudioRead ==
  /\ transcription.step = "sourced"
  /\ transcription' = [transcription EXCEPT !.step = "sent", !.of = files.wav]
  /\ UNCHANGED <<recordingVars, result, decisions, decision, used, opened, excused>>
Transcribed ==
  /\ transcription.step = "sent" /\ transcription' = NotTranscribing
  /\ \/ result' = [id |-> transcription.id, of |-> transcription.of, torn |-> transcription.torn]
     \/ UNCHANGED result
  /\ UNCHANGED <<recordingVars, decisions, decision, used, opened, excused>>

(***************************************************************************)
(* A decision that asks for the capture unlocks at most once for it.       *)
(***************************************************************************)
ResultRead(n) ==
  /\ n = decisions + 1 /\ captures + decisions < MaxCalls /\ decisions' = n
  /\ decision' = [decision EXCEPT ![n] = [step |-> "read", id |-> result.id]]
  /\ UNCHANGED <<recordingVars, transcription, result, used, opened, excused>>

GuardedFresh(i) == i # NoCapture /\ files.meta = i
Guarded(i) == i # NoCapture /\ files.meta = i /\ used # i

Racing(n) == \E m \in DecisionId \ {n}:
  decision[m].id = decision[n].id /\ decision[m].step \in {"unlocking", "marking"}

DecisionTaken(n) ==
  /\ decision[n].step = "read"
  /\ \/ decision' = [decision EXCEPT ![n].step = "idle"] /\ UNCHANGED excused
     \/ /\ Guarded(decision[n].id)
        /\ decision' = [decision EXCEPT ![n].step = "unlocking"]
        /\ excused' = excused \cup (IF Racing(n) THEN {decision[n].id} ELSE {})
  /\ UNCHANGED <<recordingVars, transcription, result, decisions, used, opened>>

\* The call fails, or is served; then its answer may be lost, or its caller be cancelled, before the
\* capture is marked.
DoorUnlocked(n) ==
  LET i == decision[n].id
      Turns(step) == decision' = [decision EXCEPT ![n].step = step] IN
  /\ decision[n].step = "unlocking"
  /\ \/ Turns("idle") /\ UNCHANGED <<opened, excused>>
     \/ /\ opened' = [opened EXCEPT ![i] = @ + 1]
        /\ \/ Turns("marking") /\ UNCHANGED excused
           \/ Turns("idle") /\ excused' = excused \cup {i}
  /\ UNCHANGED <<recordingVars, transcription, result, decisions, used>>

\* The mark holds one capture: a slower decision for an earlier ring writes over it.
Unmarked(n) == {used} \cap ({files.meta} \ {decision[n].id})

MarkedUsed(n) ==
  /\ decision[n].step = "marking" /\ decision' = [decision EXCEPT ![n].step = "idle"]
  /\ \/ used' = decision[n].id /\ excused' = excused \cup Unmarked(n)
     \/ excused' = excused \cup {decision[n].id} /\ UNCHANGED used
  /\ UNCHANGED <<recordingVars, transcription, result, decisions, opened>>

CaptureStep ==
  \/ CaptureChecked \/ RingAnswered \/ RecordingStarts \/ PrepareFails
  \/ RecordingEnds \/ TalkbackSettled \/ MetadataWritten \/ CaptureClosed
TalkbackStep(i) == TalkbackReady(i) \/ Announced(i) \/ TalkbackEnds(i) \/ OrphanEnds(i)
CaptureNext ==
  \/ \E talks \in BOOLEAN: CaptureAsked(talks)
  \/ CaptureStep \/ CaptureCancelled
  \/ \E i \in CaptureId: TalkbackStep(i)
  \/ Sourced \/ AudioRead \/ Transcribed
  \/ \E n \in DecisionId: ResultRead(n) \/ DecisionTaken(n) \/ DoorUnlocked(n) \/ MarkedUsed(n)
CaptureSpec == CaptureInit /\ [][CaptureNext]_captureVars
               /\ WF_captureVars(CaptureStep)
               /\ \A i \in CaptureId: WF_captureVars(TalkbackStep(i))

\* A call that a capture answered is hung up by the time it ends, unless the device did not say
\* that it answered or did not take the hang-up.
HungUp ==
  answered # NoCapture /\ CaptureFree => answered \in unheard
\* A transcript is of the capture it names, unless the WAV belonged to another when the source was
\* chosen (a capture runs or has failed) or was overwritten before it was read.
OwnTranscript == result.id # NoCapture /\ ~result.torn => result.of = result.id
\* One capture unlocks once, unless two decisions race, an unlock was served and not answered for,
\* or its mark cannot be written or is overwritten while the capture is still the last one.
UnlocksOnce == \A i \in CaptureId: opened[i] <= 1 \/ i \in excused

\* Captures leave no answered call and no transcript of another ring behind,
\* and are used once (use_cases/ring_capture.py, ring_ai.py, ring_decision.py).
CapturesTrue == CaptureTypeOK /\ HungUp /\ OwnTranscript /\ UnlocksOnce

\* Every capture ends, and with it its recorder and its talkback thread, whatever failed.
AllIsOver == /\ CaptureFree /\ recorders = {}
             /\ \A i \in CaptureId: talkback[i] \in {"none", "failed", "ended"}
CapturesEnd == <>[]AllIsOver
==============================================================================
