----------------------------- MODULE CodecSelect -----------------------------
(***************************************************************************)
(* The audio codec select: a choice patches the configuration at once but  *)
(* the device runs it only after a restart.  Until then the entity shows   *)
(* the running codec, which the card and the ring capture key their gain   *)
(* on, and keeps the choice as pending; it resolves by reading again each  *)
(* time the connection state is signalled while the agent is reachable.    *)
(* A choice whose answer is lost is on the disk and pending nowhere.       *)
(* One choice is under way at a time.                                      *)
(***************************************************************************)
EXTENDS Naturals

CONSTANTS MaxChoices, MaxReboots, MaxFailures

ASSUME CodecBounds == {MaxChoices, MaxReboots, MaxFailures} \subseteq Nat

VARIABLES running, onDisk,   \* the device: codec it runs, codec it is set to
          newAgent,          \* the agent reports running and configured apart
          reachable,         \* connection_state.available
          codecShown,        \* _state
          pending, gap,      \* _pending_option, _seen_reboot_gap
          asked,             \* the choice under way, and the answer on its way
          resolving,         \* _resolving_pending and the answer on its way
          codecUp,           \* _attr_available
          published,         \* event_state.audio_codec
          crossed,           \* history: a choice crossed an answer already on its way
          lost,              \* history: the answer to a choice was lost, and no later
                             \* answer made up for it
          choices, reboots, failures

codecVars == <<running, onDisk, newAgent, reachable, codecShown, pending, gap, asked,
               resolving, codecUp, published, crossed, lost, choices, reboots, failures>>

Codec == {"speex", "pcmu"}
NoAnswer == [running |-> "unknown", onDisk |-> "unknown"]
Resolve == {"no", "sent", "answered"}
NoChoice == [step |-> "no", option |-> "none", restart |-> FALSE]
Choice == [step : {"no", "sent", "made"}, option : Codec \cup {"none"}, restart : BOOLEAN]

CodecInit ==
    /\ running \in Codec /\ onDisk = running
    /\ newAgent \in BOOLEAN
    /\ reachable = TRUE
    /\ codecShown = running            \* _async_refresh_initial_states
    /\ pending = "none" /\ gap = FALSE
    /\ asked = NoChoice
    /\ resolving = [step |-> "no", answer |-> NoAnswer]
    /\ codecUp = TRUE
    /\ published = running
    /\ crossed = FALSE /\ lost = FALSE
    /\ choices = 0 /\ reboots = 0 /\ failures = 0

Records(state) == published' = IF state \in Codec THEN state ELSE published

(* async_select_option.                                                    *)
ChoiceSent(c) ==
    /\ choices < MaxChoices
    /\ reachable /\ codecUp /\ asked = NoChoice
    /\ choices' = choices + 1
    /\ asked' = [NoChoice EXCEPT !.step = "sent", !.option = c]
    /\ UNCHANGED <<running, onDisk, newAgent, reachable, codecShown, pending, gap, resolving,
                   codecUp, published, crossed, lost, reboots, failures>>

\* apply or restore on the device.
ChoiceMade ==
    /\ asked.step = "sent"
    /\ onDisk' = asked.option
    /\ asked' = [asked EXCEPT !.step = "made", !.restart = asked.option # running]
    /\ UNCHANGED <<running, newAgent, reachable, codecShown, pending, gap, resolving, codecUp,
                   published, crossed, lost, choices, reboots, failures>>

\* The answer either stages the change or says that nothing has to restart.
ChoiceAnswered ==
    /\ asked.step = "made"
    /\ IF asked.restart
         THEN /\ pending' = asked.option /\ gap' = FALSE
              /\ UNCHANGED <<codecShown, published>>
         ELSE /\ pending' = "none" /\ gap' = FALSE
              /\ codecShown' = asked.option /\ Records(asked.option)
    /\ codecUp' = TRUE
    /\ asked' = NoChoice /\ lost' = FALSE
    /\ crossed' = (crossed \/ (resolving.step = "answered" /\ resolving.answer.onDisk # onDisk))
    /\ UNCHANGED <<running, onDisk, newAgent, reachable, resolving, choices, reboots, failures>>

\* It fails before it reaches the device, or its answer is lost: raised to the
\* caller, with nothing applied.
ChoiceFails ==
    /\ asked.step # "no"
    /\ failures < MaxFailures
    /\ failures' = failures + 1
    /\ lost' = (lost \/ asked.step = "made")
    /\ asked' = NoChoice
    /\ UNCHANGED <<running, onDisk, newAgent, reachable, codecShown, pending, gap, resolving,
                   codecUp, published, crossed, choices, reboots>>

(* _record_talkback_codec: a ring capture publishes what the agent reports, *)
(* an old one perhaps what is on disk.                                     *)
CaptureRecords ==
    /\ reachable
    /\ \/ Records(running)
       \/ ~newAgent /\ Records(onDisk)
    /\ UNCHANGED <<running, onDisk, newAgent, reachable, codecShown, pending, gap, asked, resolving,
                   codecUp, crossed, lost, choices, reboots, failures>>

ClearsPending(answer) ==
    /\ codecShown' = answer.onDisk
    /\ pending' = "none" /\ gap' = FALSE
    /\ Records(codecShown')
    /\ codecUp' = TRUE

(* _apply_status of one answer.                                            *)
Applies(answer) ==
    IF pending # "none" /\ ~gap /\ ~newAgent
      THEN codecUp' = TRUE /\ UNCHANGED <<codecShown, pending, gap, published>>
      ELSE /\ codecShown' = IF newAgent THEN answer.running ELSE answer.onDisk
           /\ pending' = IF answer.running # answer.onDisk THEN answer.onDisk ELSE "none"
           /\ gap' = FALSE
           /\ Records(codecShown')
           /\ codecUp' = TRUE

OnlyAfterGap ==
    IF pending = "none" THEN UNCHANGED <<gap, resolving>>
    ELSE IF ~reachable' THEN gap' = TRUE /\ UNCHANGED resolving
    ELSE /\ UNCHANGED gap
         /\ resolving' = IF resolving.step = "no" /\ gap THEN [resolving EXCEPT !.step = "sent"]
                         ELSE resolving

(* _handle_reboot_reconnect, on every SIGNAL_CONNECTION_STATE_CHANGED.     *)
OnSignal ==
    IF pending = "none" THEN UNCHANGED <<gap, resolving>>
    ELSE IF ~reachable' THEN gap' = TRUE /\ UNCHANGED resolving
    ELSE /\ UNCHANGED gap
         /\ resolving' = IF resolving.step = "no" THEN [resolving EXCEPT !.step = "sent"]
                         ELSE resolving

(* The registration is renewed, fails, or comes back; each one signals.    *)
Signal(up) ==
    /\ reachable' = up
    /\ ~up => failures < MaxFailures
    /\ failures' = IF up THEN failures ELSE failures + 1
    /\ OnSignal
    /\ UNCHANGED <<running, onDisk, newAgent, codecShown, pending, asked, codecUp, published,
                   crossed, lost, choices, reboots>>

(* The device restarts and adopts its configuration, often within the      *)
(* reconnect grace, so that the availability never changes.                *)
Reboots ==
    /\ reboots < MaxReboots
    /\ reboots' = reboots + 1
    /\ running' = onDisk
    /\ UNCHANGED <<onDisk, newAgent, reachable, codecShown, pending, gap, asked, resolving, codecUp,
                   published, crossed, lost, choices, failures>>

(* _async_resolve_pending: async_update between the two ends of the flag.  *)
CodecAnswered ==
    /\ resolving.step = "sent"
    /\ resolving' = [step |-> "answered", answer |-> [running |-> running, onDisk |-> onDisk]]
    /\ UNCHANGED <<running, onDisk, newAgent, reachable, codecShown, pending, gap, asked, codecUp,
                   published, crossed, lost, choices, reboots, failures>>

CodecFails ==
    /\ resolving.step = "sent"
    /\ failures < MaxFailures
    /\ failures' = failures + 1
    /\ resolving' = [resolving EXCEPT !.step = "no"]
    /\ codecUp' = FALSE
    /\ UNCHANGED <<running, onDisk, newAgent, reachable, codecShown, pending, gap, asked, published,
                   crossed, lost, choices, reboots>>

Resolved ==
    /\ resolving.step = "answered"
    /\ Applies(resolving.answer)
    /\ lost' = (lost /\ resolving.answer.onDisk # onDisk)
    /\ resolving' = [step |-> "no", answer |-> NoAnswer]
    /\ UNCHANGED <<running, onDisk, newAgent, reachable, asked, crossed, choices, reboots, failures>>

CodecNext ==
    \/ \E c \in Codec : ChoiceSent(c)
    \/ ChoiceMade \/ ChoiceAnswered \/ ChoiceFails \/ CaptureRecords
    \/ \E up \in BOOLEAN : Signal(up)
    \/ Reboots
    \/ CodecAnswered
    \/ CodecFails
    \/ Resolved

(* The registration renews itself for as long as the entry is set up, a    *)
(* request ends within its timeout, and a task whose request ended runs.  *)
CodecFairness ==
    /\ WF_codecVars(Signal(TRUE))
    /\ WF_codecVars(ChoiceMade) /\ WF_codecVars(ChoiceAnswered)
    /\ WF_codecVars(CodecAnswered)
    /\ WF_codecVars(Resolved)

CodecSpec == CodecInit /\ [][CodecNext]_codecVars /\ CodecFairness
-----------------------------------------------------------------------------
CodecTypeOK ==
    /\ {running, onDisk} \subseteq Codec
    /\ codecShown \in Codec /\ published \in Codec
    /\ pending \in Codec \cup {"none"}
    /\ asked \in Choice /\ resolving.step \in Resolve

(* With an agent that reports both codecs the entity never shows a codec   *)
(* the device was not running when it was asked: what it shows, and what   *)
(* the ring capture shares, is what runs until a restart.                  *)
ShowsRunning == newAgent /\ reboots = 0 => codecShown = running /\ published = running

(* A choice the device has not made is not forgotten: once it differs from *)
(* what is shown and nobody is asking, it is pending; unless its answer    *)
(* was lost and none made up for it.                                       *)
ChoiceIsPending ==
    newAgent /\ ~crossed /\ ~lost /\ codecShown # onDisk
        /\ asked.step # "made" /\ resolving.step # "answered" => pending = onDisk

CodecTrue == CodecTypeOK /\ ShowsRunning /\ ChoiceIsPending

(* Without a new choice or restart a pending change resolves: after the    *)
(* restart the entity ends up showing the codec that runs, and shares it,  *)
(* whether or not the outage was long enough to be seen, and whether or    *)
(* not a read fails; unless the answer to the choice was lost.             *)
PendingResolves ==
    newAgent => <>[]((codecShown = running /\ published = running) \/ running # onDisk \/ crossed \/ lost)

(* select.py: re-reading "never optimistically claims a switch the device  *)
(* did not make"; an agent that reports only its disk claims it after any  *)
(* outage, restarted or not.                                               *)
NeverClaims == [][codecShown' # codecShown => codecShown' = running']_codecVars
=============================================================================
