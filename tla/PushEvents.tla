----------------------------- MODULE PushEvents -----------------------------
(***************************************************************************)
(* The event webhook of an entry and what reads it: the agent posts its    *)
(* events one after the other; a request picks the runtime's event state,  *)
(* awaits its body, writes the state and fires the bus event, which the    *)
(* event entity and the home-call sensor turn into their own state.  The   *)
(* event entity also shows what Home Assistant itself had the device do.   *)
(* Loading an entry takes several steps: the webhook and the runtime are   *)
(* live before the entities listen, and after they are gone.  Nothing      *)
(* reads these states back, so a lost post stays visible until the next    *)
(* event of its kind.                                                      *)
(***************************************************************************)
EXTENDS Naturals, Sequences

CONSTANTS MaxEvents, MaxReloads

ASSUME PushBounds == MaxEvents \in Nat /\ MaxReloads \in Nat

VARIABLES picture,   \* the device: whom its door video is for
          homeCall,  \* the device: the phase of its Home Call
          posts,     \* events the agent still has to post, in order
          request,   \* the webhook request whose body is awaited
          stage,     \* of loading: prepared, loaded, leaving or unloaded
          loaded,    \* the current runtime of the entry
          listed,    \* event types the agent offered to the entities
          heard,     \* event_state of each runtime
          sensor,    \* the home-call sensor
          shownEvent, \* what the event entity triggered last
          behind,    \* history: what missed a post, or was told otherwise
          posted     \* number of posts so far

pushVars == <<picture, homeCall, posts, request, stage, loaded, listed, heard, sensor, shownEvent,
              behind, posted>>

VideoEvent == {"doorbell_pressed", "doorbell_view_requested", "doorbell_media_closed"}
CallEvent == {"home_call_started", "home_call_answered", "home_call_ended"}
Event == VideoEvent \cup CallEvent \cup {"door_unlock_started", "memos_changed"}
Phase == {"idle", "ringing", "answered"}
Picture == {"off", "shown", "external"}

\* What an event is about, if it is about a state.
KindOf(e) == CASE e \in VideoEvent -> "video" [] e \in CallEvent -> "call" [] OTHER -> "other"
About(e) == {KindOf(e)} \cap {"video", "call"}

\* The video part of the payload, built when the event is posted.
Told(p) == [available |-> p = "shown", window |-> p = "shown", external |-> p = "external"]

\* Of an agent that answers; one that is offline offers none of these.
Offers == {Event, {}}

NoRequest == [event |-> "none", snapshot |-> FALSE, picture |-> "off", state |-> 0]
Unheard == [available |-> FALSE, window |-> FALSE, last |-> "none"]

PushInit ==
    /\ picture = "off"
    /\ homeCall = "idle"
    /\ posts = <<>>
    /\ request = NoRequest
    /\ stage = "prepared"
    /\ loaded = 1
    /\ listed \in Offers
    /\ heard = [r \in 1..(MaxReloads + 1) |-> Unheard]
    /\ sensor = "idle"
    /\ shownEvent = "none"
    /\ behind = {}
    /\ posted = 0

-----------------------------------------------------------------------------
(* The device and its agent.                                               *)

Posts(e, snapshot) ==
    /\ posted < MaxEvents
    /\ posted' = posted + 1
    /\ posts' = Append(posts, [event |-> e, snapshot |-> snapshot, picture |-> picture'])
    /\ UNCHANGED <<request, stage, loaded, listed, heard, sensor, shownEvent, behind>>

\* The picture may be for someone else, or missing while a Home Call runs.
RingOrView ==
    /\ picture' \in Picture
    /\ \E e \in {"doorbell_pressed", "doorbell_view_requested"} : Posts(e, FALSE)
    /\ UNCHANGED homeCall

MediaClosed ==
    /\ picture # "off" /\ picture' = "off"
    /\ Posts("doorbell_media_closed", FALSE)
    /\ UNCHANGED homeCall

HomeCallMoves ==
    /\ UNCHANGED picture
    /\ \/ homeCall = "idle" /\ homeCall' = "ringing" /\ Posts("home_call_started", FALSE)
       \/ homeCall = "ringing" /\ homeCall' = "answered" /\ Posts("home_call_answered", FALSE)
       \/ homeCall # "idle" /\ homeCall' = "idle" /\ Posts("home_call_ended", FALSE)

DoorUnlocks == /\ UNCHANGED <<picture, homeCall>>
               /\ Posts("door_unlock_started", FALSE)

(* A new subscription is greeted with a snapshot of the stored items.      *)
SnapshotPosted == UNCHANGED <<picture, homeCall>> /\ Posts("memos_changed", TRUE)

(* The agent's worker posts one at a time.  A post is lost: the callback   *)
(* was unregistered, Home Assistant does not answer, or it knows no such   *)
(* webhook, which it answers as if it did.                                 *)
PostLost ==
    /\ request = NoRequest /\ posts # <<>>
    /\ posts' = Tail(posts)
    /\ behind' = behind \cup About(Head(posts).event)
    /\ UNCHANGED <<picture, homeCall, request, stage, loaded, listed, heard, sensor, shownEvent, posted>>
-----------------------------------------------------------------------------
(* _async_handle_agent_event                                               *)

RequestTaken ==
    /\ request = NoRequest /\ posts # <<>>
    /\ stage # "unloaded"
    /\ request' = [event |-> Head(posts).event, snapshot |-> Head(posts).snapshot,
                   picture |-> Head(posts).picture, state |-> loaded]
    /\ posts' = Tail(posts)
    /\ UNCHANGED <<picture, homeCall, stage, loaded, listed, heard, sensor, shownEvent, behind, posted>>

(* The body is empty, too large or not JSON: 400 and nothing changes.      *)
BodyUnusable ==
    /\ request # NoRequest
    /\ request' = NoRequest
    /\ behind' = behind \cup About(request.event)
    /\ UNCHANGED <<picture, homeCall, posts, stage, loaded, listed, heard, sensor, shownEvent, posted>>

(* The state handlers of the event types.                                  *)
VideoAfter(state, e, told) ==
    CASE e \in {"doorbell_pressed", "doorbell_view_requested"} ->
           [state EXCEPT !.available = told.available /\ ~told.external,
                         !.window = told.window /\ ~told.external]
      [] e = "doorbell_media_closed" -> [state EXCEPT !.available = FALSE, !.window = FALSE]
      [] OTHER -> state

\* variant: a snapshot counts as the last event
CountsSnapshots(state, e, snapshot) == [state EXCEPT !.last = e]

(* A snapshot refreshes stored entities and fires no event.                *)
Noted(state, e, snapshot) ==
    IF snapshot THEN state
    ELSE [state EXCEPT !.last = e]

(* C300XHomeCallActiveBinarySensor._handle_agent_event                     *)
SensorAfter(e) ==
    CASE e = "home_call_started"  -> "ringing"
      [] e = "home_call_answered" -> "answered"
      [] e = "home_call_ended"    -> "idle"
      [] OTHER                    -> sensor

(* The entities hear the bus event, and have such an event.                *)
Listens(e) == stage = "loaded" /\ e \in listed

(* What an event leaves behind: the state it was written to is an old one, *)
(* or no entity heard it.                                                  *)
BehindAfter(e, snapshot, current) ==
    LET kept == CASE e \in VideoEvent -> current
                  [] e \in CallEvent -> Listens(e)
                  [] OTHER -> TRUE
        both == current /\ Listens(e)
        one == current # Listens(e)
        told == IF kept THEN behind \ About(e) ELSE behind \cup About(e)
    IN CASE snapshot -> told
         [] ~snapshot /\ both -> told \ {"last"}
         [] ~snapshot /\ one -> told \cup {"last"}
         [] OTHER -> told

BodyRead ==
    /\ request # NoRequest
    /\ LET e == request.event IN
         /\ heard' = [heard EXCEPT ![request.state] =
                        Noted(VideoAfter(@, e, Told(request.picture)), e, request.snapshot)]
         /\ IF ~request.snapshot /\ Listens(e)
            THEN sensor' = SensorAfter(e) /\ shownEvent' = e
            ELSE UNCHANGED <<sensor, shownEvent>>
         /\ behind' = BehindAfter(e, request.snapshot, request.state = loaded)
    /\ request' = NoRequest
    /\ UNCHANGED <<picture, homeCall, posts, stage, loaded, listed, posted>>

(* async_unlock_door: Home Assistant's own event of the door it unlocked,  *)
(* which the event entity takes for a door_unlock_started.                 *)
ActionFired ==
    /\ Listens("door_unlock_started")
    /\ shownEvent' = "door_unlock_started"
    /\ behind' = behind \cup {"last"}
    /\ UNCHANGED <<picture, homeCall, posts, request, stage, loaded, listed, heard, sensor, posted>>
-----------------------------------------------------------------------------
(* A reload.  A request that waits for its body goes on with the state it  *)
(* picked.                                                                 *)

\* async_unload_platforms: the entities go, and with them what they showed.
EntitiesRemoved ==
    /\ stage = "loaded" /\ loaded <= MaxReloads
    /\ stage' = "leaving"
    /\ sensor' = "idle"
    /\ shownEvent' = "none"
    /\ behind' = behind \cup {"last"} \cup (IF homeCall # "idle" THEN {"call"} ELSE {})
    /\ UNCHANGED <<picture, homeCall, posts, request, loaded, listed, heard, posted>>

WebhookRemoved ==
    /\ stage = "leaving"
    /\ stage' = "unloaded"
    /\ UNCHANGED <<picture, homeCall, posts, request, loaded, listed, heard, sensor, shownEvent,
                   behind, posted>>

\* async_register_callbacks and _store_runtime_data.
RuntimePrepared ==
    /\ stage = "unloaded"
    /\ stage' = "prepared"
    /\ loaded' = loaded + 1
    /\ listed' \in Offers
    /\ behind' = (behind \ {"last"}) \cup (IF picture = "shown" THEN {"video"} ELSE {})
    /\ UNCHANGED <<picture, homeCall, posts, request, heard, sensor, shownEvent, posted>>

\* async_forward_platforms.
EntitiesAdded ==
    /\ stage = "prepared"
    /\ stage' = "loaded"
    /\ UNCHANGED <<picture, homeCall, posts, request, loaded, listed, heard, sensor, shownEvent,
                   behind, posted>>

PushNext ==
    \/ RingOrView \/ MediaClosed \/ HomeCallMoves \/ DoorUnlocks \/ SnapshotPosted
    \/ PostLost
    \/ RequestTaken \/ BodyUnusable \/ BodyRead \/ ActionFired
    \/ EntitiesRemoved \/ WebhookRemoved \/ RuntimePrepared \/ EntitiesAdded

PushSpec == PushInit /\ [][PushNext]_pushVars
-----------------------------------------------------------------------------
PushTypeOK ==
    /\ picture \in Picture /\ homeCall \in Phase /\ sensor \in Phase
    /\ request.event \in Event \cup {"none"}
    /\ stage \in {"prepared", "loaded", "leaving", "unloaded"}
    /\ loaded \in 1..(MaxReloads + 1)

Delivered == posts = <<>> /\ request = NoRequest

(* Once everything posted was handled, what the event state and the sensor *)
(* say is what the device does, for every kind of state that missed no     *)
(* post and was not replaced while the device was in it.                   *)
PushedStateIsTrue ==
    Delivered =>
        /\ "video" \notin behind => /\ heard[loaded].available = (picture = "shown")
                                    /\ heard[loaded].window = (picture = "shown")
        /\ "call" \notin behind => sensor = homeCall

(* A snapshot is not an event: the event entity and the last event of the  *)
(* event state name the same post, unless the last was Home Assistant's    *)
(* own, or one of them alone took it: a post that a reload split or that   *)
(* came before the entity listened, or one the agent did not offer.        *)
OneLastEvent == "last" \notin behind => shownEvent = heard[loaded].last

PushedTrue == PushTypeOK /\ PushedStateIsTrue /\ OneLastEvent
=============================================================================
