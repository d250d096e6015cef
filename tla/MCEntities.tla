------------------------------ MODULE MCEntities ------------------------------
(* Entities of Home Assistant and the alarm and notifications of the display,*)
(* which share no state: a behaviour is one of one part, the others stay as  *)
(* they began.                                                               *)
EXTENDS StoredItems, DisplayNotifications, AlarmCommands, CodecSelect, SwitchEntities, PushEvents

VARIABLE part

\* A warning that is short-lived, one that is heavy, one that gives way first.
Samples == {[rank |-> 2, weight |-> 1, life |-> 1], [rank |-> 1, weight |-> 2, life |-> 2],
            [rank |-> 0, weight |-> 1, life |-> 2]}

EntitiesInit ==
    /\ part \in {"items", "notifications", "alarm", "codec", "switches", "push"}
    /\ ItemsInit /\ NotificationInit
    /\ AlarmInit /\ (part # "alarm" => panel = "disarmed" /\ ~exitDelay)
    /\ CodecInit /\ (part # "codec" => running = "pcmu" /\ ~newAgent)
    /\ SwitchInit /\ (part # "switches" => fitted = {"plain", "forward"} /\ device = [s \in Setting |-> FALSE])
    /\ PushInit /\ (part # "push" => listed = Event)

ItemsPart == /\ part = "items" /\ ItemsNext
             /\ UNCHANGED <<part, notificationVars, alarmVars, codecVars, switchVars, pushVars>>
NotificationsPart == /\ part = "notifications" /\ NotificationNext
                     /\ UNCHANGED <<part, itemVars, alarmVars, codecVars, switchVars, pushVars>>
AlarmPart == /\ part = "alarm" /\ AlarmNext
             /\ UNCHANGED <<part, itemVars, notificationVars, codecVars, switchVars, pushVars>>
CodecPart == /\ part = "codec" /\ CodecNext
             /\ UNCHANGED <<part, itemVars, notificationVars, alarmVars, switchVars, pushVars>>
SwitchesPart == /\ part = "switches" /\ SwitchNext
                /\ UNCHANGED <<part, itemVars, notificationVars, alarmVars, codecVars, pushVars>>
PushPart == /\ part = "push" /\ PushNext
            /\ UNCHANGED <<part, itemVars, notificationVars, alarmVars, codecVars, switchVars>>

EntitiesNext == ItemsPart \/ NotificationsPart \/ AlarmPart \/ CodecPart \/ SwitchesPart \/ PushPart

\* The fairness of each module, for the part that moves.
ItemsPartFairness ==
    /\ \A c \in Caller : /\ SF_itemVars(part = "items" /\ LockTaken(c))
                         /\ WF_itemVars(part = "items" /\ AgentLists(c))
    /\ WF_itemVars(part = "items" /\ Ends)
    /\ WF_itemVars(part = "items" /\ EventArrives)
    /\ WF_itemVars(part = "items" /\ FallsQuiet)
NotificationsPartFairness ==
    /\ WF_notificationVars(part = "notifications" /\ WakeupStep)
    /\ WF_notificationVars(part = "notifications" /\ Expires)
AlarmFairness ==
    /\ WF_alarmVars(part = "alarm" /\ (ServiceReturns \/ PanelRefuses))
    /\ WF_alarmVars(part = "alarm" /\ (Proven \/ NotProven))
CodecPartFairness ==
    /\ WF_codecVars(part = "codec" /\ Signal(TRUE))
    /\ WF_codecVars(part = "codec" /\ ChoiceMade)
    /\ WF_codecVars(part = "codec" /\ ChoiceAnswered)
    /\ WF_codecVars(part = "codec" /\ CodecAnswered)
    /\ WF_codecVars(part = "codec" /\ Resolved)

EntitiesSpec ==
    /\ EntitiesInit
    /\ [][EntitiesNext]_<<part, itemVars, notificationVars, alarmVars, codecVars, switchVars, pushVars>>
    /\ ItemsPartFairness /\ NotificationsPartFairness /\ AlarmFairness /\ CodecPartFairness

-----------------------------------------------------------------------------
(* The safety properties are those of the modules: a part that does not      *)
(* move keeps them as its initial state has them.  What must happen in the   *)
(* end is asked of the part that moves.                                      *)

\* The list catches up, the display is woken, a command is answered, and a
\* codec that was chosen is confirmed or given up.
ItemsCatchUp == part = "items" => CatchesUp
DisplayIsWoken == part = "notifications" => DisplayWakes
CommandIsAnswered == part = "alarm" => CommandAnswered
CodecResolves == part = "codec" => PendingResolves
=============================================================================
