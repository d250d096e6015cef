------------------------- MODULE DisplayNotifications -------------------------
(***************************************************************************)
(* custom_components/bticino_c300x/display_notifications.py: the messages  *)
(* Home Assistant shows on the display, a bounded queue with priorities    *)
(* and one expiry timer; and of runtime_manager.py the job that wakes the  *)
(* pages of the display when a message or an entity they show changes.     *)
(*                                                                         *)
(* Time is a clock that may run past a deadline before the timer fires.    *)
(* The budget for the JSON text of the queue is a weight per message.      *)
(***************************************************************************)
EXTENDS Naturals, FiniteSets, FiniteSetsExt, Functions

CONSTANTS Message,           \* notification ids
          MaxNotifications,  \* MAX_NOTIFICATIONS
          MaxWeight,         \* MAX_NOTIFICATION_BYTES
          Sample,            \* the kinds of message shown: [rank, weight, life]
          MaxShows,          \* bound on calls of show
          Horizon            \* bound on the clock

ASSUME NotificationAssumption ==
    /\ IsFiniteSet(Message)
    /\ MaxNotifications \in Nat \ {0} /\ MaxWeight \in Nat
    /\ Sample \subseteq [rank: 0 .. 2, weight: Nat, life: Nat \ {0}]
    /\ MaxShows \in Nat /\ Horizon \in Nat

VARIABLES
    items,     \* _items: what is shown, by id
    sequence,  \* _sequence
    expiry,    \* when _expiry fires; Never: it is None
    clock,     \* loop.time()
    closed,    \* the entry was unloaded
    busy,      \* ids with an action under way
    displayUp, \* connection_state.available
    wakeAsked, \* display_bridge_alarm_notify_pending
    dirty,     \* display_bridge_notify_dirty
    messages,  \* display_bridge_notify_messages
    job,       \* where _async_notify_display_bridge_alarm_if_listening is
    owed       \* history: a change no wake-up that began later has covered

queue == <<items, sequence, expiry>>
wakeup == <<wakeAsked, dirty, messages, job, owed>>
notificationVars == <<queue, clock, closed, busy, displayUp, wakeup>>

Never == Horizon + 1
Rank == 0 .. 2
Item == [rank: Rank, sequence: 1 .. MaxShows, weight: {s.weight : s \in Sample},
         deadline: 1 .. Horizon]

NotificationTypeOK ==
    /\ DOMAIN items \subseteq Message
    /\ \A k \in DOMAIN items : items[k] \in Item
    /\ sequence \in 0 .. MaxShows
    /\ expiry \in 1 .. Never
    /\ clock \in 0 .. Horizon
    /\ busy \subseteq Message
    /\ {closed, displayUp, wakeAsked, dirty, messages, owed} \subseteq BOOLEAN
    /\ job \in {"none", "waits", "posts"}

NotificationInit ==
    /\ items = << >> /\ sequence = 0 /\ expiry = Never
    /\ clock = 0
    /\ closed = FALSE
    /\ busy = {}
    /\ displayUp = TRUE
    /\ wakeAsked = FALSE /\ dirty = FALSE /\ messages = FALSE
    /\ job = "none" /\ owed = FALSE

-----------------------------------------------------------------------------
(* The queue.                                                               *)

Live == {k \in DOMAIN items : items[k].deadline > clock}
Weight(f) == MapThenSumSet(LAMBDA k : f[k].weight, DOMAIN f)
Fits(f) == Cardinality(DOMAIN f) <= MaxNotifications /\ Weight(f) <= MaxWeight

\* The order in which messages give way.
YoungFirst(a, b) == a.sequence > b.sequence  \* variant: the priority is ignored
GivesWay(a, b) == a.rank < b.rank \/ (a.rank = b.rank /\ a.sequence < b.sequence)

\* The loop of show: victims of no higher priority go, the first in that
\* order first, until the rest fits.
Victims(f, new) == {k \in DOMAIN f \ {new} : f[k].rank <= f[new].rank}
Without(f, out) == Restrict(f, DOMAIN f \ out)
Evictions(f, new) ==
    {out \in SUBSET Victims(f, new) :
        /\ Fits(Without(f, out))
        /\ \A k \in out, other \in Victims(f, new) \ out : GivesWay(f[k], f[other])}
Evicted(f, new) ==
    CHOOSE out \in Evictions(f, new) :
        \A smaller \in Evictions(f, new) : Cardinality(out) <= Cardinality(smaller)

\* _schedule: one timer, for the first deadline.
Scheduled(f) == IF DOMAIN f = {} THEN Never ELSE Min({f[k].deadline : k \in DOMAIN f})

\* _async_schedule_display_bridge_notify.
Schedule(isMessage) ==
    IF ~displayUp
    THEN UNCHANGED wakeup
    ELSE /\ dirty' = TRUE /\ owed' = TRUE
         /\ messages' = (messages \/ isMessage)
         /\ wakeAsked' = TRUE
         /\ job' = IF wakeAsked THEN job ELSE "waits"
Silent == UNCHANGED wakeup

\* show: what has expired is purged even when the message is then refused.
Show(k) ==
    /\ ~closed
    /\ sequence < MaxShows
    /\ \E s \in Sample :
          LET new == [rank |-> s.rank, sequence |-> sequence + 1, weight |-> s.weight,
                      deadline |-> clock + s.life]
              candidate == [j \in Live \cup {k} |-> IF j = k THEN new ELSE items[j]]
          IN  /\ clock + s.life <= Horizon
              /\ IF Evictions(candidate, k) = {}
                 THEN /\ items' = Restrict(items, Live)
                      /\ UNCHANGED <<sequence, expiry>>
                      /\ IF Live # DOMAIN items THEN Schedule(TRUE) ELSE Silent
                 ELSE /\ items' = Without(candidate, Evicted(candidate, k))
                      /\ sequence' = sequence + 1
                      /\ expiry' = Scheduled(items')
                      /\ Schedule(TRUE)
    /\ UNCHANGED <<clock, closed, busy, displayUp>>

Dismiss(k) ==
    /\ k \in DOMAIN items
    /\ items' = Restrict(items, DOMAIN items \ {k})
    /\ expiry' = Scheduled(items')
    /\ Schedule(TRUE)
    /\ UNCHANGED <<sequence, clock, closed, busy, displayUp>>

\* payload, read by the display: the timer is left as it is.
Purge ==
    /\ items' = Restrict(items, Live)
    /\ IF Live # DOMAIN items THEN Schedule(TRUE) ELSE Silent

PayloadRead ==
    /\ Live # DOMAIN items
    /\ Purge
    /\ UNCHANGED <<sequence, expiry, clock, closed, busy, displayUp>>

Expires ==
    /\ expiry <= clock
    /\ Purge
    /\ expiry' = Scheduled(items')
    /\ UNCHANGED <<sequence, clock, closed, busy, displayUp>>

\* async_notification_action: only for the revision that is shown, one at a
\* time for each id; no action dismisses the message.
ActionStarts(k) ==
    /\ k \in Live \ busy
    /\ busy' = busy \cup {k}
    /\ Purge
    /\ UNCHANGED <<sequence, expiry, clock, closed, displayUp>>

ActionEnds(k) ==
    /\ k \in busy
    /\ busy' = busy \ {k}
    /\ UNCHANGED <<queue, clock, closed, displayUp, wakeup>>

-----------------------------------------------------------------------------
(* The wake-up of the display.                                              *)

\* An entity on a page of the display changes: _async_track_display_bridge_updates.
EntityChanges ==
    /\ ~closed /\ displayUp
    /\ Schedule(FALSE)
    /\ UNCHANGED <<queue, clock, closed, busy, displayUp>>

\* After the pause the flags are read and the agent is called.
CallBegins ==
    /\ job = "waits" /\ ~closed
    /\ job' = "posts"
    /\ dirty' = FALSE /\ messages' = FALSE /\ owed' = FALSE
    /\ UNCHANGED <<queue, clock, closed, busy, displayUp, wakeAsked>>

ClearsDirty == wakeAsked' = FALSE /\ dirty' = FALSE
Finished == job' = "none" /\ ClearsDirty /\ owed' = FALSE /\ UNCHANGED messages

EndsUnseen == FALSE  \* variant: the job ends without looking at dirty again
DirtyAgain == dirty

CallSucceeds ==
    /\ job = "posts"
    /\ IF DirtyAgain
       THEN job' = "waits" /\ UNCHANGED <<wakeAsked, dirty, messages, owed>>
       ELSE job' = "none" /\ ClearsDirty /\ UNCHANGED <<messages, owed>>
    /\ UNCHANGED <<queue, clock, closed, busy, displayUp>>

\* The error ends the loop: what changed during the call is lost with it.
CallFails ==
    /\ job = "posts"
    /\ Finished
    /\ UNCHANGED <<queue, clock, closed, busy, displayUp>>

RuntimeGone ==
    /\ job # "none" /\ closed
    /\ Finished
    /\ UNCHANGED <<queue, clock, closed, busy, displayUp>>

-----------------------------------------------------------------------------
ConnectionChanges ==
    /\ ~closed
    /\ displayUp' = ~displayUp
    /\ UNCHANGED <<queue, clock, closed, busy, wakeup>>

Tick ==
    /\ clock < Horizon
    /\ clock' = clock + 1
    /\ UNCHANGED <<queue, closed, busy, displayUp, wakeup>>

\* close, and cleanup_entry_runtime_resources.
Close ==
    /\ ~closed
    /\ closed' = TRUE
    /\ items' = << >> /\ expiry' = Never
    /\ wakeAsked' = FALSE /\ dirty' = FALSE /\ owed' = FALSE
    /\ UNCHANGED <<sequence, clock, busy, displayUp, messages, job>>

WakeupStep == CallBegins \/ CallSucceeds \/ CallFails \/ RuntimeGone

NotificationNext ==
    \/ \E k \in Message : Show(k) \/ Dismiss(k) \/ ActionStarts(k) \/ ActionEnds(k)
    \/ PayloadRead \/ Expires \/ EntityChanges \/ WakeupStep
    \/ ConnectionChanges \/ Tick \/ Close

NotificationFairness == WF_notificationVars(WakeupStep) /\ WF_notificationVars(Expires)

NotificationSpec == NotificationInit /\ [][NotificationNext]_notificationVars /\ NotificationFairness

-----------------------------------------------------------------------------
(* The queue never outgrows its budget, and what it holds is covered by    *)
(* the timer: no message outlives its deadline for want of one.            *)
QueueCovered ==
    /\ Fits(items)
    /\ closed => items = << >>
    /\ \A k \in DOMAIN items : expiry <= items[k].deadline

(* A change the display was not yet woken for is always some job's: the    *)
(* flags that keep a second job from starting are set only while one runs. *)
JobCovers ==
    /\ ~closed => (wakeAsked <=> job # "none")
    /\ owed => wakeAsked /\ dirty

NotificationsConsistent == NotificationTypeOK /\ QueueCovered /\ JobCovers

(* A message never gives way to make room while one that should go before  *)
(* it stays: show and its loop, over any history of the queue.             *)
LowestGivesWay ==
    [][\A k \in Live, other \in DOMAIN items' \cap DOMAIN items :
          k \notin DOMAIN items' /\ sequence' > sequence
              => \/ items[k].rank < items[other].rank
                 \/ items[k].rank = items[other].rank /\ items[k].sequence < items[other].sequence
                 \/ items'[other] # items[other]
                 \/ \E n \in DOMAIN items' :
                       items'[n].sequence = sequence' /\ items[other].rank > items'[n].rank
      ]_notificationVars

(* Every change the agent could be told leads to a wake-up that begins     *)
(* after it, to an error, or to the end of the entry.                      *)
DisplayWakes == owed ~> ~owed
(* Queue, timer and wake-up job agree in every state, and the message that *)
(* gives way is the one that should.                                       *)
NotificationsKept == []NotificationsConsistent /\ LowestGivesWay
=============================================================================
