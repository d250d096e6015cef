------------------------------ MODULE RingerControl ------------------------------
(***************************************************************************)
(* native_agent/src/ringer_control.c with its callers in http.c and its    *)
(* counterpart device_qml/C300XRingerControl.qml: only the stock GUI may   *)
(* write the ringer's mute state, so the agent hands a command of an API   *)
(* client to the GUI's parked long poll, waits for the acknowledgment that *)
(* comes with the GUI's next request, reads the device back and, when the  *)
(* GUI has queued its write, waits on for the device's own announcement.   *)
(* The agent is one thread: each handler is one action.                    *)
(*                                                                         *)
(* A command's random identifier is the client that asked: both are used   *)
(* once.  A deadline that a handler finds expired is TimeOut followed by   *)
(* that handler.  The refusals (409, 500, 502, 503, 504) are one answer.   *)
(***************************************************************************)
EXTENDS Naturals, Sequences

CONSTANTS Client,       \* requests of API clients, each made once
          None,
          MaxAnnounced, \* bound on the announcements under way
          MaxReload,    \* bound on the reloads of the device's GUI
          MaxRestart    \* bound on the restarts of the agent

\* The connection of the GUI that is loaded, and one that a reload left behind.
Conn == {"gui", "ghost"}

ASSUME RingerAssumption ==
    /\ None \notin Client /\ None \notin Conn /\ None \notin BOOLEAN
    /\ MaxAnnounced \in Nat /\ MaxReload \in Nat /\ MaxRestart \in Nat

ConnState == [at: {"closed", "waiting", "held", "sent", "told"},
              id: Client \cup {None}, muted: BOOLEAN]
Closed == [at |-> "closed", id |-> None, muted |-> FALSE]
Retrying == [at |-> "waiting", id |-> None, muted |-> FALSE]  \* reconnect timer
Held == [at |-> "held", id |-> None, muted |-> FALSE]
Sent(c, m) == [at |-> "sent", id |-> c, muted |-> m]
Told(c, m) == [at |-> "told", id |-> c, muted |-> m]

VARIABLES
    conn,       \* the GUI's request: what has become of it and what it says
    gui,        \* gui_fd
    client,     \* client_fd; its deadline runs
    confirmed,  \* gui_confirmed
    id,         \* id of the last command
    want,       \* what each client asks: muted or not
    answer,     \* what each client has got
    known,      \* ringer_muted, None before the first observation
    device,     \* the device is muted
    announced,  \* the device's UDP announcements the agent has not read
    reported,   \* history: the last mute state published or answered with 200
    excused,    \* history: the agent kept a state to itself since then
    toGui,    \* history: commands after which the GUI had the wanted state
    reloads, restarts

control == <<gui, client, confirmed, id>>
view == <<known, reported, excused>>
counts == <<reloads, restarts>>
ringerVars == <<conn, gui, client, confirmed, id, want, answer, known, device,
          announced, reported, excused, toGui, reloads, restarts>>

RingerTypeOK ==
    /\ conn \in [Conn -> ConnState]
    /\ gui \in Conn \cup {None}
    /\ client \in Client \cup {None} /\ id \in Client \cup {None}
    /\ confirmed \in BOOLEAN
    /\ want \in [Client -> BOOLEAN]
    /\ answer \in [Client -> {"new", "open", "ok", "failed", "gone"}]
    /\ known \in BOOLEAN \cup {None} /\ device \in BOOLEAN
    /\ announced \in Seq(BOOLEAN) /\ Len(announced) <= MaxAnnounced
    /\ reported \in BOOLEAN /\ excused \in BOOLEAN
    /\ toGui \subseteq Client
    /\ reloads \in 0 .. MaxReload /\ restarts \in 0 .. MaxRestart

RingerInit ==
    /\ conn = [k \in Conn |-> Closed]
    /\ gui = None /\ client = None /\ confirmed = FALSE /\ id = None
    /\ want \in [Client -> BOOLEAN] /\ answer = [c \in Client |-> "new"]
    /\ known = None
    /\ device \in BOOLEAN /\ announced = <<>>
    /\ reported = device /\ excused = FALSE
    /\ toGui = {}
    /\ reloads = 0 /\ restarts = 0

-----------------------------------------------------------------------------
(* What the handlers share.                                                 *)

Finish == client' = None /\ confirmed' = FALSE /\ id' = None

Answer(c, what) == answer' = [answer EXCEPT ![c] = what]

\* A request of the GUI is refused or its connection closed: it will call
\* again, unless a reload has left it behind.
Refused(k) == [conn EXCEPT ![k] = IF k = "gui" THEN Retrying ELSE Closed]

Changed(m) == known # None /\ known # m

\* note_ringer_muted_changed and the event that follows a change.
Note(m) ==
    /\ known' = m
    /\ reported' = IF Changed(m) THEN m ELSE reported
    /\ excused' = IF Changed(m) THEN FALSE ELSE excused \/ known = None

ReadBackAgrees == device = want[client]

\* apply_gui_ringer_command: the device is read back.  The client is answered
\* unless the readback differs; a volume that the command carries may fail
\* after the mute state was published.
Apply(consumed) ==
    \/ /\ Answer(client, "failed") /\ Finish
       /\ excused' = (excused \/ consumed) /\ UNCHANGED <<known, reported>>
    \/ /\ ReadBackAgrees
       /\ known' = want[client] /\ reported' = want[client] /\ excused' = FALSE
       /\ Answer(client, "ok") /\ Finish
    \/ /\ ReadBackAgrees
       /\ Note(want[client])
       /\ Answer(client, "failed") /\ Finish
    \/ /\ ~ReadBackAgrees
       /\ confirmed' = TRUE
       /\ UNCHANGED <<client, id, answer>> /\ UNCHANGED view

-----------------------------------------------------------------------------
(* The API client's request.                                                *)

Ready == client = None /\ gui # None

\* c300x_ringer_control_request.
Request(c) ==
    /\ answer[c] = "new"
    /\ \/ \* busy, no GUI, or no random bytes for an identifier
          Answer(c, "failed") /\ UNCHANGED conn /\ UNCHANGED control
       \/ /\ Ready
          /\ gui' = None /\ id' = c /\ client' = c
          /\ conn' = [conn EXCEPT ![gui] =
                         IF gui = "gui" THEN Told(c, want[c]) ELSE Closed]
          /\ Answer(c, "open") /\ UNCHANGED confirmed
       \/ /\ Ready  \* the GUI's connection is broken
          /\ gui' = None /\ id' = c
          /\ conn' = Refused(gui)
          /\ Answer(c, "failed") /\ UNCHANGED <<client, confirmed>>
    /\ UNCHANGED <<want, device, announced, toGui>> /\ UNCHANGED view /\ UNCHANGED counts

\* c300x_ringer_control_expire, in every turn of the loop and every handler.
TimeOut ==
    /\ client # None
    /\ Answer(client, "failed") /\ Finish
    /\ UNCHANGED <<conn, gui, want, device, announced, toGui>>
    /\ UNCHANGED view /\ UNCHANGED counts

\* The client hangs up: handle_pollfds.
ClientGone ==
    /\ client # None
    /\ Answer(client, "gone") /\ Finish
    /\ UNCHANGED <<conn, gui, want, device, announced, toGui>>
    /\ UNCHANGED view /\ UNCHANGED counts

-----------------------------------------------------------------------------
(* The GUI's request: c300x_ringer_control_next.                            *)

AnyIdIsCurrent(c) == client = None \/ confirmed  \* variant: the id is not compared
Stale(c) == client = None \/ confirmed \/ c # id

\* variant: a connection that is parked is replaced
BusyWithCommand == client' # None /\ ~confirmed'
Busy == gui # None \/ (client' # None /\ ~confirmed')

ParkOrRefuse(k) ==
    IF Busy THEN conn' = Refused(k) /\ UNCHANGED gui
    ELSE conn' = [conn EXCEPT ![k] = Held] /\ gui' = k

NextCommand(k) ==
    /\ conn[k].at = "sent"
    /\ LET c == conn[k].id
       IN  \/ /\ c # None /\ Stale(c)
              /\ conn' = Refused(k)
              /\ UNCHANGED answer /\ UNCHANGED control /\ UNCHANGED view
           \/ /\ c # None /\ ~Stale(c) /\ conn[k].muted # want[client]
              /\ Answer(client, "failed") /\ Finish
              /\ ParkOrRefuse(k) /\ UNCHANGED view
           \/ /\ c # None /\ ~Stale(c) /\ conn[k].muted = want[client]
              /\ Apply(FALSE)
              /\ ParkOrRefuse(k)
           \/ /\ c = None
              /\ UNCHANGED <<client, confirmed, id, answer>> /\ UNCHANGED view
              /\ ParkOrRefuse(k)
    /\ UNCHANGED <<want, device, announced, toGui>> /\ UNCHANGED counts

\* handle_pollfds notices that a parked connection was closed.
GhostKept == UNCHANGED gui  \* variant: the descriptor stays
GhostDropped == gui' = None
ParkedGone ==
    /\ gui = "ghost"
    /\ GhostDropped
    /\ conn' = [conn EXCEPT !["ghost"] = Closed]
    /\ UNCHANGED <<client, confirmed, id, want, answer, device, announced, toGui>>
    /\ UNCHANGED view /\ UNCHANGED counts

-----------------------------------------------------------------------------
(* The device's announcements and reads.                                    *)

\* variant: while a command is confirmed every announcement is its own
ConfirmsAny(m) == client # None /\ confirmed
Confirms(m) == client # None /\ confirmed /\ m = want[client]

\* handle_udp_event: c300x_ringer_control_confirm consumes the announcement, or
\* map_openwebnet_event publishes a change - except a mute while a ring is
\* being answered.
Announcement ==
    /\ announced # <<>>
    /\ announced' = Tail(announced)
    /\ LET m == Head(announced)
       IN  \/ Confirms(m) /\ Apply(TRUE)
           \/ /\ ~Confirms(m)
              /\ Note(m) /\ UNCHANGED <<client, confirmed, id, answer>>
           \/ /\ ~Confirms(m) /\ m
              /\ excused' = TRUE
              /\ UNCHANGED <<known, reported, client, confirmed, id, answer>>
    /\ UNCHANGED <<conn, gui, want, device, toGui>> /\ UNCHANGED counts

\* handle_ringer_get: the state is remembered and nobody else is told.
ReadState ==
    /\ known' = device
    /\ excused' = (excused \/ known # device)
    /\ UNCHANGED <<conn, want, answer, device, announced, reported, toGui>>
    /\ UNCHANGED control /\ UNCHANGED counts

\* The agent ends and starts again: c300x_ringer_control_close, then init.
Restart ==
    /\ restarts < MaxRestart
    /\ restarts' = restarts + 1
    /\ IF client # None THEN Answer(client, "failed") ELSE UNCHANGED answer
    /\ Finish /\ gui' = None /\ known' = None /\ announced' = <<>>
    /\ conn' = [k \in Conn |-> IF k = "ghost" THEN Closed
                ELSE IF conn[k].at \in {"held", "sent"} THEN Retrying ELSE conn[k]]
    /\ excused' = (excused \/ announced # <<>>)
    /\ UNCHANGED <<want, device, reported, toGui, reloads>>

-----------------------------------------------------------------------------
(* The GUI (C300XRingerControl.qml) and the device.                         *)

agentVars == <<gui, client, confirmed, id, want, answer, known, reported, excused, restarts>>

\* Component.onCompleted, and the reconnect timer.
GuiCalls ==
    /\ conn["gui"].at \in {"closed", "waiting"}
    /\ conn' = [conn EXCEPT !["gui"] = Sent(None, FALSE)]
    /\ UNCHANGED <<device, announced, toGui, reloads>> /\ UNCHANGED agentVars

\* The command's answer: applied and acknowledged with the state that resulted,
\* or expired.
GuiApplies ==
    /\ conn["gui"].at = "told"
    /\ LET c == conn["gui"].id
       IN  \/ \E m \in BOOLEAN :
                 /\ conn' = [conn EXCEPT !["gui"] = Sent(c, m)]
                 /\ toGui' = IF m = conn["gui"].muted THEN toGui \cup {c} ELSE toGui
           \/ conn' = [conn EXCEPT !["gui"] = Retrying] /\ UNCHANGED toGui
    /\ UNCHANGED <<device, announced, reloads>> /\ UNCHANGED agentVars

\* Component.onDestruction aborts the request, which the agent may have still to
\* handle; one connection is left behind at a time.
GuiReload ==
    /\ reloads < MaxReload /\ reloads' = reloads + 1
    /\ conn["ghost"] = Closed /\ conn["gui"] # Closed
    /\ conn' = [conn EXCEPT !["gui"] = Closed,
                   !["ghost"] = IF conn["gui"].at \in {"held", "sent"} THEN conn["gui"] ELSE @]
    /\ gui' = IF gui = "gui" THEN "ghost" ELSE gui
    /\ UNCHANGED <<client, confirmed, id, want, answer, device, announced, toGui, restarts>>
    /\ UNCHANGED view

\* A write of the GUI, at once or from its timer, or the button on the device.
RingerChanges ==
    /\ Len(announced) < MaxAnnounced
    /\ device' = ~device
    /\ announced' = Append(announced, ~device)
    /\ UNCHANGED <<conn, toGui, reloads>> /\ UNCHANGED agentVars

RingerNext ==
    \/ \E c \in Client : Request(c)
    \/ \E k \in Conn : NextCommand(k)
    \/ TimeOut \/ ClientGone \/ ParkedGone
    \/ Announcement \/ ReadState \/ Restart
    \/ GuiCalls \/ GuiApplies \/ GuiReload \/ RingerChanges

RingerSpec == RingerInit /\ [][RingerNext]_ringerVars

\* The loop's timeout is the deadline, it reads what is ready, and the GUI's
\* timer and callbacks run.
FairRinger ==
    /\ RingerSpec
    /\ WF_ringerVars(TimeOut)
    /\ \A k \in Conn : WF_ringerVars(NextCommand(k))
    /\ WF_ringerVars(ParkedGone)
    /\ WF_ringerVars(GuiCalls) /\ WF_ringerVars(GuiApplies)

-----------------------------------------------------------------------------
(* Correctness.                                                             *)

\* A client is told that its command succeeded only in a moment in which the
\* device has the state it asked for, and only after the GUI itself had reached
\* that state for this very command: no late acknowledgment of another command,
\* of a GUI that is gone or of a timeout stands in for it.
TrueSuccess ==
    [][\A c \in Client : answer'[c] = "ok" /\ answer[c] # "ok" =>
           device = want[c] /\ c \in toGui]_ringerVars

\* What a client was answered is final: no acknowledgment, announcement or
\* deadline that comes later answers it again.
OneAnswer ==
    [][\A c \in Client : answer[c] \notin {"new", "open"} => answer'[c] = answer[c]]_ringerVars

\* The GUI waits for its answer without a timer of its own, so the agent must
\* still hold the connection it waits on.
NotForgotten == conn["gui"].at = "held" => gui = "gui"

\* Every client is answered, or has hung up.
AllAnswered == \A c \in Client : answer[c] = "open" ~> answer[c] # "open"

\* A GUI that calls can be reached again: whatever was refused, reloaded or
\* restarted, its connection is parked or a command is with it.
GuiReachable == conn["gui"].at # "closed" ~> (gui = "gui" \/ client # None)

\* When the device's announcements are read, the last state that was published
\* or answered is the device's, unless the agent kept a state to itself: the
\* first one it saw, one that a GET read first, a mute while a ring is answered,
\* and one whose readback failed.
ReportedOrExcused == announced = <<>> => reported = device \/ excused

\* A client's answer is true and final, the GUI is never left waiting, and
\* everybody else hears of the state the device came to.
RingerTrue ==
    [](RingerTypeOK /\ NotForgotten /\ ReportedOrExcused) /\ OneAnswer /\ TrueSuccess

\* Everybody is served: the client with an answer, the GUI with a connection.
RingerServes == AllAnswered /\ GuiReachable
=============================================================================
