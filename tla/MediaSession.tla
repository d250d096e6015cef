------------------------------ MODULE MediaSession ------------------------------
(***************************************************************************)
(* The on-demand session of native_agent/src/media_bridge.c.  RTSP client  *)
(* threads start it with PLAY and stop it when the last of them leaves;    *)
(* the HTTP thread stops it, parks its viewers and resumes them; four      *)
(* worker threads carry it.  They share g_bridge under one mutex, which    *)
(* starting (SIP set-up) and stopping (joins) release in the middle.       *)
(*                                                                         *)
(* A start is known by its number, and so are its sockets and threads: the *)
(* bridge's descriptors and thread handles hold numbers, 0 for none.  Ring *)
(* and home calls, which use the same clients, are left out; so are audio  *)
(* and path compatibility, and the DESCRIBE and SETUP that precede PLAY: a *)
(* client they refuse leaves.                                              *)
(***************************************************************************)
EXTENDS Naturals, FiniteSets

CONSTANTS Client,    \* RTSP connections, each with its thread
          Http,      \* the thread that serves the API
          Capacity,  \* C300X_VIDEO_RING_PREVIEW_MAX_RTSP_CLIENTS
          MaxStarts  \* bound on the starts that get as far as their sockets

ASSUME MediaAssumption ==
    /\ IsFiniteSet(Client) /\ Http \notin Client
    /\ Capacity \in Nat \ {0} /\ MaxStarts \in Nat

Caller == Client \cup {Http}
Worker == {"relay", "monitor", "media", "talkback"}
Socket == {"rtp", "sip", "ports"}
Number == 1 .. MaxStarts
Handle == 0 .. MaxStarts

VARIABLES
    running, guard, stopping, active, starting,
    halt,      \* relay_stop, sip_stop, ondemand_media_stop, talkback_stop
    started,   \* the bridge's thread handles, 0 where the _started flag is off
    live,      \* the threads that have not ended
    fd,        \* the bridge's descriptors
    open,      \* the sockets that are open
    slots,     \* clients with a slot
    parked, played,
    owner,     \* clients whose thread has media_started set
    pc,        \* where each caller is
    then,      \* where a caller goes on after its stop
    number,    \* each caller's start
    ending,    \* what the stop in progress joins and closes
    shown,     \* video->call_active, what the status reports
    starts,    \* number of the last start
    races      \* history: the races that have happened

bridge == <<running, guard, stopping, active, starting, halt>>
threads == <<started, live>>
sockets == <<fd, open>>
clients == <<slots, parked, played, owner>>
calls == <<then, number, ending>>
vars == <<bridge, threads, sockets, clients, pc, calls, shown, starts, races>>

Race == {"overtaken",  \* a stop ran while a start was under way
         "rebuilt",    \* a start was made over what was left of a session
         "bystander",  \* the last owner left while only others were connected
         "abandoned",  \* viewers left between their unparking and the start
         "evicted",    \* a client lost its slot at its PLAY, or the last owner did
         "late"}       \* the status was set after the session had changed

TypeOK ==
    /\ running \in BOOLEAN /\ guard \in BOOLEAN /\ stopping \in BOOLEAN
    /\ active \in BOOLEAN /\ starting \in BOOLEAN
    /\ halt \in [Worker -> BOOLEAN] /\ started \in [Worker -> Handle]
    /\ live \in [Worker -> SUBSET Number]
    /\ fd \in [Socket -> Handle] /\ open \in [Socket -> SUBSET Number]
    /\ slots \subseteq Client /\ Cardinality(slots) <= Capacity
    /\ parked \subseteq slots /\ played \subseteq slots
    /\ owner \subseteq Client
    /\ pc \in [Caller -> {"out", "in", "start", "sip", "talk", "run", "report",
                          "played", "fail", "leave", "join", "finish", "stopped",
                          "idle", "keep", "resume", "repark", "close", "down"}]
    /\ then \in [Caller -> {"out", "leave", "idle", "repark", "down"}]
    /\ number \in [Caller -> Handle]
    /\ ending \in [join : [Worker -> Handle], sip : Handle]
    /\ shown \in BOOLEAN /\ starts \in Handle /\ races \subseteq Race

Nothing == [join |-> [w \in Worker |-> 0], sip |-> 0]

Init ==
    /\ running = TRUE /\ guard = FALSE /\ stopping = FALSE
    /\ active = FALSE /\ starting = FALSE
    /\ halt = [w \in Worker |-> FALSE] /\ started = [w \in Worker |-> 0]
    /\ live = [w \in Worker |-> {}]
    /\ fd = [s \in Socket |-> 0] /\ open = [s \in Socket |-> {}]
    /\ slots = {} /\ parked = {} /\ played = {} /\ owner = {}
    /\ pc = [p \in Caller |-> IF p = Http THEN "idle" ELSE "out"]
    /\ then = [p \in Caller |-> "idle"]
    /\ number = [p \in Caller |-> 0] /\ ending = Nothing
    /\ shown = FALSE /\ starts = 0 /\ races = {}

-----------------------------------------------------------------------------
(* What the operations share.                                               *)

Goto(p, where) == pc' = [pc EXCEPT ![p] = where]
Goes(p, from, to) == pc[p] = from /\ Goto(p, to)
Happened(race, when) == races' = races \cup {r \in {race} : when}

\* video->call_active is set outside the bridge's mutex; late says whether the
\* session has changed meanwhile.
Show(what, late) ==
    /\ shown' = what
    /\ races' = (races \ {"late"}) \cup {r \in {"late"} : late}

\* A start of p has its sockets and has not told the status of its success.
Starting(p) == pc[p] \in {"sip", "talk", "run", "fail"}

\* The test by which a stop finds that there is nothing to stop.
Idle ==
    /\ ~active /\ ~starting
    /\ \A w \in Worker : started[w] = 0
    /\ \A s \in Socket : fd[s] = 0

\* Clients that take up the session: a slot that is not parked.
LiveWithParked == slots  \* variant: parked clients count
Live == slots \ parked

CloseSocket(which) ==
    /\ open' = [s \in Socket |-> IF s \in which THEN open[s] \ {fd[s]} ELSE open[s]]
    /\ fd' = [s \in Socket |-> IF s \in which THEN 0 ELSE fd[s]]

-----------------------------------------------------------------------------
(* start_media_session.                                                     *)

StartFailed(p) == IF p = Http THEN "repark" ELSE "leave"
StartDone(p) == IF p = Http THEN "idle" ELSE "played"

Blocked == stopping \/ guard

StartRefused(p) ==
    /\ Blocked /\ Goes(p, "start", StartFailed(p))
    /\ UNCHANGED <<bridge, threads, sockets, clients, calls, shown, starts, races>>

\* Another caller's session, or its start under way, will do.
StartShared(p) ==
    /\ ~Blocked /\ (active \/ starting) /\ Goes(p, "start", StartDone(p))
    /\ UNCHANGED <<bridge, threads, sockets, clients, calls, shown, starts, races>>

NoSockets(p) ==
    /\ ~Blocked /\ ~active /\ ~starting /\ Goes(p, "start", "stopped")
    /\ halt' = [halt EXCEPT !["relay"] = FALSE]
    /\ then' = [then EXCEPT ![p] = StartFailed(p)]
    /\ UNCHANGED <<running, guard, stopping, active, starting, threads, sockets,
                   clients, number, ending, shown, starts, races>>

StartBegins(p) ==
    /\ ~Blocked /\ ~active /\ ~starting /\ Goes(p, "start", "sip")
    /\ starts < MaxStarts /\ starts' = starts + 1
    /\ starting' = TRUE
    /\ halt' = [halt EXCEPT !["relay"] = FALSE]
    /\ fd' = [fd EXCEPT !["rtp"] = starts']
    /\ open' = [open EXCEPT !["rtp"] = @ \cup {starts'}]
    /\ number' = [number EXCEPT ![p] = starts']
    /\ races' = races \cup {r \in {"rebuilt"} : ~Idle}
                      \cup {r \in {"abandoned"} : p = Http /\ owner \cap Live = {}}
    /\ UNCHANGED <<running, guard, stopping, active, threads, clients, then,
                   ending, shown>>

SipFails(p) ==
    /\ Goes(p, "sip", "fail")
    /\ UNCHANGED <<bridge, threads, sockets, clients, calls, shown, starts, races>>

Made(ok, p) == IF ok THEN number[p] ELSE 0

\* send_sip_setup has its answer.  It asks neither the guard nor for a stop.
SipOpens(p) ==
    \E made \in SUBSET {"monitor", "media"} :
        /\ Goes(p, "sip", IF made = {"monitor", "media"} THEN "talk" ELSE "fail")
        /\ fd' = [fd EXCEPT !["sip"] = number[p], !["ports"] = number[p]]
        /\ open' = [open EXCEPT !["sip"] = @ \cup {number[p]},
                                !["ports"] = @ \cup {number[p]}]
        /\ halt' = [halt EXCEPT !["monitor"] = FALSE, !["media"] = FALSE]
        /\ started' = [started EXCEPT !["monitor"] = Made("monitor" \in made, p),
                                      !["media"] = Made("media" \in made, p)]
        /\ live' = [w \in Worker |-> live[w] \cup {n \in {number[p]} : w \in made}]
        /\ UNCHANGED <<running, guard, stopping, active, starting, clients, calls,
                       shown, starts, races>>

\* start_talkback_proxy; its thread may find its port taken and end at once.
Talkback(p) ==
    /\ Goes(p, "talk", "run")
    /\ \/ started["talkback"] # 0 /\ UNCHANGED <<halt, threads>>
       \/ /\ started["talkback"] = 0
          /\ halt' = [halt EXCEPT !["talkback"] = FALSE]
          /\ \E bound \in BOOLEAN :
                /\ started' = [started EXCEPT !["talkback"] = Made(bound, p)]
                /\ live' = [live EXCEPT !["talkback"] = @ \cup {n \in {number[p]} : bound}]
    /\ UNCHANGED <<running, guard, stopping, active, starting, sockets, clients,
                   calls, shown, starts, races>>

\* The talkback thread cannot be made.
TalkbackFails(p) ==
    /\ Goes(p, "talk", "fail")
    /\ UNCHANGED <<bridge, threads, sockets, clients, calls, shown, starts, races>>

\* The takeover of bt_av fails: the talkback thread runs already.
TakeoverFails(p) ==
    /\ Goes(p, "run", "fail")
    /\ UNCHANGED <<bridge, threads, sockets, clients, calls, shown, starts, races>>

Runs(p) ==
    /\ active' = TRUE /\ starting' = FALSE
    /\ \E made \in BOOLEAN :
          /\ Goes(p, "run", IF made THEN "report" ELSE "fail")
          /\ started' = [started EXCEPT !["relay"] = Made(made, p)]
          /\ live' = [live EXCEPT !["relay"] = @ \cup {n \in {number[p]} : made}]
    /\ UNCHANGED <<running, guard, stopping, halt, sockets, clients, calls,
                   shown, starts, races>>

Reports(p) ==
    /\ Goes(p, "report", StartDone(p)) /\ number' = [number EXCEPT ![p] = 0]
    /\ Show(TRUE, Idle)
    /\ UNCHANGED <<bridge, threads, sockets, clients, then, ending, starts>>

-----------------------------------------------------------------------------
(* stop_media_session.                                                      *)

Park(explicit) == IF explicit THEN parked' = slots ELSE UNCHANGED parked

Told == [w \in Worker |-> TRUE]

\* The first locked part, for a caller that goes on at next afterwards.
StopBegins(p, close, explicit, next) ==
    /\ guard' = (guard \/ explicit)
    /\ then' = [then EXCEPT ![p] = next]
    /\ Park(close /\ explicit)
    /\ \/ /\ stopping \/ Idle
          /\ Goto(p, "stopped")
          /\ UNCHANGED <<stopping, halt, started, fd, ending, races>>
       \/ /\ ~stopping /\ ~Idle
          /\ Goto(p, "join")
          /\ stopping' = TRUE
          /\ halt' = Told
          /\ ending' = [join |-> started, sip |-> fd["sip"]]
          /\ started' = [started EXCEPT !["relay"] = 0, !["talkback"] = 0]
          /\ fd' = [fd EXCEPT !["sip"] = 0]
          /\ Happened("overtaken", \E q \in Caller \ {p} : Starting(q))
    /\ UNCHANGED <<running, active, starting, live, open, played, owner,
                   number, shown, starts>>

StopOfFailedStart(p) ==
    /\ pc[p] = "fail" /\ StopBegins(p, FALSE, FALSE, StartFailed(p))
    /\ UNCHANGED slots

Joined == \A w \in Worker : ending.join[w] \notin live[w]


\* The relay's handle is read when its turn comes: it differs from the one at
\* the beginning only if the stop has overtaken a start.
Joins(p) ==
    /\ Joined /\ Goes(p, "join", "finish")
    /\ open' = [open EXCEPT !["sip"] = @ \ {ending.sip}]
    /\ UNCHANGED <<bridge, threads, fd, clients, calls, shown, starts, races>>

Playing(c) == pc[c] \in {"start", "sip", "talk", "run", "report", "played"}

\* relay_stop keeps its value.
StopEnds(p) ==
    /\ Goes(p, "finish", "stopped")
    /\ active' = FALSE /\ starting' = FALSE /\ stopping' = FALSE
    /\ halt' = [w \in Worker |-> w = "relay" /\ halt[w]]
    /\ started' = [started EXCEPT !["monitor"] = 0, !["media"] = 0]
    /\ CloseSocket({"rtp", "ports"})
    /\ ending' = Nothing
    /\ races' = IF \E c \in Client \ slots : Playing(c)
                THEN races \ {"bystander", "abandoned"}
                ELSE races \ {"bystander", "abandoned", "evicted"}
    /\ UNCHANGED <<running, guard, live, clients, then, number, shown, starts>>


\* c300x_video_bridge_media_stopped, by every caller of a stop.
Stopped(p) ==
    /\ Goes(p, "stopped", then[p])
    /\ Show(FALSE, active)
    /\ owner' = IF then[p] = "out" THEN owner \ {p} ELSE owner
    /\ then' = [then EXCEPT ![p] = "idle"] /\ number' = [number EXCEPT ![p] = 0]
    /\ UNCHANGED <<bridge, threads, sockets, slots, parked, played, ending,
                   starts>>

-----------------------------------------------------------------------------
(* RTSP clients: handle_rtsp_client.                                        *)

\* The last owner of a session is among clients S that lose their slots.
Disowns(S) == ~Idle /\ S \cap owner # {} /\ owner \cap (slots \ S) = {}

\* A full table gives up a parked client, or the new one is turned away.
Connect(c) ==
    \E gone \in SUBSET parked :
        /\ running /\ Goes(c, "out", "in")
        /\ IF Cardinality(slots) >= Capacity THEN Cardinality(gone) = 1 ELSE gone = {}
        /\ slots' = (slots \ gone) \cup {c}
        /\ parked' = parked \ gone /\ played' = played \ gone
        /\ Happened("evicted", (\E p \in gone : pc[p] # "in") \/ Disowns(gone))
        /\ UNCHANGED <<bridge, threads, sockets, owner, calls, shown, starts>>

\* PLAY takes the client out of the parking place and starts the session; a
\* client without a slot is refused.
Play(c) ==
    /\ running /\ Goes(c, "in", IF c \in slots THEN "start" ELSE "leave")
    /\ parked' = parked \ {c} /\ played' = played \ {c}
    /\ UNCHANGED <<bridge, threads, sockets, slots, owner, calls, shown,
                   starts, races>>


Plays(c) ==
    /\ Goes(c, "played", "in")
    /\ owner' = owner \cup {c} /\ played' = played \cup (slots \cap {c})
    /\ UNCHANGED <<bridge, threads, sockets, slots, parked, calls, shown,
                   starts, races>>

\* What a client that leaves looks at: it stops the session if it was the last.
LeavesNobody(c) == Live \ {c} = {}
\* Others would keep the session, and none of them would stop it.
Bystanders(c) ==
    LET others == slots \ (parked \cup {c}) IN others # {} /\ others \cap owner = {}

\* The client tears down, disconnects, stays silent or is dropped.
Leave(c) ==
    /\ pc[c] \in {"in", "leave"}
    /\ slots' = slots \ {c}
    /\ IF c \in slots /\ c \in owner /\ LeavesNobody(c)
       THEN Goto(c, "close") /\ UNCHANGED <<owner, races>>
       ELSE /\ Goto(c, "out") /\ owner' = owner \ {c}
            /\ Happened("bystander", c \in slots /\ c \in owner /\ Bystanders(c))
    /\ parked' = parked \ {c} /\ played' = played \ {c}
    /\ UNCHANGED <<bridge, threads, sockets, calls, shown, starts>>

StopByLast(c) ==
    /\ c \in Client /\ pc[c] = "close" /\ StopBegins(c, TRUE, FALSE, "out")
    /\ UNCHANGED slots

-----------------------------------------------------------------------------
(* The HTTP thread: one request at a time, and the end of the agent.        *)

Quiet == UNCHANGED <<threads, sockets, slots, played, owner, calls, starts>>

\* c300x_video_activate: the guard goes, a session that runs is kept alive,
\* viewers that were parked are taken up again.
Activate ==
    /\ Goes(Http, "idle",
            IF active /\ ~starting /\ ~stopping THEN "keep" ELSE "resume")
    /\ guard' = FALSE
    /\ UNCHANGED <<running, stopping, active, starting, halt, parked, shown, races>>
    /\ Quiet

Kept ==
    /\ Goes(Http, "keep", "idle")
    /\ Show(TRUE, Idle)
    /\ UNCHANGED <<bridge, parked>> /\ Quiet

Resume ==
    /\ LET again == parked \cap played
           ready == ~stopping /\ ~active /\ ~starting /\ again # {}
       IN /\ Goes(Http, "resume", IF ready THEN "start" ELSE "idle")
          /\ parked' = IF ready THEN parked \ again ELSE parked
    /\ UNCHANGED <<bridge, shown, races>> /\ Quiet

Repark ==
    /\ Goes(Http, "repark", "idle") /\ parked' = slots
    /\ UNCHANGED <<bridge, shown, races>> /\ Quiet

Stop ==
    /\ pc[Http] = "idle" /\ StopBegins(Http, TRUE, TRUE, "idle")
    /\ UNCHANGED slots

\* c300x_media_bridge_stop waits for the clients' threads, then stops.
Shutdown ==
    /\ Goes(Http, "idle", "close")
    /\ running' = FALSE
    /\ UNCHANGED <<guard, stopping, active, starting, halt, threads, sockets,
                   slots, parked, played, owner, calls, shown, starts, races>>

StopAtShutdown ==
    /\ pc[Http] = "close" /\ \A c \in Client : pc[c] = "out"
    /\ StopBegins(Http, TRUE, TRUE, "down")
    /\ UNCHANGED slots

Down == pc[Http] = "down" /\ UNCHANGED vars

-----------------------------------------------------------------------------
(* Worker threads.                                                          *)

Ends(w, n) == live' = [live EXCEPT ![w] = @ \ {n}]

RelayStays(n) ==  \* variant: the thread ends with its socket only
    /\ n \in live["relay"] /\ fd["rtp"] = 0
    /\ Ends("relay", n) /\ CloseSocket({"rtp"}) /\ active' = FALSE
    /\ UNCHANGED <<running, guard, stopping, starting, halt, started,
                   clients, pc, calls, shown, starts, races>>

RelayEnds(n) ==
    /\ n \in live["relay"] /\ (halt["relay"] \/ fd["rtp"] = 0)
    /\ Ends("relay", n) /\ CloseSocket({"rtp"}) /\ active' = FALSE
    /\ UNCHANGED <<running, guard, stopping, starting, halt, started,
                   clients, pc, calls, shown, starts, races>>

\* It is told to end, has no socket, or its connection is lost.
MonitorEnds(n) ==
    /\ n \in live["monitor"]
    /\ Ends("monitor", n) /\ started' = [started EXCEPT !["monitor"] = 0]
    /\ UNCHANGED <<bridge, sockets, clients, pc, calls, shown, starts,
                   races>>

\* The door station hangs up: the relay is stopped and the clients are dropped.
Bye(n) ==
    /\ n \in live["monitor"] /\ ~halt["monitor"] /\ fd["sip"] # 0
    /\ Ends("monitor", n) /\ started' = [started EXCEPT !["monitor"] = 0]
    /\ halt' = [halt EXCEPT !["relay"] = TRUE]
    /\ UNCHANGED <<running, guard, stopping, active, starting, sockets,
                   slots, parked, played, owner, pc, calls, shown, starts, races>>

MediaEnds(n) ==
    /\ n \in live["media"] /\ (halt["media"] \/ halt["monitor"] \/ fd["ports"] = 0)
    /\ Ends("media", n) /\ started' = [started EXCEPT !["media"] = 0]
    /\ CloseSocket({"ports"})
    /\ UNCHANGED <<bridge, clients, pc, calls, shown, starts, races>>

TalkbackEnds(n) ==
    /\ n \in live["talkback"] /\ halt["talkback"]
    /\ Ends("talkback", n) /\ started' = [started EXCEPT !["talkback"] = 0]
    /\ UNCHANGED <<bridge, sockets, clients, pc, calls, shown, starts,
                   races>>

-----------------------------------------------------------------------------
Start(p) ==
    /\ pc[p] \in {"start", "sip", "talk", "run", "report"}
    /\ \/ StartRefused(p) \/ StartShared(p) \/ NoSockets(p) \/ StartBegins(p)
       \/ SipFails(p) \/ SipOpens(p) \/ Talkback(p) \/ TalkbackFails(p)
       \/ TakeoverFails(p) \/ Runs(p) \/ Reports(p)

Finish(p) ==
    /\ pc[p] \in {"fail", "join", "finish", "stopped"}
    /\ StopOfFailedStart(p) \/ Joins(p) \/ StopEnds(p) \/ Stopped(p)

\* What a client and the HTTP thread do next once they have begun.
Carry(p) ==
    \/ Start(p) \/ Finish(p)
    \/ p # Http /\ pc[p] \in {"played", "close"} /\ (Plays(p) \/ StopByLast(p))
    \/ /\ p = Http /\ pc[p] \in {"keep", "resume", "repark", "close"}
       /\ Kept \/ Resume \/ Repark \/ StopAtShutdown

WorkerEnds(n) ==
    RelayEnds(n) \/ MonitorEnds(n) \/ MediaEnds(n) \/ TalkbackEnds(n)

Next ==
    \/ \E p \in Caller : Carry(p)
    \/ \E c \in Client : Connect(c) \/ Play(c) \/ Leave(c)
    \/ Activate \/ Stop \/ Shutdown \/ Down
    \/ \E n \in Number : WorkerEnds(n) \/ Bye(n)

Spec == Init /\ [][Next]_vars

\* What was begun goes on: SIP has timeouts, and a client that was refused or
\* whose connection is shut down at the end leaves.  A worker that is told to
\* end, or has lost its socket, ends.  Nobody must connect, play, activate or
\* stop, and the door station need not hang up.
Fairness ==
    /\ \A p \in Caller : WF_vars(Carry(p))
    /\ \A c \in Client : WF_vars((~running \/ pc[c] = "leave") /\ Leave(c))
    /\ \A n \in Number :
          /\ WF_vars(RelayEnds(n)) /\ WF_vars(MediaEnds(n))
          /\ WF_vars(TalkbackEnds(n))
          /\ WF_vars((halt["monitor"] \/ fd["sip"] = 0) /\ MonitorEnds(n))

FairSpec == Spec /\ Fairness

-----------------------------------------------------------------------------
Without(r) == races \cap r = {}
\* A bound of runs whose properties are excused once a stop overtook a start.
NotOvertaken == Without({"overtaken"})

Settled == \A p \in Caller : pc[p] \in {"in", "out", "idle", "down"}

\* No socket and no thread gets out of the bridge's hands: each is the one its
\* field names or one that the stop in progress closes or joins, unless a stop
\* overtook a start or a start was made over the remains of a session.
Accounted ==
    Without({"overtaken", "rebuilt"}) =>
        /\ \A s \in Socket :
              open[s] \subseteq {fd[s]} \cup {n \in {ending.sip} : s = "sip"}
        /\ \A w \in Worker : live[w] \subseteq {started[w], ending.join[w]}

\* Once an explicit stop is through, nothing of the session is left until the
\* guard is cleared by an activation, unless the stop overtook a start.
StoppedIsIdle ==
    guard /\ ~stopping /\ Without({"overtaken"}) => Idle

\* A session has a client that will stop it when it leaves, whatever the order
\* of leaving, stopping and resuming, but for four races.
Owned ==
    Settled /\ ~Idle /\ Without({"overtaken", "bystander", "abandoned", "evicted"}) => owner \cap slots # {}

\* The status tells of media that runs, and of no other, unless it was set by
\* a caller that came late.
ShownTrue ==
    Settled /\ Without({"late", "overtaken"})
        => (shown => ~Idle) /\ (active => shown)

\* A stop gets through: its joins wait for threads that end, unless it ran
\* while a start was under way, which may take back the stop flags.
StopReturns == stopping ~> (~stopping \/ ~Without({"overtaken"}))

\* The end of the agent is not held up by clients or by the session.
ShutdownReturns == ~running ~> (pc[Http] = "down" \/ ~Without({"overtaken"}))

\* API.md:763 says that the stop action stops on-demand media: after an explicit
\* stop, and before another activation, there is no session.
StopLasts == guard /\ Settled => Idle

\* What g_bridge holds is what there is, an explicit stop leaves nothing, what
\* there is has an owner, and the status tells of it.
SessionTrue == Accounted /\ StoppedIsIdle /\ Owned /\ ShownTrue

\* Stopping and shutting down get through, in well-typed states only.
SessionEnds == []TypeOK /\ StopReturns /\ ShutdownReturns
=============================================================================
