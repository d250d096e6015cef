-------------------------- MODULE MediaSessionProofs --------------------------
(***************************************************************************)
(* Proofs about MediaSession, for any number of clients, of slots and of   *)
(* starts: what g_bridge holds is what there is, an explicit stop leaves   *)
(* nothing, what there is has an owner, and the status tells of it.        *)
(*                                                                         *)
(* The invariant says who has the bridge between two of a caller's steps:  *)
(* the stop in progress, and the start under way.  Each part is asked only *)
(* where the races that undo it have not happened.                         *)
(***************************************************************************)
EXTENDS MediaSession, FiniteSetTheorems, TLAPS

Stopping(p) == pc[p] \in {"join", "finish"}
Stops(p) == pc[p] \in {"join", "finish", "stopped"}

\* Where a caller can be, and where it can go on after a stop.
ClientPlace == {"out", "in", "start", "sip", "talk", "run", "report", "played",
                "fail", "leave", "join", "finish", "stopped", "close"}
HttpPlace == {"start", "sip", "talk", "run", "report", "fail", "join", "finish",
              "stopped", "idle", "keep", "resume", "repark", "close", "down"}
PlaceOf(p) == IF p = Http THEN HttpPlace ELSE ClientPlace
NextOf(p) == IF p = Http THEN {"repark", "idle", "down"} ELSE {"out", "leave"}
Nexts == {"out", "leave", "idle", "repark", "down"}

Typed ==
    /\ running \in BOOLEAN /\ guard \in BOOLEAN /\ stopping \in BOOLEAN
    /\ active \in BOOLEAN /\ starting \in BOOLEAN /\ shown \in BOOLEAN
    /\ halt \in [Worker -> BOOLEAN] /\ started \in [Worker -> Handle]
    /\ live \in [Worker -> SUBSET Number]
    /\ fd \in [Socket -> Handle] /\ open \in [Socket -> SUBSET Number]
    /\ slots \subseteq Client /\ parked \subseteq slots /\ played \subseteq slots
    /\ owner \subseteq Client
    /\ number \in [Caller -> Handle] /\ starts \in Handle
    /\ ending \in [join : [Worker -> Handle], sip : Handle]
    /\ races \subseteq Race

Placed ==
    /\ pc \in [Caller -> ClientPlace \cup HttpPlace] /\ then \in [Caller -> Nexts]
    /\ \A p \in Caller : /\ pc[p] \in PlaceOf(p)
                         /\ Stops(p) => then[p] \in NextOf(p)
                         /\ Starting(p) => number[p] # 0

\* A stop is in progress where a caller carries it, and only one does.
OneStop ==
    /\ stopping => \E p \in Caller : Stopping(p)
    /\ \A p \in Caller : Stopping(p) => stopping
    /\ \A p, q \in Caller : Stopping(p) /\ Stopping(q) => p = q
    /\ ~stopping => ending = Nothing

\* One caller starts, beside no stop, and has the flag until the relay runs.
OneStart ==
    /\ \A p, q \in Caller : Starting(p) /\ Starting(q) => p = q
    /\ \A p \in Caller :
          /\ Starting(p) => ~stopping
          /\ pc[p] \in {"sip", "talk", "run"} => starting /\ ~active
          /\ pc[p] = "fail" => starting \/ (active /\ live["relay"] = {})
          /\ pc[p] \in {"talk", "run"} => fd["sip"] # 0

\* One relay lives, and keeps the session active.
OneRelay ==
    /\ live["relay"] \subseteq {IF stopping THEN ending.join["relay"] ELSE started["relay"]}
    /\ live["relay"] # {} => active
    /\ \A p \in Caller : pc[p] = "finish" => live["relay"] = {}

\* What the stop in progress has taken from the bridge.
StopTakes ==
    stopping => /\ started["relay"] = 0 /\ started["talkback"] = 0 /\ fd["sip"] = 0
                /\ \A w \in Worker : started[w] \in {0, ending.join[w]}

\* A session is held by what no worker takes away at its end.
Held == ~stopping /\ ~Idle => starting \/ started["relay"] # 0 \/ fd["sip"] # 0

Guarded == guard /\ ~stopping => Idle

Orderly == OneStart /\ OneRelay /\ StopTakes /\ Held /\ Guarded

\* Accounted, and what a start finds and a stop leaves.
Counted ==
    /\ \A s \in Socket : open[s] \subseteq {fd[s]} \cup {n \in {ending.sip} : s = "sip"}
    /\ \A w \in Worker : live[w] \subseteq {started[w], ending.join[w]}
    /\ \A p \in Caller :
          /\ pc[p] = "sip" => /\ started["monitor"] = 0 /\ started["media"] = 0
                              /\ fd["sip"] = 0 /\ fd["ports"] = 0
          /\ pc[p] = "finish" => /\ \A w \in Worker : live[w] = {}
                                 /\ open["sip"] = {}

\* ShownTrue, while callers are on their way.
ShownSoon ==
    /\ shown => ~Idle \/ \E p \in Caller : Stops(p)
    /\ active /\ ~shown => \E p \in Caller : pc[p] \in {"report", "fail", "join", "finish"}

\* A client with a slot is in its loop, and one that plays has a slot.
Seated ==
    /\ \A c \in slots : pc[c] \notin {"out", "close"} /\ ~(Stops(c) /\ then[c] = "out")
    /\ "evicted" \notin races => \A c \in Client : Playing(c) => c \in slots

\* Owned, while callers are on their way.
OwnedSoon ==
    ~Idle => \/ stopping
             \/ owner \cap slots # {}
             \/ \E c \in slots : pc[c] \in {"sip", "talk", "run", "report", "played"}
             \/ \E p \in Caller : pc[p] = "fail"
             \/ \E c \in Client : pc[c] = "close"

InOrder == "overtaken" \notin races
Fresh == InOrder /\ "rebuilt" \notin races
InTime == InOrder /\ "late" \notin races
Kindly == InOrder /\ "bystander" \notin races /\ "abandoned" \notin races /\ "evicted" \notin races

SessionInv ==
    /\ Typed /\ Placed /\ OneStop /\ Seated
    /\ InOrder => Orderly
    /\ Fresh => Counted
    /\ InTime => ShownSoon
    /\ Kindly => OwnedSoon

-----------------------------------------------------------------------------
(* A caller's step.                                                         *)

\* The place of one caller changes, and of no other.
Moved(p, to) == pc'[p] = to /\ \A q \in Caller \ {p} : pc'[q] = pc[q]

\* The step of a caller to a place that is one of its own.
Steps(p, to) ==
    /\ Goto(p, to) /\ to \in PlaceOf(p) /\ then' \in [Caller -> Nexts]
    /\ \A q \in Caller \ {p} : then'[q] = then[q] /\ number'[q] = number[q]
    /\ to \in {"join", "finish", "stopped"} => then'[p] \in NextOf(p)
    /\ to \in {"sip", "talk", "run", "fail"} => number'[p] # 0

LEMMA StepsPlaced ==
  ASSUME Placed, NEW p \in Caller, NEW to, Steps(p, to)
  PROVE  Moved(p, to) /\ Placed'
<1>1. Moved(p, to) /\ pc' \in [Caller -> ClientPlace \cup HttpPlace]
  BY DEF Placed, Steps, Goto, Moved, PlaceOf
<1>2. ASSUME NEW q \in Caller
      PROVE  /\ pc'[q] \in PlaceOf(q)
             /\ pc'[q] \in {"join", "finish", "stopped"} => then'[q] \in NextOf(q)
             /\ pc'[q] \in {"sip", "talk", "run", "fail"} => number'[q] # 0
  <2>1. CASE q = p
    BY <1>1, <2>1 DEF Steps, Moved
  <2>2. CASE q # p
    BY <1>1, <2>2 DEF Steps, Moved, Placed, Stops, Starting
  <2> QED
    BY <2>1, <2>2
<1> QED
  BY <1>1, <1>2 DEF Placed, Steps, Stops, Starting

\* What a caller has of the bridge, apart from its place.
Bridge == <<stopping, active, starting, started, live, fd, open, ending>>
Aside(place) == place \notin {"sip", "talk", "run", "fail", "join", "finish"}

LEMMA StopFrame ==
  ASSUME OneStop, NEW p \in Caller, NEW to, Moved(p, to), UNCHANGED <<stopping, ending>>,
         Stopping(p) <=> to \in {"join", "finish"}
  PROVE  OneStop'
<1>1. \A q \in Caller : Stopping(q)' <=> Stopping(q)
  BY DEF Moved, Stopping
<1> QED
  BY <1>1 DEF OneStop, Nothing

LEMMA OrderFrame ==
  ASSUME Orderly, NEW p \in Caller, NEW to, Moved(p, to), UNCHANGED Bridge,
         Aside(pc[p]), Aside(to), guard' => guard \/ stopping \/ Idle
  PROVE  Orderly'
<1>0. UNCHANGED <<stopping, active, starting, started, live, fd, open, ending>>
  BY DEF Bridge
<1>1. Idle' <=> Idle
  BY <1>0 DEF Idle
<1>2. \A q \in Caller : /\ Starting(q)' => Starting(q) /\ pc'[q] = pc[q]
                        /\ pc'[q] = "finish" => pc[q] = "finish"
  BY DEF Moved, Starting, Aside
<1>3. OneStart'
  BY <1>0, <1>2 DEF OneStart, Orderly, Starting
<1>4. OneRelay'
  BY <1>0, <1>2 DEF OneRelay, Orderly
<1>5. StopTakes' /\ Held' /\ Guarded'
  BY <1>0, <1>1 DEF StopTakes, Held, Guarded, Orderly
<1> QED
  BY <1>3, <1>4, <1>5 DEF Orderly

LEMMA CountFrame ==
  ASSUME Counted, NEW p \in Caller, NEW to, Moved(p, to), UNCHANGED Bridge,
         to \notin {"sip", "finish"}
  PROVE  Counted'
<1>0. UNCHANGED <<started, live, fd, open, ending>>
  BY DEF Bridge
<1>1. \A q \in Caller : /\ pc'[q] = "sip" => pc[q] = "sip"
                        /\ pc'[q] = "finish" => pc[q] = "finish"
  BY DEF Moved
<1> QED
  BY <1>0, <1>1 DEF Counted

LEMMA ShownFrame ==
  ASSUME ShownSoon, NEW p \in Caller, NEW to, Moved(p, to), UNCHANGED shown, Idle' => Idle,
         active' => active \/ to \in {"report", "fail"},
         pc[p] \notin {"fail", "join", "finish", "stopped", "report"}
  PROVE  ShownSoon'
<1>1. \A q \in Caller : /\ Stops(q) => Stops(q)'
                        /\ pc[q] \in {"report", "fail", "join", "finish"}
                               => pc'[q] \in {"report", "fail", "join", "finish"}
  BY DEF Moved, Stops
<1> QED
  BY <1>1 DEF ShownSoon, Moved

LEMMA OwnedFrame ==
  ASSUME OwnedSoon, NEW p \in Caller, NEW to, Moved(p, to), UNCHANGED slots,
         owner \cap slots \subseteq owner', ~Idle' => ~Idle, stopping => stopping', slots \subseteq Client,
         pc[p] \in {"sip", "talk", "run", "report"}
             => to \in {"talk", "run", "report", "fail", "played"} \/ p \notin slots,
         pc[p] \notin {"fail", "played", "close"} \/ pc[p] = to \/ (p = Http /\ pc[p] = "close")
  PROVE  OwnedSoon'
<1>2. slots \subseteq Caller /\ Client \subseteq Caller /\ Http \notin Client
  BY MediaAssumption DEF Caller
<1>3. ASSUME NEW c \in slots, pc[c] \in {"sip", "talk", "run", "report", "played"}
      PROVE  pc'[c] \in {"sip", "talk", "run", "report", "played"} \/ pc'[c] = "fail"
  BY <1>2, <1>3 DEF Moved
<1>4. ASSUME NEW q \in Caller, pc[q] = "fail" PROVE pc'[q] = "fail"
  BY <1>4 DEF Moved
<1>5. ASSUME NEW c \in Client, pc[c] = "close" PROVE pc'[c] = "close"
  BY <1>2, <1>5 DEF Moved
<1> QED
  BY <1>2, <1>3, <1>4, <1>5 DEF OwnedSoon

LEMMA SeatFrame ==
  ASSUME Seated, NEW p \in Caller, NEW to, Steps(p, to), Moved(p, to), UNCHANGED slots,
         slots \subseteq Client, "evicted" \in races => "evicted" \in races',
         p \in slots => to \notin {"out", "close"},
         p \in slots /\ to \in {"join", "finish", "stopped"} => then'[p] # "out",
         to \in {"start", "sip", "talk", "run", "report", "played"} => Playing(p) \/ p \in slots \/ p = Http
  PROVE  Seated'
<1>1. slots \subseteq Caller /\ Client \subseteq Caller /\ Http \notin Client
  BY MediaAssumption DEF Caller
<1>2. ASSUME NEW c \in slots PROVE pc'[c] \notin {"out", "close"} /\ ~(Stops(c)' /\ then'[c] = "out")
  <2>1. CASE c = p
    BY <1>1, <2>1 DEF Moved, Stops
  <2>2. CASE c # p
    BY <1>1, <2>2 DEF Moved, Stops, Steps, Seated
  <2> QED
    BY <2>1, <2>2
<1>3. ASSUME "evicted" \notin races', NEW c \in Client, Playing(c)' PROVE c \in slots
  <2>1. CASE c = p
    BY <1>1, <1>3, <2>1 DEF Moved, Playing, Seated
  <2>2. CASE c # p
    BY <1>1, <1>3, <2>2 DEF Moved, Playing, Seated
  <2> QED
    BY <2>1, <2>2
<1> QED
  BY <1>2, <1>3 DEF Seated

\* A caller goes where it neither starts nor stops.
LEMMA AsideKeeps ==
  ASSUME SessionInv, NEW p \in Caller, NEW to, Steps(p, to), Typed',
         UNCHANGED Bridge, UNCHANGED <<slots, owner, shown, races>>, guard' => guard,
         Aside(pc[p]), Aside(to), pc[p] \notin {"stopped", "report", "played", "close"},
         p \in slots => to \notin {"out", "close"},
         p \in slots /\ to = "stopped" => then'[p] # "out",
         to \in {"start", "report", "played"} => Playing(p) \/ p \in slots \/ p = Http
  PROVE  SessionInv'
<1>1. Typed /\ Placed /\ OneStop /\ Seated
  BY DEF SessionInv
<1>2. Moved(p, to) /\ Placed'
  BY <1>1, StepsPlaced
<1>3. OneStop'
  BY <1>1, <1>2, StopFrame DEF Aside, Stopping, Bridge
<1>4. Seated'
  BY <1>1, <1>2, SeatFrame DEF Aside, Typed
<1>5. InOrder' => Orderly'
  BY <1>2, OrderFrame DEF SessionInv, InOrder
<1>6. Fresh' => Counted'
  BY <1>2, CountFrame DEF SessionInv, Fresh, InOrder, Aside
<1>9. (Idle' <=> Idle) /\ UNCHANGED <<stopping, active>>
  BY DEF Idle, Bridge
<1>7. InTime' => ShownSoon'
  BY <1>2, <1>9, ShownFrame DEF SessionInv, InTime, InOrder, Aside
<1>8. Kindly' => OwnedSoon'
  BY <1>1, <1>2, <1>9, OwnedFrame DEF SessionInv, Kindly, InOrder, Aside, Typed
<1> QED
  BY <1>1, <1>2, <1>3, <1>4, <1>5, <1>6, <1>7, <1>8 DEF SessionInv

-----------------------------------------------------------------------------
(* Steps that leave the session alone.                                      *)

\* A start is refused, or finds a session that will do, or gets no sockets.
LEMMA StartRefusedKeeps == ASSUME SessionInv, NEW p \in Caller, StartRefused(p) PROVE SessionInv'
<1>0. Typed /\ Placed /\ p \in Caller /\ Http \notin Client
  BY MediaAssumption DEF SessionInv, Caller
<1>1. /\ pc[p] = "start" /\ Goto(p, StartFailed(p))
      /\ UNCHANGED <<running, guard, stopping, active, starting, halt, started, live, fd,
                     open, slots, parked, played, owner, then, number, ending, shown,
                     starts, races>>
  BY DEF StartRefused, Goes, bridge, threads, sockets, clients, calls, Quiet
<1>2. Typed'
  BY <1>0, <1>1 DEF Typed
<1>3. Steps(p, StartFailed(p))
  BY <1>0, <1>1 DEF Steps, Placed, PlaceOf, NextOf, HttpPlace, ClientPlace, Nexts, StartFailed, StartDone
<1>4. UNCHANGED Bridge /\ UNCHANGED <<slots, owner, shown, races>>
  BY <1>1 DEF Bridge
<1> QED
  BY <1>0, <1>1, <1>2, <1>3, <1>4, AsideKeeps DEF Aside, Playing, StartFailed, StartDone, Typed

LEMMA StartSharedKeeps == ASSUME SessionInv, NEW p \in Caller, StartShared(p) PROVE SessionInv'
<1>0. Typed /\ Placed /\ p \in Caller /\ Http \notin Client
  BY MediaAssumption DEF SessionInv, Caller
<1>1. /\ pc[p] = "start" /\ Goto(p, StartDone(p))
      /\ UNCHANGED <<running, guard, stopping, active, starting, halt, started, live, fd,
                     open, slots, parked, played, owner, then, number, ending, shown,
                     starts, races>>
  BY DEF StartShared, Goes, bridge, threads, sockets, clients, calls, Quiet
<1>2. Typed'
  BY <1>0, <1>1 DEF Typed
<1>3. Steps(p, StartDone(p))
  BY <1>0, <1>1 DEF Steps, Placed, PlaceOf, NextOf, HttpPlace, ClientPlace, Nexts, StartFailed, StartDone
<1>4. UNCHANGED Bridge /\ UNCHANGED <<slots, owner, shown, races>>
  BY <1>1 DEF Bridge
<1> QED
  BY <1>0, <1>1, <1>2, <1>3, <1>4, AsideKeeps DEF Aside, Playing, StartFailed, StartDone, Typed

LEMMA NoSocketsKeeps == ASSUME SessionInv, NEW p \in Caller, NoSockets(p) PROVE SessionInv'
<1>0. Typed /\ Placed /\ p \in Caller /\ Http \notin Client
  BY MediaAssumption DEF SessionInv, Caller
<1>1. /\ pc[p] = "start" /\ Goto(p, "stopped")
      /\ UNCHANGED <<running, guard, stopping, active, starting, started, live, fd, open,
                     slots, parked, played, owner, number, ending, shown, starts, races>>
      /\ halt' = [halt EXCEPT !["relay"] = FALSE]
      /\ then' = [then EXCEPT ![p] = StartFailed(p)]
  BY DEF NoSockets, Goes, bridge, threads, sockets, clients, calls, Quiet
<1>2. Typed'
  BY <1>0, <1>1 DEF Typed
<1>3. Steps(p, "stopped")
  BY <1>0, <1>1 DEF Steps, Placed, PlaceOf, NextOf, HttpPlace, ClientPlace, Nexts, StartFailed, StartDone
<1>4. UNCHANGED Bridge /\ UNCHANGED <<slots, owner, shown, races>>
  BY <1>1 DEF Bridge
<1>5. then'[p] # "out"
  BY <1>0, <1>1 DEF Placed, StartFailed
<1> QED
  BY <1>0, <1>1, <1>2, <1>3, <1>4, <1>5, AsideKeeps DEF Aside, Playing, StartFailed, StartDone, Typed

\* A client plays; the HTTP thread activates, resumes, parks again and shuts down.
LEMMA PlayKeeps == ASSUME SessionInv, NEW c \in Client, Play(c) PROVE SessionInv'
<1>0. Typed /\ Placed /\ c \in Caller /\ Http \notin Client
  BY MediaAssumption DEF SessionInv, Caller
<1>1. /\ pc[c] = "in" /\ Goto(c, (IF c \in slots THEN "start" ELSE "leave"))
      /\ UNCHANGED <<running, guard, stopping, active, starting, halt, started, live, fd,
                     open, slots, owner, then, number, ending, shown, starts, races>>
      /\ parked' = parked \ {c} /\ played' = played \ {c}
  BY DEF Play, Goes, bridge, threads, sockets, clients, calls, Quiet
<1>2. Typed'
  BY <1>0, <1>1 DEF Typed
<1>3. Steps(c, (IF c \in slots THEN "start" ELSE "leave"))
  BY <1>0, <1>1 DEF Steps, Placed, PlaceOf, NextOf, HttpPlace, ClientPlace, Nexts, StartFailed, StartDone
<1>4. UNCHANGED Bridge /\ UNCHANGED <<slots, owner, shown, races>>
  BY <1>1 DEF Bridge
<1> QED
  BY <1>0, <1>1, <1>2, <1>3, <1>4, AsideKeeps DEF Aside, Playing, StartFailed, StartDone, Typed

LEMMA ActivateKeeps == ASSUME SessionInv, Activate PROVE SessionInv'
<1>0. Typed /\ Placed /\ Http \in Caller /\ Http \notin Client
  BY MediaAssumption DEF SessionInv, Caller
<1>1. /\ pc[Http] = "idle" /\ Goto(Http, (IF active /\ ~starting /\ ~stopping THEN "keep" ELSE "resume"))
      /\ UNCHANGED <<running, stopping, active, starting, halt, started, live, fd, open,
                     slots, parked, played, owner, then, number, ending, shown, starts,
                     races>>
      /\ guard' = FALSE
  BY DEF Activate, Goes, bridge, threads, sockets, clients, calls, Quiet
<1>2. Typed'
  BY <1>0, <1>1 DEF Typed
<1>3. Steps(Http, (IF active /\ ~starting /\ ~stopping THEN "keep" ELSE "resume"))
  BY <1>0, <1>1 DEF Steps, Placed, PlaceOf, NextOf, HttpPlace, ClientPlace, Nexts, StartFailed, StartDone
<1>4. UNCHANGED Bridge /\ UNCHANGED <<slots, owner, shown, races>>
  BY <1>1 DEF Bridge
<1> QED
  BY <1>0, <1>1, <1>2, <1>3, <1>4, AsideKeeps DEF Aside, Playing, StartFailed, StartDone, Typed

LEMMA ReparkKeeps == ASSUME SessionInv, Repark PROVE SessionInv'
<1>0. Typed /\ Placed /\ Http \in Caller /\ Http \notin Client
  BY MediaAssumption DEF SessionInv, Caller
<1>1. /\ pc[Http] = "repark" /\ Goto(Http, "idle")
      /\ UNCHANGED <<running, guard, stopping, active, starting, halt, started, live, fd,
                     open, slots, played, owner, then, number, ending, shown, starts, races>>
      /\ parked' = slots
  BY DEF Repark, Goes, bridge, threads, sockets, clients, calls, Quiet
<1>2. Typed'
  BY <1>0, <1>1 DEF Typed
<1>3. Steps(Http, "idle")
  BY <1>0, <1>1 DEF Steps, Placed, PlaceOf, NextOf, HttpPlace, ClientPlace, Nexts, StartFailed, StartDone
<1>4. UNCHANGED Bridge /\ UNCHANGED <<slots, owner, shown, races>>
  BY <1>1 DEF Bridge
<1> QED
  BY <1>0, <1>1, <1>2, <1>3, <1>4, AsideKeeps DEF Aside, Playing, StartFailed, StartDone, Typed

LEMMA ShutdownKeeps == ASSUME SessionInv, Shutdown PROVE SessionInv'
<1>0. Typed /\ Placed /\ Http \in Caller /\ Http \notin Client
  BY MediaAssumption DEF SessionInv, Caller
<1>1. /\ pc[Http] = "idle" /\ Goto(Http, "close")
      /\ UNCHANGED <<guard, stopping, active, starting, halt, started, live, fd, open,
                     slots, parked, played, owner, then, number, ending, shown, starts,
                     races>>
      /\ running' = FALSE
  BY DEF Shutdown, Goes, bridge, threads, sockets, clients, calls, Quiet
<1>2. Typed'
  BY <1>0, <1>1 DEF Typed
<1>3. Steps(Http, "close")
  BY <1>0, <1>1 DEF Steps, Placed, PlaceOf, NextOf, HttpPlace, ClientPlace, Nexts, StartFailed, StartDone
<1>4. UNCHANGED Bridge /\ UNCHANGED <<slots, owner, shown, races>>
  BY <1>1 DEF Bridge
<1> QED
  BY <1>0, <1>1, <1>2, <1>3, <1>4, AsideKeeps DEF Aside, Playing, StartFailed, StartDone, Typed
LEMMA ResumeKeeps == ASSUME SessionInv, Resume PROVE SessionInv'
<1>0. Typed /\ Placed /\ Http \in Caller /\ Http \notin Client
  BY MediaAssumption DEF SessionInv, Caller
<1>1. PICK to \in {"start", "idle"} :
         /\ pc[Http] = "resume" /\ Goto(Http, to) /\ parked' \subseteq parked
         /\ UNCHANGED <<running, guard, stopping, active, starting, halt, started, live,
                        fd, open, slots, played, owner, then, number, ending, shown,
                        starts, races>>
  BY DEF Resume, Goes, bridge, threads, sockets, clients, calls, Quiet
<1>2. Typed'
  BY <1>0, <1>1 DEF Typed
<1>3. Steps(Http, to)
  BY <1>0, <1>1 DEF Steps, Placed, PlaceOf, HttpPlace, Nexts
<1>4. UNCHANGED Bridge /\ UNCHANGED <<slots, owner, shown, races>>
  BY <1>1 DEF Bridge
<1> QED
  BY <1>0, <1>1, <1>2, <1>3, <1>4, AsideKeeps DEF Aside, Typed

-----------------------------------------------------------------------------
(* start_media_session.                                                     *)

\* A start under way goes on: what it says to the clients and to the status.
LEMMA StartKeeps ==
  ASSUME SessionInv, NEW p \in Caller, NEW to \in {"talk", "run", "fail", "report"},
         Steps(p, to), Typed', pc[p] \in {"sip", "talk", "run"},
         UNCHANGED <<stopping, ending, slots, owner, shown, races>>,
         InOrder => starting /\ ~Idle' /\ (active' => active \/ to \in {"report", "fail"}),
         InOrder => Orderly', Fresh => Counted'
  PROVE  SessionInv'
<1>1. Typed /\ Placed /\ OneStop /\ Seated
  BY DEF SessionInv
<1>2. Moved(p, to) /\ Placed'
  BY <1>1, StepsPlaced
<1>3. OneStop'
  BY <1>1, <1>2, StopFrame DEF Stopping
<1>4. Seated'
  BY <1>1, <1>2, SeatFrame DEF Playing, Typed
<1>5. InOrder => ~Idle
  BY DEF Idle
<1>6. InTime' => ShownSoon'
  BY <1>2, ShownFrame DEF SessionInv, InTime, InOrder
<1>7. Kindly' => OwnedSoon'
  BY <1>1, <1>2, <1>5, OwnedFrame DEF SessionInv, Kindly, InOrder, Typed
<1> QED
  BY <1>1, <1>2, <1>3, <1>4, <1>6, <1>7 DEF SessionInv, InOrder, Fresh

\* The start that is under way is in order before its relay is made.
LEMMA StartTurns ==
  ASSUME Orderly, NEW p \in Caller, NEW to \in {"talk", "run", "fail"}, Moved(p, to),
         pc[p] \in {"sip", "talk", "run"}, UNCHANGED <<stopping, active, starting, guard, ending>>,
         started'["relay"] = started["relay"], live'["relay"] = live["relay"],
         to # "fail" => fd'["sip"] # 0
  PROVE  Orderly' /\ starting /\ ~Idle'
<1>1. starting /\ ~active /\ ~stopping /\ \A q \in Caller : Starting(q) => q = p
  BY DEF Orderly, OneStart, Starting
<1>2. ~Idle /\ ~Idle'
  BY <1>1 DEF Idle
<1>3. \A q \in Caller : q # p => pc'[q] = pc[q] /\ pc[q] \notin {"sip", "talk", "run", "fail"}
  BY <1>1 DEF Moved, Starting
<1>4. OneStart'
  BY <1>1, <1>3 DEF Moved, Starting, OneStart
<1>5. OneRelay'
  BY <1>1, <1>3 DEF Moved, Orderly, OneRelay
<1>6. StopTakes' /\ Held' /\ Guarded'
  BY <1>1, <1>2 DEF Orderly, StopTakes, Held, Guarded
<1> QED
  BY <1>1, <1>2, <1>4, <1>5, <1>6 DEF Orderly

LEMMA SipFailsKeeps == ASSUME SessionInv, NEW p \in Caller, SipFails(p) PROVE SessionInv'
<1>0. Typed /\ Placed
  BY DEF SessionInv
<1>1. /\ pc[p] = "sip" /\ Goto(p, "fail")
      /\ UNCHANGED <<running, guard, stopping, active, starting, halt, started, live, fd,
                     open, slots, parked, played, owner, then, number, ending, shown,
                     starts, races>>
  BY DEF SipFails, Goes, bridge, threads, sockets, clients, calls
<1>2. Typed'
  BY <1>0, <1>1 DEF Typed
<1>3. Steps(p, "fail") /\ Moved(p, "fail")
  BY <1>0, <1>1, StepsPlaced DEF Steps, Placed, PlaceOf, HttpPlace, ClientPlace, Starting
<1>4. InOrder => Orderly' /\ starting /\ ~Idle'
  BY <1>1, <1>3, StartTurns DEF SessionInv
<1>5. Fresh => Counted'
  BY <1>1, <1>3, CountFrame DEF SessionInv, Bridge
<1> QED
  BY <1>1, <1>2, <1>3, <1>4, <1>5, StartKeeps

LEMMA TalkbackFailsKeeps == ASSUME SessionInv, NEW p \in Caller, TalkbackFails(p) PROVE SessionInv'
<1>0. Typed /\ Placed
  BY DEF SessionInv
<1>1. /\ pc[p] = "talk" /\ Goto(p, "fail")
      /\ UNCHANGED <<running, guard, stopping, active, starting, halt, started, live, fd,
                     open, slots, parked, played, owner, then, number, ending, shown,
                     starts, races>>
  BY DEF TalkbackFails, Goes, bridge, threads, sockets, clients, calls
<1>2. Typed'
  BY <1>0, <1>1 DEF Typed
<1>3. Steps(p, "fail") /\ Moved(p, "fail")
  BY <1>0, <1>1, StepsPlaced DEF Steps, Placed, PlaceOf, HttpPlace, ClientPlace, Starting
<1>4. InOrder => Orderly' /\ starting /\ ~Idle'
  BY <1>1, <1>3, StartTurns DEF SessionInv
<1>5. Fresh => Counted'
  BY <1>1, <1>3, CountFrame DEF SessionInv, Bridge
<1> QED
  BY <1>1, <1>2, <1>3, <1>4, <1>5, StartKeeps

LEMMA TakeoverFailsKeeps == ASSUME SessionInv, NEW p \in Caller, TakeoverFails(p) PROVE SessionInv'
<1>0. Typed /\ Placed
  BY DEF SessionInv
<1>1. /\ pc[p] = "run" /\ Goto(p, "fail")
      /\ UNCHANGED <<running, guard, stopping, active, starting, halt, started, live, fd,
                     open, slots, parked, played, owner, then, number, ending, shown,
                     starts, races>>
  BY DEF TakeoverFails, Goes, bridge, threads, sockets, clients, calls
<1>2. Typed'
  BY <1>0, <1>1 DEF Typed
<1>3. Steps(p, "fail") /\ Moved(p, "fail")
  BY <1>0, <1>1, StepsPlaced DEF Steps, Placed, PlaceOf, HttpPlace, ClientPlace, Starting
<1>4. InOrder => Orderly' /\ starting /\ ~Idle'
  BY <1>1, <1>3, StartTurns DEF SessionInv
<1>5. Fresh => Counted'
  BY <1>1, <1>3, CountFrame DEF SessionInv, Bridge
<1> QED
  BY <1>1, <1>2, <1>3, <1>4, <1>5, StartKeeps

LEMMA StartBeginsKeeps == ASSUME SessionInv, NEW p \in Caller, StartBegins(p) PROVE SessionInv'
<1>0. Typed /\ Placed /\ OneStop /\ Seated
  BY DEF SessionInv
<1>1. /\ pc[p] = "start" /\ Goto(p, "sip")
      /\ ~stopping /\ ~guard /\ ~active /\ ~starting /\ starting' = TRUE
      /\ starts' = starts + 1 /\ starts < MaxStarts
      /\ halt' = [halt EXCEPT !["relay"] = FALSE]
      /\ fd' = [fd EXCEPT !["rtp"] = starts']
      /\ open' = [open EXCEPT !["rtp"] = open["rtp"] \cup {starts'}]
      /\ number' = [number EXCEPT ![p] = starts']
      /\ UNCHANGED <<running, guard, stopping, active, started, live, slots, parked, played,
                     owner, then, ending, shown>>
  BY DEF StartBegins, Goes, Blocked, threads, clients
<1>2. /\ races \subseteq races' /\ races' \subseteq Race /\ ("late" \in races' => "late" \in races)
      /\ ~Idle => "rebuilt" \in races'
      /\ p = Http /\ owner \cap Live = {} => "abandoned" \in races'
  BY <1>0 DEF StartBegins, Typed, Race
<1>3. starts' \in Number /\ starts' # 0
  BY <1>0, <1>1, MediaAssumption DEF Typed, Number, Handle
<1>4. Typed'
  BY <1>0, <1>1, <1>2, <1>3 DEF Typed, Number, Handle, Socket, Worker
<1>5. number'[p] # 0
  BY <1>0, <1>1, <1>3 DEF Typed
<1>6. Steps(p, "sip")
  BY <1>0, <1>1, <1>5 DEF Steps, Placed, PlaceOf, HttpPlace, ClientPlace, Typed
<1>7. Moved(p, "sip") /\ Placed'
  BY <1>0, <1>6, StepsPlaced
<1>8. OneStop'
  BY <1>0, <1>1, <1>7, StopFrame DEF Stopping
<1>9. Seated'
  BY <1>0, <1>1, <1>2, <1>6, <1>7, SeatFrame DEF Typed, Playing
<1>10. ~Idle'
  BY <1>1 DEF Idle
<1>11. InOrder' => Orderly'
  <2> SUFFICES ASSUME InOrder' PROVE Orderly'
    OBVIOUS
  <2>1. Orderly
    BY <1>2 DEF InOrder, SessionInv
  <2>2. \A q \in Caller : q # p => pc'[q] = pc[q] /\ pc[q] \notin {"sip", "talk", "run", "fail"}
    BY <1>1, <1>7, <2>1 DEF Moved, Orderly, OneStart
  <2>3. OneStart'
    BY <1>1, <1>7, <2>2 DEF Moved, OneStart, Starting
  <2>4. OneRelay'
    BY <1>1, <1>7, <2>1 DEF Moved, Orderly, OneRelay
  <2>5. StopTakes' /\ Held' /\ Guarded'
    BY <1>1 DEF StopTakes, Held, Guarded
  <2> QED
    BY <2>3, <2>4, <2>5 DEF Orderly
<1>12. Fresh' => Counted'
  <2> SUFFICES ASSUME Fresh' PROVE Counted'
    OBVIOUS
  <2>1. Idle /\ Counted
    BY <1>2 DEF Fresh, InOrder, SessionInv
  <2>2. /\ \A s \in Socket : fd[s] = 0
        /\ \A w \in Worker : started[w] = 0
    BY <2>1 DEF Idle
  <2>3. /\ fd'["rtp"] = starts' /\ open'["rtp"] = open["rtp"] \cup {starts'}
        /\ \A s \in Socket \ {"rtp"} : fd'[s] = fd[s] /\ open'[s] = open[s]
    BY <1>0, <1>1 DEF Typed, Socket
  <2>4. open["rtp"] = {}
    BY <1>0, <2>1, <2>2 DEF Typed, Socket, Number, Counted
  <2>5. \A s \in Socket : open'[s] \subseteq {fd'[s]} \cup {n \in {ending'.sip} : s = "sip"}
    BY <1>1, <2>1, <2>3, <2>4 DEF Counted
  <2>6. ASSUME NEW q \in Caller
        PROVE  /\ pc'[q] = "sip" => /\ started'["monitor"] = 0 /\ started'["media"] = 0
                                    /\ fd'["sip"] = 0 /\ fd'["ports"] = 0
               /\ pc'[q] = "finish" => \A w \in Worker : live'[w] = {} /\ open'["sip"] = {}
    BY <1>1, <1>7, <2>1, <2>2, <2>3 DEF Moved, Counted, Worker, Socket
  <2> QED
    BY <1>1, <2>1, <2>5, <2>6 DEF Counted, Worker
<1>13. InTime' => ShownSoon'
  BY <1>1, <1>2, <1>7, <1>10, ShownFrame DEF SessionInv, InTime, InOrder
<1>14. Kindly' => OwnedSoon'
  <2> SUFFICES ASSUME Kindly' PROVE OwnedSoon'
    OBVIOUS
  <2>1. CASE p = Http
    BY <1>1, <1>2, <2>1 DEF Kindly, Live, OwnedSoon
  <2>2. CASE p # Http
    <3>1. p \in slots
      BY <1>0, <1>1, <1>2, <2>2 DEF Kindly, Seated, Playing, Caller
    <3> QED
      BY <1>1, <1>7, <3>1 DEF OwnedSoon, Moved
  <2> QED
    BY <2>1, <2>2
<1> QED
  BY <1>4, <1>7, <1>8, <1>9, <1>11, <1>12, <1>13, <1>14 DEF SessionInv

LEMMA SipOpensKeeps == ASSUME SessionInv, NEW p \in Caller, SipOpens(p) PROVE SessionInv'
<1>0. Typed /\ Placed /\ OneStop
  BY DEF SessionInv
<1>. DEFINE n == number[p]
<1>1. PICK made \in SUBSET {"monitor", "media"} :
         /\ pc[p] = "sip" /\ Goto(p, IF made = {"monitor", "media"} THEN "talk" ELSE "fail")
         /\ fd' = [fd EXCEPT !["sip"] = n, !["ports"] = n]
         /\ open' = [open EXCEPT !["sip"] = open["sip"] \cup {n}, !["ports"] = open["ports"] \cup {n}]
         /\ halt' = [halt EXCEPT !["monitor"] = FALSE, !["media"] = FALSE]
         /\ started' = [started EXCEPT !["monitor"] = Made("monitor" \in made, p),
                                       !["media"] = Made("media" \in made, p)]
         /\ live' = [w \in Worker |-> live[w] \cup {m \in {n} : w \in made}]
         /\ UNCHANGED <<running, guard, stopping, active, starting, slots, parked, played,
                        owner, then, number, ending, shown, starts, races>>
  BY DEF SipOpens, Goes, clients, calls
<1>. DEFINE to == IF made = {"monitor", "media"} THEN "talk" ELSE "fail"
<1>2. n \in Number /\ n # 0 /\ to \in {"talk", "fail"}
  BY <1>0, <1>1, MediaAssumption DEF Typed, Placed, Starting, Number, Handle
<1>3. /\ fd' \in [Socket -> Handle] /\ fd'["sip"] = n /\ fd'["ports"] = n /\ fd'["rtp"] = fd["rtp"]
      /\ open' \in [Socket -> SUBSET Number] /\ open'["rtp"] = open["rtp"]
      /\ open'["sip"] = open["sip"] \cup {n} /\ open'["ports"] = open["ports"] \cup {n}
  BY <1>0, <1>1, <1>2 DEF Typed, Socket, Number, Handle
<1>4. /\ started' \in [Worker -> Handle]
      /\ started'["relay"] = started["relay"] /\ started'["talkback"] = started["talkback"]
      /\ "monitor" \in made => started'["monitor"] = n
      /\ "media" \in made => started'["media"] = n
  <2>1. /\ Made("monitor" \in made, p) \in Handle /\ Made("media" \in made, p) \in Handle
        /\ "monitor" \in made => Made("monitor" \in made, p) = n
        /\ "media" \in made => Made("media" \in made, p) = n
    BY <1>2, MediaAssumption DEF Made, Number, Handle
  <2>2. started \in [Worker -> Handle]
    BY <1>0 DEF Typed
  <2>3. /\ started'["monitor"] = Made("monitor" \in made, p)
        /\ started'["media"] = Made("media" \in made, p)
        /\ \A w \in Worker \ {"monitor", "media"} : started'[w] = started[w]
        /\ started' = [w \in Worker |-> started'[w]]
    BY <1>1, <2>2 DEF Worker
  <2> QED
    BY <2>1, <2>2, <2>3 DEF Worker
<1>5. /\ live' \in [Worker -> SUBSET Number]
      /\ live'["relay"] = live["relay"] /\ live'["talkback"] = live["talkback"]
      /\ live'["monitor"] = live["monitor"] \cup {m \in {n} : "monitor" \in made}
      /\ live'["media"] = live["media"] \cup {m \in {n} : "media" \in made}
  BY <1>0, <1>1, <1>2 DEF Typed, Worker
<1>6. Typed'
  <2>1. halt' \in [Worker -> BOOLEAN]
    BY <1>0, <1>1 DEF Typed
  <2> QED
    BY <1>0, <1>1, <1>3, <1>4, <1>5, <2>1 DEF Typed
<1>7. Steps(p, to) /\ Moved(p, to)
  <2>1. Steps(p, to)
    BY <1>0, <1>1, <1>2 DEF Steps, Placed, PlaceOf, HttpPlace, ClientPlace
  <2> QED
    BY <1>0, <2>1, StepsPlaced
<1> HIDE DEF to, n
<1>8. InOrder => Orderly' /\ starting /\ ~Idle'
  <2>1. pc[p] \in {"sip", "talk"} /\ UNCHANGED <<stopping, active, starting, guard, ending>>
    BY <1>1
  <2>2. /\ started'["relay"] = started["relay"] /\ live'["relay"] = live["relay"]
        /\ fd'["sip"] # 0 /\ to \in {"talk", "run", "fail"}
    BY <1>2, <1>3, <1>4, <1>5
  <2> QED
    BY <1>7, <2>1, <2>2, StartTurns DEF SessionInv
<1>9. Fresh => Counted'
  <2> SUFFICES ASSUME Fresh PROVE Counted'
    OBVIOUS
  <2>1. Counted /\ ~stopping
    BY <1>1 DEF Fresh, InOrder, SessionInv, Orderly, OneStart, Starting
  <2>2. /\ ending.sip = 0 /\ \A w \in Worker : ending.join[w] = 0
    BY <1>0, <2>1 DEF OneStop, Nothing
  <2>3. /\ fd["sip"] = 0 /\ fd["ports"] = 0 /\ started["monitor"] = 0 /\ started["media"] = 0
    BY <1>1, <2>1 DEF Counted
  <2>4. open["sip"] = {} /\ open["ports"] = {} /\ live["monitor"] = {} /\ live["media"] = {}
    BY <1>0, <2>1, <2>2, <2>3 DEF Counted, Typed, Socket, Worker, Number
  <2>5. \A s \in Socket : open'[s] \subseteq {fd'[s]} \cup {m \in {ending'.sip} : s = "sip"}
    <3>1. open'["rtp"] \subseteq {fd'["rtp"]}
      BY <1>3, <2>1 DEF Counted, Socket
    <3> QED
      BY <1>3, <2>4, <3>1 DEF Socket
  <2>6. \A w \in Worker : live'[w] \subseteq {started'[w], ending'.join[w]}
    <3>1. /\ live'["relay"] \subseteq {started'["relay"], ending'.join["relay"]}
          /\ live'["talkback"] \subseteq {started'["talkback"], ending'.join["talkback"]}
      BY <1>1, <1>4, <1>5, <2>1 DEF Counted, Worker
    <3>2. /\ live'["monitor"] \subseteq {started'["monitor"]}
          /\ live'["media"] \subseteq {started'["media"]}
      BY <1>4, <1>5, <2>4
    <3> QED
      BY <3>1, <3>2 DEF Worker
  <2>7. \A q \in Caller : pc'[q] \notin {"sip", "finish"}
    BY <1>0, <1>1, <1>2, <1>7, <2>1 DEF Moved, Fresh, InOrder, SessionInv, Orderly, OneStart, Starting,
                                       OneStop, Stopping
  <2> QED
    BY <2>5, <2>6, <2>7 DEF Counted
<1>10. active' => active
  BY <1>1
<1> QED
  BY <1>1, <1>2, <1>6, <1>7, <1>8, <1>9, <1>10, StartKeeps

LEMMA TalkbackKeeps == ASSUME SessionInv, NEW p \in Caller, Talkback(p) PROVE SessionInv'
<1>0. Typed /\ Placed /\ OneStop
  BY DEF SessionInv
<1>. DEFINE n == number[p]
<1>1. /\ pc[p] = "talk" /\ Goto(p, "run")
      /\ UNCHANGED <<running, guard, stopping, active, starting, fd, open, slots, parked,
                     played, owner, then, number, ending, shown, starts, races>>
  BY DEF Talkback, Goes, sockets, clients, calls
<1>2. n \in Number /\ n # 0
  BY <1>0, <1>1, MediaAssumption DEF Typed, Placed, Starting, Number, Handle
<1>3. /\ halt' \in [Worker -> BOOLEAN] /\ started' \in [Worker -> Handle]
      /\ live' \in [Worker -> SUBSET Number]
      /\ \A w \in Worker \ {"talkback"} : started'[w] = started[w] /\ live'[w] = live[w]
      /\ \/ started'["talkback"] = started["talkback"] /\ live'["talkback"] = live["talkback"]
         \/ /\ started["talkback"] = 0 /\ started'["talkback"] \in {0, n}
            /\ live'["talkback"] \subseteq live["talkback"] \cup ({started'["talkback"]} \ {0})
  <2>1. CASE UNCHANGED <<halt, threads>>
    BY <1>0, <2>1 DEF Typed, threads
  <2>2. CASE started["talkback"] = 0 /\ ~UNCHANGED <<halt, threads>>
    <3>1. PICK bound \in BOOLEAN :
             /\ halt' = [halt EXCEPT !["talkback"] = FALSE]
             /\ started' = [started EXCEPT !["talkback"] = Made(bound, p)]
             /\ live' = [live EXCEPT !["talkback"] = live["talkback"] \cup {m \in {n} : bound}]
      BY <2>2 DEF Talkback
    <3>2. halt' \in [Worker -> BOOLEAN]
      BY <1>0, <3>1 DEF Typed
    <3>3. /\ started' \in [Worker -> Handle] /\ started'["talkback"] = Made(bound, p)
          /\ \A w \in Worker \ {"talkback"} : started'[w] = started[w]
      <4>1. Made(bound, p) \in Handle /\ started \in [Worker -> Handle]
        BY <1>0, <1>2, MediaAssumption DEF Made, Handle, Number, Typed
      <4> QED
        BY <3>1, <4>1 DEF Worker
    <3>4. /\ live' \in [Worker -> SUBSET Number]
          /\ live'["talkback"] = live["talkback"] \cup {m \in {n} : bound}
          /\ \A w \in Worker \ {"talkback"} : live'[w] = live[w]
      BY <1>0, <1>2, <3>1 DEF Typed, Worker
    <3> QED
      BY <1>2, <2>2, <3>2, <3>3, <3>4 DEF Made
  <2> QED
    BY <2>1, <2>2 DEF Talkback
<1>4. Typed'
  BY <1>0, <1>1, <1>3 DEF Typed
<1>5. Steps(p, "run") /\ Moved(p, "run")
  <2>1. Steps(p, "run")
    BY <1>0, <1>1, <1>2 DEF Steps, Placed, PlaceOf, HttpPlace, ClientPlace
  <2> QED
    BY <1>0, <2>1, StepsPlaced
<1>6. InOrder => Orderly' /\ starting /\ ~Idle'
  <2> SUFFICES ASSUME InOrder PROVE Orderly' /\ starting /\ ~Idle'
    OBVIOUS
  <2>1. Orderly /\ fd'["sip"] # 0
    BY <1>1 DEF SessionInv, Orderly, OneStart
  <2> QED
    BY <1>1, <1>3, <1>5, <2>1, StartTurns DEF Worker
<1>7. Fresh => Counted'
  <2> SUFFICES ASSUME Fresh PROVE Counted'
    OBVIOUS
  <2>1. Counted /\ ~stopping
    BY <1>1 DEF Fresh, InOrder, SessionInv, Orderly, OneStart, Starting
  <2>2. \A w \in Worker : ending.join[w] = 0
    BY <1>0, <2>1 DEF OneStop, Nothing
  <2>3. live["talkback"] \subseteq {started["talkback"], 0} /\ 0 \notin live["talkback"]
    BY <1>0, <2>1, <2>2 DEF Counted, Typed, Worker, Number
  <2>4. \A w \in Worker : live'[w] \subseteq {started'[w], ending'.join[w]}
    <3>1. live'["talkback"] \subseteq {started'["talkback"]}
      BY <1>3, <2>3
    <3> QED
      BY <1>1, <1>3, <2>1, <3>1 DEF Counted
  <2>5. \A q \in Caller : pc'[q] \notin {"sip", "finish"}
    BY <1>0, <1>1, <1>5, <2>1 DEF Moved, Fresh, InOrder, SessionInv, Orderly, OneStart, Starting,
                                  OneStop, Stopping
  <2> QED
    BY <1>1, <2>1, <2>4, <2>5 DEF Counted
<1>8. active' => active
  BY <1>1
<1> QED
  BY <1>1, <1>4, <1>5, <1>6, <1>7, <1>8, StartKeeps

LEMMA RunsKeeps == ASSUME SessionInv, NEW p \in Caller, Runs(p) PROVE SessionInv'
<1>0. Typed /\ Placed /\ OneStop
  BY DEF SessionInv
<1>. DEFINE n == number[p]
<1>1. PICK made \in BOOLEAN :
         /\ pc[p] = "run" /\ Goto(p, IF made THEN "report" ELSE "fail")
         /\ active' = TRUE /\ starting' = FALSE
         /\ started' = [started EXCEPT !["relay"] = Made(made, p)]
         /\ live' = [live EXCEPT !["relay"] = live["relay"] \cup {m \in {n} : made}]
         /\ UNCHANGED <<running, guard, stopping, halt, fd, open, slots, parked, played,
                        owner, then, number, ending, shown, starts, races>>
  BY DEF Runs, Goes, sockets, clients, calls
<1>. DEFINE to == IF made THEN "report" ELSE "fail"
<1>2. n \in Number /\ n # 0 /\ to \in {"report", "fail"} /\ (to = "fail" <=> ~made)
  BY <1>0, <1>1, MediaAssumption DEF Typed, Placed, Starting, Number, Handle
<1>3. /\ started' \in [Worker -> Handle] /\ started'["relay"] = IF made THEN n ELSE 0
      /\ \A w \in Worker \ {"relay"} : started'[w] = started[w]
  <2>1. /\ Made(made, p) \in Handle /\ Made(made, p) = IF made THEN n ELSE 0
        /\ started \in [Worker -> Handle]
    BY <1>0, <1>2, MediaAssumption DEF Made, Handle, Number, Typed
  <2> QED
    BY <1>1, <2>1 DEF Worker
<1>4. /\ live' \in [Worker -> SUBSET Number]
      /\ live'["relay"] = live["relay"] \cup {m \in {n} : made}
      /\ \A w \in Worker \ {"relay"} : live'[w] = live[w]
  BY <1>0, <1>1, <1>2 DEF Typed, Worker
<1>5. Typed'
  BY <1>0, <1>1, <1>3, <1>4 DEF Typed
<1>6. Steps(p, to) /\ Moved(p, to)
  <2>1. Steps(p, to)
    BY <1>0, <1>1, <1>2 DEF Steps, Placed, PlaceOf, HttpPlace, ClientPlace
  <2> QED
    BY <1>0, <2>1, StepsPlaced
<1> HIDE DEF to, n
<1>7. ASSUME InOrder
      PROVE  /\ starting /\ ~stopping /\ live["relay"] = {} /\ fd["sip"] # 0 /\ ~guard
             /\ \A q \in Caller : q # p => pc'[q] = pc[q] /\ pc[q] \notin {"sip", "talk", "run", "fail"}
             /\ \A q \in Caller : pc'[q] # "finish" /\ pc'[q] # "sip"
  <2>1. Orderly
    BY <1>7 DEF SessionInv
  <2>2. /\ starting /\ ~stopping /\ ~active /\ fd["sip"] # 0
        /\ \A q \in Caller : Starting(q) => q = p
    BY <1>1, <2>1 DEF Orderly, OneStart, Starting
  <2>3. live["relay"] = {} /\ ~guard
    BY <2>1, <2>2 DEF Orderly, OneRelay, Guarded, Idle
  <2>4. \A q \in Caller : q # p => pc'[q] = pc[q] /\ pc[q] \notin {"sip", "talk", "run", "fail"}
    BY <1>6, <2>2 DEF Moved, Starting
  <2> QED
    BY <1>0, <1>2, <1>6, <2>2, <2>3, <2>4 DEF OneStop, Stopping, Moved
<1>8. InOrder => Orderly' /\ starting /\ ~Idle'
  <2> SUFFICES ASSUME InOrder PROVE Orderly' /\ ~Idle'
    BY <1>7
  <2>1. ~Idle'
    BY <1>1 DEF Idle
  <2>2. live'["relay"] \subseteq {started'["relay"]} /\ (~made => live'["relay"] = {})
    BY <1>3, <1>4, <1>7
  <2>3. OneStart'
    BY <1>1, <1>2, <1>6, <1>7, <2>2 DEF OneStart, Starting, Moved
  <2>4. OneRelay'
    BY <1>1, <1>7, <2>2 DEF OneRelay
  <2>5. StopTakes' /\ Held' /\ Guarded'
    BY <1>1, <1>7 DEF StopTakes, Held, Guarded
  <2> QED
    BY <2>1, <2>3, <2>4, <2>5 DEF Orderly
<1>9. Fresh => Counted'
  <2> SUFFICES ASSUME Fresh PROVE Counted'
    OBVIOUS
  <2>1. InOrder /\ Counted
    BY DEF Fresh, SessionInv
  <2>2. live'["relay"] \subseteq {started'["relay"]}
    BY <1>3, <1>4, <1>7, <2>1
  <2>3. \A w \in Worker : live'[w] \subseteq {started'[w], ending'.join[w]}
    BY <1>1, <1>3, <1>4, <2>1, <2>2 DEF Counted
  <2> QED
    BY <1>1, <1>7, <2>1, <2>3 DEF Counted
<1>10. active' => to \in {"report", "fail"}
  BY <1>2
<1> QED
  BY <1>1, <1>2, <1>5, <1>6, <1>8, <1>9, <1>10, StartKeeps

-----------------------------------------------------------------------------
(* What the status is told, and the clients.                                *)

LEMMA ShowKeeps ==
  ASSUME SessionInv, NEW p \in Caller, NEW to, NEW what \in BOOLEAN, NEW when \in BOOLEAN,
         Steps(p, to), Typed', UNCHANGED Bridge, UNCHANGED <<slots, guard>>, Show(what, when),
         owner \cap slots \subseteq owner',
         pc[p] \in {"report", "keep", "stopped"}, Aside(to), to \notin {"start", "stopped", "report"},
         IF what THEN Idle => when ELSE active => when,
         p \in slots => to \notin {"out", "close"},
         to = "played" => pc[p] = "report",
         pc[p] = "report" => to = "played" \/ p \notin slots
  PROVE  SessionInv'
<1>1. Typed /\ Placed /\ OneStop /\ Seated
  BY DEF SessionInv
<1>2. Moved(p, to) /\ Placed'
  BY <1>1, StepsPlaced
<1>3. OneStop'
  BY <1>1, <1>2, StopFrame DEF Aside, Stopping, Bridge
<1>4. /\ races \ {"late"} = races' \ {"late"} /\ shown' = what
      /\ "late" \in races' <=> when
  BY <1>1 DEF Show, Typed
<1>5. Seated'
  BY <1>1, <1>2, <1>4, SeatFrame DEF Aside, Typed, Playing
<1>6. InOrder' => Orderly'
  BY <1>2, <1>4, OrderFrame DEF SessionInv, InOrder, Aside
<1>7. Fresh' => Counted'
  BY <1>2, <1>4, CountFrame DEF SessionInv, Fresh, InOrder, Aside
<1>8. (Idle' <=> Idle) /\ UNCHANGED <<stopping, active>>
  BY DEF Idle, Bridge
<1>9. InTime' => ShownSoon'
  BY <1>4, <1>8 DEF InTime, ShownSoon
<1>10. Kindly' => OwnedSoon'
  BY <1>1, <1>2, <1>4, <1>8, OwnedFrame DEF SessionInv, Kindly, InOrder, Aside, Typed
<1> QED
  BY <1>2, <1>3, <1>5, <1>6, <1>7, <1>9, <1>10 DEF SessionInv

LEMMA ReportsKeeps == ASSUME SessionInv, NEW p \in Caller, Reports(p) PROVE SessionInv'
<1>0. Typed /\ Placed /\ Http \notin Client
  BY MediaAssumption DEF SessionInv
<1>1. /\ pc[p] = "report" /\ Goto(p, StartDone(p)) /\ number' = [number EXCEPT ![p] = 0]
      /\ Show(TRUE, Idle)
      /\ UNCHANGED <<running, guard, stopping, active, starting, halt, started, live, fd,
                     open, slots, parked, played, owner, then, ending, starts>>
  BY DEF Reports, Goes, bridge, threads, sockets, clients
<1>2. Typed'
  <2>1. shown' \in BOOLEAN /\ races' \subseteq Race
    BY <1>0, <1>1 DEF Show, Typed, Race
  <2>2. number' \in [Caller -> Handle]
    BY <1>0, <1>1, MediaAssumption DEF Typed, Handle
  <2> QED
    BY <1>0, <1>1, <2>1, <2>2 DEF Typed
<1>3. Steps(p, StartDone(p))
  BY <1>0, <1>1 DEF Steps, Placed, PlaceOf, HttpPlace, ClientPlace, StartDone, Typed
<1>4. UNCHANGED Bridge /\ UNCHANGED <<slots, guard>> /\ owner \cap slots \subseteq owner'
  BY <1>1 DEF Bridge
<1>5. /\ Idle \in BOOLEAN /\ Aside(StartDone(p)) /\ StartDone(p) \in {"idle", "played"}
      /\ p \in slots => StartDone(p) = "played"
  BY <1>0 DEF Idle, Aside, StartDone, Typed
<1> QED
  BY <1>1, <1>2, <1>3, <1>4, <1>5, ShowKeeps

LEMMA KeptKeeps == ASSUME SessionInv, Kept PROVE SessionInv'
<1>0. Typed /\ Placed /\ Http \notin Client /\ Http \in Caller
  BY MediaAssumption DEF SessionInv, Caller
<1>1. /\ pc[Http] = "keep" /\ Goto(Http, "idle") /\ Show(TRUE, Idle)
      /\ UNCHANGED <<running, guard, stopping, active, starting, halt, started, live, fd,
                     open, slots, parked, played, owner, then, number, ending, starts>>
  BY DEF Kept, Goes, bridge, threads, sockets, calls, Quiet
<1>2. Typed'
  <2>1. shown' \in BOOLEAN /\ races' \subseteq Race
    BY <1>0, <1>1 DEF Show, Typed, Race
  <2> QED
    BY <1>0, <1>1, <2>1 DEF Typed
<1>3. Steps(Http, "idle")
  BY <1>0, <1>1 DEF Steps, Placed, PlaceOf, HttpPlace
<1>4. UNCHANGED Bridge /\ Idle \in BOOLEAN
  BY <1>1 DEF Bridge, Idle
<1> QED
  BY <1>0, <1>1, <1>2, <1>3, <1>4, ShowKeeps DEF Aside, Typed

LEMMA StoppedKeeps == ASSUME SessionInv, NEW p \in Caller, Stopped(p) PROVE SessionInv'
<1>0. Typed /\ Placed /\ Seated /\ Http \notin Client
  BY MediaAssumption DEF SessionInv
<1>1. /\ pc[p] = "stopped" /\ Goto(p, then[p]) /\ Show(FALSE, active)
      /\ owner' = IF then[p] = "out" THEN owner \ {p} ELSE owner
      /\ then' = [then EXCEPT ![p] = "idle"] /\ number' = [number EXCEPT ![p] = 0]
      /\ UNCHANGED <<running, guard, stopping, active, starting, halt, started, live, fd,
                     open, slots, parked, played, ending, starts>>
  BY DEF Stopped, Goes, bridge, threads, sockets
<1>2. Typed'
  <2>1. shown' \in BOOLEAN /\ races' \subseteq Race /\ owner' \subseteq Client
    BY <1>0, <1>1 DEF Show, Typed, Race
  <2>2. number' \in [Caller -> Handle]
    BY <1>0, <1>1, MediaAssumption DEF Typed, Handle
  <2> QED
    BY <1>0, <1>1, <2>1, <2>2 DEF Typed
<1>3. then[p] \in NextOf(p)
  BY <1>0, <1>1 DEF Placed, Stops
<1>4. Steps(p, then[p])
  BY <1>0, <1>1, <1>3 DEF Steps, Placed, PlaceOf, NextOf, HttpPlace, ClientPlace, Nexts, Typed
<1>5. p \in slots => then[p] # "out"
  BY <1>0, <1>1 DEF Seated, Stops
<1>6. UNCHANGED Bridge /\ owner \cap slots \subseteq owner' /\ active \in BOOLEAN
  BY <1>0, <1>1, <1>5 DEF Bridge, Typed
<1>7. Aside(then[p]) /\ then[p] \notin {"start", "stopped", "report", "played", "close"}
  BY <1>3 DEF Aside, NextOf
<1> QED
  BY <1>1, <1>2, <1>4, <1>5, <1>6, <1>7, ShowKeeps DEF Typed

LEMMA PlaysKeeps == ASSUME SessionInv, NEW c \in Client, Plays(c) PROVE SessionInv'
<1>0. Typed /\ Placed /\ OneStop /\ Seated /\ c \in Caller /\ Client \subseteq Caller /\ Http \notin Client
  BY MediaAssumption DEF SessionInv, Caller
<1>1. /\ pc[c] = "played" /\ Goto(c, "in")
      /\ owner' = owner \cup {c} /\ played' = played \cup (slots \cap {c})
      /\ UNCHANGED <<running, guard, stopping, active, starting, halt, started, live, fd,
                     open, slots, parked, then, number, ending, shown, starts, races>>
  BY DEF Plays, Goes, bridge, threads, sockets, calls
<1>2. Typed'
  BY <1>0, <1>1 DEF Typed
<1>3. Steps(c, "in")
  BY <1>0, <1>1 DEF Steps, Placed, PlaceOf, ClientPlace
<1>4. Moved(c, "in") /\ Placed' /\ UNCHANGED Bridge /\ Aside(pc[c]) /\ Aside("in")
  BY <1>0, <1>1, <1>3, StepsPlaced DEF Bridge, Aside
<1>5. (Idle' <=> Idle) /\ UNCHANGED <<stopping, ending, active>>
  BY <1>4 DEF Idle, Bridge
<1>6. OneStop' /\ Seated'
  BY <1>0, <1>1, <1>3, <1>4, <1>5, StopFrame, SeatFrame DEF Stopping, Typed
<1>7. InOrder' => Orderly'
  BY <1>0, <1>1, <1>4, OrderFrame DEF SessionInv, InOrder
<1>8. Fresh' => Counted'
  BY <1>0, <1>1, <1>4, CountFrame DEF SessionInv, Fresh, InOrder
<1>9. InTime' => ShownSoon'
  BY <1>0, <1>1, <1>4, <1>5, ShownFrame DEF SessionInv, InTime, InOrder
<1>10. Kindly' => OwnedSoon'
  <2> SUFFICES ASSUME Kindly', ~Idle' PROVE OwnedSoon'
    BY DEF OwnedSoon
  <2>1. \/ stopping \/ owner \cap slots # {}
        \/ \E d \in slots : pc[d] \in {"sip", "talk", "run", "report", "played"}
        \/ \E p \in Caller : pc[p] = "fail"
        \/ \E d \in Client : pc[d] = "close"
    BY <1>1, <1>5 DEF SessionInv, Kindly, InOrder, OwnedSoon
  <2>2. CASE stopping \/ owner \cap slots # {}
    BY <1>1, <2>2 DEF OwnedSoon
  <2>3. CASE \E d \in slots : pc[d] \in {"sip", "talk", "run", "report", "played"}
    <3>1. PICK d \in slots : pc[d] \in {"sip", "talk", "run", "report", "played"}
      BY <2>3
    <3>2. CASE d = c
      BY <1>1, <3>2 DEF OwnedSoon
    <3>3. CASE d # c
      BY <1>0, <1>1, <1>4, <3>1, <3>3 DEF OwnedSoon, Moved, Typed
    <3> QED
      BY <3>2, <3>3
  <2>4. CASE (\E p \in Caller : pc[p] = "fail") \/ (\E d \in Client : pc[d] = "close")
    BY <1>0, <1>1, <1>4, <2>4 DEF OwnedSoon, Moved
  <2> QED
    BY <2>1, <2>2, <2>3, <2>4
<1> QED
  BY <1>2, <1>4, <1>6, <1>7, <1>8, <1>9, <1>10 DEF SessionInv

\* The places of a client that connects or leaves are no part of a session.
LEMMA OutsideKeeps ==
  ASSUME SessionInv, NEW c \in Client, NEW to \in {"in", "close", "out"}, Steps(c, to), Typed',
         pc[c] \in {"out", "in", "leave"}, UNCHANGED Bridge, UNCHANGED <<guard, shown>>,
         Seated', races \subseteq races', "late" \in races' => "late" \in races, Kindly' => OwnedSoon'
  PROVE  SessionInv'
<1>1. Typed /\ Placed /\ OneStop /\ c \in Caller
  BY DEF SessionInv, Caller
<1>2. Moved(c, to) /\ Placed'
  BY <1>1, StepsPlaced
<1>3. (Idle' <=> Idle) /\ UNCHANGED <<stopping, ending, active>> /\ Aside(pc[c]) /\ Aside(to)
  BY DEF Idle, Bridge, Aside
<1>4. OneStop'
  BY <1>1, <1>2, <1>3, StopFrame DEF Stopping
<1>5. InOrder' => Orderly'
  BY <1>1, <1>2, <1>3, OrderFrame DEF SessionInv, InOrder
<1>6. Fresh' => Counted'
  BY <1>1, <1>2, CountFrame DEF SessionInv, Fresh, InOrder
<1>7. InTime' => ShownSoon'
  BY <1>1, <1>2, <1>3, ShownFrame DEF SessionInv, InTime, InOrder
<1> QED
  BY <1>2, <1>4, <1>5, <1>6, <1>7 DEF SessionInv

\* While a session is there, who has it: what of OwnedSoon no client touches
\* by connecting or leaving.
LEMMA OwnerLeft ==
  ASSUME OwnedSoon, ~Idle, NEW c \in Client, NEW to, Moved(c, to), UNCHANGED Bridge,
         slots \subseteq Client, pc[c] \in {"out", "in", "leave"},
         owner \cap slots # {} => owner' \cap slots' # {} \/ to = "close",
         \A d \in slots : pc[d] \in {"sip", "talk", "run", "report", "played"} => d \in slots'
  PROVE  OwnedSoon'
<1>1. c \in Caller /\ Client \subseteq Caller /\ stopping' = stopping
  BY DEF Caller, Bridge
<1>2. \/ stopping \/ owner \cap slots # {}
      \/ \E d \in slots : pc[d] \in {"sip", "talk", "run", "report", "played"}
      \/ \E p \in Caller : pc[p] = "fail"
      \/ \E d \in Client : pc[d] = "close"
  BY DEF OwnedSoon
<1>3. CASE stopping \/ owner \cap slots # {}
  BY <1>1, <1>3 DEF OwnedSoon, Moved
<1>4. CASE \E d \in slots : pc[d] \in {"sip", "talk", "run", "report", "played"}
  <2>1. PICK d \in slots : pc[d] \in {"sip", "talk", "run", "report", "played"}
    BY <1>4
  <2>2. d \in slots' /\ pc'[d] = pc[d]
    BY <1>1, <2>1 DEF Moved
  <2> QED
    BY <2>1, <2>2 DEF OwnedSoon
<1>5. CASE (\E p \in Caller : pc[p] = "fail") \/ (\E d \in Client : pc[d] = "close")
  BY <1>1, <1>5 DEF OwnedSoon, Moved
<1> QED
  BY <1>2, <1>3, <1>4, <1>5

LEMMA ConnectKeeps == ASSUME SessionInv, NEW c \in Client, Connect(c) PROVE SessionInv'
<1>0. /\ Typed /\ Placed /\ OneStop /\ Seated
      /\ c \in Caller /\ Client \subseteq Caller /\ Http \notin Client
  BY MediaAssumption DEF SessionInv, Caller
<1>1. PICK gone \in SUBSET parked :
         /\ pc[c] = "out" /\ Goto(c, "in")
         /\ slots' = (slots \ gone) \cup {c}
         /\ parked' = parked \ gone /\ played' = played \ gone
         /\ races' = races \cup {r \in {"evicted"} : (\E p \in gone : pc[p] # "in") \/ Disowns(gone)}
         /\ UNCHANGED <<running, guard, stopping, active, starting, halt, started, live, fd,
                        open, owner, then, number, ending, shown, starts>>
  BY DEF Connect, Goes, Happened, bridge, threads, sockets, calls
<1>2. Typed'
  BY <1>0, <1>1 DEF Typed, Race
<1>3. Steps(c, "in")
  BY <1>0, <1>1 DEF Steps, Placed, PlaceOf, ClientPlace
<1>4. Moved(c, "in") /\ UNCHANGED Bridge
  BY <1>0, <1>1, <1>3, StepsPlaced DEF Bridge
<1>5. "evicted" \notin races' => /\ "evicted" \notin races /\ ~Disowns(gone)
                                 /\ \A d \in gone : pc[d] = "in"
  BY <1>1
<1>6. c \notin slots /\ gone \subseteq slots
  BY <1>0, <1>1 DEF Seated, Typed
<1>7. Seated'
  <2>1. \A d \in slots' : pc'[d] \notin {"out", "close"} /\ ~(Stops(d)' /\ then'[d] = "out")
    <3>1. Stops(c)' <=> FALSE
      BY <1>4 DEF Moved, Stops
    <3>2. ASSUME NEW d \in slots', d # c
          PROVE  pc'[d] \notin {"out", "close"} /\ ~(Stops(d)' /\ then'[d] = "out")
      <4>1. d \in slots /\ d \in Caller /\ pc'[d] = pc[d] /\ then'[d] = then[d]
        BY <1>0, <1>1, <1>4, <3>2 DEF Moved, Typed
      <4> QED
        BY <1>0, <4>1 DEF Seated, Stops
    <3> QED
      BY <1>4, <3>1, <3>2 DEF Moved
  <2>2. ASSUME "evicted" \notin races', NEW d \in Client, Playing(d)' PROVE d \in slots'
    <3>1. d # c => Playing(d) /\ d \in slots
      BY <1>0, <1>4, <1>5, <2>2 DEF Moved, Playing, Seated
    <3>2. d \in gone => ~Playing(d)
      BY <1>5, <2>2 DEF Playing
    <3> QED
      BY <1>1, <3>1, <3>2
  <2> QED
    BY <2>1, <2>2 DEF Seated
<1>8. Kindly' => OwnedSoon'
  <2> SUFFICES ASSUME Kindly', ~Idle' PROVE OwnedSoon'
    BY DEF OwnedSoon
  <2>1. Kindly /\ OwnedSoon /\ ~Idle
    BY <1>1, <1>4 DEF SessionInv, Kindly, InOrder, Idle, Bridge
  <2>2. owner \cap slots # {} => owner' \cap slots' # {}
    BY <1>1, <1>5, <1>6, <2>1 DEF Kindly, Disowns
  <2>3. \A d \in slots : pc[d] \in {"sip", "talk", "run", "report", "played"} => d \in slots'
    BY <1>1, <1>5 DEF Kindly
  <2> QED
    BY <1>0, <1>1, <1>4, <2>1, <2>2, <2>3, OwnerLeft DEF Typed
<1>9. races \subseteq races' /\ ("late" \in races' => "late" \in races)
  BY <1>1
<1> QED
  BY <1>1, <1>2, <1>3, <1>4, <1>7, <1>8, <1>9, OutsideKeeps

LEMMA LeaveKeeps == ASSUME SessionInv, NEW c \in Client, Leave(c) PROVE SessionInv'
<1>0. /\ Typed /\ Placed /\ OneStop /\ Seated
      /\ c \in Caller /\ Client \subseteq Caller /\ Http \notin Client
  BY MediaAssumption DEF SessionInv, Caller
<1>. DEFINE closes == c \in slots /\ c \in owner /\ LeavesNobody(c)
            to == IF closes THEN "close" ELSE "out"
<1>1. /\ pc[c] \in {"in", "leave"} /\ Goto(c, to)
      /\ slots' = slots \ {c} /\ parked' = parked \ {c} /\ played' = played \ {c}
      /\ owner' = IF closes THEN owner ELSE owner \ {c}
      /\ UNCHANGED <<running, guard, stopping, active, starting, halt, started, live, fd,
                     open, then, number, ending, shown, starts>>
  BY DEF Leave, bridge, threads, sockets, calls
<1>2. /\ races \subseteq races' /\ races' \subseteq races \cup {"bystander"}
      /\ ~closes /\ c \in slots /\ c \in owner /\ Bystanders(c) => "bystander" \in races'
  BY DEF Leave, Happened
<1>3. Typed'
  BY <1>0, <1>1, <1>2 DEF Typed, Race
<1>4. Steps(c, to)
  BY <1>0, <1>1 DEF Steps, Placed, PlaceOf, ClientPlace
<1>5. Moved(c, to) /\ UNCHANGED Bridge /\ to \in {"close", "out"}
  BY <1>0, <1>1, <1>4, StepsPlaced DEF Bridge
<1>6. Seated'
  <2>1. ASSUME NEW d \in slots'
        PROVE  pc'[d] \notin {"out", "close"} /\ ~(Stops(d)' /\ then'[d] = "out")
    <3>1. d \in slots /\ d \in Caller /\ pc'[d] = pc[d] /\ then'[d] = then[d]
      BY <1>0, <1>1, <1>5 DEF Moved, Typed
    <3> QED
      BY <1>0, <3>1 DEF Seated, Stops
  <2>2. ASSUME "evicted" \notin races', NEW d \in Client, Playing(d)' PROVE d \in slots'
    <3>1. d # c
      BY <1>5, <2>2 DEF Moved, Playing
    <3>2. Playing(d) /\ "evicted" \notin races
      BY <1>0, <1>2, <1>5, <2>2, <3>1 DEF Moved, Playing
    <3> QED
      BY <1>0, <1>1, <3>1, <3>2 DEF Seated
  <2> QED
    BY <2>1, <2>2 DEF Seated
<1>7. Kindly' => OwnedSoon'
  <2> SUFFICES ASSUME Kindly', ~Idle' PROVE OwnedSoon'
    BY DEF OwnedSoon
  <2>1. Kindly /\ OwnedSoon /\ ~Idle
    BY <1>2, <1>5 DEF SessionInv, Kindly, InOrder, Idle, Bridge
  <2>2. ASSUME owner \cap slots # {} PROVE owner' \cap slots' # {} \/ to = "close"
    <3>1. CASE closes
      BY <3>1
    <3>2. CASE c \in slots /\ c \in owner /\ ~closes
      BY <1>1, <1>2, <3>2 DEF Kindly, Bystanders, LeavesNobody, Live
    <3>3. CASE ~(c \in slots /\ c \in owner)
      BY <1>1, <2>2, <3>3
    <3> QED
      BY <3>1, <3>2, <3>3
  <2>3. \A d \in slots : pc[d] \in {"sip", "talk", "run", "report", "played"} => d \in slots'
    BY <1>1
  <2> HIDE DEF closes, to
  <2> QED
    BY <1>0, <1>1, <1>5, <2>1, <2>2, <2>3, OwnerLeft DEF Typed
<1> HIDE DEF closes, to
<1>8. "late" \in races' => "late" \in races
  BY <1>2
<1> QED
  BY <1>1, <1>2, <1>3, <1>4, <1>5, <1>6, <1>7, <1>8, OutsideKeeps

-----------------------------------------------------------------------------
(* stop_media_session.                                                      *)

\* The stop finds nothing to stop, or another stop in progress.
LEMMA StopSkipsKeeps ==
  ASSUME SessionInv, NEW p \in Caller, NEW next \in NextOf(p), Goto(p, "stopped"),
         pc[p] \in {"fail", "close", "idle"}, p \in slots => next # "out",
         stopping \/ Idle, Typed', UNCHANGED Bridge, UNCHANGED <<slots, owner, number, shown, races>>,
         then' = [then EXCEPT ![p] = next]
  PROVE  SessionInv'
<1>0. Typed /\ Placed /\ OneStop /\ Seated
  BY DEF SessionInv
<1>1. Steps(p, "stopped") /\ then'[p] = next
  BY <1>0 DEF Steps, Placed, PlaceOf, NextOf, HttpPlace, ClientPlace, Nexts
<1>2. Moved(p, "stopped") /\ Placed'
  BY <1>0, <1>1, StepsPlaced
<1>3. (Idle' <=> Idle) /\ UNCHANGED <<stopping, ending, active>>
  BY DEF Idle, Bridge
<1>4. OneStop' /\ Seated'
  BY <1>0, <1>1, <1>2, <1>3, StopFrame, SeatFrame DEF Stopping, Typed
<1>5. InOrder => Aside(pc[p]) /\ Aside("stopped")
  BY <1>0 DEF SessionInv, Orderly, OneStart, Starting, Aside, Idle
<1>6. InOrder' => Orderly'
  BY <1>2, <1>5, OrderFrame DEF SessionInv, InOrder
<1>7. Fresh' => Counted'
  BY <1>2, CountFrame DEF SessionInv, Fresh, InOrder
<1>8. InTime' => ShownSoon'
  BY <1>2, <1>3, <1>5, ShownFrame DEF SessionInv, InTime, InOrder, Aside
<1>9. OwnedSoon'
  BY <1>3 DEF OwnedSoon
<1> QED
  BY <1>2, <1>4, <1>6, <1>7, <1>8, <1>9 DEF SessionInv

\* The stop takes the session from the bridge.
LEMMA StopTakesKeeps ==
  ASSUME SessionInv, NEW p \in Caller, NEW next \in NextOf(p), Goto(p, "join"),
         pc[p] \in {"fail", "close", "idle"}, p \in slots => next # "out",
         ~stopping, Typed', stopping' = TRUE,
         ending' = [join |-> started, sip |-> fd["sip"]],
         started' = [started EXCEPT !["relay"] = 0, !["talkback"] = 0],
         fd' = [fd EXCEPT !["sip"] = 0],
         races' = races \cup {r \in {"overtaken"} : \E q \in Caller \ {p} : Starting(q)},
         UNCHANGED <<active, starting, live, open, slots, owner, number, shown>>,
         then' = [then EXCEPT ![p] = next]
  PROVE  SessionInv'
<1>0. Typed /\ Placed /\ OneStop /\ Seated
  BY DEF SessionInv
<1>1. Steps(p, "join") /\ then'[p] = next
  BY <1>0 DEF Steps, Placed, PlaceOf, NextOf, HttpPlace, ClientPlace, Nexts
<1>2. Moved(p, "join") /\ Placed'
  BY <1>0, <1>1, StepsPlaced
<1>3. Seated'
  BY <1>0, <1>1, <1>2, SeatFrame DEF Typed
<1>4. \A q \in Caller : Stopping(q)' <=> q = p
  BY <1>0, <1>2 DEF OneStop, Stopping, Moved
<1>5. OneStop'
  BY <1>4 DEF OneStop
<1>6. /\ \A w \in Worker : started'[w] = IF w \in {"relay", "talkback"} THEN 0 ELSE started[w]
      /\ fd'["sip"] = 0 /\ \A s \in Socket \ {"sip"} : fd'[s] = fd[s]
      /\ ending'.join = started /\ ending'.sip = fd["sip"]
  BY <1>0 DEF Typed, Worker, Socket
<1>7. InOrder' => /\ InOrder
                  /\ \A q \in Caller : pc'[q] \notin {"sip", "talk", "run", "fail", "finish"}
  <2> SUFFICES ASSUME InOrder' PROVE InOrder /\ \A q \in Caller : ~Starting(q)' /\ pc'[q] # "finish"
    BY DEF Starting
  <2>1. InOrder /\ \A q \in Caller \ {p} : ~Starting(q)
    BY DEF InOrder
  <2> QED
    BY <1>2, <1>4, <2>1 DEF Starting, Moved, Stopping
<1>8. InOrder' => Orderly'
  <2> SUFFICES ASSUME InOrder' PROVE Orderly'
    OBVIOUS
  <2>1. OneStart'
    BY <1>7 DEF OneStart, Starting
  <2>2. OneRelay'
    BY <1>6, <1>7 DEF SessionInv, Orderly, OneRelay
  <2>3. StopTakes'
    BY <1>6 DEF StopTakes, Worker
  <2>4. Held' /\ Guarded'
    BY DEF Held, Guarded
  <2> QED
    BY <2>1, <2>2, <2>3, <2>4 DEF Orderly
<1>9. Fresh' => Counted'
  <2> SUFFICES ASSUME Fresh' PROVE Counted'
    OBVIOUS
  <2>1. Counted
    BY <1>7 DEF SessionInv, Fresh, InOrder
  <2>2. ending.sip = 0 /\ \A w \in Worker : ending.join[w] = 0 /\ 0 \notin live[w]
    BY <1>0 DEF OneStop, Nothing, Typed, Number
  <2>3. \A s \in Socket : open[s] \subseteq {fd[s]}
    BY <1>0, <2>1, <2>2 DEF Counted, Typed, Number
  <2>4. \A s \in Socket : open'[s] \subseteq {fd'[s]} \cup {n \in {ending'.sip} : s = "sip"}
    BY <1>6, <2>3 DEF Socket
  <2>5. \A w \in Worker : live'[w] \subseteq {started'[w], ending'.join[w]}
    BY <1>6, <2>1, <2>2 DEF Counted
  <2> QED
    BY <1>7, <2>4, <2>5 DEF Counted, Fresh, InOrder
<1>10. ShownSoon'
  BY <1>2 DEF ShownSoon, Moved, Stops
<1>11. OwnedSoon'
  BY DEF OwnedSoon
<1> QED
  BY <1>2, <1>3, <1>5, <1>8, <1>9, <1>10, <1>11 DEF SessionInv

LEMMA StopBeginsKeeps ==
  ASSUME SessionInv, NEW p \in Caller, NEW shut \in BOOLEAN, NEW explicit \in BOOLEAN,
         NEW next \in NextOf(p), StopBegins(p, shut, explicit, next), UNCHANGED slots,
         pc[p] \in {"fail", "close", "idle"}, p \in slots => next # "out"
  PROVE  SessionInv'
<1>0. Typed
  BY DEF SessionInv
<1>1. /\ guard' = (guard \/ explicit) /\ then' = [then EXCEPT ![p] = next]
      /\ parked' \in {parked, slots}
      /\ UNCHANGED <<running, active, starting, live, open, played, owner, number, shown, starts>>
  BY DEF StopBegins, Park
<1>2. CASE stopping \/ Idle
  <2>1. Goto(p, "stopped") /\ UNCHANGED <<stopping, halt, started, fd, ending, races>>
    BY <1>2 DEF StopBegins
  <2>2. Typed' /\ UNCHANGED Bridge
    BY <1>0, <1>1, <2>1 DEF Typed, Bridge
  <2> QED
    BY <1>1, <1>2, <2>1, <2>2, StopSkipsKeeps
<1>3. CASE ~(stopping \/ Idle)
  <2>1. /\ Goto(p, "join") /\ stopping' = TRUE /\ halt' = Told
        /\ ending' = [join |-> started, sip |-> fd["sip"]]
        /\ started' = [started EXCEPT !["relay"] = 0, !["talkback"] = 0]
        /\ fd' = [fd EXCEPT !["sip"] = 0]
        /\ races' = races \cup {r \in {"overtaken"} : \E q \in Caller \ {p} : Starting(q)}
    BY <1>3 DEF StopBegins, Happened
  <2>2. Typed'
    <3>0. 0 \in Handle
      BY MediaAssumption DEF Handle
    <3>1. started' \in [Worker -> Handle] /\ fd' \in [Socket -> Handle]
      BY <1>0, <2>1, <3>0 DEF Typed
    <3>2. ending' \in [join : [Worker -> Handle], sip : Handle]
      BY <1>0, <2>1 DEF Typed, Socket
    <3>3. halt' \in [Worker -> BOOLEAN] /\ races' \subseteq Race
      BY <1>0, <2>1 DEF Told, Typed, Race
    <3> QED
      BY <1>0, <1>1, <2>1, <3>1, <3>2, <3>3 DEF Typed
  <2> QED
    BY <1>1, <1>3, <2>1, <2>2, StopTakesKeeps
<1> QED
  BY <1>2, <1>3

LEMMA StopKeeps ==
  ASSUME SessionInv,
         \/ Stop \/ StopAtShutdown \/ \E p \in Caller : StopOfFailedStart(p) \/ StopByLast(p)
  PROVE  SessionInv'
<1>0. Typed /\ Seated /\ Http \in Caller /\ Http \notin Client /\ Client \subseteq Caller
  BY MediaAssumption DEF SessionInv, Caller
<1>1. CASE Stop
  <2>1. /\ "idle" \in NextOf(Http) /\ pc[Http] = "idle" /\ StopBegins(Http, TRUE, TRUE, "idle")
        /\ UNCHANGED slots
    BY <1>1 DEF Stop, NextOf
  <2> QED
    BY <1>0, <2>1, StopBeginsKeeps
<1>2. CASE StopAtShutdown
  <2>1. /\ "down" \in NextOf(Http) /\ pc[Http] = "close" /\ StopBegins(Http, TRUE, TRUE, "down")
        /\ UNCHANGED slots
    BY <1>2 DEF StopAtShutdown, NextOf
  <2> QED
    BY <1>0, <2>1, StopBeginsKeeps
<1>3. ASSUME NEW p \in Caller, StopOfFailedStart(p) PROVE SessionInv'
  <2>1. /\ pc[p] = "fail" /\ StopBegins(p, FALSE, FALSE, StartFailed(p)) /\ UNCHANGED slots
        /\ StartFailed(p) \in NextOf(p) /\ StartFailed(p) # "out"
    BY <1>3 DEF StopOfFailedStart, NextOf, StartFailed
  <2> QED
    BY <2>1, StopBeginsKeeps
<1>4. ASSUME NEW p \in Caller, StopByLast(p) PROVE SessionInv'
  <2>1. /\ pc[p] = "close" /\ StopBegins(p, TRUE, FALSE, "out") /\ UNCHANGED slots
        /\ "out" \in NextOf(p) /\ p \notin slots
    BY <1>0, <1>4 DEF StopByLast, NextOf, Seated
  <2> QED
    BY <2>1, StopBeginsKeeps
<1> QED
  BY <1>1, <1>2, <1>3, <1>4

\* The threads are joined and the SIP socket is closed.
LEMMA JoinsKeeps == ASSUME SessionInv, NEW p \in Caller, Joins(p) PROVE SessionInv'
<1>0. Typed /\ Placed /\ OneStop /\ Seated
  BY DEF SessionInv
<1>1. /\ pc[p] = "join" /\ Goto(p, "finish") /\ \A w \in Worker : ending.join[w] \notin live[w]
      /\ open' = [open EXCEPT !["sip"] = open["sip"] \ {ending.sip}]
      /\ UNCHANGED <<running, guard, stopping, active, starting, halt, started, live, fd,
                     slots, parked, played, owner, then, number, ending, shown, starts, races>>
  BY DEF Joins, Joined, Goes, bridge, threads, clients, calls
<1>2. Typed'
  BY <1>0, <1>1 DEF Typed
<1>3. Steps(p, "finish")
  BY <1>0, <1>1 DEF Steps, Placed, PlaceOf, HttpPlace, ClientPlace, Stops
<1>4. Moved(p, "finish") /\ Placed'
  BY <1>0, <1>3, StepsPlaced
<1>5. OneStop'
  BY <1>0, <1>1, <1>4, StopFrame DEF Stopping
<1>6. Seated'
  <2>1. p \in slots => then'[p] # "out"
    BY <1>0, <1>1 DEF Seated, Stops
  <2> QED
    BY <1>0, <1>1, <1>3, <1>4, <2>1, SeatFrame DEF Typed
<1>7. stopping /\ (Idle' <=> Idle)
  BY <1>0, <1>1 DEF OneStop, Stopping, Idle
<1>8. InOrder => \A q \in Caller : pc'[q] \notin {"sip", "talk", "run", "fail"}
  BY <1>4, <1>7 DEF SessionInv, Orderly, OneStart, Starting, Moved
<1>9. ASSUME InOrder PROVE Orderly'
  <2>1. Orderly
    BY <1>9 DEF SessionInv
  <2>2. OneStart'
    BY <1>8, <1>9 DEF OneStart, Starting
  <2>3. live["relay"] = {}
    BY <1>1, <1>7, <2>1 DEF Orderly, OneRelay, Worker
  <2>4. OneRelay' /\ StopTakes'
    BY <1>1, <2>1, <2>3 DEF Orderly, OneRelay, StopTakes
  <2>5. Held' /\ Guarded'
    BY <1>1, <1>7 DEF Held, Guarded
  <2> QED
    BY <2>2, <2>4, <2>5 DEF Orderly
<1>10. ASSUME Fresh PROVE Counted'
  <2>1. Counted /\ StopTakes /\ InOrder
    BY <1>10 DEF SessionInv, Fresh, InOrder, Orderly
  <2>2. \A w \in Worker : live[w] = {}
    BY <1>0, <1>1, <1>7, <2>1 DEF Counted, StopTakes, Typed, Number
  <2>3. /\ open'["sip"] = {}
        /\ \A s \in Socket : open'[s] \subseteq {fd'[s]} \cup {n \in {ending'.sip} : s = "sip"}
    BY <1>0, <1>1, <1>7, <2>1 DEF Counted, StopTakes, Typed, Number, Socket
  <2> QED
    BY <1>1, <1>8, <2>1, <2>2, <2>3 DEF Counted
<1>11. ShownSoon'
  BY <1>4 DEF ShownSoon, Moved, Stops
<1>12. OwnedSoon'
  BY <1>1, <1>7 DEF OwnedSoon
<1> QED
  BY <1>1, <1>2, <1>4, <1>5, <1>6, <1>9, <1>10, <1>11, <1>12 DEF SessionInv, InOrder, Fresh

\* The rest of the session is closed, and the stop is over.
LEMMA StopEndsKeeps == ASSUME SessionInv, NEW p \in Caller, StopEnds(p) PROVE SessionInv'
<1>0. Typed /\ Placed /\ OneStop /\ Seated
  BY DEF SessionInv
<1>1. /\ pc[p] = "finish" /\ Goto(p, "stopped")
      /\ active' = FALSE /\ starting' = FALSE /\ stopping' = FALSE
      /\ halt' = [w \in Worker |-> w = "relay" /\ halt[w]]
      /\ started' = [started EXCEPT !["monitor"] = 0, !["media"] = 0]
      /\ CloseSocket({"rtp", "ports"}) /\ ending' = Nothing
      /\ UNCHANGED <<running, guard, live, slots, parked, played, owner, then, number,
                     shown, starts>>
  BY DEF StopEnds, Goes, clients
<1>2. /\ races' \subseteq races
      /\ \A r \in {"overtaken", "rebuilt", "late"} : r \in races => r \in races'
      /\ "evicted" \in races => "evicted" \in races' \/ \A c \in Client \ slots : ~Playing(c)
  BY DEF StopEnds
<1>3. /\ \A w \in Worker : started'[w] = IF w \in {"monitor", "media"} THEN 0 ELSE started[w]
      /\ \A s \in {"rtp", "ports"} : fd'[s] = 0 /\ open'[s] = open[s] \ {fd[s]}
      /\ fd'["sip"] = fd["sip"] /\ open'["sip"] = open["sip"]
  BY <1>0, <1>1 DEF Typed, Worker, Socket, CloseSocket
<1>4. Typed'
  <2>0. 0 \in Handle
    BY MediaAssumption DEF Handle
  <2>1. started' \in [Worker -> Handle] /\ fd' \in [Socket -> Handle]
    BY <1>0, <1>1, <2>0 DEF Typed, CloseSocket
  <2>2. open' \in [Socket -> SUBSET Number]
    BY <1>0, <1>1 DEF Typed, CloseSocket
  <2>3. ending' \in [join : [Worker -> Handle], sip : Handle]
    BY <1>1, MediaAssumption DEF Nothing, Handle
  <2>4. halt' \in [Worker -> BOOLEAN]
    BY <1>0, <1>1 DEF Typed
  <2> QED
    BY <1>0, <1>1, <1>2, <2>1, <2>2, <2>3, <2>4 DEF Typed
<1>5. Steps(p, "stopped")
  BY <1>0, <1>1 DEF Steps, Placed, PlaceOf, HttpPlace, ClientPlace, Stops
<1>6. Moved(p, "stopped") /\ Placed'
  BY <1>0, <1>5, StepsPlaced
<1>7. \A q \in Caller : ~Stopping(q)'
  BY <1>0, <1>1, <1>6 DEF OneStop, Stopping, Moved
<1>8. OneStop'
  BY <1>1, <1>7 DEF OneStop, Nothing
<1>9. stopping
  BY <1>0, <1>1 DEF OneStop, Stopping
<1>10. Seated'
  <2>1. ASSUME NEW c \in slots
        PROVE  pc'[c] \notin {"out", "close"} /\ ~(Stops(c)' /\ then'[c] = "out")
    <3>1. c \in Caller
      BY <1>0 DEF Typed, Caller
    <3> QED
      BY <1>0, <1>1, <1>6, <3>1 DEF Seated, Stops, Moved
  <2>2. ASSUME "evicted" \notin races', NEW c \in Client, Playing(c)' PROVE c \in slots
    <3>1. Playing(c)
      BY <1>1, <1>6, <2>2 DEF Playing, Moved, Caller
    <3> QED
      BY <1>0, <1>2, <2>2, <3>1 DEF Seated
  <2> QED
    BY <1>1, <2>1, <2>2 DEF Seated
<1>11. ASSUME InOrder PROVE Orderly' /\ Idle'
  <2>1. Orderly
    BY <1>11 DEF SessionInv
  <2>2. \A q \in Caller : pc'[q] \notin {"sip", "talk", "run", "fail", "finish"}
    BY <1>6, <1>7, <1>9, <2>1 DEF Orderly, OneStart, Starting, Stopping, Moved
  <2>3. OneStart'
    BY <2>2 DEF OneStart, Starting
  <2>4. live["relay"] = {}
    BY <1>1, <2>1 DEF Orderly, OneRelay
  <2>5. Idle'
    BY <1>1, <1>3, <1>9, <2>1 DEF Idle, Orderly, StopTakes, Worker, Socket
  <2>6. OneRelay'
    BY <1>1, <2>2, <2>4 DEF OneRelay
  <2>7. StopTakes' /\ Held' /\ Guarded'
    BY <1>1, <2>5 DEF StopTakes, Held, Guarded
  <2> QED
    BY <2>3, <2>5, <2>6, <2>7 DEF Orderly
<1>12. ASSUME Fresh PROVE Counted'
  <2>1. Counted /\ InOrder
    BY <1>12 DEF SessionInv, Fresh
  <2>2. \A w \in Worker : live'[w] = {}
    BY <1>1, <2>1 DEF Counted
  <2>3. \A s \in Socket : open'[s] = {}
    BY <1>0, <1>1, <1>3, <2>1 DEF Counted, Socket
  <2>4. \A q \in Caller : pc'[q] \notin {"sip", "finish"}
    BY <1>6, <1>7, <1>9, <2>1 DEF SessionInv, Orderly, OneStart, Starting, Stopping, Moved
  <2> QED
    BY <2>2, <2>3, <2>4 DEF Counted
<1>13. ShownSoon'
  BY <1>1, <1>6 DEF ShownSoon, Moved, Stops
<1>14. InOrder => OwnedSoon'
  BY <1>11 DEF OwnedSoon
<1>15. (InOrder' => InOrder) /\ (Fresh' => Fresh)
  BY <1>2 DEF InOrder, Fresh
<1> QED
  BY <1>4, <1>6, <1>8, <1>10, <1>11, <1>12, <1>13, <1>14, <1>15 DEF SessionInv, Kindly

-----------------------------------------------------------------------------
(* Worker threads.                                                          *)

\* A worker that ends takes at most its own from the bridge.
LEMMA WorkerKeeps ==
  ASSUME SessionInv, Typed', active' => active,
         UNCHANGED <<guard, stopping, starting, slots, owner, pc, then, number, ending, shown, races>>,
         \A w \in Worker : started'[w] \in {started[w], 0} /\ live'[w] \subseteq live[w],
         \A s \in Socket : fd'[s] \in {fd[s], 0} /\ open'[s] \subseteq open[s],
         started'["relay"] = started["relay"], fd'["sip"] = fd["sip"],
         live["relay"] = {} => active' = active, InOrder /\ live'["relay"] # {} => active',
         Fresh => /\ \A w \in Worker : live'[w] \subseteq {started'[w], ending.join[w]}
                  /\ \A s \in Socket : open'[s] \subseteq {fd'[s]} \cup {n \in {ending.sip} : s = "sip"}
  PROVE  SessionInv'
<1>0. /\ Typed /\ Placed /\ OneStop /\ Seated
      /\ {"relay", "monitor", "media", "talkback"} \subseteq Worker
      /\ {"rtp", "sip", "ports"} \subseteq Socket
  BY DEF SessionInv, Worker, Socket
<1>1. Placed' /\ OneStop' /\ Seated'
  BY <1>0 DEF Placed, OneStop, Seated, Stopping, Stops, Starting, Playing, Nothing
<1>2. Idle => Idle'
  BY DEF Idle
<1>3. ASSUME InOrder PROVE Orderly'
  <2>1. Orderly
    BY <1>3 DEF SessionInv
  <2>2. OneStart'
    BY <1>0, <2>1 DEF Orderly, OneStart, Starting
  <2>3. OneRelay'
    BY <1>0, <1>3, <2>1 DEF Orderly, OneRelay
  <2>4. StopTakes' /\ Held' /\ Guarded'
    BY <1>0, <1>2, <2>1 DEF Orderly, StopTakes, Held, Guarded
  <2> QED
    BY <2>2, <2>3, <2>4 DEF Orderly
<1>4. ASSUME Fresh PROVE Counted'
  <2>1. Counted
    BY <1>4 DEF SessionInv
  <2>2. ASSUME NEW q \in Caller
        PROVE  /\ pc'[q] = "sip" => /\ started'["monitor"] = 0 /\ started'["media"] = 0
                                    /\ fd'["sip"] = 0 /\ fd'["ports"] = 0
               /\ pc'[q] = "finish" => (\A w \in Worker : live'[w] = {}) /\ open'["sip"] = {}
    BY <1>0, <2>1 DEF Counted
  <2> QED
    BY <1>4, <2>2 DEF Counted
<1>5. ASSUME InTime PROVE ShownSoon'
  <2>1. ShownSoon /\ Held
    BY <1>5 DEF SessionInv, InTime, Orderly
  <2>2. ~Idle => ~Idle' \/ stopping
    BY <1>0, <2>1 DEF Held, Idle
  <2>3. stopping => \E p \in Caller : Stops(p)
    BY <1>0 DEF OneStop, Stopping, Stops
  <2> QED
    BY <2>1, <2>2, <2>3 DEF ShownSoon, Stops
<1>6. ASSUME Kindly PROVE OwnedSoon'
  BY <1>2, <1>6 DEF SessionInv, OwnedSoon
<1> QED
  BY <1>1, <1>3, <1>4, <1>5, <1>6 DEF SessionInv, InOrder, Fresh, InTime, Kindly

\* The handle of a thread that has ended is not needed to account for others.
LEMMA EndCounted ==
  ASSUME SessionInv, Fresh, NEW w \in Worker, NEW n \in live[w]
  PROVE  live[w] \ {n} \subseteq {0, ending.join[w]}
<1>1. Typed /\ OneStop /\ Counted /\ StopTakes
  BY DEF SessionInv, Fresh, InOrder, Orderly
<1>2. live[w] \subseteq {started[w], ending.join[w]} /\ n # 0
  BY <1>1 DEF Counted, Typed, Number
<1>3. CASE stopping
  BY <1>1, <1>2, <1>3 DEF StopTakes
<1>4. CASE ~stopping
  BY <1>1, <1>2, <1>4 DEF OneStop, Nothing
<1> QED
  BY <1>1, <1>3, <1>4 DEF Typed

\* What CloseSocket does to the descriptors and the sockets.
LEMMA SocketsClose ==
  ASSUME Typed, NEW which \in SUBSET Socket, CloseSocket(which)
  PROVE  /\ fd' \in [Socket -> Handle] /\ open' \in [Socket -> SUBSET Number]
         /\ \A s \in Socket : /\ fd'[s] = IF s \in which THEN 0 ELSE fd[s]
                              /\ open'[s] = IF s \in which THEN open[s] \ {fd[s]} ELSE open[s]
<1>1. 0 \in Handle
  BY MediaAssumption DEF Handle
<1> QED
  BY <1>1 DEF CloseSocket, Typed

LEMMA RelayEndsKeeps == ASSUME SessionInv, NEW n \in Number, RelayEnds(n) PROVE SessionInv'
<1>0. Typed /\ "relay" \in Worker /\ {"rtp"} \in SUBSET Socket /\ "sip" \in Socket
  BY DEF SessionInv, Worker, Socket
<1>1. /\ n \in live["relay"] /\ live' = [live EXCEPT !["relay"] = live["relay"] \ {n}]
      /\ CloseSocket({"rtp"}) /\ active' = FALSE
      /\ UNCHANGED <<running, guard, stopping, starting, halt, started, slots, parked, played,
                     owner, pc, then, number, ending, shown, starts, races>>
  BY DEF RelayEnds, Ends, clients, calls
<1>2. /\ fd' \in [Socket -> Handle] /\ open' \in [Socket -> SUBSET Number]
      /\ \A s \in Socket : /\ fd'[s] = IF s = "rtp" THEN 0 ELSE fd[s]
                           /\ open'[s] = IF s = "rtp" THEN open[s] \ {fd[s]} ELSE open[s]
  <2>. DEFINE which == {"rtp"}
  <2>1. which \in SUBSET Socket /\ CloseSocket(which)
    BY <1>0, <1>1
  <2>2. \A s \in Socket : s \in which <=> s = "rtp"
    OBVIOUS
  <2> HIDE DEF which
  <2> QED
    BY <1>0, <2>1, <2>2, SocketsClose
<1>3. /\ live' \in [Worker -> SUBSET Number] /\ live'["relay"] = live["relay"] \ {n}
      /\ \A w \in Worker : live'[w] \subseteq live[w]
  BY <1>0, <1>1 DEF Typed
<1>4. Typed'
  BY <1>0, <1>1, <1>2, <1>3 DEF Typed
<1>5. InOrder => live'["relay"] = {}
  BY <1>1, <1>3 DEF SessionInv, Orderly, OneRelay
<1>6. Fresh => /\ \A w \in Worker : live'[w] \subseteq {started'[w], ending.join[w]}
               /\ \A s \in Socket : open'[s] \subseteq {fd'[s]} \cup {m \in {ending.sip} : s = "sip"}
  BY <1>0, <1>1, <1>2, <1>3 DEF SessionInv, Counted
<1>7. \A w \in Worker : started'[w] \in {started[w], 0} /\ live'[w] \subseteq live[w]
  BY <1>1, <1>3
<1>8. /\ \A s \in Socket : fd'[s] \in {fd[s], 0} /\ open'[s] \subseteq open[s]
      /\ started'["relay"] = started["relay"] /\ fd'["sip"] = fd["sip"]
  BY <1>0, <1>1, <1>2
<1> QED
  BY <1>1, <1>4, <1>5, <1>6, <1>7, <1>8, WorkerKeeps

\* The monitor or the talkback thread ends.
LEMMA ThreadEndsKeeps ==
  ASSUME SessionInv, NEW w \in {"monitor", "talkback"}, NEW n \in live[w], Ends(w, n),
         started' = [started EXCEPT ![w] = 0], halt' \in [Worker -> BOOLEAN],
         UNCHANGED <<running, guard, stopping, active, starting, fd, open, slots, parked,
                     played, owner, pc, then, number, ending, shown, starts, races>>
  PROVE  SessionInv'
<1>0. Typed /\ w \in Worker /\ "relay" \in Worker /\ w # "relay" /\ 0 \in Handle
  BY MediaAssumption DEF SessionInv, Worker, Handle
<1>1. /\ live' \in [Worker -> SUBSET Number] /\ started' \in [Worker -> Handle]
      /\ live'[w] = live[w] \ {n} /\ started'[w] = 0
      /\ \A v \in Worker \ {w} : live'[v] = live[v] /\ started'[v] = started[v]
  BY <1>0 DEF Typed, Ends
<1>2. Typed'
  BY <1>0, <1>1 DEF Typed
<1>3. Fresh => /\ \A v \in Worker : live'[v] \subseteq {started'[v], ending.join[v]}
               /\ \A s \in Socket : open'[s] \subseteq {fd'[s]} \cup {m \in {ending.sip} : s = "sip"}
  <2> SUFFICES ASSUME Fresh
               PROVE  /\ \A v \in Worker : live'[v] \subseteq {started'[v], ending.join[v]}
                      /\ \A s \in Socket : open'[s] \subseteq {fd'[s]} \cup {m \in {ending.sip} : s = "sip"}
    OBVIOUS
  <2>1. Counted
    BY DEF SessionInv
  <2>2. live'[w] \subseteq {started'[w], ending.join[w]}
    BY <1>0, <1>1, EndCounted
  <2> QED
    BY <1>1, <2>1, <2>2 DEF Counted
<1>4. \A v \in Worker : started'[v] \in {started[v], 0} /\ live'[v] \subseteq live[v]
  BY <1>0, <1>1
<1>5. InOrder /\ live'["relay"] # {} => active'
  BY <1>0, <1>1 DEF SessionInv, Orderly, OneRelay
<1>6. started'["relay"] = started["relay"]
  BY <1>0, <1>1
<1> QED
  BY <1>2, <1>3, <1>4, <1>5, <1>6, WorkerKeeps

LEMMA MediaEndsKeeps == ASSUME SessionInv, NEW n \in Number, MediaEnds(n) PROVE SessionInv'
<1>0. /\ Typed /\ "media" \in Worker /\ "relay" \in Worker /\ 0 \in Handle
      /\ {"ports"} \in SUBSET Socket /\ "sip" \in Socket
  BY MediaAssumption DEF SessionInv, Worker, Socket, Handle
<1>1. /\ n \in live["media"] /\ live' = [live EXCEPT !["media"] = live["media"] \ {n}]
      /\ started' = [started EXCEPT !["media"] = 0] /\ CloseSocket({"ports"})
      /\ UNCHANGED <<running, guard, stopping, active, starting, halt, slots, parked, played,
                     owner, pc, then, number, ending, shown, starts, races>>
  BY DEF MediaEnds, Ends, bridge, clients, calls
<1>2. /\ fd' \in [Socket -> Handle] /\ open' \in [Socket -> SUBSET Number]
      /\ \A s \in Socket : /\ fd'[s] = IF s = "ports" THEN 0 ELSE fd[s]
                           /\ open'[s] = IF s = "ports" THEN open[s] \ {fd[s]} ELSE open[s]
  <2>. DEFINE which == {"ports"}
  <2>1. which \in SUBSET Socket /\ CloseSocket(which)
    BY <1>0, <1>1
  <2>2. \A s \in Socket : s \in which <=> s = "ports"
    OBVIOUS
  <2> HIDE DEF which
  <2> QED
    BY <1>0, <2>1, <2>2, SocketsClose
<1>3. /\ live' \in [Worker -> SUBSET Number] /\ started' \in [Worker -> Handle]
      /\ live'["media"] = live["media"] \ {n} /\ started'["media"] = 0
      /\ \A v \in Worker \ {"media"} : live'[v] = live[v] /\ started'[v] = started[v]
  BY <1>0, <1>1 DEF Typed
<1>4. Typed'
  BY <1>0, <1>1, <1>2, <1>3 DEF Typed
<1>5. Fresh => /\ \A v \in Worker : live'[v] \subseteq {started'[v], ending.join[v]}
               /\ \A s \in Socket : open'[s] \subseteq {fd'[s]} \cup {m \in {ending.sip} : s = "sip"}
  <2> SUFFICES ASSUME Fresh
               PROVE  /\ \A v \in Worker : live'[v] \subseteq {started'[v], ending.join[v]}
                      /\ \A s \in Socket : open'[s] \subseteq {fd'[s]} \cup {m \in {ending.sip} : s = "sip"}
    OBVIOUS
  <2>1. Counted
    BY DEF SessionInv
  <2>2. live'["media"] \subseteq {started'["media"], ending.join["media"]}
    BY <1>0, <1>1, <1>3, EndCounted
  <2> QED
    BY <1>2, <1>3, <2>1, <2>2 DEF Counted
<1>6. \A v \in Worker : started'[v] \in {started[v], 0} /\ live'[v] \subseteq live[v]
  BY <1>0, <1>3
<1>7. InOrder /\ live'["relay"] # {} => active'
  BY <1>0, <1>1, <1>3 DEF SessionInv, Orderly, OneRelay
<1>8. /\ \A s \in Socket : fd'[s] \in {fd[s], 0} /\ open'[s] \subseteq open[s]
      /\ started'["relay"] = started["relay"] /\ fd'["sip"] = fd["sip"]
  BY <1>0, <1>2, <1>3
<1> QED
  BY <1>1, <1>4, <1>5, <1>6, <1>7, <1>8, WorkerKeeps

LEMMA WorkersKeep == ASSUME SessionInv, NEW n \in Number, WorkerEnds(n) \/ Bye(n) PROVE SessionInv'
<1>0. Typed
  BY DEF SessionInv
<1>1. CASE RelayEnds(n)
  BY <1>1, RelayEndsKeeps
<1>2. CASE MediaEnds(n)
  BY <1>2, MediaEndsKeeps
<1>3. CASE MonitorEnds(n)
  <2>1. /\ n \in live["monitor"] /\ Ends("monitor", n)
        /\ started' = [started EXCEPT !["monitor"] = 0] /\ halt' \in [Worker -> BOOLEAN]
        /\ UNCHANGED <<running, guard, stopping, active, starting, fd, open, slots, parked,
                       played, owner, pc, then, number, ending, shown, starts, races>>
    BY <1>0, <1>3 DEF MonitorEnds, bridge, sockets, clients, calls, Typed
  <2> QED
    BY <2>1, ThreadEndsKeeps
<1>4. CASE TalkbackEnds(n)
  <2>1. /\ n \in live["talkback"] /\ Ends("talkback", n)
        /\ started' = [started EXCEPT !["talkback"] = 0] /\ halt' \in [Worker -> BOOLEAN]
        /\ UNCHANGED <<running, guard, stopping, active, starting, fd, open, slots, parked,
                       played, owner, pc, then, number, ending, shown, starts, races>>
    BY <1>0, <1>4 DEF TalkbackEnds, bridge, sockets, clients, calls, Typed
  <2> QED
    BY <2>1, ThreadEndsKeeps
<1>5. CASE Bye(n)
  <2>1. /\ n \in live["monitor"] /\ Ends("monitor", n)
        /\ started' = [started EXCEPT !["monitor"] = 0] /\ halt' \in [Worker -> BOOLEAN]
        /\ UNCHANGED <<running, guard, stopping, active, starting, fd, open, slots, parked,
                       played, owner, pc, then, number, ending, shown, starts, races>>
    BY <1>0, <1>5 DEF Bye, sockets, calls, Typed
  <2> QED
    BY <2>1, ThreadEndsKeeps
<1> QED
  BY <1>1, <1>2, <1>3, <1>4, <1>5 DEF WorkerEnds

-----------------------------------------------------------------------------
(* The session.                                                             *)

LEMMA SessionStarts == Init => SessionInv
<1> SUFFICES ASSUME Init PROVE SessionInv
  OBVIOUS
<1>0. 0 \in Handle /\ Http \in Caller /\ Caller = Client \cup {Http} /\ Http \notin Client
  BY MediaAssumption DEF Handle, Caller
<1>1. Typed
  <2>1. ending \in [join : [Worker -> Handle], sip : Handle]
    BY <1>0 DEF Init, Nothing
  <2> QED
    BY <1>0, <2>1 DEF Init, Typed
<1>2. \A p \in Caller : pc[p] = IF p = Http THEN "idle" ELSE "out"
  BY DEF Init
<1>3. Placed
  BY <1>0, <1>2 DEF Init, Placed, PlaceOf, HttpPlace, ClientPlace, Nexts, Stops, Starting
<1>4. OneStop /\ Seated
  BY <1>0, <1>2 DEF Init, OneStop, Stopping, Seated, Playing
<1>5. Idle /\ \A w \in Worker : live[w] = {} /\ started[w] = 0
  BY DEF Init, Idle
<1>6. Orderly
  BY <1>2, <1>5 DEF Init, Orderly, OneStart, Starting, OneRelay, StopTakes, Held, Guarded, Worker
<1>7. Counted
  BY <1>2, <1>5 DEF Init, Counted
<1>8. ShownSoon /\ OwnedSoon
  BY <1>5 DEF Init, ShownSoon, OwnedSoon
<1> QED
  BY <1>1, <1>3, <1>4, <1>6, <1>7, <1>8 DEF SessionInv

LEMMA CarryKeeps == ASSUME SessionInv, NEW p \in Caller, Carry(p) PROVE SessionInv'
<1>1. CASE Start(p)
  BY <1>1, StartRefusedKeeps, StartSharedKeeps, NoSocketsKeeps, StartBeginsKeeps,
     SipFailsKeeps, SipOpensKeeps, TalkbackKeeps, TalkbackFailsKeeps, TakeoverFailsKeeps,
     RunsKeeps, ReportsKeeps DEF Start
<1>2. CASE Finish(p)
  BY <1>2, StopKeeps, JoinsKeeps, StopEndsKeeps, StoppedKeeps DEF Finish
<1>3. CASE p # Http /\ (Plays(p) \/ StopByLast(p))
  BY <1>3, PlaysKeeps, StopKeeps DEF Caller
<1>4. CASE Kept \/ Resume \/ Repark \/ StopAtShutdown
  BY <1>4, KeptKeeps, ResumeKeeps, ReparkKeeps, StopKeeps
<1> QED
  BY <1>1, <1>2, <1>3, <1>4 DEF Carry

LEMMA SessionStays == ASSUME SessionInv, UNCHANGED vars PROVE SessionInv'
<1>1. UNCHANGED <<running, guard, stopping, active, starting, halt, started, live, fd, open,
                  slots, parked, played, owner, pc, then, number, ending, shown, starts, races>>
  BY DEF vars, bridge, threads, sockets, clients, calls
<1>2. Idle' <=> Idle
  BY <1>1 DEF Idle
<1>3. Typed' /\ Placed' /\ OneStop' /\ Seated'
  BY <1>1 DEF SessionInv, Typed, Placed, OneStop, Seated, Stopping, Stops, Starting, Playing, Nothing
<1>4. InOrder => Orderly'
  BY <1>1, <1>2 DEF SessionInv, Orderly, OneStart, Starting, OneRelay, StopTakes, Held, Guarded
<1>5. Fresh => Counted'
  BY <1>1 DEF SessionInv, Counted
<1>6. (InTime => ShownSoon') /\ (Kindly => OwnedSoon')
  BY <1>1, <1>2 DEF SessionInv, ShownSoon, OwnedSoon, Stops
<1> QED
  BY <1>1, <1>3, <1>4, <1>5, <1>6 DEF SessionInv, InOrder, Fresh, InTime, Kindly

LEMMA SessionKeeps == SessionInv /\ [Next]_vars => SessionInv'
<1> SUFFICES ASSUME SessionInv, [Next]_vars PROVE SessionInv'
  OBVIOUS
<1>1. ASSUME NEW p \in Caller, Carry(p) PROVE SessionInv'
  BY <1>1, CarryKeeps
<1>2. ASSUME NEW c \in Client, Connect(c) \/ Play(c) \/ Leave(c) PROVE SessionInv'
  BY <1>2, ConnectKeeps, PlayKeeps, LeaveKeeps
<1>3. CASE Activate \/ Stop \/ Shutdown
  BY <1>3, ActivateKeeps, StopKeeps, ShutdownKeeps
<1>4. ASSUME NEW n \in Number, WorkerEnds(n) \/ Bye(n) PROVE SessionInv'
  BY <1>4, WorkersKeep
<1>5. CASE Down \/ UNCHANGED vars
  BY <1>5, SessionStays DEF Down
<1> QED
  BY <1>1, <1>2, <1>3, <1>4, <1>5 DEF Next

LEMMA SessionInvTrue == SessionInv => SessionTrue
<1> SUFFICES ASSUME SessionInv PROVE SessionTrue
  OBVIOUS
<1>1. /\ Without({"overtaken"}) => InOrder
      /\ Without({"overtaken", "rebuilt"}) => Fresh
      /\ Without({"late", "overtaken"}) => InTime
      /\ Without({"overtaken", "bystander", "abandoned", "evicted"}) => Kindly
  BY DEF Without, InOrder, Fresh, InTime, Kindly
<1>2. Accounted
  BY <1>1 DEF SessionInv, Counted, Accounted
<1>3. StoppedIsIdle
  BY <1>1 DEF SessionInv, Orderly, Guarded, StoppedIsIdle
<1>4. Settled => /\ ~stopping
                 /\ \A p \in Caller : pc[p] \in {"in", "out", "idle", "down"}
                 /\ slots \subseteq Caller /\ Client \subseteq Caller
  BY DEF SessionInv, OneStop, Stopping, Settled, Typed, Caller
<1>5. Owned
  BY <1>1, <1>4 DEF SessionInv, OwnedSoon, Owned
<1>6. ShownTrue
  BY <1>1, <1>4 DEF SessionInv, ShownSoon, Stops, ShownTrue
<1> QED
  BY <1>2, <1>3, <1>5, <1>6 DEF SessionTrue

\* What g_bridge holds is what there is, an explicit stop leaves nothing, what
\* there is has an owner, and the status tells of it, but for the races named
\* by each.
THEOREM SessionTrueHolds == Spec => []SessionTrue
<1>1. Spec => []SessionInv
  BY SessionStarts, SessionKeeps, PTL DEF Spec
<1> QED
  BY <1>1, SessionInvTrue, PTL

\* Another viewer than the slots allow has its place only in exchange.
SlotsFit == IsFiniteSet(slots) /\ Cardinality(slots) <= Capacity

LEMMA SlotsStep == SessionInv /\ SlotsFit /\ [Next]_vars => SlotsFit'
<1> SUFFICES ASSUME SessionInv, SlotsFit, [Next]_vars PROVE SlotsFit'
  OBVIOUS
<1>0. Capacity \in Nat \ {0} /\ Cardinality(slots) \in Nat /\ parked \subseteq slots
  BY MediaAssumption, FS_CardinalityType DEF SlotsFit, SessionInv, Typed
<1>1. CASE \E c \in Client : Connect(c)
  <2>1. PICK c \in Client, gone \in SUBSET parked :
           /\ IF Cardinality(slots) >= Capacity THEN Cardinality(gone) = 1 ELSE gone = {}
           /\ slots' = (slots \ gone) \cup {c}
    BY <1>1 DEF Connect
  <2>. DEFINE left == slots \ gone
  <2>2. IsFiniteSet(gone) /\ IsFiniteSet(left) /\ gone \subseteq slots
    BY <1>0, <2>1, FS_Subset DEF SlotsFit
  <2>3. Cardinality(left) \in Nat /\ Cardinality(left) + 1 <= Capacity
    <3>1. CASE Cardinality(slots) < Capacity
      <4>1. left = slots
        BY <1>0, <2>1, <3>1
      <4> QED
        BY <1>0, <3>1, <4>1
    <3>2. CASE Cardinality(slots) = Capacity
      <4>1. Cardinality(gone) = 1
        BY <1>0, <2>1, <3>2
      <4>2. Cardinality(left) = Cardinality(slots) - Cardinality(slots \cap gone)
        BY <2>2, FS_Difference DEF SlotsFit
      <4>3. slots \cap gone = gone
        BY <2>2
      <4>4. Cardinality(left) = Capacity - 1
        BY <3>2, <4>1, <4>2, <4>3
      <4> QED
        BY <1>0, <4>4
    <3> QED
      BY <1>0, <3>1, <3>2 DEF SlotsFit
  <2>4. /\ IsFiniteSet(left \cup {c})
        /\ Cardinality(left \cup {c}) = IF c \in left THEN Cardinality(left) ELSE Cardinality(left) + 1
    BY <2>2, FS_AddElement
  <2> QED
    BY <1>0, <2>1, <2>3, <2>4 DEF SlotsFit
<1>2. CASE slots' \subseteq slots
  <2>1. IsFiniteSet(slots') /\ Cardinality(slots') <= Cardinality(slots)
    BY <1>2, FS_Subset DEF SlotsFit
  <2>2. Cardinality(slots') \in Nat
    BY <2>1, FS_CardinalityType
  <2> QED
    BY <1>0, <2>1, <2>2 DEF SlotsFit
<1>3. ASSUME NEW p \in Caller, Carry(p) PROVE slots' = slots
  BY <1>3 DEF Carry, Start, StartRefused, StartShared, NoSockets, StartBegins, SipFails, SipOpens,
              Talkback, TalkbackFails, TakeoverFails, Runs, Reports, Finish, StopOfFailedStart, Joins, StopEnds, Stopped,
              Plays, StopByLast, Kept, Resume, Repark, StopAtShutdown, clients, Quiet
<1>4. ASSUME NEW c \in Client, Play(c) \/ Leave(c) PROVE slots' \subseteq slots
  BY <1>4 DEF Play, Leave
<1>5. Activate \/ Stop \/ Shutdown \/ Down \/ UNCHANGED vars => slots' = slots
  <2>1. (Activate => slots' = slots) /\ (Shutdown => slots' = slots)
    BY DEF Activate, Shutdown, Quiet
  <2>2. Stop => slots' = slots
    BY DEF Stop
  <2>3. Down \/ UNCHANGED vars => slots' = slots
    BY DEF Down, vars, clients
  <2> QED
    BY <2>1, <2>2, <2>3
<1>6. ASSUME NEW n \in Number, WorkerEnds(n) \/ Bye(n) PROVE slots' = slots
  BY <1>6 DEF WorkerEnds, RelayEnds, MonitorEnds, MediaEnds, TalkbackEnds, Bye, clients
<1> QED
  BY <1>1, <1>2, <1>3, <1>4, <1>5, <1>6 DEF Next

\* The state is well-typed, and the table of viewers is never larger than its
\* capacity: a viewer that finds it full has the place of a parked one.
THEOREM SessionTyped == Spec => []TypeOK
<1>1. Init => SlotsFit
  <2> SUFFICES ASSUME Init PROVE SlotsFit
    OBVIOUS
  <2>1. slots = {} /\ IsFiniteSet({}) /\ Cardinality({}) = 0
    BY FS_EmptySet DEF Init
  <2> QED
    BY <2>1, MediaAssumption DEF SlotsFit
<1>2. SessionInv /\ SlotsFit => TypeOK
  BY DEF SessionInv, Typed, Placed, SlotsFit, TypeOK, ClientPlace, HttpPlace, Nexts
<1> QED
  BY SessionStarts, SessionKeeps, SlotsStep, <1>1, <1>2, PTL DEF Spec
=============================================================================
