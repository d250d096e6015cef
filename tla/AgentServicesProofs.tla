------------------------- MODULE AgentServicesProofs -------------------------
(***************************************************************************)
(* Proofs about the agent's ringer commands and about what Home Assistant  *)
(* keeps in step with the agent: the metrics snapshot, the display patch,  *)
(* the update of the agent, the Repairs issues and the recovery of a setup, *)
(* each for every value of its bounds.  For each there is the invariant    *)
(* that is inductive, the steps it survives, and the theorem about the     *)
(* property the runs check.                                                *)
(***************************************************************************)
EXTENDS RingerControl, SystemMetrics, DisplayPatch, AgentUpdate, RepairIssues,
        SetupRecovery, SequenceTheorems, FiniteSetTheorems, TLAPS

\* The acknowledgments under way are those of commands the GUI has applied, and
\* a confirmed command is one of them.
Genuine ==
    /\ \A k \in Conn : conn[k].at = "sent" /\ conn[k].id # None
                       /\ conn[k].muted = want[conn[k].id] => conn[k].id \in toGui
    /\ \A k \in Conn : conn[k].at = "told" =>
           conn[k].id \in Client /\ conn[k].muted = want[conn[k].id]
    /\ confirmed => client \in toGui

\* The pending command is the last one made and its client waits for it.
Pending == client # None => id = client /\ answer[client] = "open"

\* The agent and the GUI agree on which connection is parked.
Parked == \A k \in Conn : conn[k].at = "held" <=> gui = k

RingerInv == RingerTypeOK /\ Genuine /\ Pending /\ Parked

-----------------------------------------------------------------------------
(* The pieces the actions are made of.                                      *)

LEMMA ConnStates ==
    /\ Closed \in ConnState /\ Retrying \in ConnState /\ Held \in ConnState
    /\ \A c \in Client \cup {None}, m \in BOOLEAN :
           Sent(c, m) \in ConnState /\ Told(c, m) \in ConnState
BY DEF ConnState, Closed, Retrying, Held, Sent, Told

LEMMA ConnIds == "gui" \in Conn /\ "ghost" \in Conn /\ "gui" # "ghost"
                 /\ None # "gui" /\ None # "ghost"
BY RingerAssumption DEF Conn

LEMMA RefusedShape ==
    ASSUME conn \in [Conn -> ConnState], NEW k \in Conn
    PROVE  /\ Refused(k) \in [Conn -> ConnState]
           /\ \A j \in Conn : j # k => Refused(k)[j] = conn[j]
           /\ Refused(k)[k] \in {Closed, Retrying}
BY ConnStates DEF Refused

\* Answering the pending client or finishing it, and reading the device back.
LEMMA FinishType ==
    ASSUME Finish
    PROVE  client' = None /\ id' = None /\ confirmed' = FALSE
BY DEF Finish

LEMMA AnswerType ==
    ASSUME answer \in [Client -> {"new", "open", "ok", "failed", "gone"}],
           NEW c, NEW what \in {"open", "ok", "failed", "gone"}, Answer(c, what)
    PROVE  /\ answer' \in [Client -> {"new", "open", "ok", "failed", "gone"}]
           /\ c \in Client => answer'[c] = what
           /\ \A d \in Client : d # c => answer'[d] = answer[d]
BY DEF Answer

LEMMA NoteType ==
    ASSUME RingerTypeOK, NEW m \in BOOLEAN, Note(m)
    PROVE  known' \in BOOLEAN \cup {None} /\ reported' \in BOOLEAN /\ excused' \in BOOLEAN
<1>1. known' \in BOOLEAN \cup {None}
  BY Zenon DEF Note
<1>2. reported' \in BOOLEAN
  BY Zenon DEF Note, RingerTypeOK
<1>3. excused' \in BOOLEAN
  BY Zenon DEF Note, RingerTypeOK
<1> QED
  BY <1>1, <1>2, <1>3

\* The readback answers the client, with success only when the device agrees,
\* or leaves it waiting as a confirmed command.
LEMMA ApplyShape ==
    ASSUME RingerTypeOK, client \in Client, NEW consumed \in BOOLEAN, Apply(consumed)
    PROVE  /\ known' \in BOOLEAN \cup {None} /\ reported' \in BOOLEAN /\ excused' \in BOOLEAN
           /\ answer' \in [Client -> {"new", "open", "ok", "failed", "gone"}]
           /\ \A d \in Client : d # client => answer'[d] = answer[d]
           /\ \/ client' = None /\ id' = None /\ confirmed' = FALSE
                 /\ (answer'[client] = "ok" => device = want[client])
                 /\ answer'[client] \in {"ok", "failed"}
              \/ client' = client /\ id' = id /\ confirmed' = TRUE /\ answer' = answer
<1>1. want[client] \in BOOLEAN
  BY DEF RingerTypeOK
<1>2. CASE Answer(client, "failed") /\ Finish
           /\ excused' = (excused \/ consumed) /\ UNCHANGED <<known, reported>>
  <2>1. known' \in BOOLEAN \cup {None} /\ reported' \in BOOLEAN
    BY <1>2, Zenon DEF RingerTypeOK
  <2>2. excused' \in BOOLEAN
    BY <1>2, Zenon
  <2> QED
    BY <1>2, <2>1, <2>2, AnswerType, FinishType DEF RingerTypeOK
<1>3. CASE ReadBackAgrees
           /\ known' = want[client] /\ reported' = want[client] /\ excused' = FALSE
           /\ Answer(client, "ok") /\ Finish
  <2>1. known' \in BOOLEAN \cup {None} /\ reported' \in BOOLEAN /\ excused' \in BOOLEAN
    BY <1>3, <1>1, Zenon
  <2> QED
    BY <1>3, <2>1, AnswerType, FinishType DEF RingerTypeOK, ReadBackAgrees
<1>4. CASE ReadBackAgrees /\ Note(want[client]) /\ Answer(client, "failed") /\ Finish
  BY <1>4, <1>1, NoteType, AnswerType, FinishType DEF RingerTypeOK
<1>5. CASE ~ReadBackAgrees /\ confirmed' = TRUE
           /\ UNCHANGED <<client, id, answer>> /\ UNCHANGED view
  BY <1>5 DEF RingerTypeOK, view
<1> QED
  BY <1>2, <1>3, <1>4, <1>5 DEF Apply

LEMMA ParkShape ==
    ASSUME RingerInv, NEW k \in Conn, conn[k].at = "sent", ParkOrRefuse(k)
    PROVE  /\ conn' \in [Conn -> ConnState] /\ gui' \in Conn \cup {None} /\ Parked'
           /\ \A j \in Conn : j # k => conn'[j] = conn[j]
           /\ conn'[k] \in {Closed, Retrying, Held}
<1> USE DEF RingerInv, RingerTypeOK, Parked
<1>1. gui # k
  BY SMTT(30)
<1>2. CASE Busy
  BY <1>1, <1>2, RefusedShape, SMTT(30) DEF ParkOrRefuse, Closed, Retrying
<1>3. CASE ~Busy
  <2>1. gui = None /\ gui' = k /\ conn' = [conn EXCEPT ![k] = Held]
    BY <1>3 DEF ParkOrRefuse, Busy
  <2>2. conn' \in [Conn -> ConnState] /\ conn'[k] = Held
        /\ \A j \in Conn : j # k => conn'[j] = conn[j]
    BY <2>1, ConnStates
  <2>3. Parked'
    <3> SUFFICES ASSUME NEW j \in Conn PROVE conn'[j].at = "held" <=> gui' = j
      BY DEF Parked
    <3> QED
      BY <2>1, <2>2, ConnIds DEF Held, Conn
  <2> QED
    BY <2>1, <2>2, <2>3
<1> QED
  BY <1>2, <1>3

\* What is genuine stays so when one connection stops speaking.
LEMMA GenuineKept ==
    ASSUME Genuine, NEW k \in Conn, \A j \in Conn : j # k => conn'[j] = conn[j],
           conn'[k] \in {Closed, Retrying, Held}, UNCHANGED <<want, toGui>>,
           confirmed' => client' \in toGui
    PROVE  Genuine'
<1>1. conn'[k].at \notin {"sent", "told"}
  BY DEF Closed, Retrying, Held
<1>2. ASSUME NEW j \in Conn, conn'[j].at = "sent", conn'[j].id # None,
             conn'[j].muted = want'[conn'[j].id]
      PROVE  conn'[j].id \in toGui'
  BY <1>1, <1>2 DEF Genuine
<1>3. ASSUME NEW j \in Conn, conn'[j].at = "told"
      PROVE  conn'[j].id \in Client /\ conn'[j].muted = want'[conn'[j].id]
  BY <1>1, <1>3 DEF Genuine
<1> QED
  BY <1>2, <1>3 DEF Genuine

-----------------------------------------------------------------------------
(* Every step preserves the invariant.                                      *)

LEMMA RingerStarts == RingerInit => RingerInv
<1> SUFFICES ASSUME RingerInit PROVE RingerInv
  OBVIOUS
<1>1. conn \in [Conn -> ConnState]
  BY ConnStates DEF RingerInit
<1>2. answer \in [Client -> {"new", "open", "ok", "failed", "gone"}]
  BY DEF RingerInit
<1>3. known \in BOOLEAN \cup {None} /\ device \in BOOLEAN /\ reported \in BOOLEAN
      /\ excused \in BOOLEAN /\ confirmed \in BOOLEAN
  BY Zenon DEF RingerInit
<1>4. announced \in Seq(BOOLEAN) /\ Len(announced) <= MaxAnnounced
  BY RingerAssumption DEF RingerInit
<1>5. RingerTypeOK
  BY <1>1, <1>2, <1>3, <1>4, RingerAssumption DEF RingerInit, RingerTypeOK
<1>6. Genuine /\ Pending /\ Parked
  BY RingerAssumption DEF RingerInit, Genuine, Pending, Parked, Closed
<1> QED
  BY <1>5, <1>6 DEF RingerInv

LEMMA RequestKeeps ==
    ASSUME RingerInv, NEW c \in Client, Request(c)
    PROVE  RingerInv'
<1> USE DEF RingerInv, view, counts
<1>1. CASE Answer(c, "failed") /\ UNCHANGED conn /\ UNCHANGED control
  <2>1. RingerTypeOK'
    BY <1>1, AnswerType DEF Request, RingerTypeOK, control
  <2>2. Pending'
    BY <1>1, AnswerType DEF Request, RingerTypeOK, control, Pending
  <2> QED
    BY <1>1, <2>1, <2>2 DEF Request, Genuine, Parked, control
<1>2. ASSUME Ready, gui' = None, id' = c, client' = c,
             conn' = [conn EXCEPT ![gui] = IF gui = "gui" THEN Told(c, want[c]) ELSE Closed],
             Answer(c, "open"), UNCHANGED confirmed
      PROVE  RingerInv'
  <2>1. gui \in Conn /\ want[c] \in BOOLEAN /\ ~confirmed
    BY <1>2, RingerAssumption DEF Ready, RingerTypeOK, Genuine
  <2>2. conn'[gui] \in {Told(c, want[c]), Closed} /\ \A j \in Conn : j # gui => conn'[j] = conn[j]
    BY <1>2, <2>1 DEF RingerTypeOK
  <2>3. conn' \in [Conn -> ConnState]
    BY <1>2, <2>1, ConnStates DEF RingerTypeOK
  <2>4. RingerTypeOK'
    BY <1>2, <2>3, AnswerType DEF Request, RingerTypeOK
  <2>5. Genuine'
    <3>1. UNCHANGED <<want, toGui>> /\ ~confirmed'
      BY <1>2, <2>1 DEF Request
    <3>2. CASE conn'[gui] = Closed
      BY <2>1, <2>2, <3>1, <3>2, GenuineKept
    <3>3. CASE conn'[gui] = Told(c, want[c])
      <4>1. conn'[gui].at = "told" /\ conn'[gui].id = c /\ conn'[gui].muted = want[c]
        BY <3>3 DEF Told
      <4> QED
        BY <2>1, <2>2, <3>1, <4>1 DEF Genuine
    <3> QED
      BY <2>2, <3>2, <3>3
  <2>6. Pending'
    BY <1>2, AnswerType DEF RingerTypeOK, Pending
  <2>7. Parked'
    BY <1>2, <2>1, <2>2, RingerAssumption DEF Parked, Told, Closed
  <2> QED
    BY <2>4, <2>5, <2>6, <2>7
<1>3. ASSUME Ready, gui' = None, id' = c, conn' = Refused(gui),
             Answer(c, "failed"), UNCHANGED <<client, confirmed>>
      PROVE  RingerInv'
  <2>1. gui \in Conn /\ ~confirmed /\ client = None
    BY <1>3, RingerAssumption DEF Ready, RingerTypeOK, Genuine
  <2>2. RingerTypeOK'
    BY <1>3, <2>1, AnswerType, RefusedShape DEF Request, RingerTypeOK
  <2>3. Genuine'
    <3>1. UNCHANGED <<want, toGui>> /\ ~confirmed'
      BY <1>3, <2>1 DEF Request
    <3> QED
      BY <1>3, <2>1, <3>1, RefusedShape, GenuineKept DEF RingerTypeOK
  <2>4. Parked'
    BY <1>3, <2>1, RefusedShape, RingerAssumption, SMTT(30) DEF Parked, Retrying, Closed, RingerTypeOK
  <2> QED
    BY <1>3, <2>1, <2>2, <2>3, <2>4 DEF Pending
<1> QED
  BY <1>1, <1>2, <1>3 DEF Request

\* The client is answered, or hangs up.
LEMMA FinishedKeeps ==
    ASSUME RingerInv, client # None, NEW what \in {"failed", "gone"}, Answer(client, what), Finish,
           UNCHANGED <<conn, gui, want, device, announced, toGui>>,
           UNCHANGED view, UNCHANGED counts
    PROVE  RingerInv'
<1>1. RingerTypeOK'
  BY AnswerType, FinishType DEF RingerInv, RingerTypeOK, view, counts
<1>2. Genuine' /\ Pending' /\ Parked'
  BY FinishType DEF RingerInv, Genuine, Pending, Parked
<1> QED
  BY <1>1, <1>2 DEF RingerInv

LEMMA NextCommandKeeps ==
    ASSUME RingerInv, NEW k \in Conn, NextCommand(k)
    PROVE  RingerInv'
<1> DEFINE c == conn[k].id
<1> USE DEF RingerInv, view, counts, control
<1>1. UNCHANGED <<want, device, announced, toGui>> /\ conn[k].at = "sent"
  BY DEF NextCommand
<1>2. CASE c # None /\ Stale(c) /\ conn' = Refused(k)
           /\ UNCHANGED answer /\ UNCHANGED control /\ UNCHANGED view
  <2>1. RingerTypeOK'
    BY <1>1, <1>2, RefusedShape DEF RingerTypeOK, NextCommand
  <2>2. Genuine'
    <3>1. confirmed' => client' \in toGui
      BY <1>2 DEF Genuine
    <3> QED
      BY <1>1, <1>2, <3>1, RefusedShape, GenuineKept DEF RingerTypeOK
  <2>3. Parked'
    BY <1>1, <1>2, RefusedShape DEF RingerTypeOK, Parked, Retrying, Closed
  <2> QED
    BY <1>2, <2>1, <2>2, <2>3 DEF Pending
<1>3. CASE c # None /\ ~Stale(c) /\ conn[k].muted # want[client]
           /\ Answer(client, "failed") /\ Finish
           /\ ParkOrRefuse(k) /\ UNCHANGED view
  <2>1. RingerTypeOK'
    BY <1>1, <1>3, AnswerType, FinishType, ParkShape DEF RingerTypeOK, NextCommand
  <2>2. Genuine'
    BY <1>1, <1>3, FinishType, ParkShape DEF Genuine, Retrying, Closed, Held
  <2> QED
    BY <1>1, <1>3, <2>1, <2>2, FinishType, ParkShape DEF Pending
<1>4. CASE c # None /\ ~Stale(c) /\ conn[k].muted = want[client]
           /\ Apply(FALSE) /\ ParkOrRefuse(k)
  <2>1. client \in Client /\ client = c /\ client \in toGui
    BY <1>1, <1>4 DEF Stale, RingerTypeOK, Pending, Genuine
  <2>2. RingerTypeOK'
    BY <1>1, <1>4, <2>1, ApplyShape, ParkShape DEF RingerTypeOK, NextCommand
  <2>3. Genuine'
    <3>1. confirmed' => client' \in toGui
      BY <1>4, <2>1, ApplyShape
    <3> QED
      BY <1>1, <1>4, <3>1, ParkShape, GenuineKept
  <2>4. Pending'
    BY <1>4, <2>1, ApplyShape DEF Pending
  <2> QED
    BY <1>1, <1>4, <2>2, <2>3, <2>4, ParkShape
<1>5. CASE c = None /\ UNCHANGED <<client, confirmed, id, answer>> /\ UNCHANGED view
           /\ ParkOrRefuse(k)
  <2>1. RingerTypeOK'
    BY <1>1, <1>5, ParkShape DEF RingerTypeOK, NextCommand
  <2>2. Genuine'
    BY <1>1, <1>5, ParkShape DEF Genuine, Retrying, Closed, Held
  <2> QED
    BY <1>1, <1>5, <2>1, <2>2, ParkShape DEF Pending
<1> QED
  BY <1>2, <1>3, <1>4, <1>5 DEF NextCommand

LEMMA ParkedGoneKeeps ==
    ASSUME RingerInv, ParkedGone
    PROVE  RingerInv'
<1> USE DEF RingerInv, ParkedGone, GhostDropped
<1>1. conn' \in [Conn -> ConnState] /\ conn'["ghost"] = Closed /\ conn'["gui"] = conn["gui"]
  BY ConnStates, ConnIds DEF RingerTypeOK
<1>2. RingerTypeOK'
  BY <1>1 DEF RingerTypeOK, view, counts
<1>3. Genuine'
  BY <1>1 DEF Genuine, Closed, Conn
<1>4. Parked'
  BY <1>1, ConnIds DEF Parked, Closed, Conn
<1> QED
  BY <1>2, <1>3, <1>4 DEF Pending

LEMMA AnnouncementKeeps ==
    ASSUME RingerInv, Announcement
    PROVE  RingerInv'
<1> DEFINE m == Head(announced)
<1> USE DEF RingerInv, view, counts
<1>1. m \in BOOLEAN /\ announced' \in Seq(BOOLEAN) /\ Len(announced') <= MaxAnnounced
  <2>1. announced # <<>> /\ announced' = Tail(announced)
    BY Zenon DEF Announcement
  <2>4. announced \in Seq(BOOLEAN) /\ Len(announced) <= MaxAnnounced /\ Len(announced) \in Nat
    BY DEF RingerTypeOK
  <2> HIDE DEF RingerInv, view, counts
  <2>2. m \in BOOLEAN /\ announced' \in Seq(BOOLEAN)
    BY <2>1, <2>4, HeadTailProperties
  <2>3. Len(announced') = Len(announced) - 1
    BY <2>1, <2>4, HeadTailProperties
  <2> QED
    BY <2>1, <2>2, <2>3, <2>4, RingerAssumption
<1>2. UNCHANGED <<conn, gui, want, device, toGui, reloads, restarts>>
  BY DEF Announcement
<1>3. CASE Confirms(m) /\ Apply(TRUE)
  <2>1. client \in Client /\ client \in toGui
    BY <1>3 DEF Confirms, RingerTypeOK, Genuine
  <2>2. RingerTypeOK'
    BY <1>1, <1>2, <1>3, <2>1, ApplyShape DEF RingerTypeOK
  <2>3. Genuine' /\ Pending' /\ Parked'
    BY <1>2, <1>3, <2>1, ApplyShape DEF Genuine, Pending, Parked
  <2> QED
    BY <2>2, <2>3
<1>4. CASE Note(m) /\ UNCHANGED <<client, confirmed, id, answer>>
  <2>1. RingerTypeOK'
    BY <1>1, <1>2, <1>4, NoteType DEF RingerTypeOK
  <2> QED
    BY <1>2, <1>4, <2>1 DEF Genuine, Pending, Parked
<1>5. CASE excused' = TRUE
           /\ UNCHANGED <<known, reported, client, confirmed, id, answer>>
  <2>1. RingerTypeOK'
    BY <1>1, <1>2, <1>5 DEF RingerTypeOK
  <2> QED
    BY <1>2, <1>5, <2>1 DEF Genuine, Pending, Parked
<1> QED
  BY <1>3, <1>4, <1>5 DEF Announcement

LEMMA ReadKeeps ==
    ASSUME RingerInv, ReadState
    PROVE  RingerInv'
<1> USE DEF RingerInv, ReadState, control, counts
<1>1. known' \in BOOLEAN \cup {None}
  BY Zenon DEF RingerTypeOK
<1>2. excused' \in BOOLEAN
  BY Zenon DEF RingerTypeOK
<1>3. RingerTypeOK'
  BY <1>1, <1>2 DEF RingerTypeOK
<1> QED
  BY <1>3 DEF Genuine, Pending, Parked

LEMMA RestartKeeps ==
    ASSUME RingerInv, Restart
    PROVE  RingerInv'
<1> USE DEF RingerInv
<1>1. client' = None /\ id' = None /\ confirmed' = FALSE /\ gui' = None
  BY FinishType DEF Restart
<1>2. answer' \in [Client -> {"new", "open", "ok", "failed", "gone"}]
  BY AnswerType DEF Restart, RingerTypeOK
<1>3. excused' \in BOOLEAN
  BY Zenon DEF Restart, RingerTypeOK
<1>4. conn' \in [Conn -> ConnState]
  BY ConnStates DEF Restart, RingerTypeOK
<1>5. announced' \in Seq(BOOLEAN) /\ Len(announced') <= MaxAnnounced
  BY RingerAssumption DEF Restart
<1>6. restarts' \in 0 .. MaxRestart
  BY RingerAssumption DEF Restart, RingerTypeOK
<1>7. RingerTypeOK'
  BY <1>1, <1>2, <1>3, <1>4, <1>5, <1>6 DEF Restart, RingerTypeOK
<1>8. \A k \in Conn : conn'[k] \in {Closed, Retrying} \/ (conn'[k] = conn[k] /\ conn[k].at \notin {"held", "sent"})
  BY DEF Restart
<1>9. Genuine' /\ Pending' /\ Parked'
  BY <1>1, <1>8, RingerAssumption DEF Restart, Genuine, Pending, Parked, Closed, Retrying
<1> QED
  BY <1>7, <1>9

LEMMA GuiCallsKeeps ==
    ASSUME RingerInv, GuiCalls
    PROVE  RingerInv'
<1> USE DEF RingerInv, GuiCalls, agentVars
<1>1. conn' \in [Conn -> ConnState]
      /\ conn'["gui"].at = "sent" /\ conn'["gui"].id = None /\ conn'["ghost"] = conn["ghost"]
  BY ConnStates, ConnIds DEF RingerTypeOK, Sent
<1>2. RingerTypeOK'
  BY <1>1 DEF RingerTypeOK
<1>3. Genuine'
  BY <1>1 DEF Genuine, Conn
<1>4. Parked'
  BY <1>1 DEF Parked, Conn
<1> QED
  BY <1>2, <1>3, <1>4 DEF Pending

LEMMA GuiAppliesKeeps ==
    ASSUME RingerInv, GuiApplies
    PROVE  RingerInv'
<1> DEFINE c == conn["gui"].id
<1> USE DEF RingerInv, GuiApplies, agentVars
<1>1. c \in Client /\ conn["gui"].muted = want[c] /\ conn["gui"].at = "told"
  BY ConnIds DEF Genuine
<1>2. ASSUME NEW m \in BOOLEAN,
             conn' = [conn EXCEPT !["gui"] = Sent(c, m)],
             toGui' = IF m = conn["gui"].muted THEN toGui \cup {c} ELSE toGui
      PROVE  RingerInv'
  <2>1. conn' \in [Conn -> ConnState] /\ conn'["ghost"] = conn["ghost"]
        /\ conn'["gui"].at = "sent" /\ conn'["gui"].id = c /\ conn'["gui"].muted = m
    BY <1>1, <1>2, ConnStates, ConnIds DEF RingerTypeOK, Sent
  <2>2. toGui \subseteq toGui' /\ toGui' \subseteq Client /\ (m = want[c] => c \in toGui')
    BY <1>1, <1>2 DEF RingerTypeOK
  <2>3. RingerTypeOK'
    BY <2>1, <2>2 DEF RingerTypeOK
  <2>4. Genuine'
    BY <2>1, <2>2 DEF Genuine, Conn
  <2>5. Parked'
    BY <1>1, <2>1 DEF Parked, Conn
  <2> QED
    BY <2>3, <2>4, <2>5 DEF Pending
<1>3. ASSUME conn' = [conn EXCEPT !["gui"] = Retrying], UNCHANGED toGui
      PROVE  RingerInv'
  <2>1. conn' \in [Conn -> ConnState] /\ conn'["ghost"] = conn["ghost"] /\ conn'["gui"] = Retrying
    BY <1>3, ConnStates, ConnIds DEF RingerTypeOK
  <2>2. RingerTypeOK'
    BY <1>3, <2>1 DEF RingerTypeOK
  <2>3. Genuine'
    BY <1>3, <2>1, ConnIds, GenuineKept DEF Conn, Genuine
  <2>4. Parked'
    BY <1>1, <2>1 DEF Parked, Conn, Retrying
  <2> QED
    BY <2>2, <2>3, <2>4 DEF Pending
<1> QED
  BY <1>2, <1>3

LEMMA GuiReloadKeeps ==
    ASSUME RingerInv, GuiReload
    PROVE  RingerInv'
<1> USE DEF RingerInv, GuiReload
<1>1. conn' \in [Conn -> ConnState] /\ conn'["gui"] = Closed
      /\ conn'["ghost"] = IF conn["gui"].at \in {"held", "sent"} THEN conn["gui"] ELSE Closed
  BY ConnStates, ConnIds DEF RingerTypeOK
<1>2. gui' \in Conn \cup {None} /\ gui # "ghost"
  BY ConnIds DEF RingerTypeOK, Parked, Closed
<1>3. reloads' \in 0 .. MaxReload
  BY RingerAssumption DEF RingerTypeOK
<1>4. RingerTypeOK'
  BY <1>1, <1>2, <1>3 DEF RingerTypeOK, view
<1>5. Genuine'
  BY <1>1 DEF Genuine, Conn, Closed
<1>6. Parked'
  BY <1>1, <1>2, ConnIds DEF Parked, Conn, Closed, RingerTypeOK
<1> QED
  BY <1>4, <1>5, <1>6 DEF Pending

LEMMA DeviceChangesKeeps ==
    ASSUME RingerInv, RingerChanges
    PROVE  RingerInv'
<1>1. (~device) \in BOOLEAN
  BY Zenon
<1>6. device' = ~device /\ announced' = Append(announced, ~device)
  BY Zenon DEF RingerChanges
<1>7. device' \in BOOLEAN
  BY <1>1, <1>6, Zenon
<1>2. announced \in Seq(BOOLEAN) /\ Len(announced) < MaxAnnounced
  BY DEF RingerChanges, RingerInv, RingerTypeOK
<1>3. announced' \in Seq(BOOLEAN) /\ Len(announced') = Len(announced) + 1
  BY <1>1, <1>2, <1>6, AppendProperties
<1>4. Len(announced') <= MaxAnnounced
  BY <1>2, <1>3, RingerAssumption
<1>5. RingerTypeOK'
  BY <1>7, <1>3, <1>4 DEF RingerChanges, agentVars, RingerInv, RingerTypeOK
<1> QED
  BY <1>5 DEF RingerChanges, agentVars, RingerInv, Genuine, Pending, Parked

LEMMA NextKeeps == RingerInv /\ [RingerNext]_ringerVars => RingerInv'
<1> SUFFICES ASSUME RingerInv, [RingerNext]_ringerVars PROVE RingerInv'
  OBVIOUS
<1>1. CASE TimeOut \/ ClientGone
  BY <1>1, FinishedKeeps DEF TimeOut, ClientGone
<1>2. CASE UNCHANGED ringerVars
  BY <1>2 DEF ringerVars, RingerInv, RingerTypeOK, Genuine, Pending, Parked
<1> QED
  BY <1>1, <1>2, RequestKeeps, NextCommandKeeps, ParkedGoneKeeps, AnnouncementKeeps, ReadKeeps,
     RestartKeeps, GuiCallsKeeps, GuiAppliesKeeps, GuiReloadKeeps, DeviceChangesKeeps DEF RingerNext

-----------------------------------------------------------------------------
(* The results.                                                             *)

\* The state keeps its types.
THEOREM RingerTypeCorrect == RingerSpec => []RingerTypeOK
<1>1. RingerInv => RingerTypeOK
  BY DEF RingerInv
<1> QED
  BY <1>1, RingerStarts, NextKeeps, PTL DEF RingerSpec

\* The GUI never waits on a connection that the agent does not hold.
THEOREM NeverForgotten == RingerSpec => []NotForgotten
<1>1. RingerInv => NotForgotten
  BY ConnIds DEF RingerInv, Parked, NotForgotten
<1> QED
  BY <1>1, RingerStarts, NextKeeps, PTL DEF RingerSpec

\* Whose answer a step may change.
LEMMA AnswersStep ==
    ASSUME RingerInv, [RingerNext]_ringerVars, NEW c \in Client, answer'[c] # answer[c]
    PROVE  /\ answer[c] \in {"new", "open"}
           /\ answer'[c] = "ok" => device = want[c] /\ c \in toGui
<1> USE DEF RingerInv
<1>1. ASSUME NEW d \in Client, Request(d) PROVE answer[d] = "new" /\ answer'[d] # "ok"
                                                /\ \A e \in Client : e # d => answer'[e] = answer[e]
  BY <1>1, AnswerType DEF Request, RingerTypeOK
<1>2. ASSUME NEW k \in Conn, NextCommand(k), answer' # answer
      PROVE  client \in Client /\ answer[client] = "open"
             /\ (\A e \in Client : e # client => answer'[e] = answer[e])
             /\ (answer'[client] = "ok" => device = want[client] /\ client \in toGui)
  <2>1. client \in Client /\ answer[client] = "open"
    BY <1>2 DEF NextCommand, Stale, RingerTypeOK, Pending
  <2>2. CASE Answer(client, "failed")
    BY <2>1, <2>2, AnswerType DEF RingerTypeOK
  <2>3. CASE Apply(FALSE) /\ conn[k].id # None /\ ~Stale(conn[k].id) /\ conn[k].muted = want[client]
    <3>1. client \in toGui
      BY <2>1, <2>3, <1>2 DEF Stale, Pending, Genuine, NextCommand
    <3> QED
      BY <2>1, <2>3, <3>1, <1>2, ApplyShape
  <2> QED
    BY <1>2, <2>2, <2>3 DEF NextCommand
<1>3. ASSUME Announcement, answer' # answer
      PROVE  client \in Client /\ answer[client] = "open"
             /\ (\A e \in Client : e # client => answer'[e] = answer[e])
             /\ (answer'[client] = "ok" => device = want[client] /\ client \in toGui)
  <2>1. Confirms(Head(announced)) /\ Apply(TRUE)
    BY <1>3 DEF Announcement
  <2>2. client \in Client /\ answer[client] = "open" /\ client \in toGui
    BY <2>1 DEF Confirms, RingerTypeOK, Pending, Genuine
  <2> QED
    BY <1>3, <2>1, <2>2, ApplyShape
<1>4. ASSUME client # None, NEW what \in {"failed", "gone"}, Answer(client, what)
      PROVE  client \in Client /\ answer[client] = "open" /\ answer'[client] # "ok"
             /\ \A e \in Client : e # client => answer'[e] = answer[e]
  BY <1>4, AnswerType DEF RingerTypeOK, Pending
<1>5. CASE TimeOut \/ ClientGone \/ Restart
  BY <1>4, <1>5 DEF TimeOut, ClientGone, Restart
<1>6. CASE ParkedGone \/ ReadState \/ GuiCalls \/ GuiApplies \/ GuiReload \/ RingerChanges \/ UNCHANGED ringerVars
  BY <1>6 DEF ParkedGone, ReadState, GuiCalls, GuiApplies, GuiReload, RingerChanges, agentVars, ringerVars
<1> QED
  BY <1>1, <1>2, <1>3, <1>5, <1>6 DEF RingerNext

\* Success is true: the device has the state, which the GUI reached for this
\* command.
THEOREM SuccessIsTrue == RingerSpec => TrueSuccess
<1>1. RingerInv /\ [RingerNext]_ringerVars =>
         [\A c \in Client : answer'[c] = "ok" /\ answer[c] # "ok" =>
              device = want[c] /\ c \in toGui]_ringerVars
  BY AnswersStep
<1> QED
  BY <1>1, RingerStarts, NextKeeps, PTL DEF RingerSpec, TrueSuccess

\* An answer is final.
THEOREM AnswersAreFinal == RingerSpec => OneAnswer
<1>1. RingerInv /\ [RingerNext]_ringerVars =>
         [\A c \in Client : answer[c] \notin {"new", "open"} => answer'[c] = answer[c]]_ringerVars
  BY AnswersStep
<1> QED
  BY <1>1, RingerStarts, NextKeeps, PTL DEF RingerSpec, OneAnswer

-----------------------------------------------------------------------------
(* What everybody else is told.                                             *)

\* The announcements under way end with the device's state, and while nothing
\* was kept back the agent knows no other state than the last it reported.
Reports ==
    /\ announced # <<>> => announced[Len(announced)] = device
    /\ ~excused => /\ known = None \/ known = reported
                   /\ announced = <<>> => reported = device

LEMMA ReportsStart == RingerInit => Reports
BY Zenon DEF RingerInit, Reports

\* An observed state that is the device's, or one of several announced.
LEMMA NoteReports ==
    ASSUME Reports, NEW m \in BOOLEAN, Note(m)
    PROVE  ~excused' => /\ known' = None \/ known' = reported'
                        /\ reported' = m
<1>1. CASE Changed(m)
  BY <1>1, Zenon DEF Note
<1>2. CASE ~Changed(m)
  <2>1. known' = m /\ reported' = reported /\ excused' = (excused \/ known = None)
    BY <1>2, Zenon DEF Note
  <2>2. ASSUME ~excused' PROVE reported = m
    <3>1. ~excused /\ known # None
      BY <2>1, <2>2, Zenon
    <3>2. known = reported /\ known = m
      BY <1>2, <3>1, Zenon DEF Reports, Changed
    <3> QED
      BY <3>2
  <2> QED
    BY <2>1, <2>2, Zenon
<1> QED
  BY <1>1, <1>2

\* A readback reports the device's state, or leaves what was reported.
LEMMA ApplyReports ==
    ASSUME RingerInv, Reports, client \in Client, NEW consumed \in BOOLEAN, Apply(consumed)
    PROVE  ~excused' => /\ known' = None \/ known' = reported'
                        /\ \/ reported' = device
                           \/ /\ reported' = reported /\ ~excused
                              /\ consumed => device # want[client]
<1>1. want[client] \in BOOLEAN
  BY DEF RingerInv, RingerTypeOK
<1>2. CASE Answer(client, "failed") /\ Finish
           /\ excused' = (excused \/ consumed) /\ UNCHANGED <<known, reported>>
  BY <1>2, Zenon DEF Reports
<1>3. CASE ReadBackAgrees
           /\ known' = want[client] /\ reported' = want[client] /\ excused' = FALSE
           /\ Answer(client, "ok") /\ Finish
  BY <1>3, Zenon DEF ReadBackAgrees
<1>4. CASE ReadBackAgrees /\ Note(want[client]) /\ Answer(client, "failed") /\ Finish
  BY <1>1, <1>4, NoteReports, Zenon DEF ReadBackAgrees
<1>5. CASE ~ReadBackAgrees /\ confirmed' = TRUE
           /\ UNCHANGED <<client, id, answer>> /\ UNCHANGED view
  BY <1>5, Zenon DEF ReadBackAgrees, view, Reports
<1> QED
  BY <1>2, <1>3, <1>4, <1>5 DEF Apply

\* Reading the first announcement leaves the last, unless it was the last.
LEMMA LastStays ==
    ASSUME RingerInv, Reports, announced # <<>>, announced' = Tail(announced)
    PROVE  /\ Head(announced) \in BOOLEAN
           /\ announced' # <<>> => announced'[Len(announced')] = device
           /\ announced' = <<>> => Head(announced) = device
<1>1. announced \in Seq(BOOLEAN) /\ announced[Len(announced)] = device
  BY DEF RingerInv, RingerTypeOK, Reports
<1>2. Len(announced') = Len(announced) - 1 /\ Len(announced) \in Nat \ {0}
      /\ announced' \in Seq(BOOLEAN) /\ Head(announced) \in BOOLEAN
      /\ Head(announced) = announced[1]
      /\ \A i \in 1 .. Len(announced) - 1 : announced'[i] = announced[i + 1]
  BY <1>1
<1>3. ASSUME announced' # <<>> PROVE announced'[Len(announced')] = device
  <2>1. Len(announced') # 0
    BY <1>2, <1>3
  <2> QED
    BY <1>1, <1>2, <2>1
<1>4. ASSUME announced' = <<>> PROVE Head(announced) = device
  <2>0. Len(<<>>) = 0
    BY EmptySeq
  <2>1. Len(announced') = 0
    BY <1>4, <2>0, Zenon
  <2> QED
    BY <1>1, <1>2, <2>1
<1> QED
  BY <1>2, <1>3, <1>4

LEMMA AnnouncementReports ==
    ASSUME RingerInv, Reports, Announcement
    PROVE  Reports'
<1> DEFINE m == Head(announced)
<1>1. announced # <<>> /\ announced' = Tail(announced) /\ device' = device
  BY Zenon DEF Announcement
<1>2. m \in BOOLEAN
      /\ (announced' # <<>> => announced'[Len(announced')] = device)
      /\ (announced' = <<>> => m = device)
  BY <1>1, LastStays
<1> HIDE DEF m
<1>3. ASSUME ~excused'
      PROVE  /\ known' = None \/ known' = reported'
             /\ announced' = <<>> => reported' = device
  <2>1. CASE Confirms(m) /\ Apply(TRUE)
    <3>1. client \in Client /\ m = want[client]
      BY <2>1 DEF Confirms, RingerInv, RingerTypeOK
    <3> QED
      BY <1>2, <1>3, <2>1, <3>1, ApplyReports
  <2>2. CASE Note(m)
    BY <1>2, <1>3, <2>2, NoteReports
  <2> QED
    BY <1>3, <2>1, <2>2 DEF Announcement, m
<1> QED
  BY <1>1, <1>2, <1>3, Zenon DEF Reports

LEMMA ReportsKeep ==
    ASSUME RingerInv, Reports, [RingerNext]_ringerVars
    PROVE  Reports'
<1>1. ASSUME UNCHANGED <<known, reported, excused, device, announced>> PROVE Reports'
  BY <1>1, Zenon DEF Reports
<1>2. ASSUME NEW c \in Client, Request(c) PROVE Reports'
  BY <1>1, <1>2 DEF Request, view
<1>3. ASSUME NEW k \in Conn, NextCommand(k) PROVE Reports'
  <2>1. UNCHANGED <<device, announced>>
    BY <1>3 DEF NextCommand
  <2>2. CASE UNCHANGED view
    BY <1>1, <2>1, <2>2 DEF view
  <2>3. CASE conn[k].id # None /\ ~Stale(conn[k].id) /\ Apply(FALSE)
    <3>1. client \in Client
      BY <2>3 DEF Stale, RingerInv, RingerTypeOK
    <3>2. ~excused' => /\ known' = None \/ known' = reported'
                       /\ reported' = device \/ (reported' = reported /\ ~excused)
      BY <2>3, <3>1, ApplyReports
    <3> QED
      BY <2>1, <3>2, Zenon DEF Reports
  <2> QED
    BY <1>3, <2>2, <2>3 DEF NextCommand
<1>4. CASE TimeOut \/ ClientGone \/ ParkedGone
  BY <1>1, <1>4 DEF TimeOut, ClientGone, ParkedGone, view
<1>5. CASE ReadState
  <2>1. known' = device /\ excused' = (excused \/ known # device)
        /\ UNCHANGED <<device, announced, reported>>
    BY <1>5, Zenon DEF ReadState
  <2>2. device # None
    BY RingerAssumption DEF RingerInv, RingerTypeOK
  <2> QED
    BY <2>1, <2>2, Zenon DEF Reports
<1>6. CASE Restart
  <2>1. announced' = <<>> /\ excused' = (excused \/ announced # <<>>) /\ known' = None
        /\ UNCHANGED <<device, reported>>
    BY <1>6, Zenon DEF Restart
  <2> QED
    BY <2>1, Zenon DEF Reports
<1>7. CASE GuiCalls \/ GuiApplies \/ GuiReload
  BY <1>1, <1>7 DEF GuiCalls, GuiApplies, GuiReload, agentVars, view
<1>8. CASE RingerChanges
  <2>1. device' = ~device /\ announced' = Append(announced, ~device)
        /\ UNCHANGED <<known, reported, excused>>
    BY <1>8, Zenon DEF RingerChanges, agentVars
  <2>2. (~device) \in BOOLEAN /\ announced \in Seq(BOOLEAN)
    BY Zenon DEF RingerInv, RingerTypeOK
  <2>3. announced' # <<>> /\ announced'[Len(announced')] = (~device)
    BY <2>1, <2>2, AppendProperties
  <2> QED
    BY <2>1, <2>3, Zenon DEF Reports
<1>9. CASE UNCHANGED ringerVars
  BY <1>1, <1>9 DEF ringerVars
<1> QED
  BY <1>2, <1>3, <1>4, <1>5, <1>6, <1>7, <1>8, <1>9, AnnouncementReports DEF RingerNext

\* When its announcements are read, the device's state is the last one that was
\* published or answered, unless the agent kept a state to itself.
THEOREM ReportedHolds == RingerSpec => []ReportedOrExcused
<1>1. Reports => ReportedOrExcused
  BY Zenon DEF Reports, ReportedOrExcused
<1>2. (RingerInv /\ Reports) /\ [RingerNext]_ringerVars => (RingerInv /\ Reports)'
  BY NextKeeps, ReportsKeep
<1>3. RingerInit => RingerInv /\ Reports
  BY RingerStarts, ReportsStart
<1> QED
  BY <1>1, <1>2, <1>3, PTL DEF RingerSpec

\* What ringer_control checks of every state and step, for any number of
\* clients, announcements, reloads and restarts.
THEOREM RingerTrueHolds == RingerSpec => RingerTrue
BY RingerTypeCorrect, NeverForgotten, ReportedHolds, AnswersAreFinal, SuccessIsTrue, PTL DEF RingerTrue

SnapshotInv ==
    /\ agent \in Snapshot /\ flight \subseteq Snapshot /\ snapshot \in Snapshot
    /\ read \in MetricsRead
    /\ shown \subseteq Instance
    /\ shown \subseteq retired \cup {snapshot.inst}

NoReturnStep ==
    snapshot' # snapshot /\ snapshot'.inst # Legacy =>
        IF snapshot'.inst = snapshot.inst THEN snapshot'.seq > snapshot.seq
        ELSE snapshot'.inst \notin shown

LEMMA SnapshotShape ==
    ASSUME NEW m \in Snapshot
    PROVE  /\ m.inst \in Instance \cup {Legacy}
           /\ m.seq \in Nat
           /\ m = [inst |-> m.inst, seq |-> m.seq]
BY MetricsAssumption DEF Snapshot, Sample, OldSample, Instance, Legacy

LEMMA SnapshotStarts == MetricsInit => SnapshotInv
<1>. SUFFICES ASSUME MetricsInit PROVE SnapshotInv
  OBVIOUS
<1>1. agent \in Snapshot
  <2>1. CASE agent = OldSample
    BY <2>1 DEF Snapshot
  <2>2. CASE agent = [inst |-> 1, seq |-> 1]
    BY <2>2, MetricsAssumption DEF Snapshot, Sample, Instance
  <2>. QED
    BY <2>1, <2>2 DEF MetricsInit
<1>. QED
  BY <1>1 DEF MetricsInit, SnapshotInv, Snapshot, MetricsRead

\* A snapshot that is accepted belongs to an instance that was never left.
LEMMA StoreSafe ==
    ASSUME SnapshotInv, NEW m \in Snapshot, Ordered(m), StoreMetrics(m)
    PROVE  /\ snapshot' \in Snapshot
           /\ shown' \subseteq Instance
           /\ shown' \subseteq retired' \cup {snapshot'.inst}
           /\ NoReturnStep
<1>1. /\ m.inst \in Instance \cup {Legacy} /\ m.seq \in Nat
      /\ m = [inst |-> m.inst, seq |-> m.seq]
  BY SnapshotShape
<1>2. /\ snapshot.seq \in Nat
      /\ snapshot = [inst |-> snapshot.inst, seq |-> snapshot.seq]
  BY SnapshotShape DEF SnapshotInv
<1>3. Legacy \notin shown
  BY DEF SnapshotInv, Instance, Legacy
<1>4. shown' \subseteq Instance
  BY <1>1 DEF StoreMetrics, SnapshotInv
<1>5. shown' \subseteq retired' \cup {snapshot'.inst}
  <2>1. CASE m.inst = snapshot.inst
    BY <2>1 DEF StoreMetrics, SnapshotInv, Retired
  <2>2. CASE m.inst # snapshot.inst /\ snapshot.inst # Legacy
    BY <2>2 DEF StoreMetrics, SnapshotInv, Retired
  <2>3. CASE m.inst # snapshot.inst /\ snapshot.inst = Legacy
    BY <2>3, <1>3 DEF StoreMetrics, SnapshotInv, Retired
  <2>. QED
    BY <2>1, <2>2, <2>3
<1>6. NoReturnStep
  <2>. SUFFICES ASSUME m # snapshot, m.inst # Legacy
                PROVE  IF m.inst = snapshot.inst THEN m.seq > snapshot.seq ELSE m.inst \notin shown
    BY DEF NoReturnStep, StoreMetrics
  <2>1. CASE m.inst = snapshot.inst
    <3>1. m.seq >= snapshot.seq
      BY <2>1 DEF Ordered, SameInstance
    <3>2. m.seq # snapshot.seq
      BY <1>1, <1>2, <2>1
    <3>. QED
      BY <1>1, <1>2, <2>1, <3>1, <3>2
  <2>2. CASE m.inst # snapshot.inst
    BY <2>2 DEF Ordered, SnapshotInv
  <2>. QED
    BY <2>1, <2>2
<1>. QED
  BY <1>4, <1>5, <1>6 DEF StoreMetrics

\* A step that keeps the snapshot returns nothing.
LEMMA KeepSafe ==
    ASSUME SnapshotInv, KeepSnapshot
    PROVE  /\ snapshot' \in Snapshot
           /\ shown' \subseteq Instance
           /\ shown' \subseteq retired' \cup {snapshot'.inst}
           /\ NoReturnStep
BY DEF SnapshotInv, KeepSnapshot, NoReturnStep

LEMMA NextSafe ==
    ASSUME SnapshotInv, [MetricsNext]_metricsVars
    PROVE  SnapshotInv' /\ NoReturnStep
<1>0. /\ agent \in Snapshot /\ flight \subseteq Snapshot /\ snapshot \in Snapshot
      /\ read \in MetricsRead
  BY DEF SnapshotInv
<1>1. ASSUME NEW m \in flight, PushArrives(m) PROVE SnapshotInv' /\ NoReturnStep
  <2>1. m \in Snapshot /\ flight' \subseteq Snapshot /\ agent' \in Snapshot
    BY <1>0, <1>1 DEF PushArrives
  <2>2. CASE Ordered(m) /\ ~Downgrade(m)
    <3>1. StoreMetrics(m)
      BY <1>1, <2>2 DEF PushArrives
    <3>2. read' \in MetricsRead
      BY <1>0, <1>1, <2>2 DEF PushArrives, MetricsRead, NoRead
    <3>. QED
      BY <2>1, <2>2, <3>1, <3>2, StoreSafe DEF SnapshotInv
  <2>3. CASE ~(Ordered(m) /\ ~Downgrade(m))
    <3>1. KeepSnapshot /\ UNCHANGED read
      BY <1>1, <2>3 DEF PushArrives
    <3>. QED
      BY <1>0, <2>1, <3>1, KeepSafe DEF SnapshotInv
  <2>. QED
    BY <2>2, <2>3
<1>2. CASE MetricsReadStarts
  <2>1. read' \in MetricsRead
    BY <1>2 DEF MetricsReadStarts, MetricsRead
  <2>. QED
    BY <1>0, <1>2, <2>1, KeepSafe DEF MetricsReadStarts, SnapshotInv
<1>3. CASE AgentAnswers
  <2>1. read' \in MetricsRead
    BY <1>0, <1>3 DEF AgentAnswers, MetricsRead, NoRead
  <2>. QED
    BY <1>0, <1>3, <2>1, KeepSafe DEF AgentAnswers, SnapshotInv
<1>4. CASE ReadArrives
  <2>1. read.metrics \in Snapshot /\ read' \in MetricsRead
    BY <1>0, <1>4 DEF ReadArrives, MetricsRead, NoRead
  <2>2. CASE Ordered(read.metrics) /\ StoreMetrics(read.metrics)
    BY <1>0, <1>4, <2>1, <2>2, StoreSafe DEF ReadArrives, SnapshotInv
  <2>3. CASE KeepSnapshot
    BY <1>0, <1>4, <2>1, <2>3, KeepSafe DEF ReadArrives, SnapshotInv
  <2>. QED
    BY <1>4, <2>2, <2>3 DEF ReadArrives
<1>5. CASE ReadFails
  BY <1>0, <1>5, KeepSafe DEF ReadFails, MetricsRead, SnapshotInv
<1>6. CASE Invalidate
  BY <1>0, <1>6 DEF Invalidate, MetricsRead, SnapshotInv, NoReturnStep
<1>7. CASE Expire
  BY <1>0, <1>7 DEF Expire, SnapshotInv, NoReturnStep
<1>8. CASE TakesSample
  <2>1. agent' \in Snapshot
    BY <1>0, <1>8, MetricsAssumption DEF TakesSample, Snapshot, Sample, OldSample
  <2>. QED
    BY <1>0, <1>8, <2>1, KeepSafe DEF TakesSample, SnapshotInv
<1>9. CASE Restarts
  <2>1. agent' \in Snapshot
    BY <1>9, MetricsAssumption DEF Restarts, Snapshot, Sample
  <2>. QED
    BY <1>0, <1>9, <2>1, KeepSafe DEF Restarts, SnapshotInv
<1>10. CASE Push
  BY <1>0, <1>10, KeepSafe DEF Push, SnapshotInv
<1>11. CASE PushLost
  BY <1>0, <1>11, KeepSafe DEF PushLost, SnapshotInv
<1>12. CASE Calms
  BY <1>0, <1>12, KeepSafe DEF Calms, SnapshotInv
<1>13. CASE UNCHANGED metricsVars
  BY <1>13 DEF metricsVars, SnapshotInv, NoReturnStep
<1>. QED
  BY <1>1, <1>2, <1>3, <1>4, <1>5, <1>6, <1>7, <1>8, <1>9, <1>10, <1>11, <1>12, <1>13 DEF MetricsNext

\* system_metrics.py never goes back to an instance it has left, nor to an
\* older sample of the one it shows.
THEOREM NoReturnHolds == MetricsSpec => NoReturn
<1>1. NoReturnStep => [snapshot' # snapshot /\ snapshot'.inst # Legacy =>
           IF snapshot'.inst = snapshot.inst THEN snapshot'.seq > snapshot.seq
           ELSE snapshot'.inst \notin shown]_metricsVars
  BY DEF NoReturnStep
<1>. QED
  BY <1>1, SnapshotStarts, NextSafe, PTL DEF MetricsSpec, NoReturn

-----------------------------------------------------------------------------
(* The rest of the types: few pushes are under way.                         *)

Bounds ==
    /\ IsFiniteSet(flight) /\ Cardinality(flight) <= MaxFlight
    /\ retired \subseteq Instance
    /\ needs \in BOOLEAN /\ expired \in BOOLEAN /\ calm \in BOOLEAN

LEMMA InitBounds == MetricsInit => Bounds
<1>. SUFFICES ASSUME MetricsInit PROVE Bounds
  OBVIOUS
<1>1. IsFiniteSet(flight) /\ Cardinality(flight) = 0
  BY FS_EmptySet DEF MetricsInit
<1>2. Cardinality(flight) <= MaxFlight
  BY <1>1, MetricsAssumption
<1>. QED
  BY <1>1, <1>2 DEF MetricsInit, Bounds

LEMMA FewerPushes ==
    ASSUME Bounds, flight' \subseteq flight
    PROVE  IsFiniteSet(flight') /\ Cardinality(flight') <= MaxFlight
<1>1. IsFiniteSet(flight') /\ Cardinality(flight') <= Cardinality(flight)
  BY FS_Subset DEF Bounds
<1>2. Cardinality(flight') \in Nat /\ Cardinality(flight) \in Nat
  BY <1>1, FS_CardinalityType DEF Bounds
<1>. QED
  BY <1>1, <1>2, MetricsAssumption DEF Bounds

LEMMA StoreBounds ==
    ASSUME SnapshotInv, Bounds, NEW m \in Snapshot, StoreMetrics(m)
    PROVE  retired' \subseteq Instance /\ needs' \in BOOLEAN /\ expired' \in BOOLEAN
<1>1. snapshot.inst \in Instance \cup {Legacy}
  BY SnapshotShape DEF SnapshotInv
<1>. QED
  BY <1>1 DEF StoreMetrics, Bounds, Retired, RefreshDone

LEMMA NextBounds == ASSUME SnapshotInv, Bounds, [MetricsNext]_metricsVars PROVE Bounds'
<1>. USE DEF KeepSnapshot
<1>1. ASSUME NEW m \in flight, PushArrives(m) PROVE Bounds'
  <2>1. IsFiniteSet(flight') /\ Cardinality(flight') <= MaxFlight
    BY <1>1, FewerPushes DEF PushArrives
  <2>2. m \in Snapshot
    BY <1>1 DEF SnapshotInv
  <2>3. retired' \subseteq Instance /\ needs' \in BOOLEAN /\ expired' \in BOOLEAN
    BY <1>1, <2>2, StoreBounds DEF PushArrives, Bounds
  <2>. QED
    BY <1>1, <2>1, <2>3 DEF PushArrives, Bounds
<1>2. CASE MetricsReadStarts \/ AgentAnswers \/ ReadFails
  BY <1>2 DEF MetricsReadStarts, AgentAnswers, ReadFails, Bounds
<1>3. CASE ReadArrives
  <2>1. read.metrics \in Snapshot
    BY <1>3 DEF ReadArrives, SnapshotInv, MetricsRead, NoRead
  <2>2. retired' \subseteq Instance /\ needs' \in BOOLEAN /\ expired' \in BOOLEAN
    BY <1>3, <2>1, StoreBounds DEF ReadArrives, Bounds
  <2>. QED
    BY <1>3, <2>2 DEF ReadArrives, Bounds
<1>4. CASE Invalidate \/ Expire
  BY <1>4 DEF Invalidate, Expire, Bounds
<1>5. CASE TakesSample \/ Restarts \/ Calms
  BY <1>5 DEF TakesSample, Restarts, Calms, Bounds
<1>6. CASE Push
  <2>1. IsFiniteSet(flight')
    BY <1>6, FS_AddElement DEF Push, Bounds
  <2>. QED
    BY <1>6, <2>1 DEF Push, Bounds
<1>7. CASE PushLost
  <2>1. IsFiniteSet(flight') /\ Cardinality(flight') <= MaxFlight
    BY <1>7, FewerPushes DEF PushLost
  <2>. QED
    BY <1>7, <2>1 DEF PushLost, Bounds
<1>8. CASE UNCHANGED metricsVars
  BY <1>8 DEF metricsVars, Bounds
<1>. QED
  BY <1>1, <1>2, <1>3, <1>4, <1>5, <1>6, <1>7, <1>8 DEF MetricsNext

-----------------------------------------------------------------------------
(* The answer of a read.  The agent's last sample is the newest there is,  *)
(* and so is the one in an answer that no push has overtaken.              *)

AgentIsNewest ==
    agent.inst # Legacy => NotOlder(agent, snapshot) /\ \A m \in flight : NotOlder(agent, m)

AnswerIsNewest ==
    read.stage = "answered" =>
        /\ agent.inst # Legacy => NotOlder(agent, read.metrics)
        /\ ~read.overtaken /\ read.metrics.inst # Legacy => NotOlder(read.metrics, snapshot)

Newest == AgentIsNewest /\ AnswerIsNewest

MovesForward == ReadArrives /\ snapshot'.inst # Legacy => NotOlder(snapshot', snapshot)

\* Samples are ordered like pairs of numbers.
LEMMA OrderOfSamples ==
    /\ \A m \in Snapshot : NotOlder(m, m)
    /\ \A m, n, o \in Snapshot : NotOlder(m, n) /\ NotOlder(n, o) => NotOlder(m, o)
<1>1. \A m \in Snapshot : m.inst \in Nat /\ m.seq \in Nat
  BY SnapshotShape DEF Instance, Legacy
<1>. QED
  BY <1>1 DEF NotOlder

LEMMA NewestStep ==
    ASSUME SnapshotInv, Newest, [MetricsNext]_metricsVars
    PROVE  Newest' /\ MovesForward
<1>0. /\ agent \in Snapshot /\ flight \subseteq Snapshot /\ snapshot \in Snapshot
      /\ read \in MetricsRead
  BY DEF SnapshotInv
<1>1. ASSUME NEW m \in flight, PushArrives(m) PROVE Newest' /\ MovesForward
  <2>1. UNCHANGED agent /\ flight' \subseteq flight /\ snapshot' \in {m, snapshot}
    BY <1>1 DEF PushArrives, StoreMetrics, KeepSnapshot
  <2>2. AgentIsNewest'
    BY <1>0, <2>1 DEF Newest, AgentIsNewest
  <2>3. AnswerIsNewest'
    <3>1. CASE read' = read /\ snapshot' = snapshot
      BY <2>1, <3>1 DEF Newest, AnswerIsNewest
    <3>2. CASE read # NoRead /\ read' = [read EXCEPT !.overtaken = TRUE]
      <4>1. CASE read \in [stage: {"asked"}, overtaken: BOOLEAN]
        BY <3>2, <4>1 DEF AnswerIsNewest
      <4>2. CASE read \in [stage: {"answered"}, overtaken: BOOLEAN, metrics: Snapshot]
        BY <2>1, <3>2, <4>2 DEF Newest, AnswerIsNewest
      <4>. QED
        BY <1>0, <3>2, <4>1, <4>2 DEF MetricsRead
    <3>3. CASE read' = NoRead
      BY <3>3 DEF AnswerIsNewest, NoRead
    <3>. QED
      BY <1>1, <3>1, <3>2, <3>3 DEF PushArrives, KeepSnapshot
  <2>4. ~ReadArrives \/ snapshot' = snapshot \/ snapshot'.inst = Legacy \/ MovesForward
    <3>1. ReadArrives => flight' = flight
      BY DEF ReadArrives
    <3>2. flight' = flight \ {m}
      BY <1>1 DEF PushArrives
    <3>. QED
      BY <3>1, <3>2
  <2>. QED
    BY <1>0, <2>2, <2>3, <2>4, OrderOfSamples DEF Newest, MovesForward
<1>2. CASE MetricsReadStarts
  <2>1. read' = [stage |-> "asked", overtaken |-> FALSE] /\ UNCHANGED <<agent, flight, snapshot>>
    BY <1>2 DEF MetricsReadStarts, KeepSnapshot
  <2>. QED
    BY <1>0, <2>1, OrderOfSamples DEF Newest, AgentIsNewest, AnswerIsNewest, MovesForward
<1>3. CASE AgentAnswers
  <2>1. /\ read'.metrics = agent /\ UNCHANGED <<agent, flight, snapshot>>
    BY <1>3 DEF AgentAnswers, KeepSnapshot
  <2>. QED
    BY <1>0, <2>1, OrderOfSamples DEF Newest, AgentIsNewest, AnswerIsNewest, MovesForward
<1>4. CASE ReadArrives
  <2>1. /\ read' = NoRead /\ read.stage = "answered" /\ UNCHANGED <<agent, flight>>
    BY <1>4 DEF ReadArrives
  <2>2. read.metrics \in Snapshot /\ read.overtaken \in BOOLEAN
    BY <1>0, <2>1 DEF MetricsRead, NoRead
  <2>3. \/ snapshot' = snapshot
        \/ snapshot' = read.metrics /\ NotOvertaken(read.metrics)
    BY <1>4 DEF ReadArrives, KeepSnapshot, StoreMetrics
  <2>4. MovesForward
    <3>1. CASE snapshot' = snapshot
      BY <1>0, <3>1, OrderOfSamples DEF MovesForward
    <3>2. CASE snapshot' = read.metrics /\ read.overtaken /\ NotOvertaken(read.metrics)
      <4>1. /\ snapshot'.inst = snapshot.inst /\ snapshot'.seq > snapshot.seq
        BY <3>2 DEF NotOvertaken, SameInstance
      <4>2. snapshot'.seq \in Nat /\ snapshot.seq \in Nat
        BY <1>0, <2>2, <3>2, SnapshotShape
      <4>. QED
        BY <4>1, <4>2 DEF MovesForward, NotOlder
    <3>3. CASE snapshot' = read.metrics /\ ~read.overtaken
      BY <2>1, <3>3 DEF MovesForward, Newest, AnswerIsNewest
    <3>. QED
      BY <2>3, <3>1, <3>2, <3>3
  <2>5. AgentIsNewest'
    BY <2>1, <2>3 DEF Newest, AgentIsNewest, AnswerIsNewest
  <2>6. AnswerIsNewest'
    BY <2>1 DEF AnswerIsNewest, NoRead
  <2>. QED
    BY <2>4, <2>5, <2>6 DEF Newest
<1>5. CASE ReadFails \/ Invalidate
  <2>1. read' = NoRead /\ UNCHANGED <<agent, flight, snapshot>>
    BY <1>5 DEF ReadFails, Invalidate, KeepSnapshot
  <2>. QED
    BY <1>0, <2>1, OrderOfSamples DEF Newest, AgentIsNewest, AnswerIsNewest, MovesForward, NoRead
<1>6. CASE Expire \/ Calms \/ UNCHANGED metricsVars
  <2>1. UNCHANGED <<read, agent, flight, snapshot>>
    BY <1>6 DEF Expire, Calms, KeepSnapshot, metricsVars
  <2>. QED
    BY <1>0, <2>1, OrderOfSamples DEF Newest, AgentIsNewest, AnswerIsNewest, MovesForward
<1>7. CASE TakesSample
  <2>1. UNCHANGED <<read, flight, snapshot>> /\ agent \in Sample
    BY <1>0, <1>7 DEF TakesSample, KeepSnapshot, Snapshot, OldSample
  <2>2. agent'.inst = agent.inst /\ agent'.seq = agent.seq + 1 /\ agent' \in Snapshot
    BY <1>7, <2>1, MetricsAssumption DEF TakesSample, Snapshot, Sample, Instance
  <2>3. NotOlder(agent', agent) /\ agent.inst # Legacy
    BY <2>1, <2>2 DEF NotOlder, Sample, Instance, Legacy
  <2>4. AgentIsNewest'
    BY <1>0, <2>1, <2>2, <2>3, OrderOfSamples DEF Newest, AgentIsNewest
  <2>5. AnswerIsNewest'
    <3>1. read.stage = "answered" => read.metrics \in Snapshot
      BY <1>0 DEF MetricsRead, NoRead
    <3>. QED
      BY <1>0, <2>1, <2>2, <2>3, <3>1, OrderOfSamples DEF Newest, AnswerIsNewest
  <2>. QED
    BY <1>0, <2>1, <2>4, <2>5, OrderOfSamples DEF Newest, MovesForward
<1>8. CASE Restarts
  <2>1. UNCHANGED <<read, flight, snapshot>>
    BY <1>8 DEF Restarts, KeepSnapshot
  <2>2. PICK i \in Instance :
           /\ \A m \in flight \cup {agent, snapshot} : m.inst < i
           /\ read.stage = "answered" => read.metrics.inst < i
           /\ agent' \in {OldSample, [inst |-> i, seq |-> 1]}
    BY <1>8 DEF Restarts
  <2>3. agent'.inst = Legacy \/ agent'.inst = i
    BY <2>2 DEF OldSample
  <2>. QED
    BY <1>0, <2>1, <2>2, <2>3, OrderOfSamples
    DEF Newest, AgentIsNewest, AnswerIsNewest, MovesForward, NotOlder
<1>9. CASE Push \/ PushLost
  <2>1. UNCHANGED <<read, agent, snapshot>> /\ flight' \subseteq flight \cup {agent}
    BY <1>9 DEF Push, PushLost, KeepSnapshot
  <2>. QED
    BY <1>0, <2>1, OrderOfSamples DEF Newest, AgentIsNewest, AnswerIsNewest, MovesForward
<1>. QED
  BY <1>1, <1>2, <1>3, <1>4, <1>5, <1>6, <1>7, <1>8, <1>9 DEF MetricsNext

LEMMA NewestInit == MetricsInit => Newest
<1>. SUFFICES ASSUME MetricsInit PROVE Newest
  OBVIOUS
<1>1. NotOlder(agent, snapshot) \/ agent.inst = Legacy
  BY DEF MetricsInit, NotOlder, OldSample, Legacy
<1>2. flight = {} /\ read.stage # "answered"
  BY DEF MetricsInit, NoRead
<1>. QED
  BY <1>1, <1>2 DEF Newest, AgentIsNewest, AnswerIsNewest

\* The answer of a read never takes the snapshot back to an older sample or to
\* an agent that is gone (the generation and overtaken checks of
\* async_system_metrics), for any number of runs, samples and pushes.
THEOREM ReadMovesForwardHolds == MetricsSpec => ReadMovesForward
<1>1. SnapshotInv /\ Newest /\ [MetricsNext]_metricsVars => SnapshotInv' /\ Newest'
  BY NextSafe, NewestStep
<1>2. SnapshotInv /\ Newest /\ [MetricsNext]_metricsVars => [MovesForward]_metricsVars
  BY NewestStep
<1>3. MetricsInit => SnapshotInv /\ Newest
  BY SnapshotStarts, NewestInit
<1>. QED
  BY <1>1, <1>2, <1>3, PTL DEF MetricsSpec, ReadMovesForward, MovesForward

\* What agent_services checks of the snapshot in every state and step: it is
\* a sample there was, few pushes are under way, it never returns, and the
\* answer of a read moves it forward.
THEOREM SnapshotTrueHolds == MetricsSpec => SnapshotTrue
<1>1. SnapshotInv /\ Bounds => MetricsTypeOK
  BY DEF SnapshotInv, Bounds, MetricsTypeOK
<1>. QED
  BY <1>1, SnapshotStarts, NextSafe, InitBounds, NextBounds, NoReturnHolds, ReadMovesForwardHolds, PTL
  DEF MetricsSpec, SnapshotTrue

(***************************************************************************)
(* Display patch.                                                          *)
(***************************************************************************)
DeviceFiles == [full : OnDevice, core : OnDevice]
PatchAnswer == DeviceFiles \cup {Unread}
What == Kind \cup {"none", "status", "reload"}
PatchCall == [state : {"none", "sent", "running", "done", "error"}, what : What, answer : Status]
PatchSteps == {"none", "act", "core", "confirm", "reload", "final"}
PatchJobs == [kind : Kind \cup {"none"}, step : PatchSteps, saved : Status]

PatchTyped ==
    /\ files \in DeviceFiles
    /\ stored \in Status
    /\ script \in [by : Caller \cup {"nobody"}, what : What]
    /\ call \in [Caller -> PatchCall]
    /\ patchJob \in [LockUser -> PatchJobs]

\* What came of the job's action is in the stored status already.
Reported(w) == patchJob[w].step \in {"none", "reload", "final"}
AtRest(w) == patchJob[w].step = "none"
Reads(w) == patchJob[w].step \in {"reload", "final"} => call[w].what \in {"status", "reload"}

\* A script is that of a request which still waits for it, or nobody's; who
\* has no job asks nothing, and who only has to reload and to read changes no
\* file.
ScriptIsOwned ==
    /\ script.by \in Caller => /\ call[script.by].state = "running"
                               /\ script.what = call[script.by].what
    /\ \A w \in LockUser : (AtRest(w) => call[w].state = "none") /\ Reads(w)

AnswersTrue == \A c \in Caller : call[c].state = "done" => call[c].answer \in PatchAnswer

\* StoredOrDoubted and TransientExplained, from the moment the jobs have
\* reported.
StoreExplained ==
    /\ (Unmarked(stored) /\ doubt = {}) => Says(stored, files)
    /\ ~Unmarked(stored) => doubt \cap {"cut", "outdated"} # {}
Accounted == (\A w \in LockUser : Reported(w)) => StoreExplained

PatchInv == PatchTyped /\ ScriptIsOwned /\ AnswersTrue /\ Accounted

\* What a step of one job leaves alone.
JobFrame(w) ==
    /\ \A v \in LockUser \ {w} : patchJob'[v] = patchJob[v]
    /\ \A c \in Caller \ {w} : call'[c] = call[c]
    /\ call'[w] \in PatchCall /\ patchJob'[w] \in PatchJobs
    /\ call' \in [Caller -> PatchCall] /\ patchJob' \in [LockUser -> PatchJobs]
    /\ call'[w].state \in {"none", "sent"}
    /\ patchJob'[w].step = "none" => call'[w].state = "none"
    /\ patchJob'[w].step \in {"reload", "final"} => call'[w].what \in {"status", "reload"}

LEMMA AnswersAreStatus == PatchAnswer \subseteq Status
BY DEF PatchAnswer, DeviceFiles, Status, Part, OnDevice, Transient, Unread

LEMMA AnswersAreUnmarked == ASSUME NEW a \in PatchAnswer PROVE Unmarked(a)
BY DEF PatchAnswer, DeviceFiles, Unmarked, Transient, OnDevice, Unread

LEMMA SaysUnmarked == ASSUME NEW f \in DeviceFiles, NEW s, Says(s, f) PROVE Unmarked(s)
BY DEF Says, Unmarked, DeviceFiles, Transient, OnDevice

LEMMA EffectTyped == ASSUME NEW what, NEW f \in DeviceFiles PROVE Effect(what, f) \in DeviceFiles
BY DEF Effect, DeviceFiles, OnDevice

LEMMA QuietTyped == Quiet \in PatchCall /\ Quiet.state = "none"
BY DEF Quiet, PatchCall, What, Status, Part, Unread

LEMMA NoJobTyped == NoPatchJob \in PatchJobs /\ NoPatchJob.step = "none"
BY DEF NoPatchJob, PatchJobs, PatchSteps, Status, Part, Unread

LEMMA AskTyped ==
  ASSUME call \in [Caller -> PatchCall], NEW c \in Caller, NEW what \in What
  PROVE  /\ Ask(c, what) \in [Caller -> PatchCall]
         /\ Ask(c, what)[c] \in PatchCall
         /\ Ask(c, what)[c].state = "sent"
         /\ Ask(c, what)[c].what = what
         /\ \A d \in Caller \ {c} : Ask(c, what)[d] = call[d]
<1>1. [Quiet EXCEPT !.state = "sent", !.what = what] \in PatchCall
  BY QuietTyped DEF PatchCall
<1>2. /\ [Quiet EXCEPT !.state = "sent", !.what = what].state = "sent"
      /\ [Quiet EXCEPT !.state = "sent", !.what = what].what = what
  BY QuietTyped DEF PatchCall
<1> QED
  BY <1>1, <1>2 DEF Ask

LEMMA MarkedTyped ==
  ASSUME stored \in Status, NEW kind \in Toggle
  PROVE  Marked(kind) \in Status
BY DEF Marked, Status, Part, Transient, Toggle

\* A step that goes on or leaves changes the job and the request of its user.
LEMMA GoesFrame ==
  ASSUME PatchTyped, NEW w \in LockUser, NEW step \in PatchSteps \ {"none"}, NEW what \in What,
         step \in {"reload", "final"} => what \in {"status", "reload"}, Goes(w, step, what)
  PROVE  JobFrame(w) /\ patchJob'[w].step = step
<1> USE DEF PatchTyped
<1>1. w \in Caller
  BY DEF Caller
<1>2. /\ patchJob'[w] = [patchJob[w] EXCEPT !.step = step]
      /\ \A v \in LockUser \ {w} : patchJob'[v] = patchJob[v]
      /\ patchJob' = [patchJob EXCEPT ![w] = [patchJob[w] EXCEPT !.step = step]]
  BY DEF Goes
<1>3. patchJob'[w] \in PatchJobs /\ patchJob'[w].step = step
  BY <1>2 DEF PatchJobs
<1>4. patchJob' \in [LockUser -> PatchJobs]
  BY <1>2, <1>3
<1>5. /\ call' \in [Caller -> PatchCall] /\ call'[w] \in PatchCall
      /\ call'[w].state = "sent" /\ call'[w].what = what
      /\ \A d \in Caller \ {w} : call'[d] = call[d]
  BY <1>1, AskTyped DEF Goes
<1> QED
  BY <1>2, <1>3, <1>4, <1>5, NoJobTyped DEF JobFrame

LEMMA LeavesFrame ==
  ASSUME PatchTyped, NEW w \in LockUser, Leaves(w)
  PROVE  JobFrame(w) /\ patchJob'[w] = NoPatchJob
<1> USE DEF PatchTyped
<1>1. /\ patchJob'[w] = NoPatchJob
      /\ \A v \in LockUser \ {w} : patchJob'[v] = patchJob[v]
      /\ patchJob' \in [LockUser -> PatchJobs]
  BY NoJobTyped DEF Leaves
<1>2. /\ call'[w] = Quiet
      /\ \A c \in Caller \ {w} : call'[c] = call[c]
      /\ call' \in [Caller -> PatchCall]
  BY QuietTyped DEF Leaves, Caller
<1> QED
  BY <1>1, <1>2, QuietTyped, NoJobTyped DEF JobFrame

LEMMA ActionDoneFrame ==
  ASSUME PatchTyped, NEW w \in LockUser, ActionDone(w)
  PROVE  JobFrame(w) /\ Reported(w)'
<1>1. CASE Updating(w)
  <2>1. Goes(w, "reload", "reload")
    BY <1>1 DEF ActionDone
  <2> QED
    BY <2>1, GoesFrame DEF PatchSteps, What, Reported
<1>2. CASE ~Updating(w)
  <2>1. Leaves(w)
    BY <1>2 DEF ActionDone
  <2> QED
    BY <2>1, LeavesFrame, NoJobTyped DEF Reported
<1> QED
  BY <1>1, <1>2

\* Such a step keeps who owns the script, if it is not left to the job.
LEMMA FrameOwned ==
  ASSUME ScriptIsOwned, AnswersTrue, NEW w \in LockUser, JobFrame(w), script'.by # w,
         script' = script \/ script'.by = "nobody"
  PROVE  ScriptIsOwned' /\ AnswersTrue'
<1>1. AnswersTrue'
  BY DEF AnswersTrue, JobFrame
<1>2. script'.by \in Caller => /\ call'[script'.by].state = "running"
                               /\ script'.what = call'[script'.by].what
  BY DEF ScriptIsOwned, JobFrame, Caller, LockUser
<1>3. \A v \in LockUser : (AtRest(v) => call[v].state = "none")' /\ Reads(v)'
  <2> SUFFICES ASSUME NEW v \in LockUser
               PROVE  (AtRest(v) => call[v].state = "none")' /\ Reads(v)'
    OBVIOUS
  <2>1. CASE v = w
    BY <2>1 DEF JobFrame, AtRest, Reads
  <2>2. CASE v # w
    BY <2>2 DEF JobFrame, AtRest, Reads, ScriptIsOwned, Caller
  <2> QED
    BY <2>1, <2>2
<1> QED
  BY <1>1, <1>2, <1>3 DEF ScriptIsOwned

\* Who is answered, failed or has no request owns no script.
LEMMA NotRunning ==
  ASSUME ScriptIsOwned, NEW c \in Caller, call[c].state # "running"
  PROVE  script.by # c
BY DEF ScriptIsOwned

\* A status that a script answered explains itself.
LEMMA StoreStatusInv ==
  ASSUME PatchTyped, NEW status \in PatchAnswer, StoreStatus(status), files' = files
  PROVE  stored' \in Status /\ StoreExplained'
BY AnswersAreStatus, AnswersAreUnmarked DEF StoreStatus, StoreExplained

LEMMA PatchInitInv == PatchInit => PatchInv
<1> SUFFICES ASSUME PatchInit PROVE PatchInv
  OBVIOUS
<1>1. files \in DeviceFiles
  BY DEF PatchInit, DeviceFiles, OnDevice
<1>2. stored \in Status /\ stored = Unread /\ doubt = {}
  BY DEF PatchInit, Status, Part, Unread
<1>3. script = NoScript /\ patchJob = [w \in LockUser |-> NoPatchJob] /\ call = [c \in Caller |-> Quiet]
  BY DEF PatchInit
<1>4. PatchTyped
  BY <1>1, <1>2, <1>3, QuietTyped, NoJobTyped DEF PatchTyped, NoScript, What
<1>5. ScriptIsOwned /\ AnswersTrue
  BY <1>3, QuietTyped, NoJobTyped DEF ScriptIsOwned, AnswersTrue, NoScript, Caller, LockUser, Reads
<1>6. StoreExplained
  BY <1>2 DEF StoreExplained, Unread, Says, Unmarked, Transient
<1> QED
  BY <1>4, <1>5, <1>6 DEF PatchInv, Accounted

LEMMA PatchStep == PatchInv /\ [PatchNext]_patchVars => PatchInv'
<1> SUFFICES ASSUME PatchInv, [PatchNext]_patchVars PROVE PatchInv'
  OBVIOUS
<1> USE DEF PatchInv
<1>0. \A w \in LockUser : w \in Caller
  BY DEF Caller
\* A job that begins has not reported yet.
<1>a. ASSUME NEW step \in {"act", "core"}, NEW kind \in Kind, NEW what \in What, Rests("holder"),
             patchJob' = [patchJob EXCEPT !["holder"] = [kind |-> kind, step |-> step, saved |-> stored]],
             call' = Ask("holder", what), stored' \in Status, UNCHANGED <<files, script>>
      PROVE  PatchInv'
  <2>1. /\ call' \in [Caller -> PatchCall] /\ call'["holder"] \in PatchCall
        /\ call'["holder"].state = "sent"
        /\ \A d \in Caller \ {"holder"} : call'[d] = call[d]
    BY <1>a, AskTyped DEF PatchTyped, Caller, LockUser
  <2>2. /\ patchJob'["holder"] \in PatchJobs /\ patchJob'["holder"].step = step
        /\ \A v \in LockUser \ {"holder"} : patchJob'[v] = patchJob[v]
        /\ patchJob' \in [LockUser -> PatchJobs]
    BY <1>a DEF PatchTyped, PatchJobs, PatchSteps, LockUser
  <2>3. JobFrame("holder")
    BY <2>1, <2>2, NoJobTyped DEF JobFrame
  <2>4. script.by # "holder"
    BY <1>a, NoJobTyped, NotRunning DEF ScriptIsOwned, LockUser, Caller, Rests, AtRest
  <2>5. ScriptIsOwned' /\ AnswersTrue'
    BY <1>a, <2>3, <2>4, FrameOwned DEF LockUser
  <2>6. PatchTyped'
    BY <1>a, <2>1, <2>2 DEF PatchTyped
  <2>7. Accounted'
    BY <2>2 DEF Accounted, Reported, LockUser
  <2> QED
    BY <2>5, <2>6, <2>7
<1>1. ASSUME NEW kind \in Toggle, JobStarts(kind) PROVE PatchInv'
  <2>1. stored' \in Status
    BY <1>1, MarkedTyped DEF JobStarts, PatchTyped
  <2> QED
    BY <1>1, <1>a, <2>1 DEF JobStarts, Kind, What
<1>2. ASSUME NEW kind \in {"update", "updateCore"}, UpdateStarts(kind) PROVE PatchInv'
  <2>1. kind \in Kind /\ "coreApply" \in What
    BY DEF Kind, What, Toggle
  <2>2. /\ Rests("holder") /\ UNCHANGED <<files, script>> /\ stored' = stored
        /\ patchJob' = [patchJob EXCEPT !["holder"] = [kind |-> kind, step |-> "core", saved |-> stored]]
        /\ call' = Ask("holder", "coreApply")
    BY <1>2 DEF UpdateStarts
  <2> QED
    BY <1>a, <2>1, <2>2 DEF PatchTyped
\* A step that touches neither the jobs nor what is stored.
<1>b. ASSUME UNCHANGED <<files, stored, patchJob, doubt>> PROVE Accounted'
  BY <1>b DEF Accounted, Reported, StoreExplained
<1>3. ASSUME NEW c \in Caller, ScriptStarts(c) PROVE PatchInv'
  <2>1. UNCHANGED <<files, stored, patchJob, doubt>>
    BY <1>3 DEF ScriptStarts
  <2>2. call[c] \in PatchCall /\ call[c].state = "sent"
    BY <1>3 DEF ScriptStarts, PatchTyped
  <2>3. /\ \/ script = NoScript /\ script' = [by |-> c, what |-> call[c].what]
              /\ call'[c] = [call[c] EXCEPT !.state = "running"]
           \/ script' = script /\ call'[c] = [call[c] EXCEPT !.state = "error"]
        /\ \A d \in Caller \ {c} : call'[d] = call[d]
        /\ call' = [call EXCEPT ![c] = call'[c]]
    BY <1>3 DEF ScriptStarts, PatchTyped
  <2>4. call'[c] \in PatchCall /\ call'[c].state \in {"running", "error"} /\ call'[c].what = call[c].what
    BY <2>2, <2>3 DEF PatchCall
  <2>5. PatchTyped'
    BY <2>1, <2>2, <2>3, <2>4 DEF PatchTyped, PatchCall
  <2>6. AnswersTrue'
    BY <2>3, <2>4 DEF AnswersTrue
  <2>7. script'.by \in Caller => /\ call'[script'.by].state = "running"
                                 /\ script'.what = call'[script'.by].what
    <3>1. script.by # c
      BY <2>2, NotRunning
    <3>2. CASE script' = [by |-> c, what |-> call[c].what] /\ call'[c] = [call[c] EXCEPT !.state = "running"]
      BY <2>2, <3>2 DEF PatchCall
    <3>3. CASE script' = script
      BY <2>3, <3>1, <3>3 DEF ScriptIsOwned
    <3> QED
      BY <2>3, <3>2, <3>3
  <2>8. \A w \in LockUser : (AtRest(w) => call[w].state = "none")' /\ Reads(w)'
    <3> SUFFICES ASSUME NEW w \in LockUser
                 PROVE  (AtRest(w) => call[w].state = "none")' /\ Reads(w)'
      OBVIOUS
    <3>1. CASE w = c
      BY <2>1, <2>2, <2>4, <3>1 DEF AtRest, Reads, ScriptIsOwned
    <3>2. CASE w # c
      BY <1>0, <2>1, <2>3, <3>2 DEF AtRest, Reads, ScriptIsOwned
    <3> QED
      BY <3>1, <3>2
  <2> QED
    BY <1>b, <2>1, <2>5, <2>6, <2>7, <2>8 DEF ScriptIsOwned
<1>4. ASSUME NEW c \in Caller, CallTimesOut(c) PROVE PatchInv'
  <2>1. UNCHANGED <<files, stored, patchJob, doubt>> /\ script' = Disowned(c)
    BY <1>4 DEF CallTimesOut
  <2>2. call[c] \in PatchCall /\ call[c].state \in {"sent", "running"}
    BY <1>4 DEF CallTimesOut, PatchTyped
  <2>3. /\ call'[c] = [call[c] EXCEPT !.state = "error"]
        /\ \A d \in Caller \ {c} : call'[d] = call[d]
        /\ call' = [call EXCEPT ![c] = call'[c]]
    BY <1>4 DEF CallTimesOut, PatchTyped
  <2>4. call'[c] \in PatchCall /\ call'[c].state = "error" /\ call'[c].what = call[c].what
    BY <2>2, <2>3 DEF PatchCall
  <2>5. \/ script.by = c /\ script'.by = "nobody" /\ script'.what = script.what
        \/ script.by # c /\ script' = script
    BY <2>1 DEF Disowned, PatchTyped
  <2>6. PatchTyped'
    <3>1. script' \in [by : Caller \cup {"nobody"}, what : What]
      BY <2>1 DEF Disowned, PatchTyped
    <3> QED
      BY <2>1, <2>3, <2>4, <3>1 DEF PatchTyped
  <2>7. AnswersTrue'
    BY <2>3, <2>4 DEF AnswersTrue
  <2>8. script'.by \in Caller => /\ call'[script'.by].state = "running"
                                 /\ script'.what = call'[script'.by].what
    BY <2>3, <2>5 DEF ScriptIsOwned, Caller, LockUser
  <2>9. \A w \in LockUser : (AtRest(w) => call[w].state = "none")' /\ Reads(w)'
    <3> SUFFICES ASSUME NEW w \in LockUser
                 PROVE  (AtRest(w) => call[w].state = "none")' /\ Reads(w)'
      OBVIOUS
    <3>1. CASE w = c
      BY <2>1, <2>2, <2>4, <3>1 DEF AtRest, Reads, ScriptIsOwned
    <3>2. CASE w # c
      BY <1>0, <2>1, <2>3, <3>2 DEF AtRest, Reads, ScriptIsOwned
    <3> QED
      BY <3>1, <3>2
  <2> QED
    BY <1>b, <2>1, <2>6, <2>7, <2>8, <2>9 DEF ScriptIsOwned
\* The end of a script: who asked is answered or not.
<1>c. ASSUME files' \in DeviceFiles, script' = NoScript, UNCHANGED <<stored, patchJob>>,
             call' \in [Caller -> PatchCall],
             \A c \in Caller : /\ c # script.by => call'[c] = call[c]
                               /\ c = script.by => call'[c].state \in {"done", "error"}
                               /\ call'[c].what = call[c].what
             PROVE PatchTyped' /\ ScriptIsOwned'
  <2>1. PatchTyped'
    BY <1>c DEF PatchTyped, NoScript, What
  <2>2. \A w \in LockUser : (AtRest(w) => call[w].state = "none")' /\ Reads(w)'
    <3> SUFFICES ASSUME NEW w \in LockUser
                 PROVE  (AtRest(w) => call[w].state = "none")' /\ Reads(w)'
      OBVIOUS
    <3>1. w \in Caller /\ Reads(w) /\ call'[w].what = call[w].what
      BY <1>0, <1>c DEF ScriptIsOwned
    <3>2. AtRest(w) => call'[w] = call[w]
      BY <1>c, <3>1 DEF ScriptIsOwned
    <3> QED
      BY <1>c, <3>1, <3>2 DEF AtRest, Reads, ScriptIsOwned
  <2> QED
    BY <1>c, <2>1, <2>2 DEF ScriptIsOwned, NoScript, Caller, LockUser
<1>5. CASE ScriptSucceeds
  <2>1. PICK said \in {files'} \cup (IF files' = files THEN {} ELSE {Unread}) :
          call' = [c \in Caller |-> IF c # script.by THEN call[c]
                                   ELSE [call[c] EXCEPT !.state = "done", !.answer = said]]
    BY <1>5 DEF ScriptSucceeds
  <2>2. /\ files' = Effect(script.what, files)
        /\ doubt' = IF files' # files /\ script.by \notin LockUser THEN doubt \cup {"unreported"} ELSE doubt
        /\ script' = NoScript /\ UNCHANGED <<stored, patchJob>>
    BY <1>5 DEF ScriptSucceeds
  <2>3. files' \in DeviceFiles /\ said \in PatchAnswer /\ said \in Status
    BY <2>2, EffectTyped, AnswersAreStatus DEF PatchTyped, PatchAnswer
  <2>4. \A c \in Caller : /\ call'[c] \in PatchCall
                          /\ c # script.by => call'[c] = call[c]
                          /\ c = script.by => call'[c].state = "done" /\ call'[c].answer = said
                          /\ call'[c].what = call[c].what
    <3> SUFFICES ASSUME NEW c \in Caller
                 PROVE  /\ call'[c] \in PatchCall
                        /\ c # script.by => call'[c] = call[c]
                        /\ c = script.by => call'[c].state = "done" /\ call'[c].answer = said
                        /\ call'[c].what = call[c].what
      OBVIOUS
    <3>1. call[c] \in PatchCall
      BY DEF PatchTyped
    <3>2. CASE c # script.by
      BY <2>1, <3>1, <3>2
    <3>3. CASE c = script.by
      <4>1. call'[c] = [call[c] EXCEPT !.state = "done", !.answer = said]
        BY <2>1, <3>3
      <4> QED
        BY <2>3, <3>1, <3>3, <4>1 DEF PatchCall
    <3> QED
      BY <3>2, <3>3
  <2>5. call' \in [Caller -> PatchCall]
    BY <2>1, <2>4
  <2>6. PatchTyped' /\ ScriptIsOwned'
    BY <1>c, <2>2, <2>3, <2>4, <2>5
  <2>7. AnswersTrue'
    BY <2>3, <2>4 DEF AnswersTrue
  <2>8. Accounted'
    <3> SUFFICES ASSUME \A w \in LockUser : Reported(w) PROVE StoreExplained'
      BY <2>2 DEF Accounted, Reported
    <3>1. StoreExplained
      BY DEF Accounted
    <3>2. script.by \in LockUser => script.what \in {"status", "reload"}
      <4> SUFFICES ASSUME script.by \in LockUser PROVE script.what \in {"status", "reload"}
        OBVIOUS
      <4>1. patchJob[script.by] \in PatchJobs /\ call[script.by].state = "running"
            /\ script.what = call[script.by].what /\ ~AtRest(script.by) /\ Reads(script.by)
        BY DEF ScriptIsOwned, Caller, PatchTyped
      <4> QED
        BY <4>1 DEF Reported, AtRest, Reads
    <3>3. files' = files \/ "unreported" \in doubt'
      BY <2>2, <3>2 DEF Effect
    <3>4. \A d \in doubt : d \in doubt'
      BY <2>2
    <3> QED
      BY <2>2, <3>1, <3>3, <3>4 DEF StoreExplained
  <2> QED
    BY <2>6, <2>7, <2>8
<1>6. CASE ScriptFails
  <2>1. PICK full \in Reached(files.full, Effect(script.what, files).full),
             core \in Reached(files.core, Effect(script.what, files).core) :
               files' = [full |-> full, core |-> core]
    BY <1>6 DEF ScriptFails
  <2>2. /\ doubt' = IF files' # files THEN doubt \cup {"unreported"} ELSE doubt
        /\ call' = [c \in Caller |-> IF c # script.by THEN call[c]
                                     ELSE [call[c] EXCEPT !.state = "error"]]
        /\ script' = NoScript /\ UNCHANGED <<stored, patchJob>>
    BY <1>6 DEF ScriptFails
  <2>3. files' \in DeviceFiles
    <3>1. files \in DeviceFiles /\ Effect(script.what, files) \in DeviceFiles
      BY EffectTyped DEF PatchTyped
    <3>2. full \in OnDevice /\ core \in OnDevice
      BY <3>1 DEF Reached, DeviceFiles, OnDevice
    <3> QED
      BY <2>1, <3>2 DEF DeviceFiles
  <2>4. \A c \in Caller : /\ call'[c] \in PatchCall
                          /\ c # script.by => call'[c] = call[c]
                          /\ c = script.by => call'[c].state = "error"
                          /\ call'[c].what = call[c].what
    <3> SUFFICES ASSUME NEW c \in Caller
                 PROVE  /\ call'[c] \in PatchCall
                        /\ c # script.by => call'[c] = call[c]
                        /\ c = script.by => call'[c].state = "error"
                        /\ call'[c].what = call[c].what
      OBVIOUS
    <3>1. call[c] \in PatchCall
      BY DEF PatchTyped
    <3>2. CASE c # script.by
      BY <2>2, <3>1, <3>2
    <3>3. CASE c = script.by
      <4>1. call'[c] = [call[c] EXCEPT !.state = "error"]
        BY <2>2, <3>3
      <4> QED
        BY <3>1, <3>3, <4>1 DEF PatchCall
    <3> QED
      BY <3>2, <3>3
  <2>5. call' \in [Caller -> PatchCall]
    BY <2>2, <2>4
  <2>6. PatchTyped' /\ ScriptIsOwned'
    BY <1>c, <2>2, <2>3, <2>4, <2>5
  <2>7. AnswersTrue'
    BY <2>4 DEF AnswersTrue
  <2>8. Accounted'
    BY <2>2 DEF Accounted, Reported, StoreExplained
  <2> QED
    BY <2>6, <2>7, <2>8
\* A job that ends what it asked: its frame, and what is stored.
<1>d. ASSUME NEW w \in LockUser, JobFrame(w), stored' \in Status, files' = files,
             \/ script' = script /\ script.by # w
             \/ script' = Disowned(w),
             Accounted'
      PROVE  PatchInv'
  <2>1. script'.by # w /\ script' \in [by : Caller \cup {"nobody"}, what : What]
        /\ (script' = script \/ script'.by = "nobody")
    <3>1. CASE script' = script /\ script.by # w
      BY <3>1 DEF PatchTyped
    <3>2. CASE script' = Disowned(w)
      BY <3>2 DEF PatchTyped, Disowned, LockUser
    <3> QED
      BY <1>d, <3>1, <3>2
  <2>2. ScriptIsOwned' /\ AnswersTrue'
    BY <1>d, <2>1, FrameOwned
  <2>3. PatchTyped'
    BY <1>d, <2>1 DEF PatchTyped, JobFrame
  <2> QED
    BY <1>d, <2>2, <2>3
\* An answer is what a script left, and its job owns no script.
<1>e. ASSUME NEW c \in Caller, Answered(c) \/ Failed(c)
      PROVE  script.by # c /\ (Answered(c) => call[c].answer \in PatchAnswer)
  BY <1>e, NotRunning DEF Answered, Failed, AnswersTrue
<1>7. ASSUME NEW w \in LockUser, ActionFails(w) PROVE PatchInv'
  <2>1. /\ JobFrame(w) /\ script.by # w /\ script' = script /\ files' = files
        /\ stored' = patchJob[w].saved
        /\ doubt' = doubt \cup (IF Says(patchJob[w].saved, files) THEN {} ELSE {"outdated"})
    BY <1>0, <1>7, <1>e, LeavesFrame DEF ActionFails
  <2>2. stored' \in Status
    BY <2>1 DEF PatchTyped, PatchJobs
  <2>3. StoreExplained'
    BY <2>1, SaysUnmarked DEF StoreExplained, PatchTyped
  <2> QED
    BY <1>d, <2>1, <2>2, <2>3 DEF Accounted
<1>8. ASSUME NEW w \in LockUser, ActionConfirmed(w) PROVE PatchInv'
  <2>1. /\ JobFrame(w) /\ patchJob'[w].step = "confirm" /\ script.by # w /\ script' = script
        /\ files' = files /\ stored' = stored
    BY <1>0, <1>8, <1>e, GoesFrame DEF ActionConfirmed, PatchSteps, What
  <2> QED
    BY <1>d, <2>1 DEF Accounted, Reported, PatchTyped
<1>9. ASSUME NEW w \in LockUser, ActionNotConfirmed(w) PROVE PatchInv'
  <2>1. JobFrame(w) /\ script.by # w /\ script' = script /\ files' = files
    BY <1>0, <1>9, <1>e, ActionDoneFrame DEF ActionNotConfirmed
  <2>2. stored' \in Status /\ StoreExplained'
    BY <1>0, <1>9, <1>e, StoreStatusInv DEF ActionNotConfirmed
  <2> QED
    BY <1>d, <2>1, <2>2 DEF Accounted
<1>10. ASSUME NEW w \in LockUser, CoreAnswered(w) PROVE PatchInv'
  <2>1. script.by # w /\ call[w].answer \in PatchAnswer /\ UNCHANGED <<files, script>>
    BY <1>0, <1>10, <1>e DEF CoreAnswered
  <2>2. CASE patchJob[w].kind = "update"
    <3>1. /\ patchJob' = [patchJob EXCEPT ![w] = [kind |-> "update", step |-> "act",
                                                  saved |-> call[w].answer]]
          /\ stored' = [call[w].answer EXCEPT !.full = "patching"]
          /\ call' = Ask(w, "apply")
      BY <1>10, <2>2 DEF CoreAnswered
    <3>2. call[w].answer \in Status
      BY <2>1, AnswersAreStatus
    <3>3. stored' \in Status
      BY <3>1, <3>2 DEF Status, Part, Transient
    <3>4. /\ patchJob'[w] \in PatchJobs /\ patchJob'[w].step = "act"
          /\ \A v \in LockUser \ {w} : patchJob'[v] = patchJob[v]
          /\ patchJob' \in [LockUser -> PatchJobs]
      BY <3>1, <3>2 DEF PatchTyped, PatchJobs, PatchSteps, Kind
    <3>5. /\ call' \in [Caller -> PatchCall] /\ call'[w] \in PatchCall /\ call'[w].state = "sent"
          /\ \A d \in Caller \ {w} : call'[d] = call[d]
      BY <1>0, <3>1, AskTyped DEF PatchTyped, What, Kind, Toggle
    <3>6. JobFrame(w)
      BY <3>4, <3>5, NoJobTyped DEF JobFrame
    <3>7. Accounted'
      BY <3>4 DEF Accounted, Reported
    <3> QED
      BY <1>d, <2>1, <3>3, <3>6, <3>7
  <2>3. CASE patchJob[w].kind # "update"
    <3>1. JobFrame(w)
      BY <1>10, <2>3, GoesFrame DEF CoreAnswered, PatchSteps, What
    <3>2. stored' \in Status /\ StoreExplained'
      BY <1>10, <2>1, <2>3, StoreStatusInv DEF CoreAnswered
    <3> QED
      BY <1>d, <2>1, <3>1, <3>2 DEF Accounted
  <2> QED
    BY <2>2, <2>3
<1>11. ASSUME NEW w \in LockUser, ConfirmAnswered(w) PROVE PatchInv'
  <2>1. JobFrame(w) /\ script.by # w /\ script' = script /\ files' = files
    BY <1>0, <1>11, <1>e, ActionDoneFrame DEF ConfirmAnswered
  <2>2. stored' \in Status /\ StoreExplained'
    BY <1>0, <1>11, <1>e, StoreStatusInv DEF ConfirmAnswered
  <2> QED
    BY <1>d, <2>1, <2>2 DEF Accounted
<1>12. ASSUME NEW w \in LockUser, ReloadAnswered(w) PROVE PatchInv'
  <2>1. /\ JobFrame(w) /\ script.by # w /\ script' = script
        /\ UNCHANGED <<files, stored, doubt>>
    BY <1>0, <1>12, <1>e, GoesFrame DEF ReloadAnswered, PatchSteps, What
  <2>2. Reported(w)
    BY <1>12 DEF ReloadAnswered, Reported
  <2>3. Accounted'
    BY <2>1, <2>2 DEF Accounted, Reported, StoreExplained, JobFrame
  <2> QED
    BY <1>d, <2>1, <2>3 DEF PatchTyped
<1>13. ASSUME NEW w \in LockUser, FinalAnswered(w) PROVE PatchInv'
  <2>1. JobFrame(w) /\ script.by # w /\ script' = script /\ files' = files
    BY <1>0, <1>13, <1>e, LeavesFrame DEF FinalAnswered
  <2>2. stored' \in Status /\ StoreExplained'
    BY <1>0, <1>13, <1>e, StoreStatusInv DEF FinalAnswered
  <2> QED
    BY <1>d, <2>1, <2>2 DEF Accounted
\* A job that is cut short was reported already, or leaves a doubt.
<1>f. ASSUME NEW w \in LockUser, ~Rests(w), doubt' = CutShort(w), UNCHANGED <<files, stored>>, JobFrame(w)
      PROVE  Accounted'
  <2>1. CASE patchJob[w].step \in {"reload", "final"}
    BY <1>f, <2>1 DEF Accounted, Reported, StoreExplained, CutShort, JobFrame
  <2>2. CASE patchJob[w].step \notin {"reload", "final"}
    BY <1>f, <2>2 DEF Accounted, StoreExplained, CutShort
  <2> QED
    BY <2>1, <2>2
<1>14. ASSUME NEW w \in LockUser, StepFails(w) PROVE PatchInv'
  <2>1. /\ JobFrame(w) /\ script.by # w /\ script' = script /\ UNCHANGED <<files, stored>>
        /\ doubt' = CutShort(w) /\ ~Rests(w)
    BY <1>0, <1>14, <1>e, LeavesFrame, NoJobTyped DEF StepFails, Rests
  <2> QED
    BY <1>d, <1>f, <2>1 DEF PatchTyped
<1>15. ASSUME NEW w \in LockUser, JobCancelled(w) PROVE PatchInv'
  <2>1. /\ JobFrame(w) /\ script' = Disowned(w) /\ UNCHANGED <<files, stored>>
        /\ doubt' = CutShort(w) /\ ~Rests(w)
    BY <1>15, LeavesFrame DEF JobCancelled
  <2> QED
    BY <1>d, <1>f, <2>1 DEF PatchTyped
<1>16. CASE EntryReloads
  <2>1. /\ patchJob' = [holder |-> NoPatchJob, orphan |-> patchJob["holder"]]
        /\ call' = [call EXCEPT !["holder"] = Quiet, !["orphan"] = call["holder"]]
        /\ script' = IF script.by = "holder" THEN [script EXCEPT !.by = "orphan"] ELSE script
        /\ stored' = Unread /\ doubt' = {} /\ files' = files /\ Rests("orphan")
    BY <1>16 DEF EntryReloads
  <2>2. /\ patchJob'["holder"] = NoPatchJob /\ patchJob'["orphan"] = patchJob["holder"]
        /\ patchJob' \in [LockUser -> PatchJobs]
    BY <2>1, NoJobTyped DEF LockUser, PatchTyped
  <2>3. /\ call'["holder"] = Quiet /\ call'["orphan"] = call["holder"] /\ call'["reader"] = call["reader"]
        /\ call' \in [Caller -> PatchCall]
    BY <2>1, QuietTyped DEF Caller, LockUser, PatchTyped
  <2>4. /\ script' \in [by : Caller \cup {"nobody"}, what : What]
        /\ \/ script.by = "holder" /\ script'.by = "orphan" /\ script'.what = script.what
           \/ script.by # "holder" /\ script' = script
    BY <2>1 DEF PatchTyped, Caller, LockUser
  <2>5. stored' \in Status /\ StoreExplained'
    BY <2>1 DEF StoreExplained, Unread, Says, Unmarked, Transient, Status, Part
  <2>6. PatchTyped'
    BY <2>1, <2>2, <2>3, <2>4, <2>5 DEF PatchTyped
  <2>7. AnswersTrue'
    BY <2>3, QuietTyped DEF AnswersTrue, Caller, LockUser
  <2>8. script'.by \in Caller => /\ call'[script'.by].state = "running"
                                 /\ script'.what = call'[script'.by].what
    <3>1. script.by # "orphan"
      BY <2>1, NoJobTyped, NotRunning DEF ScriptIsOwned, Caller, LockUser, Rests, AtRest
    <3> QED
      BY <2>3, <2>4, <3>1 DEF ScriptIsOwned, Caller, LockUser
  <2>9. \A w \in LockUser : (AtRest(w) => call[w].state = "none")' /\ Reads(w)'
    BY <2>2, <2>3, QuietTyped, NoJobTyped DEF AtRest, Reads, ScriptIsOwned, LockUser
  <2>10. ScriptIsOwned'
    BY <2>8, <2>9 DEF ScriptIsOwned
  <2> QED
    BY <2>5, <2>6, <2>7, <2>10 DEF Accounted
\* The reader has no job.
<1>g. ASSUME patchJob' = patchJob, \A w \in LockUser : call'[w] = call[w]
      PROVE  \A w \in LockUser : (AtRest(w) => call[w].state = "none")' /\ Reads(w)'
  BY <1>g DEF AtRest, Reads, ScriptIsOwned
<1>17. CASE StatusReadStarts
  <2>1. call' = Ask("reader", "status") /\ call["reader"] = Quiet
        /\ UNCHANGED <<files, script, stored, patchJob, doubt>>
    BY <1>17 DEF StatusReadStarts
  <2>2. /\ call' \in [Caller -> PatchCall] /\ call'["reader"].state = "sent"
        /\ \A d \in Caller \ {"reader"} : call'[d] = call[d]
    BY <2>1, AskTyped DEF Caller, What, PatchTyped
  <2>3. PatchTyped' /\ AnswersTrue'
    BY <2>1, <2>2 DEF PatchTyped, AnswersTrue
  <2>4. script.by # "reader"
    BY <2>1, QuietTyped, NotRunning DEF Caller
  <2>5. \A w \in LockUser : call'[w] = call[w]
    BY <2>2 DEF Caller, LockUser
  <2>6. ScriptIsOwned'
    BY <1>g, <2>1, <2>2, <2>4, <2>5 DEF ScriptIsOwned
  <2> QED
    BY <1>b, <2>1, <2>3, <2>6
<1>18. CASE ReadEnds
  <2>1. call' = [call EXCEPT !["reader"] = Quiet] /\ UNCHANGED <<files, script, patchJob>>
    BY <1>18 DEF ReadEnds
  <2>2. "reader" \in Caller /\ (Answered("reader") \/ Failed("reader"))
    BY <1>18 DEF ReadEnds, Caller
  <2>3. stored' \in Status /\ Accounted'
    <3>1. CASE StoreStatus(call["reader"].answer) /\ Answered("reader")
      BY <1>e, <2>1, <2>2, <3>1, StoreStatusInv DEF Accounted
    <3>2. CASE UNCHANGED <<stored, doubt>>
      BY <1>b, <2>1, <3>2 DEF PatchTyped
    <3> QED
      BY <1>18, <3>1, <3>2 DEF ReadEnds
  <2>4. /\ call'["reader"] = Quiet /\ call' \in [Caller -> PatchCall]
        /\ \A d \in Caller \ {"reader"} : call'[d] = call[d]
    BY <2>1, <2>2, QuietTyped DEF PatchTyped
  <2>5. script.by # "reader"
    BY <1>e, <2>2
  <2>6. \A w \in LockUser : call'[w] = call[w]
    BY <2>4 DEF Caller, LockUser
  <2>7. ScriptIsOwned'
    BY <1>g, <2>1, <2>4, <2>5, <2>6 DEF ScriptIsOwned
  <2>8. PatchTyped' /\ AnswersTrue'
    BY <2>1, <2>3, <2>4, QuietTyped DEF PatchTyped, AnswersTrue
  <2> QED
    BY <2>3, <2>7, <2>8
<1>19. CASE UNCHANGED patchVars
  <2>1. UNCHANGED <<files, script, call, stored, patchJob, doubt>>
    BY <1>19 DEF patchVars
  <2> QED
    BY <1>b, <2>1 DEF PatchTyped, ScriptIsOwned, AnswersTrue, AtRest, Reads
<1> HIDE DEF PatchInv
<1> QED
  BY <1>1, <1>2, <1>3, <1>4, <1>5, <1>6, <1>7, <1>8, <1>9, <1>10, <1>11, <1>12, <1>13, <1>14,
     <1>15, <1>16, <1>17, <1>18, <1>19
     DEF PatchNext, JobSteps, ScriptEnds

\* DisplayPatchTrue of module DisplayPatch, for any number of jobs, reads and
\* reloads: a settled status that nothing named made doubtful says what the
\* device has, and a transient one outlives its job only for a named reason
\* (qml_patch.py), although a reload drops the lock while a job goes on.
THEOREM DisplayPatchTrueHolds == PatchSpec => []DisplayPatchTrue
<1>1. PatchInv => DisplayPatchTrue
  <2> SUFFICES ASSUME PatchInv PROVE DisplayPatchTrue
    OBVIOUS
  <2>1. PatchTypeOK
    BY DEF PatchInv, PatchTyped, PatchTypeOK, DeviceFiles, PatchJobs
  <2>2. NobodyWorks => StoreExplained
    BY NoJobTyped DEF PatchInv, Accounted, NobodyWorks, Rests, Reported
  <2> QED
    BY <2>1, <2>2 DEF DisplayPatchTrue, StoredOrDoubted, TransientExplained, StoreExplained
<1> QED
  BY PatchInitInv, PatchStep, <1>1, PTL DEF PatchSpec

(***************************************************************************)
(* Agent update.                                                           *)
(***************************************************************************)
RepairStep == Waiting \cup {"prepare", "upload", "apply", "verify", "installing", "normalize",
                            "restore_firewall", "enable_ipv6", "restore_ipv6", "restore_qml", "final"}
Change == Group \cup Patch

Repair == [step : RepairStep, ssh : BOOLEAN, took : SUBSET Patch, changed : SUBSET Change,
           twice : BOOLEAN]
Install == [step : {"none", "files", "firewall", "ipv6", "answer"}, todo : SUBSET Group,
            changed : SUBSET Change]
Comparison == [required : BOOLEAN, self : BOOLEAN, bootstrap : BOOLEAN]

UpdateTyped ==
    /\ job \in Install
    /\ update \in Repair
    /\ updateState \in Comparison
    /\ oldUpdater \in BOOLEAN /\ selfUpdates \in BOOLEAN

\* An agent that updates itself is never installed over SSH.
SelfOnly == selfUpdates => /\ updateState.self /\ ~update.ssh
                           /\ update.step \notin {"ssh_form", "installing"}

\* The files a request has behind it are there; the running agent is the one
\* on the disk or an earlier one.
FilesFollowJob ==
    /\ job.step = "none" => job = NoInstall
    /\ job.step # "none" => \A g \in Group \ {"payload"} : g \in job.todo \/ disk[g] = "new"
    /\ job.step \in {"firewall", "ipv6", "answer"} => job.todo = {}
    /\ runs = "new" => disk["runtime"] = "new"

\* What was active when the repair began is known to it or was not seen; the
\* agent refreshes the firewalls that a self-update leaves to it.
TakesStock ==
    /\ update.step \notin Waiting /\ applied["qml"] = "old" => "qml" \in update.took \cup unseen
    /\ \A f \in Firewall : applied[f] = "old" /\ f \notin unseen =>
         /\ update.step = "installing" => f \in update.took /\ (f = "ipv6" => f \in serviced)
         /\ update.step \in {"prepare", "upload", "apply", "verify"} => f \in serviced

\* An attempt nobody cut short still has every old patch it saw ahead of it
\* once the manifest is that of the bundle.
StillAhead == {"prepare", "upload", "apply", "verify", "normalize"}
Restoring == {"restore_firewall", "enable_ipv6", "restore_ipv6"}
OldIsAhead ==
    ~cut =>
    /\ job.step # "none" => update.step = "apply"
    /\ disk["manifest"] = "old" /\ job.step = "none" => disk["qml"] = "old"
    /\ job.step # "none" => \A p \in {"qml", "schema"} :
                 applied[p] = "old" /\ p \notin unseen => p \in update.changed \cup job.changed
    /\ \A f \in Firewall : applied[f] = "old" /\ f \notin unseen =>
         /\ job.step # "none" => f \in job.changed
         /\ job.step # "answer" /\ (f = "firewall" => job.step # "ipv6")
         /\ disk["manifest"] = "new" =>
              \/ job.step # "none" \/ update.step = "installing"
              \/ f = "ipv6" /\ update.step \in Restoring /\ f \in update.took /\ f \in update.changed
    /\ disk["manifest"] = "new" /\ applied["schema"] = "old" =>
         \/ update.step \in StillAhead /\ "schema" \in update.changed \cup job.changed
         \/ update.step = "installing"
    /\ disk["manifest"] = "new" /\ applied["qml"] = "old" /\ "qml" \notin unseen =>
         \/ /\ update.step \in StillAhead \cup Restoring \cup {"restore_qml"}
            /\ "qml" \in update.changed \cup job.changed
         \/ update.step = "installing" /\ ("qml" \in update.changed \/ disk["qml"] = "old")

\* The second round for an updater that did not know the payload: as long as
\* the payload is missing it is owed, and a round that is the last one runs
\* with the new agent.
PayloadIsOwed ==
    selfUpdates /\ oldUpdater =>
    /\ runs = "old" => updateState.bootstrap
    /\ disk["payload"] = "old" =>
         /\ disk["runtime"] = "new" => payloadDue
         /\ job.step # "none" => payloadDue /\ (runs = "new" => "payload" \in job.todo)
         /\ update.step \in {"prepare", "upload", "apply", "verify"} => payloadDue
         /\ update.step = "verify" => update.twice
         /\ update.step \notin {"normalize", "restore_qml", "final"} \cup Restoring
    /\ update.step \in {"prepare", "upload", "apply"} /\ ~update.twice => runs = "new"

UpdateInv == UpdateTrue /\ UpdateTyped /\ SelfOnly /\ FilesFollowJob /\ TakesStock
             /\ OldIsAhead /\ PayloadIsOwed

LEMMA StepTyped ==
  ASSUME update \in Repair, NEW s \in RepairStep, Step(s)
  PROVE  /\ update' \in Repair /\ update'.step = s
         /\ update'.ssh = update.ssh /\ update'.took = update.took
         /\ update'.changed = update.changed /\ update'.twice = update.twice
BY DEF Step, Repair

LEMMA NoUpdateTyped == NoUpdate \in Repair /\ NoUpdate.step = "none" /\ NoUpdate.ssh = FALSE
BY DEF NoUpdate, Repair, RepairStep, Waiting

LEMMA NoInstallTyped == NoInstall \in Install /\ NoInstall.step = "none"
BY DEF NoInstall, Install

LEMMA ComparedTyped ==
  ASSUME NEW due \in BOOLEAN, runs \in Version, disk \in [Group -> Version],
         oldUpdater \in BOOLEAN, selfUpdates \in BOOLEAN
  PROVE  /\ Compared(due) \in Comparison
         /\ Compared(due).required <=> ~Matches \/ due
         /\ Compared(due).self <=> selfUpdates \/ runs = "new"
         /\ Compared(due).bootstrap <=> PayloadOld
BY DEF Compared, Comparison, Matches, PayloadOld

\* An accident leaves an attempt whole only before its manifest and request.
LEMMA MishapInv ==
  ASSUME UpdateInv, Mishap
  PROVE  /\ mishaps' \in 0 .. MaxFailures /\ cut' \in BOOLEAN
         /\ ~cut' => ~cut /\ disk["manifest"] = "old" /\ job.step = "none"
<1>1. mishaps' \in 0 .. MaxFailures
  BY UpdateBounds DEF Mishap, UpdateInv, UpdateTrue, UpdateTypeOK
<1>2. cut' = (cut \/ disk["manifest"] = "new" \/ job # NoInstall)
  BY DEF Mishap
<1>3. disk["manifest"] \in {"old", "new"}
  BY DEF UpdateInv, UpdateTrue, UpdateTypeOK, Group, Version
<1>4. job = NoInstall => job.step = "none"
  BY NoInstallTyped
<1>5. cut' \in BOOLEAN
  BY <1>2
<1>6. cut \in BOOLEAN
  BY DEF UpdateInv, UpdateTrue, UpdateTypeOK
<1> QED
  BY <1>1, <1>2, <1>3, <1>4, <1>5, <1>6

\* An attempt that came to its end, with the bundle in place, left no patch of
\* the old one that it had seen.
LEMMA NoneOld ==
  ASSUME UpdateInv, ~cut, Matches, update.step \in Waiting \cup {"final"}
  PROVE  \A p \in Patch \ unseen : applied[p] # "old"
<1>1. disk["manifest"] = "new" /\ job.step = "none" /\ job.changed = {}
  BY DEF UpdateInv, Matches, OldIsAhead, FilesFollowJob, NoInstall, Waiting
<1>2. applied["schema"] # "old" /\ ("qml" \notin unseen => applied["qml"] # "old")
  BY <1>1 DEF UpdateInv, OldIsAhead, StillAhead, Restoring, Restoring, Waiting
<1>3. \A f \in Firewall : f \notin unseen => applied[f] # "old"
  BY <1>1 DEF UpdateInv, OldIsAhead, Restoring, Waiting
<1> QED
  BY <1>2, <1>3 DEF Patch, External

LEMMA UpdateInitInv == UpdateInit => UpdateInv
<1> SUFFICES ASSUME UpdateInit PROVE UpdateInv
  OBVIOUS
<1>1. /\ disk = [g \in Group |-> "old"] /\ runs = "old" /\ restartDue = FALSE
      /\ applied \in [Patch -> {"off", "old"}] /\ serviced \subseteq Firewall
      /\ oldUpdater \in BOOLEAN /\ selfUpdates \in BOOLEAN
      /\ staged = {} /\ job = NoInstall /\ update = NoUpdate
      /\ updateState = Compared(FALSE) /\ payloadDue = FALSE
      /\ updateIssue = TRUE /\ cut = FALSE /\ unseen = {} /\ mishaps = 0
  BY DEF UpdateInit
<1>2. UpdateTypeOK
  <2>1. disk \in [Group -> Version] /\ runs \in Version /\ applied \in [Patch -> Version \cup {"off"}]
    BY <1>1 DEF Version
  <2>2. mishaps \in 0 .. MaxFailures
    BY <1>1, UpdateBounds
  <2> QED
    BY <1>1, <2>1, <2>2, NoInstallTyped, NoUpdateTyped
       DEF UpdateTypeOK, Install, Waiting
<1>3. UpdateTyped
  BY <1>1, <1>2, NoInstallTyped, NoUpdateTyped, ComparedTyped DEF UpdateTyped, UpdateTypeOK
<1>4. SelfOnly /\ PayloadIsOwed
  BY <1>1, <1>2, NoInstallTyped, NoUpdateTyped, ComparedTyped
     DEF SelfOnly, PayloadIsOwed, Restoring, UpdateTypeOK, Group, PayloadOld
<1>5. FilesFollowJob /\ TakesStock
  BY <1>1, NoInstallTyped, NoUpdateTyped DEF FilesFollowJob, TakesStock, Waiting
<1>6. OldIsAhead
  BY <1>1, NoInstallTyped DEF OldIsAhead, Group
<1>7. ManifestIsTrue /\ PatchesFollow /\ PayloadFollows
  BY <1>1 DEF ManifestIsTrue, PatchesFollow, PayloadFollows, Group
<1> QED
  BY <1>2, <1>3, <1>4, <1>5, <1>6, <1>7 DEF UpdateInv, UpdateTrue

LEMMA UpdateStepInv == UpdateInv /\ [UpdateNext]_updateVars => UpdateInv'
<1> SUFFICES ASSUME UpdateInv, [UpdateNext]_updateVars PROVE UpdateInv'
  OBVIOUS
<1> USE DEF UpdateInv, UpdateTrue, UpdateTypeOK, UpdateTyped, UnitState, Fixed, Shown, Faults
<1>0. /\ \A g \in Group : disk[g] \in {"old", "new"}
      /\ {"runtime", "scripts", "qml", "payload", "manifest"} = Group
      /\ {"firewall", "ipv6", "qml", "schema"} = Patch
      /\ {"firewall", "ipv6"} = Firewall /\ {"firewall", "ipv6", "qml"} = External
  BY DEF Group, Patch, External, Firewall, Version
<1>1. CASE OpenRepair
  <2>0. /\ update.step = "none" /\ update' \in Repair /\ update'.ssh = FALSE
        /\ update'.step = IF updateState.self THEN "form" ELSE "ssh_form"
        /\ UNCHANGED <<UnitState, Fixed, Shown, staged, job, Faults>>
    BY <1>1, NoUpdateTyped DEF OpenRepair, Repair, RepairStep, Waiting
  <2>1. UpdateTypeOK' /\ UpdateTyped'
    BY <2>0 DEF Waiting
  <2>2. SelfOnly' /\ FilesFollowJob' /\ TakesStock'
    BY <1>0, <2>0 DEF Waiting, SelfOnly, FilesFollowJob, TakesStock
  <2>3. OldIsAhead'
    BY <1>0, <2>0 DEF Waiting, OldIsAhead, StillAhead, Restoring, FilesFollowJob, TakesStock,
                         NoInstall
  <2>4. PayloadIsOwed'
    BY <1>0, <2>0 DEF Waiting, PayloadIsOwed, Restoring, FilesFollowJob, SelfOnly, PayloadOld, Version
  <2>5. ManifestIsTrue'
    BY <1>0, <2>0 DEF ManifestIsTrue, FilesFollowJob, SelfOnly
  <2>6. PatchesFollow'
    BY <1>0, <2>0 DEF PatchesFollow, OldIsAhead, Waiting
  <2>7. PayloadFollows'
    BY <1>0, <2>0 DEF PayloadFollows, SelfOnly, FilesFollowJob, PayloadIsOwed, Waiting
  <2> QED
    BY <2>1, <2>2, <2>3, <2>4, <2>5, <2>6, <2>7
<1>2. CASE CloseRepair
  <2>0. /\ update.step \in {"form", "ssh_form"} /\ update' \in Repair /\ update'.step = "none"
        /\ update'.ssh = update.ssh /\ update'.took = update.took
        /\ update'.changed = update.changed /\ update'.twice = update.twice
        /\ UNCHANGED <<UnitState, Fixed, Shown, staged, job, Faults>>
    BY <1>2, StepTyped DEF CloseRepair, RepairStep, Waiting
  <2>1. UpdateTypeOK' /\ UpdateTyped'
    BY <2>0 DEF Waiting
  <2>2. SelfOnly' /\ FilesFollowJob' /\ TakesStock'
    BY <1>0, <2>0 DEF Waiting, SelfOnly, FilesFollowJob, TakesStock
  <2>3. OldIsAhead'
    BY <1>0, <2>0 DEF Waiting, OldIsAhead, StillAhead, Restoring, FilesFollowJob, TakesStock,
                         NoInstall
  <2>4. PayloadIsOwed'
    BY <1>0, <2>0 DEF Waiting, PayloadIsOwed, Restoring, FilesFollowJob, SelfOnly, PayloadOld, Version
  <2>5. ManifestIsTrue'
    BY <1>0, <2>0 DEF ManifestIsTrue, FilesFollowJob, SelfOnly
  <2>6. PatchesFollow'
    BY <1>0, <2>0 DEF PatchesFollow, OldIsAhead, Waiting
  <2>7. PayloadFollows'
    BY <1>0, <2>0 DEF PayloadFollows, SelfOnly, FilesFollowJob, PayloadIsOwed, Waiting
  <2> QED
    BY <2>1, <2>2, <2>3, <2>4, <2>5, <2>6, <2>7
<1>3. ASSUME NEW unread \in SUBSET External, NEW ui \in BOOLEAN, Captured(unread, ui) PROVE UpdateInv'
  <2>0. /\ update.step \in {"form", "ssh_form"} /\ update' \in Repair
        /\ update'.step = IF update.step = "form" THEN "prepare" ELSE "installing"
        /\ (update'.ssh <=> update.step = "ssh_form")
        /\ (update'.twice <=> updateState.bootstrap)
        /\ (applied["qml"] = "old" => "qml" \in update'.took \cup unseen')
        /\ (\A f \in Firewall : applied[f] = "old" /\ f \notin unseen' =>
              /\ update.step = "ssh_form" => f \in update'.took /\ (f = "ipv6" => f \in serviced)
              /\ update.step = "form" => f \in serviced)
        /\ unseen' \subseteq External /\ unseen \subseteq unseen'
        /\ payloadDue' \in BOOLEAN /\ mishaps' \in 0 .. MaxFailures
        /\ (payloadDue' <=> payloadDue \/ (update.step = "form" /\ updateState.bootstrap))
        /\ UNCHANGED <<UnitState, Fixed, updateState, updateIssue, staged, job, cut>>
    <3>1. mishaps' \in 0 .. MaxFailures
      BY <1>3, UpdateBounds DEF Captured
    <3>2. payloadDue' \in BOOLEAN
          /\ (payloadDue' <=> payloadDue \/ (update.step = "form" /\ updateState.bootstrap))
      BY <1>3 DEF Captured
    <3> DEFINE Legible(p) == p \notin unread /\ (p \in Firewall => p \in serviced)
               Took(p) == CASE p = "qml"      -> ui \/ (Legible(p) /\ Active(p))
                            [] p = "firewall" -> IF Legible(p) THEN Active(p) ELSE update.step = "ssh_form"
                            [] p = "ipv6"     -> Legible(p) /\ Active(p)
               took == {p \in External : Took(p)}
               lost == {p \in External : Active(p) /\ p \notin took
                                           /\ (update.step = "ssh_form" \/ p \notin serviced)}
    <3>3. /\ "qml" \notin Firewall /\ "qml" \notin serviced
          /\ "firewall" \in External /\ "ipv6" \in External /\ "qml" \in External
      BY <1>0
    <3>4. \A p \in External : p \in took \/ ~Active(p) \/ p \in lost
            \/ (p \in serviced /\ update.step = "form")
      BY <1>3 DEF Captured
    <3>5. "ipv6" \in took => "ipv6" \in serviced
      BY <1>0
    <3>6. \A p \in External : applied[p] = "old" => Active(p)
      BY DEF Active
    <3>7. took \in SUBSET Patch /\ lost \subseteq External
      BY <1>0
    <3>8. update.step \in {"form", "ssh_form"}
          /\ UNCHANGED <<UnitState, Fixed, updateState, updateIssue, staged, job, cut>>
          /\ update' = [step |-> IF update.step = "ssh_form" THEN "installing" ELSE "prepare",
                        ssh |-> update.step = "ssh_form", took |-> took, changed |-> {},
                        twice |-> updateState.bootstrap]
      BY <1>3 DEF Captured
    <3>9. unseen' = unseen \cup lost
      BY <1>3, <3>3 DEF Captured
    <3> HIDE DEF Legible, Took, took, lost
    <3>10. updateState.bootstrap \in BOOLEAN
      BY DEF Comparison
    <3>11. /\ update'.step = IF update.step = "form" THEN "prepare" ELSE "installing"
           /\ (update'.ssh <=> update.step = "ssh_form") /\ update'.took = took
           /\ (update'.twice <=> updateState.bootstrap)
      BY <3>8
    <3>12. update' \in Repair
      <4>1. CASE update.step = "form"
        <5>1. update' = [step |-> "prepare", ssh |-> FALSE, took |-> took, changed |-> {},
                         twice |-> updateState.bootstrap]
          BY <3>8, <4>1
        <5> QED
          BY <3>7, <3>10, <5>1 DEF Repair, RepairStep
      <4>2. CASE update.step = "ssh_form"
        <5>1. update' = [step |-> "installing", ssh |-> TRUE, took |-> took, changed |-> {},
                         twice |-> updateState.bootstrap]
          BY <3>8, <4>2
        <5> QED
          BY <3>7, <3>10, <5>1 DEF Repair, RepairStep
      <4> QED
        BY <3>8, <4>1, <4>2
    <3>13. applied["qml"] = "old" => "qml" \in took \cup unseen'
      BY <3>3, <3>4, <3>6, <3>9
    <3>14. \A f \in Firewall : applied[f] = "old" /\ f \notin unseen' =>
              /\ update.step = "ssh_form" => f \in took /\ (f = "ipv6" => f \in serviced)
              /\ update.step = "form" => f \in serviced
      <4>1. \A f \in Firewall : applied[f] = "old" /\ f \notin unseen' =>
              f \in took \/ (f \in serviced /\ update.step = "form")
        BY <1>0, <3>4, <3>6, <3>9
      <4>2. ASSUME NEW f \in Firewall, f \in took, update.step = "form" PROVE f \in serviced
        BY <1>0, <4>2 DEF took, Took, Legible
      <4> QED
        BY <4>1, <4>2, <3>5
    <3> QED
      BY <3>1, <3>2, <3>7, <3>8, <3>9, <3>11, <3>12, <3>13, <3>14
  <2>1. UpdateTypeOK' /\ UpdateTyped'
    BY <2>0 DEF Waiting, Repair, RepairStep
  <2>2. SelfOnly' /\ FilesFollowJob' /\ TakesStock'
    BY <1>0, <2>0 DEF Waiting, SelfOnly, FilesFollowJob, TakesStock
  <2>3. OldIsAhead'
    BY <1>0, <2>0 DEF Waiting, OldIsAhead, StillAhead, Restoring, FilesFollowJob, TakesStock,
                         NoInstall
  <2>4. PayloadIsOwed'
    BY <1>0, <2>0 DEF Waiting, PayloadIsOwed, Restoring, FilesFollowJob, SelfOnly, PayloadOld, Version
  <2>5. ManifestIsTrue'
    BY <1>0, <2>0 DEF ManifestIsTrue, FilesFollowJob, SelfOnly
  <2>6. PatchesFollow'
    BY <1>0, <2>0 DEF PatchesFollow, OldIsAhead, Waiting
  <2>7. PayloadFollows'
    BY <1>0, <2>0 DEF PayloadFollows, SelfOnly, FilesFollowJob, PayloadIsOwed, Waiting
  <2> QED
    BY <2>1, <2>2, <2>3, <2>4, <2>5, <2>6, <2>7
<1>4. CASE Prepared
  <2>0. /\ update.step = "prepare" /\ update' \in Repair /\ update'.step = "upload"
        /\ update'.ssh = update.ssh /\ update'.took = update.took
        /\ update'.changed = update.changed /\ update'.twice = update.twice
        /\ staged' = {}
        /\ UNCHANGED <<UnitState, Fixed, Shown, job, Faults>>
    BY <1>4, StepTyped DEF Prepared, RepairStep, Waiting
  <2>1. UpdateTypeOK' /\ UpdateTyped'
    BY <2>0 DEF Waiting
  <2>2. SelfOnly' /\ FilesFollowJob' /\ TakesStock'
    BY <1>0, <2>0 DEF Waiting, SelfOnly, FilesFollowJob, TakesStock
  <2>3. OldIsAhead'
    BY <1>0, <2>0 DEF Waiting, OldIsAhead, StillAhead, Restoring, FilesFollowJob, TakesStock,
                         NoInstall
  <2>4. PayloadIsOwed'
    BY <1>0, <2>0 DEF Waiting, PayloadIsOwed, Restoring, FilesFollowJob, SelfOnly, PayloadOld, Version
  <2>5. ManifestIsTrue'
    BY <1>0, <2>0 DEF ManifestIsTrue, FilesFollowJob, SelfOnly
  <2>6. PatchesFollow'
    BY <1>0, <2>0 DEF PatchesFollow, OldIsAhead, Waiting
  <2>7. PayloadFollows'
    BY <1>0, <2>0 DEF PayloadFollows, SelfOnly, FilesFollowJob, PayloadIsOwed, Waiting
  <2> QED
    BY <2>1, <2>2, <2>3, <2>4, <2>5, <2>6, <2>7
<1>5. ASSUME NEW g \in Group, Uploads(g) PROVE UpdateInv'
  <2>0. /\ update.step = "upload" /\ update' \in Repair /\ update'.step \in {"upload", "apply"}
        /\ update'.ssh = update.ssh /\ update'.took = update.took
        /\ update'.changed = update.changed /\ update'.twice = update.twice
        /\ staged' \subseteq Group /\ UNCHANGED <<UnitState, Fixed, Shown, job, Faults>>
    BY <1>5, StepTyped DEF Uploads, RepairStep, Waiting
  <2>1. UpdateTypeOK' /\ UpdateTyped'
    BY <2>0
  <2>2. SelfOnly' /\ FilesFollowJob' /\ TakesStock'
    BY <1>0, <2>0 DEF Waiting, SelfOnly, FilesFollowJob, TakesStock
  <2>3. OldIsAhead'
    BY <1>0, <2>0 DEF Waiting, OldIsAhead, StillAhead, Restoring, FilesFollowJob, TakesStock,
                         NoInstall
  <2>4. PayloadIsOwed'
    BY <1>0, <2>0 DEF Waiting, PayloadIsOwed, Restoring, FilesFollowJob, SelfOnly, PayloadOld, Version
  <2>5. ManifestIsTrue'
    BY <1>0, <2>0 DEF ManifestIsTrue, FilesFollowJob, SelfOnly
  <2>6. PatchesFollow'
    BY <1>0, <2>0 DEF PatchesFollow, OldIsAhead, Waiting
  <2>7. PayloadFollows'
    BY <1>0, <2>0 DEF PayloadFollows, SelfOnly, FilesFollowJob, PayloadIsOwed, Waiting
  <2> QED
    BY <2>1, <2>2, <2>3, <2>4, <2>5, <2>6, <2>7
<1>6. CASE ApplyAsked
  <2>0. /\ update.step = "apply" /\ job.step = "none" /\ job' \in Install /\ job'.step = "files"
        /\ (disk["manifest"] = "old" => \A p \in Patch : p \in job'.changed)
        /\ Group \ {"payload"} \subseteq job'.todo
        /\ (runs = "new" => "payload" \in job'.todo)
        /\ UNCHANGED <<UnitState, Fixed, Shown, staged, update, Faults>>
    <3>1. JobSays \in SUBSET Change /\ (disk["manifest"] = "old" => \A p \in Patch : p \in JobSays)
      BY <1>0 DEF JobSays, ManifestChanges, Change
    <3>2. job' = [step |-> "files", changed |-> JobSays,
                  todo |-> IF PayloadOld THEN Group \ {"payload"} ELSE Group]
          /\ update.step = "apply" /\ job = NoInstall
          /\ UNCHANGED <<UnitState, Fixed, Shown, staged, update, Faults>>
      BY <1>6 DEF ApplyAsked
    <3>3. runs = "new" => ~PayloadOld
      BY DEF PayloadOld
    <3>4. job' \in Install
      BY <3>1, <3>2 DEF Install
    <3>5. job'.step = "files" /\ job'.changed = JobSays
          /\ job'.todo = IF PayloadOld THEN Group \ {"payload"} ELSE Group
      BY <3>2
    <3> QED
      BY <3>1, <3>2, <3>3, <3>4, <3>5, NoInstallTyped, <1>0
  <2>1. UpdateTypeOK' /\ UpdateTyped'
    BY <2>0 DEF Install
  <2>2. SelfOnly' /\ FilesFollowJob' /\ TakesStock'
    BY <1>0, <2>0 DEF Waiting, SelfOnly, FilesFollowJob, TakesStock
  <2>3. OldIsAhead'
    BY <1>0, <2>0 DEF Waiting, OldIsAhead, StillAhead, Restoring, FilesFollowJob, TakesStock,
                         NoInstall
  <2>4. PayloadIsOwed'
    BY <1>0, <2>0 DEF Waiting, PayloadIsOwed, Restoring, FilesFollowJob, SelfOnly, PayloadOld, Version
  <2>5. ManifestIsTrue'
    BY <1>0, <2>0 DEF ManifestIsTrue, FilesFollowJob, SelfOnly
  <2>6. PatchesFollow'
    BY <1>0, <2>0 DEF PatchesFollow, OldIsAhead, Waiting
  <2>7. PayloadFollows'
    BY <1>0, <2>0 DEF PayloadFollows, SelfOnly, FilesFollowJob, PayloadIsOwed, Waiting
  <2> QED
    BY <2>1, <2>2, <2>3, <2>4, <2>5, <2>6, <2>7
<1>7. ASSUME NEW g \in Group, ApplyFile(g) PROVE UpdateInv'
  <2>0. /\ job.step = "files" /\ job' \in Install /\ job'.todo = job.todo \ {g}
        /\ job'.step \in {"files", "firewall"} /\ (job'.step = "firewall" => job'.todo = {})
        /\ job.changed \subseteq job'.changed
        /\ (g = "manifest" => job.todo \cap {"runtime", "scripts", "qml", "payload"} = {})
        /\ disk' \in [Group -> Version] /\ disk'[g] = "new"
        /\ \A h \in Group \ {g} : disk'[h] = disk[h]
        /\ UNCHANGED <<runs, restartDue, applied, serviced, Fixed, Shown, staged, update, Faults>>
    <3>1. /\ job.step = "files" /\ g \in job.todo /\ Before(g) \cap job.todo = {}
          /\ disk' = [disk EXCEPT ![g] = "new"]
          /\ job' = [step |-> IF job.todo = {g} THEN "firewall" ELSE "files", todo |-> job.todo \ {g},
                     changed |-> job.changed
                        \cup (IF disk[g] = "old" THEN {g} \cap {"runtime", "qml"} ELSE {})]
          /\ UNCHANGED <<runs, restartDue, applied, serviced, Fixed, Shown, staged, update, Faults>>
      BY <1>7 DEF ApplyFile
    <3>2. Before("manifest") = {"runtime", "scripts", "qml", "payload"}
      BY DEF Before
    <3>3. disk' \in [Group -> Version] /\ disk'[g] = "new" /\ \A h \in Group \ {g} : disk'[h] = disk[h]
      BY <3>1 DEF Version
    <3>4. job' \in Install
      BY <3>1 DEF Install, Change
    <3>5. g = "manifest" => job.todo \cap {"runtime", "scripts", "qml", "payload"} = {}
      BY <3>1, <3>2
    <3> QED
      BY <3>1, <3>3, <3>4, <3>5
  <2>1. UpdateTypeOK' /\ UpdateTyped'
    BY <2>0 DEF Install
  <2>2. SelfOnly' /\ FilesFollowJob' /\ TakesStock'
    BY <1>0, <2>0 DEF Waiting, SelfOnly, FilesFollowJob, TakesStock
  <2>3. OldIsAhead'
    BY <1>0, <2>0 DEF Waiting, OldIsAhead, StillAhead, Restoring, FilesFollowJob, TakesStock,
                         NoInstall
  <2>4. PayloadIsOwed'
    BY <1>0, <2>0 DEF Waiting, PayloadIsOwed, Restoring, FilesFollowJob, SelfOnly, PayloadOld, Version
  <2>5. ManifestIsTrue'
    BY <1>0, <2>0 DEF ManifestIsTrue, FilesFollowJob, SelfOnly
  <2>6. PatchesFollow'
    BY <1>0, <2>0 DEF PatchesFollow, OldIsAhead, Waiting
  <2>7. PayloadFollows'
    BY <1>0, <2>0 DEF PayloadFollows, SelfOnly, FilesFollowJob, PayloadIsOwed, Waiting
  <2> QED
    BY <2>1, <2>2, <2>3, <2>4, <2>5, <2>6, <2>7
<1>8. CASE ApplyFirewall
  <2>0. /\ job.step = "firewall" /\ job' \in Install /\ job'.step = "ipv6"
        /\ job'.todo = job.todo /\ job'.changed = job.changed
        /\ applied' \in [Patch -> Version \cup {"off"}]
        /\ \A q \in Patch \ {"firewall"} : applied'[q] = applied[q]
        /\ (applied'["firewall"] = "old" =>
              applied["firewall"] = "old" /\ "firewall" \notin job.changed \cap serviced)
        /\ UNCHANGED <<disk, runs, restartDue, serviced, staged, Fixed, Shown, update, Faults>>
    <3>1. job' \in Install /\ job'.step = "ipv6" /\ job'.todo = job.todo /\ job'.changed = job.changed
      BY <1>8 DEF ApplyFirewall, Install
    <3>2. restartDue' \in BOOLEAN
      BY <1>8 DEF ApplyFirewall, RestartNeeded
    <3>3. /\ applied' \in [Patch -> Version \cup {"off"}]
          /\ \A q \in Patch \ {"firewall"} : applied'[q] = applied[q]
          /\ (applied'["firewall"] = "old" =>
                applied["firewall"] = "old" /\ "firewall" \notin job.changed \cap serviced)
      <4>1. applied' = Refreshed("firewall")
        BY <1>8 DEF ApplyFirewall
      <4>2. CASE "firewall" \in job.changed \cap serviced /\ Active("firewall")
        <5>1. applied' = [applied EXCEPT !["firewall"] = "new"]
          BY <4>1, <4>2 DEF Refreshed
        <5> QED
          BY <1>0, <5>1 DEF Version
      <4>3. CASE ~("firewall" \in job.changed \cap serviced /\ Active("firewall"))
        <5>1. applied' = applied
          BY <4>1, <4>3 DEF Refreshed
        <5> QED
          BY <1>0, <4>3, <5>1 DEF Active
      <4> QED
        BY <4>2, <4>3
    <3> QED
      BY <1>8, <3>1, <3>2, <3>3 DEF ApplyFirewall
  <2>1. UpdateTypeOK' /\ UpdateTyped'
    BY <2>0 DEF Install
  <2>2. SelfOnly' /\ FilesFollowJob' /\ TakesStock'
    BY <1>0, <2>0 DEF Waiting, SelfOnly, FilesFollowJob, TakesStock
  <2>3. OldIsAhead'
    BY <1>0, <2>0 DEF Waiting, OldIsAhead, StillAhead, Restoring, FilesFollowJob, TakesStock,
                         NoInstall
  <2>4. PayloadIsOwed'
    BY <1>0, <2>0 DEF Waiting, PayloadIsOwed, Restoring, FilesFollowJob, SelfOnly, PayloadOld, Version
  <2>5. ManifestIsTrue'
    BY <1>0, <2>0 DEF ManifestIsTrue, FilesFollowJob, SelfOnly
  <2>6. PatchesFollow'
    BY <1>0, <2>0, <2>1 DEF PatchesFollow, OldIsAhead, Waiting
  <2>7. PayloadFollows'
    BY <1>0, <2>0, <2>1 DEF PayloadFollows, SelfOnly, FilesFollowJob, PayloadIsOwed, Waiting
  <2> QED
    BY <2>1, <2>2, <2>3, <2>4, <2>5, <2>6, <2>7
<1>23. CASE ApplyIpv6
  <2>0. /\ job.step = "ipv6" /\ job' \in Install /\ job'.step = "answer"
        /\ job'.todo = job.todo /\ job'.changed = job.changed
        /\ applied' \in [Patch -> Version \cup {"off"}]
        /\ \A q \in Patch \ {"ipv6"} : applied'[q] = applied[q]
        /\ (applied'["ipv6"] = "old" =>
              applied["ipv6"] = "old" /\ "ipv6" \notin job.changed \cap serviced)
        /\ staged' = {} /\ restartDue' \in BOOLEAN
        /\ UNCHANGED <<disk, runs, serviced, Fixed, Shown, update, Faults>>
    <3>1. job' \in Install /\ job'.step = "answer" /\ job'.todo = job.todo /\ job'.changed = job.changed
      BY <1>23 DEF ApplyIpv6, Install
    <3>2. restartDue' \in BOOLEAN
      BY <1>23 DEF ApplyIpv6, RestartNeeded
    <3>3. /\ applied' \in [Patch -> Version \cup {"off"}]
          /\ \A q \in Patch \ {"ipv6"} : applied'[q] = applied[q]
          /\ (applied'["ipv6"] = "old" =>
                applied["ipv6"] = "old" /\ "ipv6" \notin job.changed \cap serviced)
      <4>1. applied' = Refreshed("ipv6")
        BY <1>23 DEF ApplyIpv6
      <4>2. CASE "ipv6" \in job.changed \cap serviced /\ Active("ipv6")
        <5>1. applied' = [applied EXCEPT !["ipv6"] = "new"]
          BY <4>1, <4>2 DEF Refreshed
        <5> QED
          BY <1>0, <5>1 DEF Version
      <4>3. CASE ~("ipv6" \in job.changed \cap serviced /\ Active("ipv6"))
        <5>1. applied' = applied
          BY <4>1, <4>3 DEF Refreshed
        <5> QED
          BY <1>0, <4>3, <5>1 DEF Active
      <4> QED
        BY <4>2, <4>3
    <3> QED
      BY <1>23, <3>1, <3>2, <3>3 DEF ApplyIpv6
  <2>1. UpdateTypeOK' /\ UpdateTyped'
    BY <2>0 DEF Install
  <2>2. SelfOnly' /\ FilesFollowJob' /\ TakesStock'
    BY <1>0, <2>0 DEF Waiting, SelfOnly, FilesFollowJob, TakesStock
  <2>3. OldIsAhead'
    BY <1>0, <2>0 DEF Waiting, OldIsAhead, StillAhead, Restoring, FilesFollowJob, TakesStock,
                         NoInstall
  <2>4. PayloadIsOwed'
    BY <1>0, <2>0 DEF Waiting, PayloadIsOwed, Restoring, FilesFollowJob, SelfOnly, PayloadOld, Version
  <2>5. ManifestIsTrue'
    BY <1>0, <2>0 DEF ManifestIsTrue, FilesFollowJob, SelfOnly
  <2>6. PatchesFollow'
    BY <1>0, <2>0, <2>1 DEF PatchesFollow, OldIsAhead, Waiting
  <2>7. PayloadFollows'
    BY <1>0, <2>0, <2>1 DEF PayloadFollows, SelfOnly, FilesFollowJob, PayloadIsOwed, Waiting
  <2> QED
    BY <2>1, <2>2, <2>3, <2>4, <2>5, <2>6, <2>7
<1>9. CASE ApplyAnswered
  <2>0. /\ job.step = "answer" /\ job' = NoInstall /\ update' \in Repair
        /\ update'.ssh = update.ssh /\ update'.took = update.took /\ update'.twice = update.twice
        /\ update.changed \subseteq update'.changed
        /\ IF update.step = "apply"
             THEN update'.step = "verify" /\ update'.changed = update.changed \cup job.changed
             ELSE update'.step = update.step
        /\ UNCHANGED <<UnitState, Fixed, Shown, staged, Faults>>
    <3>1. CASE update.step = "apply"
      <4>1. update' = [update EXCEPT !.step = "verify", !.changed = @ \cup job.changed]
        BY <1>9, <3>1 DEF ApplyAnswered
      <4>2. job.changed \subseteq Change /\ update.changed \subseteq Change
        BY DEF Install, Repair
      <4> QED
        BY <1>9, <3>1, <4>1, <4>2 DEF ApplyAnswered, Repair, RepairStep
    <3>2. CASE update.step # "apply"
      BY <1>9, <3>2 DEF ApplyAnswered
    <3> QED
      BY <3>1, <3>2
  <2>1. UpdateTypeOK' /\ UpdateTyped'
    BY <2>0, NoInstallTyped DEF Repair, RepairStep, Install, NoInstall
  <2>2. SelfOnly' /\ FilesFollowJob' /\ TakesStock'
    BY <1>0, <2>0, NoInstallTyped DEF Waiting, SelfOnly, FilesFollowJob, TakesStock
  <2>3. OldIsAhead'
    BY <1>0, <2>0, NoInstallTyped DEF Waiting, OldIsAhead, StillAhead, Restoring, FilesFollowJob, TakesStock,
                         NoInstall
  <2>4. PayloadIsOwed'
    BY <1>0, <2>0, NoInstallTyped DEF Waiting, PayloadIsOwed, Restoring, FilesFollowJob, SelfOnly, PayloadOld, Version
  <2>5. ManifestIsTrue'
    BY <1>0, <2>0, NoInstallTyped DEF ManifestIsTrue, FilesFollowJob, SelfOnly
  <2>6. PatchesFollow'
    BY <1>0, <2>0, NoInstallTyped DEF PatchesFollow, OldIsAhead, Waiting
  <2>7. PayloadFollows'
    BY <1>0, <2>0, NoInstallTyped DEF PayloadFollows, SelfOnly, FilesFollowJob, PayloadIsOwed, Waiting
  <2> QED
    BY <2>1, <2>2, <2>3, <2>4, <2>5, <2>6, <2>7
<1>10. CASE AgentRestarts
  <2>0. /\ job = NoInstall /\ runs' = disk["runtime"] /\ restartDue' = FALSE
        /\ UNCHANGED <<disk, applied, serviced, Fixed, Shown, staged, job, update, Faults>>
    BY <1>10 DEF AgentRestarts
  <2>1. UpdateTypeOK' /\ UpdateTyped'
    BY <2>0, NoInstallTyped, <1>0
  <2>2. SelfOnly' /\ FilesFollowJob' /\ TakesStock'
    BY <1>0, <2>0, NoInstallTyped DEF Waiting, SelfOnly, FilesFollowJob, TakesStock
  <2>3. OldIsAhead'
    BY <1>0, <2>0, NoInstallTyped DEF Waiting, OldIsAhead, StillAhead, Restoring, FilesFollowJob, TakesStock,
                         NoInstall
  <2>4. PayloadIsOwed'
    BY <1>0, <2>0, NoInstallTyped, <2>1 DEF Waiting, PayloadIsOwed, Restoring, FilesFollowJob, SelfOnly, PayloadOld, Version
  <2>5. ManifestIsTrue'
    BY <1>0, <2>0, NoInstallTyped DEF ManifestIsTrue, FilesFollowJob, SelfOnly
  <2>6. PatchesFollow'
    BY <1>0, <2>0, NoInstallTyped DEF PatchesFollow, OldIsAhead, Waiting
  <2>7. PayloadFollows'
    BY <1>0, <2>0, NoInstallTyped DEF PayloadFollows, SelfOnly, FilesFollowJob, PayloadIsOwed, Waiting
  <2> QED
    BY <2>1, <2>2, <2>3, <2>4, <2>5, <2>6, <2>7
<1>11. CASE Verified
  <2>0. /\ update.step = "verify" /\ runs = "new" /\ disk["manifest"] = "new" /\ update' \in Repair
        /\ update'.step = IF update.twice THEN "prepare" ELSE "normalize"
        /\ update'.ssh = update.ssh /\ update'.took = update.took
        /\ update'.changed = update.changed
        /\ UNCHANGED <<UnitState, Fixed, Shown, staged, job, Faults>>
    BY <1>11 DEF Verified, Repair, RepairStep, Matches
  <2>1. UpdateTypeOK' /\ UpdateTyped'
    BY <2>0
  <2>2. SelfOnly' /\ FilesFollowJob' /\ TakesStock'
    BY <1>0, <2>0 DEF Waiting, SelfOnly, FilesFollowJob, TakesStock
  <2>3. OldIsAhead'
    BY <1>0, <2>0 DEF Waiting, OldIsAhead, StillAhead, Restoring, FilesFollowJob, TakesStock,
                         NoInstall
  <2>4. PayloadIsOwed'
    BY <1>0, <2>0 DEF Waiting, PayloadIsOwed, Restoring, FilesFollowJob, SelfOnly, PayloadOld, Version
  <2>5. ManifestIsTrue'
    BY <1>0, <2>0 DEF ManifestIsTrue, FilesFollowJob, SelfOnly
  <2>6. PatchesFollow'
    BY <1>0, <2>0 DEF PatchesFollow, OldIsAhead, Waiting
  <2>7. PayloadFollows'
    BY <1>0, <2>0 DEF PayloadFollows, SelfOnly, FilesFollowJob, PayloadIsOwed, Waiting
  <2> QED
    BY <2>1, <2>2, <2>3, <2>4, <2>5, <2>6, <2>7
<1>12. ASSUME NEW g \in Group, Installs(g) PROVE UpdateInv'
  <2>0. /\ update.step = "installing" /\ disk[g] = "old" /\ update' \in Repair
        /\ update'.step = "installing" /\ update'.ssh = update.ssh /\ update'.took = update.took
        /\ update'.twice = update.twice /\ update.changed \subseteq update'.changed
        /\ (g = "qml" => "qml" \in update'.changed /\ disk["manifest"] = "new")
        /\ disk' \in [Group -> Version] /\ disk'[g] = "new"
        /\ \A h \in Group \ {g} : disk'[h] = disk[h]
        /\ UNCHANGED <<runs, restartDue, applied, serviced, Fixed, Shown, staged, job, Faults>>
    <3>1. /\ update.step = "installing" /\ disk[g] = "old" /\ (g = "qml" => disk["manifest"] = "new")
          /\ disk' = [disk EXCEPT ![g] = "new"]
          /\ update' = [update EXCEPT !.changed = @ \cup (IF g = "scripts" THEN Firewall ELSE {g})]
          /\ UNCHANGED <<runs, restartDue, applied, serviced, Fixed, Shown, staged, job, Faults>>
      BY <1>12 DEF Installs
    <3>2. disk' \in [Group -> Version] /\ disk'[g] = "new" /\ \A h \in Group \ {g} : disk'[h] = disk[h]
      BY <3>1 DEF Version
    <3>3. update' = [update EXCEPT !.changed = update.changed
                        \cup (IF g = "scripts" THEN Firewall ELSE {g})]
      BY <3>1
    <3>4. update' \in Repair /\ update'.step = update.step /\ update'.ssh = update.ssh
          /\ update'.took = update.took /\ update'.twice = update.twice
          /\ update'.changed = update.changed \cup (IF g = "scripts" THEN Firewall ELSE {g})
      BY <1>0, <3>3 DEF Repair, Change
    <3> QED
      BY <3>1, <3>2, <3>4
  <2>1. UpdateTypeOK' /\ UpdateTyped'
    BY <2>0 DEF Waiting
  <2>2. SelfOnly' /\ FilesFollowJob' /\ TakesStock'
    BY <1>0, <2>0 DEF Waiting, SelfOnly, FilesFollowJob, TakesStock
  <2>3. OldIsAhead'
    BY <1>0, <2>0 DEF Waiting, OldIsAhead, StillAhead, Restoring, FilesFollowJob, TakesStock,
                         NoInstall
  <2>4. PayloadIsOwed'
    BY <1>0, <2>0 DEF Waiting, PayloadIsOwed, Restoring, FilesFollowJob, SelfOnly, PayloadOld, Version
  <2>5. ManifestIsTrue'
    BY <1>0, <2>0 DEF ManifestIsTrue, FilesFollowJob, SelfOnly
  <2>6. PatchesFollow'
    BY <1>0, <2>0 DEF PatchesFollow, OldIsAhead, Waiting
  <2>7. PayloadFollows'
    BY <1>0, <2>0 DEF PayloadFollows, SelfOnly, FilesFollowJob, PayloadIsOwed, Waiting
  <2> QED
    BY <2>1, <2>2, <2>3, <2>4, <2>5, <2>6, <2>7
<1>13. CASE InstallRestarts
  <2>0. /\ update.step = "installing" /\ update' \in Repair /\ update'.step = "restore_firewall"
        /\ update'.ssh = update.ssh /\ update'.took = update.took /\ update'.twice = update.twice
        /\ update.changed \subseteq update'.changed
        /\ (applied["schema"] = "old" \/ "ipv6" \in serviced => "ipv6" \in update'.changed)
        /\ \A g \in Group \ {"payload"} : disk[g] = "new"
        /\ runs' = "new" /\ restartDue' = FALSE /\ serviced' \subseteq Firewall
        /\ applied' \in [Patch -> Version \cup {"off"}] /\ applied'["schema"] = "new"
        /\ applied'["qml"] = applied["qml"] /\ applied'["ipv6"] = applied["ipv6"]
        /\ (applied'["firewall"] = "old" =>
              applied["firewall"] = "old" /\ "firewall" \notin update.took)
        /\ UNCHANGED <<disk, Fixed, Shown, staged, job, Faults>>
    <3> DEFINE kept == update.took \cap {"firewall"}
               rewritten == applied["schema"] = "old" \/ serviced # kept
               changed == update.changed \cup (IF rewritten THEN {"ipv6"} ELSE {})
    <3>1. applied' = [p \in Patch |-> IF p = "schema" \/ p \in kept THEN "new" ELSE applied[p]]
      BY <1>13 DEF InstallRestarts
    <3>2. /\ applied' \in [Patch -> Version \cup {"off"}] /\ applied'["schema"] = "new"
          /\ applied'["qml"] = applied["qml"] /\ applied'["ipv6"] = applied["ipv6"]
          /\ (applied'["firewall"] = "old" =>
                applied["firewall"] = "old" /\ "firewall" \notin update.took)
      BY <1>0, <3>1 DEF Version
    <3>3. update' = [update EXCEPT !.step = "restore_firewall", !.changed = changed]
      BY <1>13 DEF InstallRestarts
    <3>4. /\ changed \in SUBSET Change /\ update.changed \subseteq changed
          /\ (applied["schema"] = "old" \/ "ipv6" \in serviced => "ipv6" \in changed)
      BY <1>0 DEF Change, Repair
    <3>5. serviced' = kept /\ kept \subseteq Firewall
      BY <1>0, <1>13 DEF InstallRestarts
    <3> HIDE DEF changed, kept, rewritten
    <3>6. update' \in Repair /\ update'.step = "restore_firewall" /\ update'.changed = changed
          /\ update'.ssh = update.ssh /\ update'.took = update.took /\ update'.twice = update.twice
      BY <3>3, <3>4 DEF Repair, RepairStep
    <3> QED
      BY <1>13, <3>2, <3>4, <3>5, <3>6 DEF InstallRestarts
  <2>1. UpdateTypeOK' /\ UpdateTyped'
    BY <2>0 DEF Version, Waiting
  <2>2. SelfOnly' /\ FilesFollowJob' /\ TakesStock'
    BY <1>0, <2>0 DEF Waiting, SelfOnly, FilesFollowJob, TakesStock
  <2>3. OldIsAhead'
    BY <1>0, <2>0 DEF Waiting, OldIsAhead, StillAhead, Restoring, FilesFollowJob, TakesStock,
                         NoInstall
  <2>4. PayloadIsOwed'
    BY <1>0, <2>0 DEF Waiting, PayloadIsOwed, Restoring, FilesFollowJob, SelfOnly, PayloadOld, Version
  <2>5. ManifestIsTrue'
    BY <1>0, <2>0 DEF ManifestIsTrue, FilesFollowJob, SelfOnly
  <2>6. PatchesFollow'
    BY <1>0, <2>0 DEF PatchesFollow, OldIsAhead, Waiting
  <2>7. PayloadFollows'
    BY <1>0, <2>0 DEF PayloadFollows, SelfOnly, FilesFollowJob, PayloadIsOwed, Waiting
  <2> QED
    BY <2>1, <2>2, <2>3, <2>4, <2>5, <2>6, <2>7
<1>14. CASE Normalized
  <2>0. /\ update.step = "normalize" /\ update' \in Repair /\ update'.step = "restore_firewall"
        /\ update'.ssh = update.ssh /\ update'.took = update.took
        /\ update'.changed = update.changed /\ update'.twice = update.twice
        /\ applied' \in [Patch -> Version \cup {"off"}]
        /\ \A q \in Patch \ {"schema"} : applied'[q] = applied[q]
        /\ (applied'["schema"] = "old" => applied["schema"] = "old" /\ "schema" \notin update.changed)
        /\ UNCHANGED <<disk, runs, restartDue, serviced, Fixed, Shown, staged, job, Faults>>
    <3>1. /\ applied' \in [Patch -> Version \cup {"off"}]
          /\ \A q \in Patch \ {"schema"} : applied'[q] = applied[q]
          /\ (applied'["schema"] = "old" =>
                applied["schema"] = "old" /\ "schema" \notin update.changed)
      BY <1>0, <1>14 DEF Normalized, Version
    <3> QED
      BY <1>14, <3>1, StepTyped DEF Normalized, RepairStep
  <2>1. UpdateTypeOK' /\ UpdateTyped'
    BY <2>0 DEF Waiting
  <2>2. SelfOnly' /\ FilesFollowJob' /\ TakesStock'
    BY <1>0, <2>0 DEF Waiting, SelfOnly, FilesFollowJob, TakesStock
  <2>3. OldIsAhead'
    BY <1>0, <2>0 DEF Waiting, OldIsAhead, StillAhead, Restoring, FilesFollowJob, TakesStock,
                         NoInstall
  <2>4. PayloadIsOwed'
    BY <1>0, <2>0 DEF Waiting, PayloadIsOwed, Restoring, FilesFollowJob, SelfOnly, PayloadOld, Version
  <2>5. ManifestIsTrue'
    BY <1>0, <2>0 DEF ManifestIsTrue, FilesFollowJob, SelfOnly
  <2>6. PatchesFollow'
    BY <1>0, <2>0 DEF PatchesFollow, OldIsAhead, Waiting
  <2>7. PayloadFollows'
    BY <1>0, <2>0 DEF PayloadFollows, SelfOnly, FilesFollowJob, PayloadIsOwed, Waiting
  <2> QED
    BY <2>1, <2>2, <2>3, <2>4, <2>5, <2>6, <2>7
<1>15. CASE Restored("firewall", "restore_firewall", "enable_ipv6")
  <2>0. /\ update.step = "restore_firewall" /\ update' \in Repair /\ update'.step = "enable_ipv6"
        /\ update'.ssh = update.ssh /\ update'.took = update.took
        /\ update'.changed = update.changed /\ update'.twice = update.twice
        /\ applied' \in [Patch -> Version \cup {"off"}]
        /\ \A q \in Patch \ {"firewall"} : applied'[q] = applied[q]
        /\ (applied'["firewall"] = "old" => /\ applied["firewall"] = "old"
                                      /\ ~("firewall" \in update.took /\ "firewall" \in update.changed))
        /\ UNCHANGED <<disk, runs, restartDue, serviced, Fixed, Shown, staged, job, Faults>>
    <3>1. /\ applied' \in [Patch -> Version \cup {"off"}]
          /\ \A q \in Patch \ {"firewall"} : applied'[q] = applied[q]
          /\ (applied'["firewall"] = "old" => /\ applied["firewall"] = "old"
                                        /\ ~("firewall" \in update.took /\ "firewall" \in update.changed))
      BY <1>0, <1>15 DEF Restored, Reapplies, Redoes, Version
    <3> QED
      BY <1>15, <3>1, StepTyped DEF Restored, RepairStep
  <2>1. UpdateTypeOK' /\ UpdateTyped'
    BY <2>0 DEF Waiting
  <2>2. SelfOnly' /\ FilesFollowJob' /\ TakesStock'
    BY <1>0, <2>0 DEF Waiting, SelfOnly, FilesFollowJob, TakesStock
  <2>3. OldIsAhead'
    BY <1>0, <2>0 DEF Waiting, OldIsAhead, StillAhead, Restoring, FilesFollowJob, TakesStock,
                         NoInstall
  <2>4. PayloadIsOwed'
    BY <1>0, <2>0 DEF Waiting, PayloadIsOwed, Restoring, FilesFollowJob, SelfOnly, PayloadOld, Version
  <2>5. ManifestIsTrue'
    BY <1>0, <2>0 DEF ManifestIsTrue, FilesFollowJob, SelfOnly
  <2>6. PatchesFollow'
    BY <1>0, <2>0 DEF PatchesFollow, OldIsAhead, Waiting
  <2>7. PayloadFollows'
    BY <1>0, <2>0 DEF PayloadFollows, SelfOnly, FilesFollowJob, PayloadIsOwed, Waiting
  <2> QED
    BY <2>1, <2>2, <2>3, <2>4, <2>5, <2>6, <2>7
<1>24. CASE Restored("ipv6", "restore_ipv6", "restore_qml")
  <2>0. /\ update.step = "restore_ipv6" /\ update' \in Repair /\ update'.step = "restore_qml"
        /\ update'.ssh = update.ssh /\ update'.took = update.took
        /\ update'.changed = update.changed /\ update'.twice = update.twice
        /\ applied' \in [Patch -> Version \cup {"off"}]
        /\ \A q \in Patch \ {"ipv6"} : applied'[q] = applied[q]
        /\ (applied'["ipv6"] = "old" => /\ applied["ipv6"] = "old"
                                      /\ ~("ipv6" \in update.took /\ "ipv6" \in update.changed))
        /\ UNCHANGED <<disk, runs, restartDue, serviced, Fixed, Shown, staged, job, Faults>>
    <3>1. /\ applied' \in [Patch -> Version \cup {"off"}]
          /\ \A q \in Patch \ {"ipv6"} : applied'[q] = applied[q]
          /\ (applied'["ipv6"] = "old" => /\ applied["ipv6"] = "old"
                                        /\ ~("ipv6" \in update.took /\ "ipv6" \in update.changed))
      BY <1>0, <1>24 DEF Restored, Reapplies, Redoes, Version
    <3> QED
      BY <1>24, <3>1, StepTyped DEF Restored, RepairStep
  <2>1. UpdateTypeOK' /\ UpdateTyped'
    BY <2>0 DEF Waiting
  <2>2. SelfOnly' /\ FilesFollowJob' /\ TakesStock'
    BY <1>0, <2>0 DEF Waiting, SelfOnly, FilesFollowJob, TakesStock
  <2>3. OldIsAhead'
    BY <1>0, <2>0 DEF Waiting, OldIsAhead, StillAhead, Restoring, FilesFollowJob, TakesStock,
                         NoInstall
  <2>4. PayloadIsOwed'
    BY <1>0, <2>0 DEF Waiting, PayloadIsOwed, Restoring, FilesFollowJob, SelfOnly, PayloadOld, Version
  <2>5. ManifestIsTrue'
    BY <1>0, <2>0 DEF ManifestIsTrue, FilesFollowJob, SelfOnly
  <2>6. PatchesFollow'
    BY <1>0, <2>0 DEF PatchesFollow, OldIsAhead, Waiting
  <2>7. PayloadFollows'
    BY <1>0, <2>0 DEF PayloadFollows, SelfOnly, FilesFollowJob, PayloadIsOwed, Waiting
  <2> QED
    BY <2>1, <2>2, <2>3, <2>4, <2>5, <2>6, <2>7
<1>16. CASE Restored("qml", "restore_qml", "final")
  <2>0. /\ update.step = "restore_qml" /\ update' \in Repair /\ update'.step = "final"
        /\ update'.ssh = update.ssh /\ update'.took = update.took
        /\ update'.changed = update.changed /\ update'.twice = update.twice
        /\ applied' \in [Patch -> Version \cup {"off"}]
        /\ \A q \in Patch \ {"qml"} : applied'[q] = applied[q]
        /\ (applied'["qml"] = "old" => /\ applied["qml"] = "old"
                                      /\ ~("qml" \in update.took /\ "qml" \in update.changed))
        /\ UNCHANGED <<disk, runs, restartDue, serviced, Fixed, Shown, staged, job, Faults>>
    <3>1. /\ applied' \in [Patch -> Version \cup {"off"}]
          /\ \A q \in Patch \ {"qml"} : applied'[q] = applied[q]
          /\ (applied'["qml"] = "old" => /\ applied["qml"] = "old"
                                        /\ ~("qml" \in update.took /\ "qml" \in update.changed))
      BY <1>0, <1>16 DEF Restored, Reapplies, Redoes, Version
    <3> QED
      BY <1>16, <3>1, StepTyped DEF Restored, RepairStep
  <2>1. UpdateTypeOK' /\ UpdateTyped'
    BY <2>0 DEF Waiting
  <2>2. SelfOnly' /\ FilesFollowJob' /\ TakesStock'
    BY <1>0, <2>0 DEF Waiting, SelfOnly, FilesFollowJob, TakesStock
  <2>3. OldIsAhead'
    BY <1>0, <2>0 DEF Waiting, OldIsAhead, StillAhead, Restoring, FilesFollowJob, TakesStock,
                         NoInstall
  <2>4. PayloadIsOwed'
    BY <1>0, <2>0 DEF Waiting, PayloadIsOwed, Restoring, FilesFollowJob, SelfOnly, PayloadOld, Version
  <2>5. ManifestIsTrue'
    BY <1>0, <2>0 DEF ManifestIsTrue, FilesFollowJob, SelfOnly
  <2>6. PatchesFollow'
    BY <1>0, <2>0 DEF PatchesFollow, OldIsAhead, Waiting
  <2>7. PayloadFollows'
    BY <1>0, <2>0 DEF PayloadFollows, SelfOnly, FilesFollowJob, PayloadIsOwed, Waiting
  <2> QED
    BY <2>1, <2>2, <2>3, <2>4, <2>5, <2>6, <2>7
<1>25. ASSUME NEW ok \in BOOLEAN, Ipv6Enabled(ok) PROVE UpdateInv'
  <2>0. /\ update.step = "enable_ipv6" /\ update' \in Repair
        /\ update'.ssh = update.ssh /\ update'.took = update.took
        /\ update'.changed = update.changed /\ update'.twice = update.twice
        /\ mishaps' \in 0 .. MaxFailures /\ cut' \in BOOLEAN /\ serviced' \subseteq Firewall
        /\ \/ cut' /\ update'.step = (IF update.ssh THEN "ssh_form" ELSE "form")
           \/ cut' = cut /\ update'.step = "restore_ipv6"
        /\ UNCHANGED <<disk, runs, restartDue, applied, Fixed, Shown, staged, job, unseen>>
    <3>1. mishaps' \in 0 .. MaxFailures
      BY <1>25, UpdateBounds DEF Ipv6Enabled
    <3>2. serviced' \subseteq Firewall
      BY <1>0, <1>25 DEF Ipv6Enabled
    <3>3. update.step = "enable_ipv6"
          /\ UNCHANGED <<disk, runs, restartDue, applied, Fixed, Shown, staged, job, unseen>>
      BY <1>25 DEF Ipv6Enabled
    <3>4. CASE Redoes("ipv6") /\ "ipv6" \notin serviced'
      <4>1. Step(IF update.ssh THEN "ssh_form" ELSE "form") /\ cut' = TRUE
        BY <1>25, <3>4 DEF Ipv6Enabled
      <4> QED
        BY <3>1, <3>2, <3>3, <4>1, StepTyped DEF RepairStep, Waiting
    <3>5. CASE ~(Redoes("ipv6") /\ "ipv6" \notin serviced')
      <4>1. Step("restore_ipv6") /\ cut' = cut
        BY <1>25, <3>5 DEF Ipv6Enabled
      <4> QED
        BY <3>1, <3>2, <3>3, <4>1, StepTyped DEF RepairStep, Waiting
    <3> QED
      BY <3>4, <3>5
  <2>1. UpdateTypeOK' /\ UpdateTyped'
    BY <2>0 DEF Waiting
  <2>2. SelfOnly' /\ FilesFollowJob' /\ TakesStock'
    BY <1>0, <2>0 DEF Waiting, SelfOnly, FilesFollowJob, TakesStock
  <2>3. OldIsAhead'
    BY <1>0, <2>0 DEF Waiting, OldIsAhead, StillAhead, Restoring, FilesFollowJob, TakesStock,
                         NoInstall
  <2>4. PayloadIsOwed'
    BY <1>0, <2>0 DEF Waiting, PayloadIsOwed, Restoring, FilesFollowJob, SelfOnly, PayloadOld, Version
  <2>5. ManifestIsTrue'
    BY <1>0, <2>0 DEF ManifestIsTrue, FilesFollowJob, SelfOnly
  <2>6. PatchesFollow'
    BY <1>0, <2>0 DEF PatchesFollow, OldIsAhead, Waiting
  <2>7. PayloadFollows'
    BY <1>0, <2>0 DEF PayloadFollows, SelfOnly, FilesFollowJob, PayloadIsOwed, Waiting
  <2> QED
    BY <2>1, <2>2, <2>3, <2>4, <2>5, <2>6, <2>7
<1>17. CASE Finished
  <2>0. /\ update.step = "final" /\ update' \in Repair
        /\ payloadDue' \in BOOLEAN /\ (payloadDue' => update.ssh)
        /\ updateState' \in Comparison /\ updateIssue' \in BOOLEAN
        /\ (updateState'.self <=> selfUpdates \/ runs = "new")
        /\ (updateState'.bootstrap <=> PayloadOld)
        /\ \/ update'.ssh = update.ssh
              /\ update'.step = (IF update.ssh THEN "ssh_form" ELSE "form")
              /\ updateIssue' = updateIssue
           \/ update' = NoUpdate /\ updateIssue' = FALSE /\ Matches
        /\ UNCHANGED <<UnitState, Fixed, staged, job, Faults>>
    <3>1. /\ update.step = "final" /\ payloadDue' = (update.ssh /\ payloadDue)
          /\ updateState' = Compared(payloadDue')
          /\ IF updateState'.required
               THEN Step(IF update.ssh THEN "ssh_form" ELSE "form") /\ UNCHANGED updateIssue
               ELSE update' = NoUpdate /\ updateIssue' = FALSE
          /\ UNCHANGED <<UnitState, Fixed, staged, job, Faults>>
      BY <1>17 DEF Finished
    <3>2. payloadDue' \in BOOLEAN /\ (payloadDue' => update.ssh)
      BY <3>1
    <3>3. /\ updateState' \in Comparison
          /\ (updateState'.required <=> ~Matches \/ payloadDue')
          /\ (updateState'.self <=> selfUpdates \/ runs = "new")
          /\ (updateState'.bootstrap <=> PayloadOld)
      BY <3>1, <3>2, ComparedTyped
    <3>4. CASE updateState'.required
      <4>1. Step(IF update.ssh THEN "ssh_form" ELSE "form") /\ UNCHANGED updateIssue
        BY <3>1, <3>4
      <4> QED
        BY <3>1, <3>2, <3>3, <4>1, StepTyped DEF RepairStep, Waiting
    <3>5. CASE ~updateState'.required
      <4>1. update' = NoUpdate /\ updateIssue' = FALSE
        BY <3>1, <3>5
      <4> QED
        BY <3>1, <3>2, <3>3, <3>5, <4>1, NoUpdateTyped
    <3> QED
      BY <3>4, <3>5
  <2>1. UpdateTypeOK' /\ UpdateTyped'
    BY <2>0, NoUpdateTyped DEF Repair, RepairStep, Waiting
  <2>2. SelfOnly' /\ FilesFollowJob' /\ TakesStock'
    BY <1>0, <2>0, NoUpdateTyped DEF Waiting, SelfOnly, FilesFollowJob, TakesStock
  <2>3. OldIsAhead'
    BY <1>0, <2>0, NoUpdateTyped DEF Waiting, OldIsAhead, StillAhead, Restoring, FilesFollowJob, TakesStock,
                         NoInstall
  <2>4. PayloadIsOwed'
    BY <1>0, <2>0, NoUpdateTyped DEF Waiting, PayloadIsOwed, Restoring, FilesFollowJob, SelfOnly, PayloadOld, Version
  <2>5. ManifestIsTrue'
    BY <1>0, <2>0, NoUpdateTyped DEF ManifestIsTrue, FilesFollowJob, SelfOnly
  <2>6. PatchesFollow'
    BY <1>0, <2>0, NoUpdateTyped, NoneOld DEF Matches, PatchesFollow, OldIsAhead, Waiting
  <2>7. PayloadFollows'
    BY <1>0, <2>0, NoUpdateTyped, NoneOld DEF Matches, PayloadFollows, SelfOnly, FilesFollowJob, PayloadIsOwed, Waiting
  <2> QED
    BY <2>1, <2>2, <2>3, <2>4, <2>5, <2>6, <2>7
<1>18. CASE UpdateFails
  <2>0. /\ update' \in Repair /\ update'.ssh = update.ssh
        /\ update.step \notin Waiting /\ update'.step = (IF update.ssh THEN "ssh_form" ELSE "form")
        /\ UNCHANGED <<UnitState, Fixed, Shown, staged, job, unseen>>
    BY <1>18, StepTyped DEF UpdateFails, RepairStep, Waiting
  <2>8. /\ mishaps' \in 0 .. MaxFailures /\ cut' \in BOOLEAN
        /\ ~cut' => ~cut /\ disk["manifest"] = "old" /\ job.step = "none"
    BY <1>18, MishapInv DEF UpdateFails, ApplyFails, PowerLost
  <2>1. UpdateTypeOK' /\ UpdateTyped'
    BY <2>0, <2>8 DEF Repair, RepairStep
  <2>2. SelfOnly' /\ FilesFollowJob' /\ TakesStock'
    BY <1>0, <2>0, <2>8 DEF Waiting, SelfOnly, FilesFollowJob, TakesStock
  <2>3. OldIsAhead'
    BY <1>0, <2>0, <2>8 DEF Waiting, OldIsAhead, StillAhead, Restoring, FilesFollowJob, TakesStock,
                         NoInstall
  <2>4. PayloadIsOwed'
    BY <1>0, <2>0, <2>8 DEF Waiting, PayloadIsOwed, Restoring, FilesFollowJob, SelfOnly, PayloadOld, Version
  <2>5. ManifestIsTrue'
    BY <1>0, <2>0, <2>8 DEF ManifestIsTrue, FilesFollowJob, SelfOnly
  <2>6. PatchesFollow'
    BY <1>0, <2>0, <2>8 DEF PatchesFollow, OldIsAhead, Waiting
  <2>7. PayloadFollows'
    BY <1>0, <2>0, <2>8 DEF PayloadFollows, SelfOnly, FilesFollowJob, PayloadIsOwed, Waiting
  <2> QED
    BY <2>1, <2>2, <2>3, <2>4, <2>5, <2>6, <2>7
<1>19. CASE ApplyFails
  <2>0. /\ job.step # "none" /\ job' = NoInstall /\ update' \in Repair /\ update'.ssh = update.ssh
        /\ update'.took = update.took /\ update'.changed = update.changed
        /\ update'.twice = update.twice
        /\ update'.step = (IF update.step = "apply" THEN "form" ELSE update.step)
        /\ UNCHANGED <<UnitState, Fixed, Shown, staged, unseen>>
    <3>1. CASE update.step = "apply"
      BY <1>19, <3>1, StepTyped DEF ApplyFails, RepairStep, Waiting
    <3>2. CASE update.step # "apply"
      BY <1>19, <3>2 DEF ApplyFails
    <3> QED
      BY <3>1, <3>2
  <2>8. /\ mishaps' \in 0 .. MaxFailures /\ cut' \in BOOLEAN
        /\ ~cut' => ~cut /\ disk["manifest"] = "old" /\ job.step = "none"
    BY <1>19, MishapInv DEF UpdateFails, ApplyFails, PowerLost
  <2>1. UpdateTypeOK' /\ UpdateTyped'
    BY <2>0, <2>8, NoInstallTyped DEF Repair, RepairStep, Install, NoInstall, Waiting
  <2>2. SelfOnly' /\ FilesFollowJob' /\ TakesStock'
    BY <1>0, <2>0, <2>8, NoInstallTyped DEF Waiting, SelfOnly, FilesFollowJob, TakesStock
  <2>3. OldIsAhead'
    BY <1>0, <2>0, <2>8, NoInstallTyped DEF Waiting, OldIsAhead, StillAhead, Restoring, FilesFollowJob, TakesStock,
                         NoInstall
  <2>4. PayloadIsOwed'
    BY <1>0, <2>0, <2>8, NoInstallTyped DEF Waiting, PayloadIsOwed, Restoring, FilesFollowJob, SelfOnly, PayloadOld, Version
  <2>5. ManifestIsTrue'
    BY <1>0, <2>0, <2>8, NoInstallTyped DEF ManifestIsTrue, FilesFollowJob, SelfOnly
  <2>6. PatchesFollow'
    BY <1>0, <2>0, <2>8, NoInstallTyped DEF PatchesFollow, OldIsAhead, Waiting
  <2>7. PayloadFollows'
    BY <1>0, <2>0, <2>8, NoInstallTyped DEF PayloadFollows, SelfOnly, FilesFollowJob, PayloadIsOwed, Waiting
  <2> QED
    BY <2>1, <2>2, <2>3, <2>4, <2>5, <2>6, <2>7
<1>20. CASE PowerLost
  <2>0. /\ job' = NoInstall /\ update' \in Repair /\ update'.ssh = update.ssh
        /\ \/ update.step \in Waiting /\ update' = update
           \/ update.step \notin Waiting /\ update'.step = (IF update.ssh THEN "ssh_form" ELSE "form")
        /\ runs' = disk["runtime"] /\ restartDue' = FALSE
        /\ UNCHANGED <<disk, applied, serviced, Fixed, Shown, staged, unseen>>
    <3>1. CASE update.step \notin Waiting
      BY <1>20, <3>1, StepTyped DEF PowerLost, RepairStep, Waiting
    <3>2. CASE update.step \in Waiting
      BY <1>20, <3>2 DEF PowerLost
    <3> QED
      BY <3>1, <3>2
  <2>8. /\ mishaps' \in 0 .. MaxFailures /\ cut' \in BOOLEAN
        /\ ~cut' => ~cut /\ disk["manifest"] = "old" /\ job.step = "none"
    BY <1>20, MishapInv DEF UpdateFails, ApplyFails, PowerLost
  <2>1. UpdateTypeOK' /\ UpdateTyped'
    BY <2>0, <2>8, NoInstallTyped, <1>0 DEF Repair, RepairStep, Install, NoInstall, Waiting
  <2>2. SelfOnly' /\ FilesFollowJob' /\ TakesStock'
    BY <1>0, <2>0, <2>8, NoInstallTyped DEF Waiting, SelfOnly, FilesFollowJob, TakesStock
  <2>3. OldIsAhead'
    BY <1>0, <2>0, <2>8, NoInstallTyped DEF Waiting, OldIsAhead, StillAhead, Restoring, FilesFollowJob, TakesStock,
                         NoInstall
  <2>4. PayloadIsOwed'
    BY <1>0, <2>0, <2>8, NoInstallTyped DEF Waiting, PayloadIsOwed, Restoring, FilesFollowJob, SelfOnly, PayloadOld, Version
  <2>5. ManifestIsTrue'
    BY <1>0, <2>0, <2>8, NoInstallTyped DEF ManifestIsTrue, FilesFollowJob, SelfOnly
  <2>6. PatchesFollow'
    BY <1>0, <2>0, <2>8, NoInstallTyped DEF PatchesFollow, OldIsAhead, Waiting
  <2>7. PayloadFollows'
    BY <1>0, <2>0, <2>8, NoInstallTyped DEF PayloadFollows, SelfOnly, FilesFollowJob, PayloadIsOwed, Waiting
  <2> QED
    BY <2>1, <2>2, <2>3, <2>4, <2>5, <2>6, <2>7
<1>21. ASSUME NEW lost \in BOOLEAN, Reloads(lost) PROVE UpdateInv'
  <2>0. /\ update' = NoUpdate
        /\ mishaps' \in 0 .. MaxFailures /\ cut' \in BOOLEAN
        /\ \/ ~cut' => ~cut /\ disk["manifest"] = "old" /\ job.step = "none"
           \/ update.step \in Waiting /\ cut' = cut
        /\ updateState' \in Comparison /\ updateIssue' \in BOOLEAN
        /\ (updateState'.self <=> selfUpdates \/ runs = "new")
        /\ (updateState'.bootstrap <=> PayloadOld)
        /\ (updateIssue' <=> ~Matches \/ payloadDue)
        /\ UNCHANGED <<UnitState, Fixed, payloadDue, staged, job, unseen>>
    <3>1. /\ update' = NoUpdate /\ updateState' = Compared(payloadDue)
          /\ updateIssue' = updateState'.required
          /\ UNCHANGED <<UnitState, Fixed, payloadDue, staged, job, unseen>>
      BY <1>21 DEF Reloads
    <3>2. /\ updateState' \in Comparison
          /\ (updateState'.required <=> ~Matches \/ payloadDue)
          /\ (updateState'.self <=> selfUpdates \/ runs = "new")
          /\ (updateState'.bootstrap <=> PayloadOld)
      BY <3>1, ComparedTyped
    <3>3. updateIssue' \in BOOLEAN /\ (updateIssue' <=> ~Matches \/ payloadDue)
      BY <3>1, <3>2 DEF Comparison
    <3>4. /\ mishaps' \in 0 .. MaxFailures /\ cut' \in BOOLEAN
          /\ \/ ~cut' => ~cut /\ disk["manifest"] = "old" /\ job.step = "none"
             \/ update.step \in Waiting /\ cut' = cut
      BY <1>21, MishapInv DEF Reloads
    <3> QED
      BY <3>1, <3>2, <3>3, <3>4
  <2>1. UpdateTypeOK' /\ UpdateTyped'
    BY <2>0, NoUpdateTyped DEF Waiting
  <2>2. SelfOnly' /\ FilesFollowJob' /\ TakesStock'
    BY <1>0, <2>0, NoUpdateTyped DEF Waiting, SelfOnly, FilesFollowJob, TakesStock
  <2>3. OldIsAhead'
    BY <1>0, <2>0, NoUpdateTyped DEF Waiting, OldIsAhead, StillAhead, Restoring, FilesFollowJob, TakesStock,
                         NoInstall
  <2>4. PayloadIsOwed'
    BY <1>0, <2>0, NoUpdateTyped DEF Waiting, PayloadIsOwed, Restoring, FilesFollowJob, SelfOnly, PayloadOld, Version
  <2>5. ManifestIsTrue'
    BY <1>0, <2>0, NoUpdateTyped DEF ManifestIsTrue, FilesFollowJob, SelfOnly
  <2>6. PatchesFollow'
    BY <1>0, <2>0, NoUpdateTyped, NoneOld DEF Matches, PatchesFollow, OldIsAhead, Waiting
  <2>7. PayloadFollows'
    BY <1>0, <2>0, NoUpdateTyped, NoneOld DEF Matches, PayloadFollows, SelfOnly, FilesFollowJob, PayloadIsOwed, Waiting
  <2> QED
    BY <2>1, <2>2, <2>3, <2>4, <2>5, <2>6, <2>7
<1>22. CASE UNCHANGED updateVars
  <2>0. UNCHANGED <<UnitState, Fixed, Shown, staged, job, update, Faults>>
    BY <1>22 DEF updateVars
  <2>1. UpdateTypeOK' /\ UpdateTyped'
    BY <2>0, NoInstallTyped
  <2>2. SelfOnly' /\ FilesFollowJob' /\ TakesStock'
    BY <1>0, <2>0, NoInstallTyped DEF Waiting, SelfOnly, FilesFollowJob, TakesStock
  <2>3. OldIsAhead'
    BY <1>0, <2>0, NoInstallTyped DEF Waiting, OldIsAhead, StillAhead, Restoring, FilesFollowJob, TakesStock,
                         NoInstall
  <2>4. PayloadIsOwed'
    BY <1>0, <2>0, NoInstallTyped DEF Waiting, PayloadIsOwed, Restoring, FilesFollowJob, SelfOnly, PayloadOld, Version
  <2>5. ManifestIsTrue'
    BY <1>0, <2>0, NoInstallTyped DEF ManifestIsTrue, FilesFollowJob, SelfOnly
  <2>6. PatchesFollow'
    BY <1>0, <2>0, NoInstallTyped DEF PatchesFollow, OldIsAhead, Waiting
  <2>7. PayloadFollows'
    BY <1>0, <2>0, NoInstallTyped DEF PayloadFollows, SelfOnly, FilesFollowJob, PayloadIsOwed, Waiting
  <2> QED
    BY <2>1, <2>2, <2>3, <2>4, <2>5, <2>6, <2>7
<1> QED
  BY <1>1, <1>2, <1>3, <1>4, <1>5, <1>6, <1>7, <1>8, <1>9, <1>10, <1>11, <1>12, <1>13, <1>14, <1>15, <1>16, <1>17, <1>18, <1>19, <1>20, <1>21, <1>22, <1>23, <1>24, <1>25
     DEF UpdateNext, HomeAssistantSteps, AgentSteps

\* UpdateTrue of module AgentUpdate, for any number of accidents: the manifest
\* stays true, and the issue is cleared only when the payload and, of an
\* attempt that was not cut, all patches that it saw follow (repairs.py,
\* agent_update.c).
THEOREM UpdateTrueHolds == UpdateSpec => []UpdateTrue
<1>1. UpdateInv => UpdateTrue
  BY DEF UpdateInv
<1> QED
  BY UpdateInitInv, UpdateStepInv, <1>1, PTL DEF UpdateSpec

(***************************************************************************)
(* Repair issues.                                                          *)
(***************************************************************************)
\* What a synchronization leaves: the issues the facts call for, and no other.
IssuesFollowFacts ==
    settled =>
        /\ ("self_test" \in issues <=> SelfTestIssue) /\ ("callback" \in issues <=> CallbackIssue)
        /\ ("core_hook" \in issues <=> HookIssue) /\ ("device_user" \in issues <=> UserIssue)
        /\ ("media_setup" \in issues <=> MediaIssue)

FixStep == {"none", "form", "reload", "validate", "firewall", "user", "test", "status", "delete"}

Fixing == [step : FixStep, found : SUBSET (Check \cup {"callback_url"})]

IssuesTyped ==
    /\ broken \in SUBSET Check /\ tested \in SUBSET Check /\ offered \in SUBSET Offer
    /\ issues \in SUBSET Issue
    /\ reachable \in BOOLEAN /\ loading \in BOOLEAN /\ videoOn \in BOOLEAN
    /\ userBroken \in BOOLEAN /\ hookMissing \in BOOLEAN /\ settled \in BOOLEAN
    /\ fixing \in Fixing

IssuesInv == IssuesTyped /\ IssuesFollowFacts

\* The issues of a synchronization are those of the facts it ends with.
LEMMA SyncedFollows ==
  ASSUME Synced PROVE IssuesFollowFacts' /\ issues' \in SUBSET Issue /\ settled' \in BOOLEAN
<1>1. issues' = {i \in Issue : IssueDue'[i]} /\ settled' = TRUE
  BY DEF Synced
<1>2. /\ "self_test" \in Issue /\ "callback" \in Issue /\ "core_hook" \in Issue
      /\ "device_user" \in Issue /\ "media_setup" \in Issue
  BY DEF Issue
<1>3. IssueDue'["self_test"] = SelfTestIssue'
  BY Zenon DEF IssueDue
<1>4. IssueDue'["callback"] = CallbackIssue'
  BY Zenon DEF IssueDue
<1>5. IssueDue'["core_hook"] = HookIssue'
  BY Zenon DEF IssueDue
<1>6. IssueDue'["device_user"] = UserIssue'
  BY Zenon DEF IssueDue
<1>7. IssueDue'["media_setup"] = MediaIssue'
  BY Zenon DEF IssueDue
<1>8. /\ ("self_test" \in issues' <=> SelfTestIssue') /\ ("callback" \in issues' <=> CallbackIssue')
      /\ ("core_hook" \in issues' <=> HookIssue') /\ ("device_user" \in issues' <=> UserIssue')
      /\ ("media_setup" \in issues' <=> MediaIssue')
  BY <1>1, <1>2, <1>3, <1>4, <1>5, <1>6, <1>7, ZenonT(40)
<1> QED
  BY <1>1, <1>8 DEF IssuesFollowFacts

\* Issues and what they depend on left alone, or no longer claimed to be synced.
LEMMA FactsKept ==
  ASSUME IssuesFollowFacts,
         settled' = FALSE \/
           (settled' = settled /\ UNCHANGED <<issues, reachable, videoOn, offered, tested, userBroken,
                                             hookMissing, target>>)
  PROVE  IssuesFollowFacts'
BY DEF IssuesFollowFacts, SelfTestIssue, CallbackIssue, HookIssue, UserIssue, MediaIssue, Blocked,
       FailedChecks, BeyondUser, OnlyUser, Fixable

\* What the issues of a synchronization say to the user.
LEMMA FollowingIsTrue == IssuesInv => IssuesTrue
<1> SUFFICES ASSUME IssuesInv, settled
             PROVE  RepairOffered /\ OfflineBlamesNothing /\ FailuresShown
  BY DEF IssuesInv, IssuesTyped, Fixing, IssuesTypeOK, IssuesTrue, RepairOffered, OfflineBlamesNothing,
         FailuresShown
<1> USE DEF IssuesInv, IssuesTyped, IssuesFollowFacts, FailedChecks
<1>1. RepairOffered
  <2> SUFFICES ASSUME reachable, videoOn
               PROVE  /\ "rtsp" \in tested => "media_setup" \in issues
                      /\ "firewall" \in tested /\ "firewall_apply" \in offered
                           => "media_setup" \in issues
                      /\ "user" \in tested /\ userBroken /\ "device_user_ensure" \in offered
                           => {"media_setup", "device_user"} \cap issues # {}
    BY DEF RepairOffered
  <2>1. CASE "rtsp" \in tested \/ ("firewall" \in tested /\ "firewall_apply" \in offered)
    <3>1. MediaIssue
      BY <2>1 DEF MediaIssue, Blocked, OnlyUser, Fixable
    <3> QED
      BY <3>1
  <2>2. CASE "user" \in tested /\ userBroken /\ "device_user_ensure" \in offered
                /\ BeyondUser(FailedChecks)
    <3>1. MediaIssue
      BY <2>2 DEF MediaIssue, Blocked, OnlyUser, Fixable, BeyondUser
    <3> QED
      BY <2>1, <3>1
  <2>3. CASE userBroken /\ ~BeyondUser(FailedChecks)
    <3>1. UserIssue
      BY <2>3 DEF UserIssue
    <3> QED
      BY <2>1, <3>1
  <2> QED
    BY <2>1, <2>2, <2>3
<1>2. OfflineBlamesNothing
  BY DEF OfflineBlamesNothing, Issue, SelfTestIssue, HookIssue, UserIssue, MediaIssue,
         Blocked
<1>3. FailuresShown
  BY DEF FailuresShown, Issue, SelfTestIssue, CallbackIssue, MediaIssue, Blocked
<1> QED
  BY <1>1, <1>2, <1>3

\* The steps of the repair are followed by steps of the repair.
LEMMA StepNamed == ASSUME NEW s \in {"validate", "firewall", "user", "test", "status"}
                   PROVE  After(s) \in FixStep
<1>1. \E k \in 1..5 : RepairOrder[k] = s
  <2>1. RepairOrder[1] = "validate" /\ RepairOrder[2] = "firewall" /\ RepairOrder[3] = "user"
        /\ RepairOrder[4] = "test" /\ RepairOrder[5] = "status"
    BY DEF RepairOrder
  <2> QED
    BY <2>1
<1>2. PICK k \in 1..5 : After(s) = RepairOrder[k + 1]
  BY <1>1 DEF After
<1>3. RepairOrder[2] = "firewall" /\ RepairOrder[3] = "user"
        /\ RepairOrder[4] = "test" /\ RepairOrder[5] = "status" /\ RepairOrder[6] = "delete"
  BY DEF RepairOrder
<1>4. k + 1 = 2 \/ k + 1 = 3 \/ k + 1 = 4 \/ k + 1 = 5 \/ k + 1 = 6
  OBVIOUS
<1> QED
  BY <1>2, <1>3, <1>4 DEF FixStep

LEMMA RepairMoves == ASSUME IssuesTyped, NEW s \in FixStep, Fixes(s) PROVE fixing' \in Fixing
BY DEF IssuesTyped, Fixes, Fixing

LEMMA IssuesInitInv == IssuesInit => IssuesInv
<1> SUFFICES ASSUME IssuesInit PROVE IssuesInv
  OBVIOUS
<1>1. broken \in SUBSET Check
  BY DEF IssuesInit, Check
<1>2. fixing \in Fixing
  BY DEF IssuesInit, NoFlow, Fixing, FixStep
<1> QED
  BY <1>1, <1>2 DEF IssuesInit, IssuesInv, IssuesTyped, IssuesFollowFacts

LEMMA IssuesStep == IssuesInv /\ [IssuesNext]_issueVars => IssuesInv'
<1> SUFFICES ASSUME IssuesInv, [IssuesNext]_issueVars PROVE IssuesInv'
  OBVIOUS
<1> USE DEF IssuesInv, IssuesTyped, AgentShown, Known
<1>1. CASE StartupSynced
  <2>1. Synced /\ UNCHANGED <<broken, offered, reachable, videoOn, fixing>> /\ loading' = FALSE
    BY <1>1 DEF StartupSynced
  <2>2. tested' \in SUBSET Check /\ userBroken' \in BOOLEAN /\ hookMissing' \in BOOLEAN
    <3>1. CASE tested' = broken \ {"hook"} /\ userBroken' = ("user" \in broken)
               /\ hookMissing' = ("hook" \in broken)
      BY <3>1
    <3>2. CASE tested' = broken \ {"hook"} /\ UNCHANGED <<userBroken, hookMissing>>
      BY <3>2
    <3>3. CASE userBroken' = ("user" \in broken) /\ UNCHANGED <<tested, hookMissing>>
      BY <3>3
    <3> QED
      BY <1>1, <3>1, <3>2, <3>3 DEF StartupSynced
  <2> QED
    BY <2>1, <2>2, SyncedFollows
<1>2. CASE DiagnosticsStored
  BY <1>2, SyncedFollows DEF DiagnosticsStored, DiagnosticsSynced
<1>3. CASE UserReloadsEntry
  BY <1>3, SyncedFollows DEF UserReloadsEntry, LoadedAnew
<1>4. ASSUME NEW up \in BOOLEAN, NEW t \in {"unknown", "ok", "failed", "unsupported"},
             ConnectionUpdated(up, t)
      PROVE  IssuesInv'
  BY <1>4, SyncedFollows DEF ConnectionUpdated
<1>5. ASSUME NEW on \in BOOLEAN, UserSwitched(on) PROVE IssuesInv'
  BY <1>5, SyncedFollows DEF UserSwitched
<1>6. ASSUME NEW c \in Check, AgentChanges(c) PROVE IssuesInv'
  BY <1>6, FactsKept DEF AgentChanges
<1>7. ASSUME NEW s \in {"validate", "firewall", "user", "test", "status"}, MediaRepaired(s)
      PROVE  IssuesInv'
  <2>1. /\ UNCHANGED <<videoOn, offered, reachable, tested, hookMissing, target, issues, loading>>
        /\ Fixes(After(s)) /\ broken' = broken \ Repairs(s)
        /\ settled' = (settled /\ Repairs(s) # {"user"})
        /\ userBroken' = IF Repairs(s) = {"user"} THEN FALSE ELSE userBroken
    BY <1>7 DEF MediaRepaired
  <2>2. fixing' \in Fixing
    BY <2>1, StepNamed, RepairMoves
  <2>3. CASE Repairs(s) = {"user"}
    BY <2>1, <2>2, <2>3, FactsKept
  <2>4. CASE Repairs(s) # {"user"}
    <3>1. settled' = settled /\ userBroken' = userBroken
      BY <2>1, <2>4, Zenon DEF IssuesTyped
    <3> QED
      BY <2>1, <2>2, <3>1, FactsKept
  <2> QED
    BY <2>3, <2>4
<1>8. ASSUME NEW s \in {"validate", "firewall", "user", "test", "status"}, MediaChecked(s)
      PROVE  IssuesInv'
  <2>1. /\ settled' = FALSE /\ UNCHANGED <<broken, videoOn, offered, reachable, hookMissing, issues, loading>>
        /\ Fixes(After(s))
    BY <1>8 DEF MediaChecked
  <2>2. tested' \in SUBSET Check
    BY <1>8 DEF MediaChecked
  <2>3. userBroken' \in BOOLEAN
    <3>1. \/ userBroken' = ("user" \in broken) \/ userBroken' = userBroken
      BY <1>8 DEF MediaChecked
    <3>2. userBroken \in BOOLEAN /\ ("user" \in broken) \in BOOLEAN
      BY DEF IssuesTyped
    <3>3. CASE userBroken' = ("user" \in broken)
      BY <3>2, <3>3, Zenon
    <3>4. CASE userBroken' = userBroken
      BY <3>2, <3>4, Zenon
    <3> QED
      BY <3>1, <3>3, <3>4
  <2>4. fixing' \in Fixing
    BY <2>1, StepNamed, RepairMoves
  <2> QED
    BY <2>1, <2>2, <2>3, <2>4 DEF IssuesFollowFacts
<1>9. CASE MediaOpened
  BY <1>9, FactsKept, RepairMoves DEF MediaOpened, FixStep
<1>10. CASE MediaConfirmed
  <2>1. FailedChecks \in SUBSET (Check \cup {"callback_url"})
    BY DEF FailedChecks
  <2>2. fixing' \in Fixing
    <3> DEFINE step == IF ~reachable THEN "reload"
                       ELSE IF FailedChecks \subseteq {"startup", "callback_url"} THEN "delete"
                       ELSE "validate"
    <3>1. step \in FixStep
      BY DEF FixStep
    <3>2. fixing' = [step |-> step, found |-> FailedChecks]
      BY <1>10 DEF MediaConfirmed
    <3> HIDE DEF step
    <3> QED
      BY <2>1, <3>1, <3>2 DEF Fixing
  <2> QED
    BY <1>10, <2>2, FactsKept DEF MediaConfirmed
<1>11. CASE MediaFails
  BY <1>11, FactsKept, RepairMoves DEF MediaFails, FixStep
<1>12. CASE MediaDone
  BY <1>12, FactsKept DEF MediaDone, NoFlow, Fixing, FixStep
<1>13. CASE MediaReloads
  BY <1>13, FactsKept DEF MediaReloads, LoadedAnew, NoFlow, Fixing, FixStep
<1>14. CASE UserRepaired
  BY <1>14, FactsKept DEF UserRepaired
<1>15. CASE HookRepaired
  BY <1>15, FactsKept DEF HookRepaired
<1>16. CASE CallbackRepaired
  BY <1>16, FactsKept DEF CallbackRepaired, LoadedAnew
<1>17. CASE UNCHANGED issueVars
  BY <1>17, FactsKept DEF issueVars
<1> QED
  BY <1>1, <1>2, <1>3, <1>4, <1>5, <1>6, <1>7, <1>8, <1>9, <1>10, <1>11, <1>12, <1>13, <1>14,
     <1>15, <1>16, <1>17 DEF IssuesNext

\* IssuesTrue of module RepairIssues, for any number of changes and failures: a
\* synchronization leaves the issues that offer what can be repaired, none
\* that blames an offline agent, some for every failure (repair_issues.py).
THEOREM IssuesTrueHolds == IssuesSpec => []IssuesTrue
BY IssuesInitInv, IssuesStep, FollowingIsTrue, PTL DEF IssuesSpec

(***************************************************************************)
(* Setup recovery.                                                         *)
(***************************************************************************)
\* An entry that is being set up starts from nothing: its unload cancelled
\* whichever cleanup there was, and its connection state is new.
SetupIsFresh == entry = "setup" => owner = "none" /\ ~grace /\ ~capable

RecoveryInv == RecoverySafe /\ SetupIsFresh

LEMMA RecoveryInitInv == RecoveryInit => RecoveryInv
BY DEF RecoveryInit, RecoveryInv, RecoverySafe, RecoveryTypeOK, RecoveryIsOwned, OfflineIsShown,
       SetupIsFresh

LEMMA RecoveryStep == RecoveryInv /\ [RecoveryNext]_recoveryVars => RecoveryInv'
<1> SUFFICES ASSUME RecoveryInv, [RecoveryNext]_recoveryVars PROVE RecoveryInv'
  OBVIOUS
<1> USE DEF RecoveryInv, RecoverySafe, RecoveryTypeOK, RecoveryIsOwned, OfflineIsShown,
            SetupIsFresh, recovery, connection, environment
<1>1. CASE ValidateAnswered
  BY <1>1 DEF ValidateAnswered
<1>2. CASE ValidateFailed
  BY <1>2 DEF ValidateFailed, ShownUnavailable
<1>3. CASE RetryFires
  BY <1>3 DEF RetryFires
<1>4. CASE ProbeFailed
  BY <1>4 DEF ProbeFailed, ShownUnavailable, RetryAgain
<1>5. CASE ProbeAnswered
  BY <1>5 DEF ProbeAnswered
<1>6. CASE RecoveryReloads
  BY <1>6 DEF RecoveryReloads, Unload, Unregister, AskingCancelled, RegistrationClosed
<1>7. CASE UserReloads
  BY <1>7 DEF UserReloads, Unload, Unregister, AskingCancelled, RegistrationClosed
<1>8. CASE Registered
  BY <1>8 DEF Registered
<1>9. CASE RegistrationFailed
  BY <1>9 DEF RegistrationFailed
<1>10. CASE RegistrationTimer
  BY <1>10 DEF RegistrationTimer
<1>11. CASE GraceEnds
  BY <1>11 DEF GraceEnds
<1>12. CASE UserAsks
  BY <1>12 DEF UserAsks
<1>13. CASE Rediscovered
  BY <1>13 DEF Rediscovered, Unregister, AskingCancelled
<1>14. CASE LinkChanges
  BY <1>14 DEF LinkChanges
<1>15. CASE AgentReturns
  BY <1>15 DEF AgentReturns
<1>16. CASE UNCHANGED recoveryVars
  BY <1>16 DEF recoveryVars
<1> QED
  BY <1>1, <1>2, <1>3, <1>4, <1>5, <1>6, <1>7, <1>8, <1>9, <1>10, <1>11, <1>12, <1>13, <1>14,
     <1>15, <1>16 DEF RecoveryNext, Progress

\* RecoverySafe of module SetupRecovery: a probe or timer of a recovery is the
\* one the entry would cancel, and an entry in recovery is shown unavailable
\* and stays so (runtime_manager.py, _async_start_setup_recovery).
THEOREM RecoverySafeHolds == RecoverySpec => []RecoverySafe
<1>1. RecoveryInv => RecoverySafe
  BY DEF RecoveryInv
<1> QED
  BY RecoveryInitInv, RecoveryStep, <1>1, PTL DEF RecoverySpec
=============================================================================
