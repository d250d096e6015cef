---------------------------- MODULE AlarmCommands ----------------------------
(***************************************************************************)
(* Alarm commands of the device's display (executor.py) against the alarm  *)
(* panel of Home Assistant, with Alarmo's readiness (alarm_state.py): a    *)
(* command is refused when a sensor blocks it, else given to the panel;    *)
(* then the panel's state is polled until it proves the command or the     *)
(* time is over; the word of a panel without a state is taken unasked.     *)
(* The panel arms with or without an exit delay, runs into alarm, is       *)
(* operated by others, ignores or refuses a command, and shows what it did *)
(* before its service returns, after, or when the poll is over.            *)
(* One area; texts, countdowns and the order of the commands are left out. *)
(***************************************************************************)
EXTENDS Naturals, FiniteSets

CONSTANTS Sensor, Motion,     \* the sensors, those that are motion sensors
          Tolerated,          \* and those Alarmo lets be open while the exit delay runs
          MaxCommands, MaxMoves
ASSUME AlarmAssumption == /\ Motion \subseteq Sensor /\ Tolerated \subseteq Sensor
                          /\ MaxCommands \in Nat /\ MaxMoves \in Nat

VARIABLES
  panel,      \* the state of the panel in Home Assistant, "absent" without one
  exitDelay,  \* the panel arms with an exit delay
  open,       \* the open sensors
  query,      \* the command being executed
  late,       \* commands answered for before the panel carried them out, if it does
  reply, commands, moves
alarmVars == <<panel, exitDelay, open, query, late, reply, commands, moves>>

Armed == {"armed_home", "armed_away"}
Command == {"arm_home", "arm_away", "disarm"}
AlarmTarget(c) == CASE c = "arm_home" -> "armed_home" [] c = "arm_away" -> "armed_away"
                    [] OTHER -> "disarmed"
PanelState == Armed \cup {"disarmed", "arming", "pending", "triggered", "absent"}
NoQuery == [step |-> "none", command |-> "disarm", code |-> "none", forced |-> FALSE,
            accepted |-> FALSE, meddled |-> FALSE, before |-> "disarmed"]
\* An answer, with what it is about and what the panel had done by then.
Said(says, q) == [says |-> says, command |-> q.command, before |-> q.before,
                  accepted |-> q.accepted, meddled |-> q.meddled]
NoReply == Said("nothing", NoQuery)

AlarmTypeOK ==
  /\ panel \in PanelState /\ exitDelay \in BOOLEAN /\ open \subseteq Sensor
  /\ query.step \in {"none", "calling", "waiting"} /\ query.command \in Command
  /\ query.code \in {"none", "right", "wrong"} /\ query.before \in PanelState
  /\ late \subseteq Command
  /\ reply.says \in {"nothing", "ok", "not_ready", "rejected", "invalid_code", "unchanged"}
  /\ commands \in 0 .. MaxCommands /\ moves \in 0 .. MaxMoves

AlarmInit ==
  /\ panel \in {"disarmed", "armed_away"} /\ exitDelay \in BOOLEAN /\ open = {}
  /\ query = NoQuery /\ late = {} /\ reply = NoReply /\ commands = 0 /\ moves = 0

(***************************************************************************)
(* Readiness: what the display shows, and what a command is checked with.  *)
(***************************************************************************)
\* Alarmo's own check of the open sensors against a mode.
Validated(delay) == open \ (IF delay THEN Tolerated ELSE {})
\* The display ignores motion while the panel is disarmed.
ShownBlocking == Validated(FALSE) \ (IF panel = "disarmed" THEN Motion ELSE {})
CommandBlocking == Validated(exitDelay)
Blocked(c) == c # "disarm" /\ panel # "absent" /\ CommandBlocking # {}

\* The states that prove a command.
ProvenByTarget(c) == {AlarmTarget(c)}
Proves(c) == {AlarmTarget(c)} \cup (IF c = "disarm" THEN {} ELSE {"arming", "pending"})

\* The panel was given the command, and may still carry it out.
MayObey == query.code # "wrong" /\ query.before # "absent" /\ ~query.accepted
Answer(says) ==
  /\ reply' = Said(says, query) /\ query' = NoQuery
  /\ late' = IF MayObey THEN late \cup {query.command} ELSE late

AlarmCommanded(c, code, forced) ==
  /\ query.step = "none" /\ commands < MaxCommands /\ commands' = commands + 1
  /\ LET q == [step |-> "calling", command |-> c, code |-> code, forced |-> forced,
               accepted |-> FALSE, meddled |-> FALSE, before |-> panel] IN
       IF ~forced /\ Blocked(c)
       THEN reply' = Said("not_ready", q) /\ UNCHANGED query
       ELSE query' = q /\ reply' = NoReply
  /\ UNCHANGED <<panel, exitDelay, open, late, moves>>

\* The service returns, whatever the panel does; without a state before there
\* is nothing to poll for.
ServiceReturns ==
  /\ query.step = "calling"
  /\ IF query.before = "absent" THEN Answer("ok")
     ELSE query' = [query EXCEPT !.step = "waiting"] /\ UNCHANGED <<reply, late>>
  /\ UNCHANGED <<panel, exitDelay, open, commands, moves>>
\* It raises: the sensors are asked again, for a reason to show.
PanelRefuses ==
  /\ query.step = "calling"
  /\ Answer(IF Blocked(query.command) THEN "not_ready" ELSE "rejected")
  /\ UNCHANGED <<panel, exitDelay, open, commands, moves>>

(***************************************************************************)
(* The panel, external: a command with the right code, or with none where  *)
(* none is asked for, is carried out sooner or later, or never.            *)
(***************************************************************************)
Reached(c) == IF c # "disarm" /\ exitDelay THEN "arming" ELSE AlarmTarget(c)
Meddled == query' = [query EXCEPT !.meddled = query.step # "none"]

PanelObeys ==
  /\ query.step # "none" /\ MayObey /\ panel # "absent"
  /\ query.forced \/ ~Blocked(query.command)
  /\ panel' = IF panel = AlarmTarget(query.command) THEN panel ELSE Reached(query.command)
  /\ query' = [query EXCEPT !.accepted = TRUE]
  /\ UNCHANGED <<exitDelay, open, late, reply, commands, moves>>
ObeysLate(c) ==
  /\ c \in late /\ panel # "absent"
  /\ late' = late \ {c}
  /\ panel' = Reached(c) /\ Meddled
  /\ UNCHANGED <<exitDelay, open, reply, commands, moves>>

\* The delays run out; a sensor left open ends the arming, or sets off the alarm.
PanelMoves ==
  /\ moves < MaxMoves /\ moves' = moves + 1
  /\ \/ panel = "arming" /\ panel' \in IF open = {} THEN Armed ELSE {"disarmed"}
     \/ panel \in Armed /\ open # {} /\ panel' = "pending"
     \/ panel = "pending" /\ panel' = "triggered"
     \/ panel = "triggered" /\ panel' \in Armed
  /\ Meddled
  /\ UNCHANGED <<exitDelay, open, late, reply, commands>>
\* Also its integration, which takes its state away or brings it back.
OtherOperates ==
  /\ moves < MaxMoves /\ moves' = moves + 1
  /\ panel' \in {"disarmed", "armed_home", "arming", "absent"} \ {panel}
  /\ Meddled
  /\ UNCHANGED <<exitDelay, open, late, reply, commands>>
SensorChanges(s) ==
  /\ moves < MaxMoves /\ moves' = moves + 1
  /\ open' = IF s \in open THEN open \ {s} ELSE open \cup {s}
  /\ UNCHANGED <<panel, exitDelay, query, late, reply, commands>>

(***************************************************************************)
(* The state is polled for a few seconds.                                  *)
(***************************************************************************)
Proven ==
  /\ query.step = "waiting" /\ panel \in Proves(query.command)
  /\ Answer("ok")
  /\ UNCHANGED <<panel, exitDelay, open, commands, moves>>
NoDeadline == FALSE
Deadline == query.step = "waiting"
NotProven ==
  /\ Deadline /\ panel \notin Proves(query.command)
  /\ Answer(IF Blocked(query.command) THEN "not_ready"
            ELSE IF query.code # "none" THEN "invalid_code" ELSE "unchanged")
  /\ UNCHANGED <<panel, exitDelay, open, commands, moves>>

AlarmNext ==
  \/ \E c \in Command, code \in {"none", "right", "wrong"}, forced \in BOOLEAN:
       AlarmCommanded(c, code, forced)
  \/ ServiceReturns \/ PanelRefuses \/ PanelObeys \/ PanelMoves \/ OtherOperates
  \/ \E c \in Command: ObeysLate(c)
  \/ \E s \in Sensor: SensorChanges(s)
  \/ Proven \/ NotProven
AlarmSpec == AlarmInit /\ [][AlarmNext]_alarmVars
             /\ WF_alarmVars(ServiceReturns \/ PanelRefuses)
             /\ WF_alarmVars(Proven \/ NotProven)

\* The panel did not move for another reason while the command ran.
Quietly == ~reply.meddled
\* An ok is of a command that the panel has carried out, unless the panel was already in a state
\* that the poll takes for its proof, or had no state to poll for.
OkIsTrue == reply.says = "ok" /\ Quietly /\ reply.before # "absent" =>
              reply.accepted \/ reply.before \in Proves(reply.command)
\* A command that the panel has carried out by then, before its service returned or while it was
\* polled, is not called a wrong code, nor unchanged.
FailureIsTrue == reply.says \in {"invalid_code", "unchanged"} /\ Quietly => ~reply.accepted
\* A command refused though the display showed it as ready is refused for motion only.
ShownAgrees == ShownBlocking = {} => CommandBlocking \subseteq Motion

\* What the display is told of a command is what the panel has done (executor.py, alarm_state.py).
AlarmTrue == AlarmTypeOK /\ OkIsTrue /\ FailureIsTrue /\ ShownAgrees

\* Every command is answered while Home Assistant runs.
CommandAnswered == query.step # "none" ~> query.step = "none"
==============================================================================
