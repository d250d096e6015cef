--------------------------- MODULE SwitchEntities ---------------------------
(***************************************************************************)
(* The switches, the volume number and the forwarding select of an entry.  *)
(* None of them polls: each is read once at setup, then changes by the     *)
(* answers of its own commands, by the pushes of the webhook, and by what  *)
(* a companion switch dispatches.  PARALLEL_UPDATES = 1 lets each platform *)
(* run one command or forced read at a time; pushes and other clients of   *)
(* the device come in between.  Levels and modes are reduced to two.       *)
(***************************************************************************)
EXTENDS Naturals, Sequences, FiniteSets

CONSTANTS MaxOps,        \* commands and forced reads of one run
          MaxElsewhere   \* changes made on the device by someone else

ASSUME SwitchBounds == MaxOps \in Nat /\ MaxElsewhere \in Nat

VARIABLES fitted,    \* the entities the agent's capabilities give
          device,    \* the settings on the device
          display,     \* what each entity shows
          avail,     \* _attr_available of each entity
          op,        \* the request each platform runs
          push,      \* events on their way from the agent, in order
          store,     \* event_state: the last pushed or selected values
          entities,  \* "new", "read" (setup read done), "live" (subscribed)
          excuse,    \* entities something named below may have left behind
          ops, others

switchVars == <<fitted, device, display, avail, op, push, store, entities, excuse, ops, others>>

Auth == {"noAuth", "access", "mdns"}
Bridges == {"native", "legacy"}
Pushed == {"muted", "volume", "forward"}
Entity == Auth \cup Bridges \cup Pushed \cup {"plain", "firewall"}
Setting == Entity \cup {"endpoint"}
Platform == {"switch", "number", "select"}
PlatformOf(s) == CASE s = "volume" -> "number" [] s = "forward" -> "select" [] OTHER -> "switch"

Free == [of |-> "none", want |-> "none", step |-> "free", ack |-> "none",
         snap |-> [s \in Setting |-> FALSE]]
Word(b) == IF b THEN "on" ELSE "off"

(* What an entity makes of a status: a disabled firewall endpoint shows an *)
(* unpatched firewall, an enabled native bridge excludes the legacy one.   *)
Reading(s, d) ==
    CASE s = "firewall" -> Word(d["firewall"] /\ d["endpoint"])
      [] s = "legacy"   -> Word(d["legacy"] /\ ~d["native"])
      [] OTHER          -> Word(d[s])

(* The agent: switching one bridge on switches the other off, leaving the  *)
(* noAuth mode takes its maintenance access along.                         *)
Changed(s, b, d) ==
    CASE s = "noAuth" /\ ~b -> [d EXCEPT !["noAuth"] = FALSE, !["access"] = FALSE]
      [] s = "native" /\ b  -> [d EXCEPT !["native"] = TRUE, !["legacy"] = FALSE]
      [] s = "legacy" /\ b  -> [d EXCEPT !["legacy"] = TRUE, !["native"] = FALSE]
      [] OTHER              -> [d EXCEPT ![s] = b]

Kits == {{"muted", "volume"}, {"plain", "forward"}, Auth \cup {"firewall"}, Bridges}

SwitchInit ==
    /\ fitted \in Kits
    /\ device \in {d \in [Setting -> BOOLEAN] :
           /\ \A s \in Entity \ fitted : ~d[s]
           /\ "firewall" \notin fitted => ~d["endpoint"]
           /\ ~(d["native"] /\ d["legacy"])
           /\ \A s \in Pushed \cup {"plain", "mdns"} : ~d[s]}
    /\ display = [s \in Entity |-> "none"]
    /\ avail = [s \in Entity |-> TRUE]
    /\ op = [p \in Platform |-> Free]
    /\ push = <<>>
    /\ store = [s \in Pushed |-> "none"]
    /\ entities = "new"
    /\ excuse = {}
    /\ ops = 0
    /\ others = 0

(* The entities an answer of this request may be applied to.               *)
Awaiting(o) == CASE o.of \in Auth \cup {"firewall"} -> Auth \cup {o.of}
                 [] o.of \in Bridges -> Bridges
                 [] OTHER -> {o.of}

Busy(s, o) == \E p \in Platform : s \in Awaiting(o[p])

(* An excuse lasts while its entity is wrong or waits for an answer.       *)
Excuse(new) == excuse' = {s \in (excuse \cup new) \cap fitted :
                            \/ Busy(s, op')
                            \/ display'[s] # Reading(s, device')
                            \/ s = "forward" /\ store'[s] # Reading(s, device')}
-----------------------------------------------------------------------------
(* async_setup_entry: one read per entity before it is added, one for the  *)
(* three auth switches together; a failed read leaves it unavailable.      *)

SetupReads ==
    /\ entities = "new"
    /\ entities' = "read"
    /\ \E failed \in SUBSET fitted :
          /\ Auth \cap failed \in {{}, Auth \cap fitted}
          /\ display' = [s \in Entity |-> IF s \in fitted \ failed THEN Reading(s, device)
                                        ELSE IF s \in failed \cap Bridges THEN "off"
                                        ELSE display[s]]
          /\ avail' = [s \in Entity |-> s \notin failed]
          /\ store' = IF "forward" \in fitted \ failed
                        THEN [store EXCEPT !["forward"] = Reading("forward", device)] ELSE store
    /\ UNCHANGED <<fitted, device, op, push, ops, others>>
    /\ Excuse({})

(* async_added_to_hass subscribes to pushes and dispatches.                *)
Added ==
    /\ entities = "read"
    /\ entities' = "live"
    /\ UNCHANGED <<fitted, device, display, avail, op, push, store, excuse, ops, others>>
-----------------------------------------------------------------------------
(* Someone else: the panel, another maintenance client, a repair.  Only    *)
(* the ringer and the forwarding report their changes.                     *)

Elsewhere(s, b) ==
    /\ others < MaxElsewhere
    /\ others' = others + 1
    /\ s \in fitted \/ (s = "endpoint" /\ "firewall" \in fitted)
    /\ device' = Changed(s, b, device)
    /\ device' # device
    /\ push' = IF s \in Pushed THEN Append(push, [of |-> s, value |-> Word(b)]) ELSE push
    /\ UNCHANGED <<fitted, display, avail, op, store, entities, ops>>
    /\ Excuse({e \in fitted : Reading(e, device') # Reading(e, device)
                              /\ (e \notin Pushed \/ Busy(e, op) \/ entities = "read")})

(* The webhook stores the value and fires the bus event in one callback;   *)
(* an entity that is not subscribed yet misses it.                         *)
PushArrives ==
    /\ push # <<>>
    /\ LET e == Head(push) IN
         /\ store' = [store EXCEPT ![e.of] = e.value]
         /\ display' = IF entities = "live" THEN [display EXCEPT ![e.of] = e.value] ELSE display
         /\ avail' = IF entities = "live" THEN [avail EXCEPT ![e.of] = TRUE] ELSE avail
    /\ push' = Tail(push)
    /\ UNCHANGED <<fitted, device, op, entities, ops, others>>
    /\ Excuse(IF entities = "live" THEN {} ELSE {Head(push).of})

(* The agent was restarted or unsubscribed with the event still queued.    *)
PushLost ==
    /\ push # <<>>
    /\ push' = Tail(push)
    /\ UNCHANGED <<fitted, device, display, avail, op, store, entities, ops, others>>
    /\ Excuse({Head(push).of})
-----------------------------------------------------------------------------
(* A service call or a forced read takes its platform's slot.              *)

Start(s, want) ==
    LET p == PlatformOf(s) IN
    /\ entities = "live" /\ s \in fitted
    /\ op[p] = Free
    /\ ops < MaxOps
    /\ want # "read" => avail[s]          \* Home Assistant skips the unavailable
    /\ ops' = ops + 1
    /\ op' = [op EXCEPT ![p] = [Free EXCEPT !.of = s, !.want = want,
                  !.step = IF s = "firewall" /\ want = "on" THEN "enable" ELSE "sent"]]
    /\ UNCHANGED <<fitted, device, display, avail, push, store, entities, excuse, others>>

(* The firewall endpoints answer 404 while they are disabled.              *)
Serves(o) == o.of = "firewall" /\ o.step = "sent" => device["endpoint"]

Asked(o) == o.step \in {"enable", "sent", "fallback"} /\ o.ack = "none"

(* The agent does what it is asked and answers with its status; the answer *)
(* may be lost on the way.                                                 *)
Executes(p) ==
    /\ Asked(op[p])
    /\ Serves(op[p])
    /\ device' = CASE op[p].step = "enable" -> [device EXCEPT !["endpoint"] = TRUE]
                   [] op[p].step = "sent" /\ op[p].want # "read" ->
                        Changed(op[p].of, op[p].want = "on", device)
                   [] OTHER -> device
    /\ push' = IF op[p].of \in Pushed /\ device' # device
                 THEN Append(push, [of |-> op[p].of, value |-> op[p].want]) ELSE push
    /\ \E lost \in BOOLEAN :
          /\ op' = [op EXCEPT ![p].ack = IF lost THEN "failed" ELSE "ok", ![p].snap = device']
          /\ UNCHANGED <<fitted, display, avail, store, entities, ops, others>>
          /\ Excuse(IF lost THEN {e \in fitted : Reading(e, device') # Reading(e, device)} ELSE {})

Refused(p) ==
    /\ Asked(op[p])
    /\ op' = [op EXCEPT ![p].ack = "failed"]
    /\ UNCHANGED <<fitted, device, display, avail, push, store, entities, ops, others>>
    /\ Excuse({})

Applied(those, d) ==
    /\ display' = [s \in Entity |-> IF s \in those \cap fitted THEN Reading(s, d) ELSE display[s]]
    /\ avail' = [s \in Entity |-> s \in those \cap fitted \/ avail[s]]

HearsItself(s, want) == {s}

(* SIGNAL_AUTH_CONFIG_CHANGED: a command's answer goes to all three auth   *)
(* switches; a forced read is applied by the switch that asked.            *)
Hearers(s, want) == IF s \in Auth /\ want # "read" THEN Auth ELSE {s}

EnableAnswered(p) ==
    /\ op[p].step = "enable" /\ op[p].ack = "ok"
    /\ Applied(Auth, op[p].snap)
    /\ op' = [op EXCEPT ![p].step = "sent", ![p].ack = "none"]
    /\ UNCHANGED <<fitted, device, push, store, entities, ops, others>>
    /\ Excuse({})

Answered(p) ==
    LET o == op[p] IN
    /\ o.step = "sent" /\ o.ack = "ok"
    /\ Applied(Hearers(o.of, o.want), o.snap)
    /\ store' = IF o.of = "forward"
                  THEN [store EXCEPT !["forward"] = Reading("forward", o.snap)] ELSE store
    /\ op' = [op EXCEPT ![p] = IF o.of \in Bridges /\ o.want # "read"
                                 THEN [@ EXCEPT !.step = "diagnose"] ELSE Free]
    /\ UNCHANGED <<fitted, device, push, entities, ops, others>>
    /\ Excuse({})

(* After the diagnostics read the status goes to the other bridge switch,  *)
(* which takes the value but stays as available as it was.                 *)
Dispatched(p) ==
    /\ op[p].step = "diagnose"
    /\ display' = [s \in Entity |-> IF s \in Bridges \cap fitted THEN Reading(s, op[p].snap)
                                  ELSE display[s]]
    /\ op' = [op EXCEPT ![p] = Free]
    /\ UNCHANGED <<fitted, device, avail, push, store, entities, ops, others>>
    /\ Excuse({})

(* A failed command raises; a failed read marks the entity unavailable;    *)
(* the volume reads again after a failed command, the firewall asks the    *)
(* auth configuration whether its endpoint is merely disabled.             *)
CommandFails(p) ==
    LET o == op[p] IN
    /\ o.ack = "failed" /\ o.want # "read"
    /\ op' = [op EXCEPT ![p] = IF o.of = "volume" THEN [@ EXCEPT !.step = "sent", !.ack = "none", !.want = "read"]
                               ELSE Free]
    /\ UNCHANGED <<fitted, device, display, avail, push, store, entities, ops, others>>
    /\ Excuse({o.of})

ReadFails(p) ==
    LET o == op[p] IN
    /\ o.ack = "failed" /\ o.want = "read"
    /\ IF o.of = "firewall" /\ o.step = "sent"
         THEN op' = [op EXCEPT ![p].step = "fallback", ![p].ack = "none"] /\ UNCHANGED <<display, avail>>
         ELSE /\ op' = [op EXCEPT ![p] = Free]
              /\ avail' = [avail EXCEPT ![o.of] = FALSE]
              /\ display' = IF o.of \in Bridges THEN [display EXCEPT ![o.of] = "off"] ELSE display
    /\ UNCHANGED <<fitted, device, push, store, entities, ops, others>>
    /\ Excuse({})

FallbackAnswered(p) ==
    LET o == op[p] IN
    /\ o.step = "fallback" /\ o.ack = "ok"
    /\ IF o.snap["endpoint"]
         THEN /\ display' = [s \in Entity |-> IF s \in Auth THEN Reading(s, o.snap) ELSE display[s]]
              /\ avail' = [s \in Entity |-> (avail[s] \/ s \in Auth) /\ s # "firewall"]
         ELSE Applied(Auth \cup {"firewall"}, o.snap)
    /\ op' = [op EXCEPT ![p] = Free]
    /\ UNCHANGED <<fitted, device, push, store, entities, ops, others>>
    /\ Excuse({})

SwitchNext ==
    \/ SetupReads
    \/ Added
    \/ \E s \in Setting, b \in BOOLEAN : Elsewhere(s, b)
    \/ PushArrives
    \/ PushLost
    \/ \E s \in Entity, want \in {"on", "off", "read"} : Start(s, want)
    \/ \E p \in Platform :
          \/ Executes(p) \/ Refused(p)
          \/ EnableAnswered(p) \/ Answered(p) \/ Dispatched(p)
          \/ CommandFails(p) \/ ReadFails(p) \/ FallbackAnswered(p)

SwitchSpec == SwitchInit /\ [][SwitchNext]_switchVars
-----------------------------------------------------------------------------
SwitchTypeOK ==
    /\ device \in [Setting -> BOOLEAN]
    /\ display \in [Entity -> {"none", "on", "off"}]
    /\ avail \in [Entity -> BOOLEAN]
    /\ excuse \subseteq fitted

AtRest(s) == entities = "live" /\ (\A p \in Platform : op[p] = Free)
             /\ \A i \in 1..Len(push) : push[i].of # s

(* An available entity at rest shows the device, unless the device was     *)
(* changed by someone who does not report it, an answer or a push was      *)
(* lost, or a push crossed an answer (its excuse): no command of Home      *)
(* Assistant's own, whichever switch it is given to, leaves the switch or  *)
(* a companion that shares the setting showing the old state.              *)
ShowsDevice ==
    \A s \in fitted : AtRest(s) /\ avail[s] /\ s \notin excuse => display[s] = Reading(s, device)

(* The two MQTT bridges exclude each other on the device, and once their   *)
(* switches are at rest and not excused they are never shown on together.  *)
OneBridge ==
    AtRest("native") /\ Bridges \cap excuse = {} /\ avail["native"] /\ avail["legacy"]
        => ~(display["native"] = "on" /\ display["legacy"] = "on")

(* The forwarding mode the media code reads is the one the select shows.   *)
StoreAgrees ==
    AtRest("forward") /\ "forward" \in fitted \ excuse /\ avail["forward"]
        => store["forward"] = display["forward"]

SwitchesTrue == SwitchTypeOK /\ ShowsDevice /\ OneBridge /\ StoreAgrees
=============================================================================
