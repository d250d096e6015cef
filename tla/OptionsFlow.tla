----------------------------- MODULE OptionsFlow -----------------------------
(* The settings of a configured unit: the options flow and the reconfigure   *)
(* flow of custom_components/bticino_c300x/config_flow.py with their pages    *)
(* (config_flow_input.py, config_flow_features.py, config_flow_dashboard.py,  *)
(* config_flow_activations.py), the callback repair, the rediscovery, the     *)
(* migration, and what the rest of the integration reads (entry_config.py).   *)
(*                                                                            *)
(* A setting is kept in two places: the entry's data, written by the setup,   *)
(* by reconfigure, by a rediscovery and by the marks, and its options, which  *)
(* override data, written by the options flow and by the callback repair.     *)
(* Both flows may be open at once; each page is filled with what holds when   *)
(* it is shown.                                                               *)
(*                                                                            *)
(* A token is blank or not; the media settings and the dashboard are off or   *)
(* on; an activation is its id.  A page changes at most one field, and the    *)
(* fields changed in one behaviour are bounded.                               *)
EXTENDS Naturals, Sequences, SequencesExt, FiniteSets

CONSTANTS Address,     \* addresses the unit may have
          MaxItems, \* most device activations (MAX_DEVICE_ACTIVATIONS)
          MaxChanges, \* bound on the fields the user changes
          MaxSaves    \* bound on the writes to the entry

ASSUME OptionsAssumption ==
    MaxItems \in Nat \ {0, 1} /\ MaxChanges \in Nat /\ MaxSaves \in Nat

VARIABLES data,    \* the entry's data
          options, \* the entry's options: only the keys that were saved
          version, \* minor version of the stored entry
          dialog,    \* the open form of each flow
          chosen,  \* ghost: the value last given to each setting
          changes, saves

optionsVars == <<data, options, version, dialog, chosen, changes, saves>>

Blank == ""
Kind == {"options", "reconfigure"}
Connection == {"host", "token", "callback"}
Features == {"media", "mode", "items", "board"}
Keys == Connection \cup Features \cup {"mark"}
NonBlankFallback == {"host", "token"}

Ids == {"gate", "cellar"}
Reserved == {"stair_light"}
Domain == [host |-> Address, token |-> {Blank, "token"}, callback |-> {Blank, "url"},
           media |-> {"off", "on"}, mode |-> {"auto", "manual"}, board |-> {"off", "on"}]

Closed == [page |-> "closed", value |-> <<>>, edit |-> Blank]

\* What the integration reads: an option overrides the data, except a blank
\* one of the settings that must not be blank.
Effective(d, o) ==
    [k \in Keys |-> IF k \notin DOMAIN o THEN d[k]
                    ELSE IF k \in NonBlankFallback /\ o[k] = Blank THEN d[k]
                    ELSE o[k]]
Now == Effective(data, options)

Overlaid(old, new) == [k \in DOMAIN old \cup DOMAIN new |-> IF k \in DOMAIN new THEN new[k] ELSE old[k]]
Only(f, keys) == [k \in DOMAIN f \cap keys |-> f[k]]

\* The activations that fit: in manual mode the integration adds one of its own.
Limit(mode) == IF mode = "manual" THEN MaxItems - 1 ELSE MaxItems
Valid(items) == /\ Len(items) <= MaxItems
                /\ IsInjective(items)
                /\ ToSet(items) \cap Reserved = {}

OptionsInit ==
    /\ data = [host |-> CHOOSE h \in Address : TRUE, token |-> "token", callback |-> Blank,
               media |-> "on", mode |-> "auto", items |-> <<"gate">>,
               board |-> "off", mark |-> FALSE]
    /\ \/ version = 2 /\ options = <<>>
       \/ version = 1 /\ options = [token |-> Blank]
    /\ dialog = [k \in Kind |-> Closed]
    /\ chosen = data
    /\ changes = 0 /\ saves = 0

\* The upgrade of an old entry drops options that would hide data with blanks.
Upgraded ==
    /\ version = 1
    /\ version' = 2
    /\ options' = Only(options, {k \in Keys : ~(k \in NonBlankFallback /\ k \in DOMAIN options
                                                 /\ options[k] = Blank /\ data[k] # Blank)})
    /\ UNCHANGED <<data, dialog, chosen, changes, saves>>

Loaded == version = 2
Saves == Loaded /\ saves < MaxSaves /\ saves' = saves + 1

-----------------------------------------------------------------------------
(* The pages.  Posting one shows the next, filled with the current settings.  *)

At(f, page) == Loaded /\ dialog[f].page = page
Turned(f, page, value) ==
    dialog' = [dialog EXCEPT ![f] = [page |-> page, value |-> value, edit |-> Blank]]
Stored == UNCHANGED <<data, options, version, chosen, saves>>
Pages == Stored /\ UNCHANGED changes

\* n fields of the page were changed.
Counted(n) == changes + n <= MaxChanges /\ changes' = changes + n
Differs(a, b) == IF a = b THEN 0 ELSE 1

FormOpened(f) ==
    /\ At(f, "closed") /\ saves < MaxSaves
    /\ Turned(f, "connection", Only(Now, Connection))
    /\ Pages

\* An empty host or a malformed callback address shows the page again.
ConnectionPosted(f) ==
    /\ At(f, "connection")
    /\ \E k \in Connection : \E v \in Domain[k] :
         /\ Counted(Differs(v, dialog[f].value[k]))
         /\ Turned(f, "features",
                   Overlaid([dialog[f].value EXCEPT ![k] = v], Only(Now, {"media"})))
    /\ Stored

\* The activations are no field of this page: they are read when it is posted.
FeaturesPosted(f) ==
    /\ At(f, "features")
    /\ \E media \in Domain.media :
         /\ Counted(Differs(media, dialog[f].value.media))
         /\ Turned(f, "manage",
                   Overlaid([dialog[f].value EXCEPT !.media = media], Only(Now, {"mode", "items"})))
    /\ Stored

\* The mode of the page is taken first, whatever the action chosen with it
\* then does.
Managed(f, mode) == [dialog[f].value EXCEPT !.mode = mode]
ModeChanges(f, mode) == Differs(mode, dialog[f].value.mode)

ActivationsDone(f) ==
    /\ At(f, "manage")
    /\ \E mode \in Domain.mode :
         /\ Counted(ModeChanges(f, mode))
         /\ IF Len(dialog[f].value.items) <= Limit(mode)
            THEN Turned(f, "dashboard", Overlaid(Managed(f, mode), Only(Now, {"board"})))
            ELSE Turned(f, "manage", Managed(f, mode))
    /\ Stored

ItemAdded(f) ==
    /\ At(f, "manage")
    /\ \E mode \in Domain.mode :
         /\ Counted(1 + ModeChanges(f, mode))
         /\ Turned(f, IF Len(dialog[f].value.items) >= Limit(mode) THEN "manage" ELSE "item",
                   Managed(f, mode))
    /\ Stored

ItemEdited(f) ==
    /\ At(f, "manage")
    /\ \E mode \in Domain.mode, target \in ToSet(dialog[f].value.items) :
         /\ Counted(1 + ModeChanges(f, mode))
         /\ dialog' = [dialog EXCEPT ![f] = [page |-> "item", value |-> Managed(f, mode), edit |-> target]]
    /\ Stored

ItemRemoved(f) ==
    /\ At(f, "manage")
    /\ \E mode \in Domain.mode, target \in ToSet(dialog[f].value.items) :
         /\ Counted(1 + ModeChanges(f, mode))
         /\ Turned(f, "manage", [Managed(f, mode) EXCEPT !.items = SelectSeq(@, LAMBDA i : i # target)])
    /\ Stored

\* An id already used, or reserved for the generated stair light, is refused.
ReservedIds(items, edit) == (ToSet(items) \ {edit}) \cup Reserved
Upserted(items, edit, id) ==
    IF edit = Blank THEN Append(items, id)
    ELSE [i \in DOMAIN items |-> IF items[i] = edit THEN id ELSE items[i]]

ItemPosted(f) ==
    /\ At(f, "item")
    /\ LET items == dialog[f].value.items
           edit == dialog[f].edit
       IN IF edit = Blank /\ Len(items) >= Limit(dialog[f].value.mode)
          THEN Turned(f, "manage", dialog[f].value)
          ELSE \E id \in (Ids \cup Reserved) \ ReservedIds(items, edit) :
                 Turned(f, "manage", [dialog[f].value EXCEPT !.items = Upserted(items, edit, id)])
    /\ Pages

FormClosed(f) ==
    /\ Loaded /\ dialog[f] # Closed
    /\ dialog' = [dialog EXCEPT ![f] = Closed]
    /\ Pages

-----------------------------------------------------------------------------
(* The writes.                                                                *)

\* The options flow replaces all the options; the data stays.
OptionsSaved(new) == options' = new /\ UNCHANGED data

KeepsOverrides(new) == data' = Overlaid(data, new) /\ UNCHANGED options

\* Reconfigure writes the data and drops the options that would override it.
ReconfigureSaved(new) ==
    /\ data' = Overlaid(data, new)
    /\ options' = Only(options, Keys \ DOMAIN new)

\* The dashboard page, and the page of the entities' labels when it has any,
\* end the flow; the whole input is validated once more.
Finished(f) ==
    /\ At(f, "dashboard")
    /\ Saves
    /\ \E board \in Domain.board :
         LET new == [dialog[f].value EXCEPT !.board = board]
         IN /\ Counted(Differs(board, dialog[f].value.board))
            /\ Valid(new.items)
            /\ IF f = "options" THEN OptionsSaved(new) ELSE ReconfigureSaved(new)
            /\ chosen' = Overlaid(chosen, new)
    /\ dialog' = [dialog EXCEPT ![f] = Closed]
    /\ UNCHANGED version

CallbackRepaired ==
    /\ Saves
    /\ options' = Overlaid(options, [callback |-> "url"])
    /\ chosen' = [chosen EXCEPT !.callback = "url"]
    /\ UNCHANGED <<data, version, dialog, changes>>

\* An advertisement of the unit updates the data of its entry.
Rediscovered(h) ==
    /\ Saves
    /\ data["host"] # h
    /\ data' = [data EXCEPT !["host"] = h]
    /\ chosen' = IF "host" \in DOMAIN options THEN chosen ELSE [chosen EXCEPT !.host = h]
    /\ UNCHANGED <<options, version, dialog, changes>>

\* The dashboard card was handled, or the media user was set up.
Marked ==
    /\ Saves /\ ~Now["mark"]
    /\ data' = [data EXCEPT !["mark"] = TRUE]
    /\ chosen' = [chosen EXCEPT !.mark = TRUE]
    /\ UNCHANGED <<options, version, dialog, changes>>

OptionsNext ==
    \/ Upgraded \/ CallbackRepaired \/ Marked
    \/ \E h \in Address : Rediscovered(h)
    \/ \E f \in Kind : \/ FormOpened(f) \/ ConnectionPosted(f) \/ FeaturesPosted(f)
                       \/ ActivationsDone(f) \/ ItemAdded(f) \/ ItemEdited(f)
                       \/ ItemRemoved(f) \/ ItemPosted(f) \/ FormClosed(f) \/ Finished(f)

OptionsSpec == OptionsInit /\ [][OptionsNext]_optionsVars

-----------------------------------------------------------------------------
(* Properties.                                                                *)

OptionsTypeOK ==
    /\ DOMAIN data = Keys /\ DOMAIN options \subseteq Keys
    /\ version \in {1, 2} /\ changes \in 0..MaxChanges /\ saves \in 0..MaxSaves
    /\ DOMAIN dialog = Kind /\ DOMAIN chosen = Keys

\* Whatever the flows, the repair and the rediscovery write and in whatever
\* order, the integration works with the value last given to each setting; a
\* blank host or token stands for the one of the setup.  A host that was
\* advertised while saved options hid it is not counted (FollowsDiscovery).
EffectiveIsChosen ==
    \A k \in Keys : \/ Now[k] = chosen[k]
                    \/ k \in NonBlankFallback /\ chosen[k] = Blank

\* The mode and the activations that are in force always make a list the
\* agent takes: of distinct ids, none of them the generated one, and with room
\* for that one in manual mode.  The two settings may come from different
\* flows that were open at once.
ActivationsFit == Valid(Now["items"]) /\ Len(Now["items"]) <= Limit(Now["mode"])

SettingsTrue == OptionsTypeOK /\ EffectiveIsChosen /\ ActivationsFit

\* What quality_scale.yaml:58 says: "Zeroconf setup updates matching entries
\* with the advertised agent host and port."  The code updates the data only
\* (config_flow.py:471): once the options flow was finished, the host it saved
\* hides the advertised one, and the integration stays with the old address.
FollowsDiscovery ==
    [][\A h \in Address : Rediscovered(h) => Effective(data', options')["host"] = h]_optionsVars
=============================================================================
