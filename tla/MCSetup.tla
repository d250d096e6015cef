------------------------------- MODULE MCSetup -------------------------------
(* Setting up and configuring an entry, what the media decide by, and how   *)
(* the agent delivers events to the entry: a behaviour is one of one part,  *)
(* the others stay as they began.  Delivery has two subscribers that differ *)
(* in callback and filter, one id that comes back, a queue of two slots.    *)
EXTENDS EntrySetup, SetupFlow, OptionsFlow, MediaDecision, EventDelivery, TLC

VARIABLE part

Outcomes == {"ok", "http_callback_failed"}
Filters == {{Metrics, Memos}, {Doorbell}}

\* The blocks of the heap are alike; no liveness property is asked here.
Blocks == Permutations(Job)

SetupPartsInit ==
    /\ part \in {"entry", "flows", "options", "decisions", "delivery"}
    /\ EntryInit /\ (part # "entry" => /\ form = "current" /\ stored.ui = "unset"
                                       /\ buttons = "none" /\ ~device.patched /\ ~device.user)
    /\ SetupInit /\ (part # "flows" => unit.up /\ named)
    /\ OptionsInit /\ (part # "options" => version = 2)
    /\ DecisionInit /\ DeliveryInit

EntryPart == /\ part = "entry" /\ EntryNext
             /\ UNCHANGED <<part, setupVars, optionsVars, decisionVars, allVars>>
FlowsPart == /\ part = "flows" /\ SetupNext
             /\ UNCHANGED <<part, entryVars, optionsVars, decisionVars, allVars>>
OptionsPart == /\ part = "options" /\ OptionsNext
               /\ UNCHANGED <<part, entryVars, setupVars, decisionVars, allVars>>
DecisionsPart == /\ part = "decisions" /\ DecisionNext
                 /\ UNCHANGED <<part, entryVars, setupVars, optionsVars, allVars>>
DeliveryPart == /\ part = "delivery" /\ DeliveryNext
                /\ UNCHANGED <<part, entryVars, setupVars, optionsVars, decisionVars>>

SetupPartsNext == EntryPart \/ FlowsPart \/ OptionsPart \/ DecisionsPart \/ DeliveryPart

SetupPartsSpec ==
    /\ SetupPartsInit
    /\ [][SetupPartsNext]_<<part, entryVars, setupVars, optionsVars, decisionVars, allVars>>

\* The properties are those of the modules: a part that does not move keeps
\* them as its initial state has them.
=============================================================================
