---------------------------- MODULE MCEntryServices ----------------------------
(* What an entry keeps going with its agent: the registration of its events  *)
(* and the display patch, which share no state: a behaviour is one of one    *)
(* part, the other stays as it began.  Two attempts at a time and two sets   *)
(* of events to register.                                                    *)
EXTENDS EventRegistration, DisplayPatch

VARIABLE part

FirstAttempt == [t \in Task |-> IF t = CHOOSE u \in Task : TRUE THEN [stage |-> "url"] ELSE Idle]

ServicesInit ==
    /\ part \in {"registration", "patch"}
    /\ Init /\ (part # "registration" => reach /\ want = Nothing /\ attempt = FirstAttempt)
    /\ PatchInit /\ (part # "patch" => files.core = "original")

RegistrationPart == part = "registration" /\ Next /\ UNCHANGED <<part, patchVars>>
PatchPart == part = "patch" /\ PatchNext /\ UNCHANGED <<part, vars>>

\* The fairness of each module, for the part that moves.
RegistrationFairness ==
    /\ \A t \in Task : WF_vars(part = "registration" /\ AttemptStep(t))
    /\ WF_vars(part = "registration" /\ TimerFires)
    /\ WF_vars(part = "registration" /\ OrphanFires)
    /\ WF_vars(part = "registration" /\ GraceEnds)
PatchPartFairness ==
    /\ WF_patchVars(part = "patch" /\ ScriptEnds)
    /\ \A c \in Caller : WF_patchVars(part = "patch" /\ ScriptStarts(c))
    /\ \A w \in LockUser : WF_patchVars(part = "patch" /\ JobSteps(w))
    /\ WF_patchVars(part = "patch" /\ ReadEnds)

EntryServicesSpec ==
    /\ ServicesInit
    /\ [][RegistrationPart \/ PatchPart]_<<part, vars, patchVars>>
    /\ RegistrationFairness /\ PatchPartFairness

-----------------------------------------------------------------------------
(* The safety properties are those of the modules; what must happen in the   *)
(* end is asked of the part that moves.                                      *)

\* In the end the agent serves the entry or its outage is shown.
ServesOrShows == part = "registration" => ServedOrShown

\* The display patch gives its lock back.
LockComesBack == part = "patch" => LockReturned
=============================================================================
