------------------------------- MODULE MCMedia -------------------------------
(* The media of Home Assistant, which share no state here: a behaviour is   *)
(* one of one part, the others stay as they began.  The cache has room for  *)
(* one short and one long recording, or for two.                            *)
EXTENDS CameraSessions, MediaCache, RingCapture

VARIABLE part

Sizes == [k \in Recording |-> IF k = "a" THEN 1 ELSE 2]

MediaInit == part \in {"camera", "cache", "capture"} /\ CameraInit /\ CacheInit /\ CaptureInit

CameraPart == part = "camera" /\ CameraNext /\ UNCHANGED <<part, cacheVars, captureVars>>
CachePart == part = "cache" /\ CacheNext /\ UNCHANGED <<part, camVars, captureVars>>
CapturePart == part = "capture" /\ CaptureNext /\ UNCHANGED <<part, camVars, cacheVars>>

MediaNext == CameraPart \/ CachePart \/ CapturePart

\* The fairness of each module, for the part that moves.
CameraPartFairness ==
    /\ \A s \in Session :
          /\ WF_camVars(part = "camera" /\ CloseSteps(s))
          /\ WF_camVars(part = "camera" /\ OfferSteps(s))
          /\ SF_camVars(part = "camera" /\ (StopBegins(s) \/ PrepareBegins(s) \/ UnownedChecked(s)))
    /\ WF_camVars(part = "camera" /\ RemovalSteps)
CachePartFairness ==
    \A k \in Recording : WF_cacheVars(part = "cache" /\ LoadStep(k))
CaptureFairness ==
    /\ WF_captureVars(part = "capture" /\ CaptureStep)
    /\ \A i \in CaptureId : WF_captureVars(part = "capture" /\ TalkbackStep(i))

MediaSpec ==
    /\ MediaInit /\ [][MediaNext]_<<part, camVars, cacheVars, captureVars>>
    /\ CameraPartFairness /\ CachePartFairness /\ CaptureFairness

-----------------------------------------------------------------------------
(* The safety properties are those of the modules: a part that does not      *)
(* move keeps them as its initial state has them.  What must happen in the   *)
(* end is asked of the part that moves.                                      *)

\* The removal of the entity, a viewer's request and a capture come to an end.
RemovalHolds == []<>(part = "camera" => RemovalIsOver)
ViewersHold == \A k \in Recording : []<>(part = "cache" => Answered(k))
CapturesReturn == <>[](part = "capture" => AllIsOver)
=============================================================================
