----------------------------- MODULE MCMediaSession -----------------------------
(* Two clients that are alike, for the runs without liveness properties.      *)
EXTENDS MediaSession, TLC

CONSTANTS c1, c2

MCClient == {c1, c2}
Alike == Permutations(MCClient)
=============================================================================
