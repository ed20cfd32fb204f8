--------------------------- MODULE MCPickCandidate ---------------------------
(* Instance for TLC: every list of up to three candidates.                 *)
EXTENDS PickCandidate
=============================================================================
