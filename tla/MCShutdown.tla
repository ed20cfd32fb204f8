----------------------------- MODULE MCShutdown -----------------------------
(* Shutdown for TLC: it has no constants.                                  *)
EXTENDS Shutdown
=============================================================================
