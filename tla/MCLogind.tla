------------------------------- MODULE MCLogind -------------------------------
(* Instance for TLC: the manager's session and two desktops on the seat.   *)
EXTENDS Logind
CONSTANTS mgr, desk, other
=============================================================================
