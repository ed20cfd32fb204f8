------------------------------ MODULE MCWtsWatch ------------------------------
(* Instance for TLC.                                                       *)
EXTENDS WtsWatch
=============================================================================
