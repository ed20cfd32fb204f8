--------------------------- MODULE MCRelayClient ---------------------------
(* Instance for TLC.                                                       *)
EXTENDS RelayClient
CONSTANTS c1, c2
=============================================================================
