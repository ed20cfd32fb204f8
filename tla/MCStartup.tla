----------------------------- MODULE MCStartup -----------------------------
(* Startup for TLC: the constants are given in MCStartup.cfg.              *)
EXTENDS Startup
=============================================================================
