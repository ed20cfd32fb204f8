----------------------------- MODULE MCGateway -----------------------------
(* Gateway for TLC: clients are interchangeable, and so are UI requests.   *)
EXTENDS Gateway, TLC

Symmetry == Permutations(Clients) \cup Permutations(Requests)
=============================================================================
