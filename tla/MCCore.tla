------------------------------- MODULE MCCore -------------------------------
(* Core for TLC: nonces are interchangeable.                               *)
EXTENDS Core, TLC

NonceSymmetry == Permutations(Nonces)
=============================================================================
