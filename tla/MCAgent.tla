------------------------------ MODULE MCAgent ------------------------------
(* Agent for TLC: two devices, each with a key of its own.  The devices    *)
(* together with their keys, and the UI requests, are interchangeable; the *)
(* run that checks liveness has one device and does without the symmetry.  *)
EXTENDS Agent, TLC

CONSTANTS c1, k1, k2

KeyOfDevice == [c \in Clients |-> IF c = c1 THEN k1 ELSE k2]

Symmetry ==
    {p \in Permutations(Clients \cup Keys) :
        \A c \in Clients : p[c] \in Clients /\ p[KeyOfDevice[c]] = KeyOfDevice[p[c]]}
    \cup Permutations(Requests)
=============================================================================
