----------------------------- MODULE Membership -----------------------------
(***************************************************************************)
(* What the user of the config UI may rely on: who belongs to the agent,   *)
(* and by what leave.  A code (a pairing window) that has been answered    *)
(* with a pair_accept is spent; a client enters, and a device reported as  *)
(* unpaired comes back, only while some issued code is unspent, and until  *)
(* then gets at most one more payload through.  Restarts and failed writes *)
(* change none of this.                                                    *)
(* Gateway implements it.                                                  *)
(***************************************************************************)
EXTENDS Naturals

CONSTANTS Clients, Codes

VARIABLES
    issued,   \* the codes the user was given
    spent,    \* the codes for which a pair_accept was sent
    member,   \* client -> "paired": it was sent a pair_accept,
              \* "gone": the user was told it is unpaired, or "unsettled"
    late      \* client -> payloads served since it is gone

vars == <<issued, spent, member, late>>

Init ==
    /\ issued = {}
    /\ spent = {}
    /\ member = [c \in Clients |-> "unsettled"]
    /\ late = [c \in Clients |-> 0]

Issue(w) ==
    /\ issued' = issued \cup {w}
    /\ UNCHANGED <<spent, member, late>>

(* The allowlist takes the client in, under whatever key: what held of it  *)
(* before is no longer settled.                                            *)
Admit(c) ==
    /\ issued \ spent # {}
    /\ member' = [member EXCEPT ![c] = "unsettled"]
    /\ late' = [late EXCEPT ![c] = 0]
    /\ UNCHANGED <<issued, spent>>

(* The pair_accept; the client may have been removed meanwhile.            *)
Accept(c, w) ==
    /\ w \in issued \ spent
    /\ spent' = spent \cup {w}
    /\ \/ UNCHANGED member
       \/ member[c] # "gone" /\ member' = [member EXCEPT ![c] = "paired"]
    /\ UNCHANGED <<issued, late>>

(* The user removes the device, and is told so or is told of an error.     *)
Drop(c) ==
    /\ member[c] = "paired"
    /\ member' = [member EXCEPT ![c] = "unsettled"]
    /\ UNCHANGED <<issued, spent, late>>

Confirm(c) ==
    /\ member[c] = "unsettled"
    /\ member' = [member EXCEPT ![c] = "gone"]
    /\ UNCHANGED <<issued, spent, late>>

(* A payload that was being handled when its device was removed.           *)
ServeLate(c) ==
    /\ member[c] = "gone" /\ late[c] = 0
    /\ late' = [late EXCEPT ![c] = 1]
    /\ UNCHANGED <<issued, spent, member>>

Next ==
    \/ \E w \in Codes : Issue(w)
    \/ \E c \in Clients :
          \/ Admit(c) \/ Drop(c) \/ Confirm(c) \/ ServeLate(c)
          \/ \E w \in Codes : Accept(c, w)

Spec == Init /\ [][Next]_vars
=============================================================================
