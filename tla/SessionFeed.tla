----------------------------- MODULE SessionFeed -----------------------------
(***************************************************************************)
(* What Controller.Watch promises, as far as Windows lets it: "the current *)
(* state immediately, then every change".  From the moment it listens, the *)
(* changes are told in the order they happen, each once, and none is lost  *)
(* unless as many others as the channel holds are ahead of it and untold.  *)
(* WtsWatch implements it.                                                 *)
(***************************************************************************)
EXTENDS Integers, Sequences

CONSTANTS
    States,     \* of the session
    Other,      \* a session event that says nothing of the state
    Capacity

VARIABLES
    state,      \* the session
    told,       \* what onChange was told last, or "none"
    listening,
    pending     \* what has happened since, and is not told or lost

vars == <<state, told, listening, pending>>

Init ==
    /\ state \in States
    /\ told = "none"
    /\ listening = FALSE
    /\ pending = <<>>

(* The current state.                                                      *)
Begin ==
    /\ ~listening
    /\ told' = state
    /\ UNCHANGED <<state, listening, pending>>

Listen ==
    /\ ~listening
    /\ listening' = TRUE
    /\ UNCHANGED <<state, told, pending>>

Happens(m) == pending' = IF listening THEN Append(pending, m) ELSE pending

Change ==
    /\ state' \in States \ {state}
    /\ Happens(state')
    /\ UNCHANGED <<told, listening>>

OtherEvent ==
    /\ Happens(Other)
    /\ UNCHANGED <<state, told, listening>>

Tell ==
    /\ pending # <<>> /\ Head(pending) \in States
    /\ told' = Head(pending)
    /\ pending' = Tail(pending)
    /\ UNCHANGED <<state, listening>>

Without(s, k) == [l \in 1 .. Len(s) - 1 |-> IF l < k THEN s[l] ELSE s[l + 1]]

Lose(k) ==
    /\ pending[k] \in States => k > Capacity
    /\ pending' = Without(pending, k)
    /\ UNCHANGED <<state, told, listening>>

End ==
    /\ listening' = FALSE
    /\ pending' = <<>>
    /\ UNCHANGED <<state, told>>

Next ==
    \/ Begin \/ Listen \/ Change \/ OtherEvent \/ Tell \/ End
    \/ \E k \in 1 .. Len(pending) : Lose(k)

Spec == Init /\ [][Next]_vars
=============================================================================
