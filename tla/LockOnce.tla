------------------------------ MODULE LockOnce ------------------------------
(***************************************************************************)
(* What a client may rely on when it sends lock commands, whatever becomes *)
(* of the clocks, the network and the agent's memory: one run of the agent *)
(* lets a command through at most once, and confirms only the command that *)
(* it has just passed to the operating system.  Core implements it.        *)
(***************************************************************************)
CONSTANTS
    Commands,   \* lock commands: records with a nonce
    NoCommand,  \* no command is being carried out
    NoNonce     \* no nonce is confirmed

VARIABLES
    done,       \* the commands that may not pass again
    pending,    \* the command that has passed and is not yet answered
    said        \* the nonce that the last reply confirms

vars == <<done, pending, said>>

Init == done = {} /\ pending = NoCommand /\ said = NoNonce

(* A command passes, unless it has before.  One that passes at the edge of *)
(* its window of acceptance need not count.                                *)
Pass ==
    /\ pending = NoCommand
    /\ pending' \in Commands \ done
    /\ done' \in {done, done \cup {pending'}}
    /\ UNCHANGED said

(* The session layer was asked; the reply confirms that command or none.   *)
Answer ==
    /\ pending # NoCommand
    /\ pending' = NoCommand
    /\ said' \in {NoNonce, pending.nonce}
    /\ UNCHANGED done

(* Every other reply, a refusal among them, confirms nothing.              *)
SayNothing == said' = NoNonce /\ UNCHANGED <<done, pending>>

(* The agent is started again: it has forgotten everything.                *)
Restart == done' = {} /\ pending' = NoCommand /\ said' = NoNonce

Next == Pass \/ Answer \/ SayNothing \/ Restart

Spec == Init /\ [][Next]_vars
=============================================================================
