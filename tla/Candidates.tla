------------------------------ MODULE Candidates ------------------------------
(***************************************************************************)
(* internal/session/pick.go without the loop: what a logind session is     *)
(* reduced to, which ones can be locked, how they are ranked, and which    *)
(* ones rank highest.                                                      *)
(***************************************************************************)
EXTENDS Integers

(* The classes that matter; "unreadable" is the empty string of a property *)
(* that could not be read.                                                 *)
Classes == {"user", "manager", "unreadable"}

Candidate == [class : Classes, active : BOOLEAN, graphical : BOOLEAN]

(* Only real user sessions have a screen to lock.  The mutation binds to   *)
(* the session of the systemd --user manager as well.                      *)
MutAnySession(c) == c.class # "unreadable"
IsLockable(c) == c.class = "user"

(* Being active counts for more than being graphical.                      *)
Score(c) == (IF c.active THEN 2 ELSE 0) + (IF c.graphical THEN 1 ELSE 0)

(* The sessions that may be chosen from what was read of them.             *)
Best(read) ==
    {s \in DOMAIN read :
        /\ IsLockable(read[s])
        /\ \A t \in DOMAIN read : IsLockable(read[t]) => Score(read[t]) <= Score(read[s])}
=============================================================================
