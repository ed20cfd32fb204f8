-------------------------------- MODULE Logind --------------------------------
(***************************************************************************)
(* internal/session on Linux: Lock and Watch over the system D-Bus.        *)
(*                                                                         *)
(* Neither pins a session.  Each call lists the user's sessions, reads     *)
(* their properties one session at a time, picks one (pick.go) and only    *)
(* then asks for the lock or reads LockedHint, while the user switches,    *)
(* logs in or out and locks.  Watch does so again on every signal that     *)
(* mentions LockedHint; it does not look at what the signal says.          *)
(*                                                                         *)
(* logind lists sessions in no particular order, so "the first" of equals  *)
(* is any of them here; PickCandidate has the loop itself.                 *)
(***************************************************************************)
EXTENDS Candidates, FiniteSets

CONSTANTS
    Sessions,     \* sessions of the agent's uid
    Managers,     \* those of the systemd --user manager
    Graphical,    \* those of type x11, wayland or mir
    Seated,       \* those with a seat: active only in the foreground
    NoSession,
    MaxSignals,   \* bound: undelivered signals
    MaxChanges,   \* bound: logins, logouts and switches
    MaxErrors     \* bound: D-Bus calls that fail

ASSUME LogindAssumption ==
    /\ Managers \subseteq Sessions /\ Graphical \subseteq Sessions
    /\ Seated \subseteq Sessions /\ NoSession \notin Sessions
    /\ MaxSignals \in Nat /\ MaxChanges \in Nat /\ MaxErrors \in Nat

VARIABLES
    present,     \* the sessions logind knows
    foreground,  \* the one on the screen, NoSession for a text console
    hint,        \* LockedHint of each session
    signals,     \* PropertiesChanged signals that mention LockedHint and
                 \* are on their way to Watch
    call,        \* the calls of Lock and of Watch's Locked, see CallState
    last,        \* what Watch reported last, "none" before its first report
    changes,     \* history: logins, logouts and switches
    errors,      \* history: failed D-Bus calls
    disturbed    \* history: a change or failure since the call's listing

world == <<present, foreground, hint, changes>>
vars == <<world, signals, call, last, errors, disturbed>>

Callers == {"lock", "watch"}
Reading == {"locked", "unlocked"}
CallState == [at : {"off", "wait", "list", "props", "use", "report", "done"},
              todo : SUBSET Sessions,
              read : UNION {[S -> Candidate] : S \in SUBSET Sessions},
              target : Sessions \cup {NoSession},
              value : Reading \cup {"none"}]

NothingRead == [s \in {} |-> [class |-> "unreadable", active |-> FALSE, graphical |-> FALSE]]
At(place) == [at |-> place, todo |-> {}, read |-> NothingRead,
              target |-> NoSession, value |-> "none"]

(* A session as it is now, which is what three undisturbed reads see.      *)
Truth(s) == [class |-> IF s \in Managers THEN "manager" ELSE "user",
             active |-> s \notin Seated \/ s = foreground,
             graphical |-> s \in Graphical]

Tracked == Best([s \in present |-> Truth(s)])

-----------------------------------------------------------------------------
Init ==
    /\ present \in SUBSET Sessions
    /\ foreground \in (present \cap Seated) \cup {NoSession}
    /\ hint \in [Sessions -> Reading]
    /\ \A s \in Sessions : s \in Managers \/ s \notin present => hint[s] = "unlocked"
    /\ signals = 0
    /\ call = [p \in Callers |-> At("off")]
    /\ last = "none"
    /\ changes = 0
    /\ errors = 0
    /\ disturbed = [p \in Callers |-> FALSE]

(* The user locks or unlocks; logind signals it.  Before Watch subscribed  *)
(* nobody listens; the mutation subscribes only after the first report.    *)
MutLateSubscribe == last # "none"
Subscribed == call["watch"].at # "off"
SetHint(s) ==
    /\ s \in present \ Managers
    /\ signals < MaxSignals
    /\ hint' = [hint EXCEPT ![s] = IF @ = "locked" THEN "unlocked" ELSE "locked"]
    /\ signals' = IF Subscribed THEN signals + 1 ELSE signals
    /\ UNCHANGED <<present, foreground, call, last, changes, errors, disturbed>>

(* Logins, logouts and switches; no signal of theirs mentions LockedHint.  *)
Disturb ==
    /\ changes < MaxChanges
    /\ changes' = changes + 1
    /\ disturbed' = [p \in Callers |-> TRUE]
    /\ UNCHANGED <<signals, call, last, errors>>

LogIn(s) ==
    /\ s \notin present
    /\ present' = present \cup {s}
    /\ Disturb
    /\ UNCHANGED <<foreground, hint>>

LogOut(s) ==
    /\ s \in present
    /\ present' = present \ {s}
    /\ foreground' = IF foreground = s THEN NoSession ELSE foreground
    /\ hint' = [hint EXCEPT ![s] = "unlocked"]
    /\ Disturb

Switch(s) ==
    /\ s \in (present \cap Seated) \cup {NoSession}
    /\ s # foreground
    /\ foreground' = s
    /\ Disturb
    /\ UNCHANGED <<present, hint>>

-----------------------------------------------------------------------------
(* A call.  Where it goes when it fails: Lock and the first read of Watch  *)
(* return the error, a later read of Watch just waits for the next signal. *)
(* The mutation waits after the first as well.                             *)
MutFailed(p) == At(IF p = "watch" THEN "wait" ELSE "off")
Failed(p) == At(IF p = "watch" /\ last # "none" THEN "wait" ELSE "off")

Fails(p) ==
    /\ errors < MaxErrors
    /\ errors' = errors + 1
    /\ call' = [call EXCEPT ![p] = Failed(p)]
    /\ disturbed' = [disturbed EXCEPT ![p] = TRUE]

(* sessionPath: ListSessions.                                              *)
List(p) ==
    /\ call[p].at = "list"
    /\ \/ /\ call' = [call EXCEPT ![p] = [At("props") EXCEPT !.todo = present]]
          /\ disturbed' = [disturbed EXCEPT ![p] = FALSE]
          /\ UNCHANGED errors
       \/ Fails(p)
    /\ UNCHANGED <<world, signals, last>>

(* boolProp and stringProp: what cannot be read counts as empty or false,  *)
(* of a session that is gone everything.  The three calls for one session  *)
(* are one step: a change in between would set disturbed, and of a call    *)
(* that was disturbed LockTarget and WatchIsCurrent say no more than that  *)
(* it does not end at a manager's session.                                 *)
Unreadable == [class |-> "unreadable", active |-> FALSE, graphical |-> FALSE]
Unread(s) ==
    {[Truth(s) EXCEPT !.class = "unreadable"], [Truth(s) EXCEPT !.active = FALSE],
     [Truth(s) EXCEPT !.graphical = FALSE], Unreadable}

ReadProps(p, s) ==
    /\ call[p].at = "props"
    /\ s \in call[p].todo
    /\ \E c \in IF s \in present THEN {Truth(s)} \cup Unread(s) ELSE {Unreadable} :
          /\ call' = [call EXCEPT
                ![p].todo = @ \ {s},
                ![p].read = [t \in DOMAIN @ \cup {s} |-> IF t = s THEN c ELSE @[t]]]
          /\ IF s \notin present \/ c = Truth(s)
             THEN UNCHANGED <<errors, disturbed>>
             ELSE /\ errors < MaxErrors
                  /\ errors' = errors + 1
                  /\ disturbed' = [disturbed EXCEPT ![p] = TRUE]
    /\ UNCHANGED <<world, signals, last>>

(* pickCandidate *)
Pick(p) ==
    /\ call[p].at = "props"
    /\ call[p].todo = {}
    /\ IF Best(call[p].read) = {}
       THEN call' = [call EXCEPT ![p] = Failed(p)]
       ELSE \E s \in Best(call[p].read) :
                call' = [call EXCEPT ![p] = [At("use") EXCEPT !.target = s]]
    /\ UNCHANGED <<world, signals, last, errors, disturbed>>

-----------------------------------------------------------------------------
(* Lock, for the gateway or the command line.  "done": logind has passed   *)
(* the request to the session.                                             *)
CallLock ==
    /\ call["lock"].at = "off"
    /\ call' = [call EXCEPT !["lock"] = At("list")]
    /\ UNCHANGED <<world, signals, last, errors, disturbed>>

AskSession ==
    /\ call["lock"].at = "use"
    /\ \/ /\ call["lock"].target \in present
          /\ call' = [call EXCEPT !["lock"].at = "done"]
          /\ UNCHANGED <<errors, disturbed>>
       \/ /\ call["lock"].target \notin present
          /\ call' = [call EXCEPT !["lock"] = At("off")]
          /\ UNCHANGED <<errors, disturbed>>
       \/ Fails("lock")
    /\ UNCHANGED <<world, signals, last>>

LockReturns ==
    /\ call["lock"].at = "done"
    /\ call' = [call EXCEPT !["lock"] = At("off")]
    /\ UNCHANGED <<world, signals, last, errors, disturbed>>

(* Watch subscribes, and then reads for its first report.                  *)
StartWatch ==
    /\ call["watch"].at = "off"
    /\ call' = [call EXCEPT !["watch"] = At("list")]
    /\ signals' = 0
    /\ UNCHANGED <<world, last, errors, disturbed>>

(* A signal that mentions LockedHint.                                      *)
TakeSignal ==
    /\ call["watch"].at = "wait"
    /\ signals > 0
    /\ signals' = signals - 1
    /\ call' = [call EXCEPT !["watch"] = At("list")]
    /\ UNCHANGED <<world, last, errors, disturbed>>

(* The hint is read, and then, if it is new, reported.                     *)
ReadHint ==
    /\ call["watch"].at = "use"
    /\ LET s == call["watch"].target IN
       \/ /\ s \in present
          /\ call' = [call EXCEPT !["watch"] = [At("report") EXCEPT !.value = hint[s]]]
          /\ UNCHANGED <<errors, disturbed>>
       \/ /\ s \notin present
          /\ call' = [call EXCEPT !["watch"] = Failed("watch")]
          /\ UNCHANGED <<errors, disturbed>>
       \/ Fails("watch")
    /\ UNCHANGED <<world, signals, last>>

Report ==
    /\ call["watch"].at = "report"
    /\ last' = call["watch"].value
    /\ call' = [call EXCEPT !["watch"] = At("wait")]
    /\ UNCHANGED <<world, signals, errors, disturbed>>

(* The context of Watch is cancelled.                                      *)
CancelWatch ==
    /\ call["watch"].at = "wait"
    /\ call' = [call EXCEPT !["watch"] = At("off")]
    /\ signals' = 0
    /\ last' = "none"
    /\ UNCHANGED <<world, errors, disturbed>>

Next ==
    \/ \E s \in Sessions : SetHint(s) \/ LogIn(s) \/ LogOut(s)
    \/ \E s \in Seated \cup {NoSession} : Switch(s)
    \/ \E p \in Callers : List(p) \/ Pick(p) \/ \E s \in Sessions : ReadProps(p, s)
    \/ CallLock \/ AskSession \/ LockReturns
    \/ StartWatch \/ TakeSignal \/ ReadHint \/ Report \/ CancelWatch

Spec == Init /\ [][Next]_vars

-----------------------------------------------------------------------------
(* The variables have their types, and a Watch that waits has reported.    *)
TypeOK ==
    /\ present \subseteq Sessions
    /\ foreground \in (present \cap Seated) \cup {NoSession}
    /\ hint \in [Sessions -> Reading]
    /\ signals \in 0 .. MaxSignals
    /\ call \in [Callers -> CallState]
    /\ last \in Reading \cup {"none"}
    /\ call["watch"].at = "wait" => last # "none"
    /\ changes \in 0 .. MaxChanges /\ errors \in 0 .. MaxErrors
    /\ disturbed \in [Callers -> BOOLEAN]

(* A lock request goes to a real user session, never to the manager's that *)
(* has no screen (pick.go); and if nothing changed or failed while the call*)
(* was under way, to one that no other outranks.                           *)
LockTarget ==
    call["lock"].at = "done" =>
        /\ call["lock"].target \notin Managers
        /\ ~disturbed["lock"] => call["lock"].target \in Tracked

WatchIdle == call["watch"].at = "wait" /\ signals = 0 /\ Tracked # {}

(* Watch with nothing left to handle has reported the present state, if    *)
(* nothing was changed or failed since its last listing: no lock or unlock *)
(* escapes between the subscription, the signals and the reads, and what a *)
(* login, a switch or an error made it miss is put right by the next signal*)
WatchIsCurrent ==
    WatchIdle /\ ~disturbed["watch"] => \E s \in Tracked : last = hint[s]
=============================================================================
