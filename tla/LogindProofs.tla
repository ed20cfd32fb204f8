----------------------------- MODULE LogindProofs -----------------------------
(***************************************************************************)
(* Lock and Watch over logind, proved for any sessions, managers, seats,   *)
(* and any number of changes, signals and failed calls.                    *)
(*                                                                         *)
(* LockTarget and WatchIsCurrent are the end of a chain the invariant      *)
(* follows: what a call that nothing disturbed has read is the truth, so   *)
(* its pick is one that no other outranks, and what Watch then reads and   *)
(* reports is the hint of that one, unless a signal is on its way.         *)
(***************************************************************************)
EXTENDS Logind, TLAPS

Readings == UNION {[S -> Candidate] : S \in SUBSET Sessions}

(* No manager's session looks like one that can be locked; undisturbed, a  *)
(* call has read the truth and has the rest of the sessions to do.         *)
ReadInv(p) ==
    /\ \A t \in DOMAIN call[p].read : t \in Managers => ~IsLockable(call[p].read[t])
    /\ ~disturbed[p] =>
          /\ DOMAIN call[p].read \cup call[p].todo = present
          /\ \A t \in DOMAIN call[p].read : call[p].read[t] = Truth(t)

TargetInv(p) ==
    /\ call[p].target \in Sessions \ Managers
    /\ ~disturbed[p] => call[p].target \in Tracked

CallInv ==
    \A p \in Callers :
        /\ call[p].at = "props" => ReadInv(p)
        /\ call[p].at \in {"use", "done"} => TargetInv(p)

Quiet == signals = 0 /\ ~disturbed["watch"]
WatchInv ==
    /\ call["watch"].at = "report" =>
          call["watch"].value \in Reading /\ (Quiet => \E s \in Tracked : call["watch"].value = hint[s])
    /\ call["watch"].at = "wait" /\ Quiet /\ Tracked # {} => \E s \in Tracked : last = hint[s]
    /\ call["lock"].at \notin {"wait", "report"} /\ call["watch"].at # "done"

LogindInv == CallInv /\ WatchInv

-----------------------------------------------------------------------------
LEMMA Reread ==
    ASSUME NEW r \in Readings, NEW s \in Sessions, NEW c \in Candidate
    PROVE  [t \in DOMAIN r \cup {s} |-> IF t = s THEN c ELSE r[t]] \in Readings
<1>1. PICK S \in SUBSET Sessions : r \in [S -> Candidate]
  BY DEF Readings
<1>2. DOMAIN r = S /\ \A t \in S : r[t] \in Candidate
  BY <1>1
<1>3. [t \in S \cup {s} |-> IF t = s THEN c ELSE r[t]] \in [S \cup {s} -> Candidate]
  BY <1>2
<1>4. S \cup {s} \in SUBSET Sessions
  OBVIOUS
<1>5. QED
  BY <1>2, <1>3, <1>4 DEF Readings

LEMMA IsReading ==
    ASSUME NEW r \in Readings
    PROVE  DOMAIN r \subseteq Sessions /\ r = [t \in DOMAIN r |-> r[t]]
<1>1. PICK S \in SUBSET Sessions : r \in [S -> Candidate]
  BY DEF Readings
<1>2. QED
  BY <1>1

LEMMA TruthIsCandidate == \A s : Truth(s) \in Candidate /\ Truth(s).class \in {"user", "manager"}
BY DEF Truth, Candidate, Classes

LEMMA UnreadAreCandidates ==
    /\ Unreadable \in Candidate /\ ~IsLockable(Unreadable)
    /\ \A s : \A c \in Unread(s) : c \in Candidate /\ (s \in Managers => ~IsLockable(c))
    /\ \A s : s \in Managers => ~IsLockable(Truth(s))
<1>1. Unreadable \in Candidate /\ ~IsLockable(Unreadable)
  BY DEF Unreadable, Candidate, Classes, IsLockable
<1>2. ASSUME NEW s, NEW c \in Unread(s) PROVE c \in Candidate /\ (s \in Managers => ~IsLockable(c))
  <2>1. ASSUME NEW t \in Candidate, s \in Managers => t.class = "manager",
               \/ c = [t EXCEPT !.class = "unreadable"]
               \/ c = [t EXCEPT !.active = FALSE]
               \/ c = [t EXCEPT !.graphical = FALSE]
        PROVE  c \in Candidate /\ (s \in Managers => ~IsLockable(c))
    BY <2>1 DEF Candidate, Classes, IsLockable
  <2>2. Truth(s) \in Candidate /\ (s \in Managers => Truth(s).class = "manager")
    BY TruthIsCandidate DEF Truth
  <2>3. QED
    BY <1>1, <2>1, <2>2 DEF Unread
<1>3. \A s : s \in Managers => ~IsLockable(Truth(s))
  BY DEF Truth, IsLockable
<1>4. QED
  BY <1>1, <1>2, <1>3

LEMMA AtPlaces ==
    \A place \in {"off", "wait", "list", "props", "use", "report", "done"} :
        /\ At(place) \in CallState /\ At(place).at = place
        /\ At(place).read = NothingRead /\ DOMAIN NothingRead = {}
<1>1. NothingRead \in [{} -> Candidate] /\ DOMAIN NothingRead = {}
  BY DEF NothingRead
<1>2. NothingRead \in Readings
  BY <1>1 DEF Readings
<1>3. QED
  BY <1>1, <1>2 DEF At, CallState, Readings

(* The truth about all present sessions ranks them as Tracked does.        *)
LEMMA TruthTracks ==
    ASSUME NEW r \in Readings, DOMAIN r = present, \A t \in DOMAIN r : r[t] = Truth(t)
    PROVE  Best(r) = Tracked
<1>1. r = [t \in present |-> Truth(t)]
  BY IsReading
<1>2. QED
  BY <1>1 DEF Tracked

(* Whom Tracked names depends on who is present and in the foreground.     *)
LEMMA TrackedFrame == UNCHANGED <<present, foreground>> => Tracked' = Tracked
BY DEF Tracked, Best, Truth, IsLockable, Score

LEMMA TrackedPresent == Tracked \subseteq present
BY DEF Tracked, Best

-----------------------------------------------------------------------------
LEMMA CallStateParts ==
    \A c : c \in CallState =>
        /\ c.at \in {"off", "wait", "list", "props", "use", "report", "done"}
        /\ c.todo \in SUBSET Sessions /\ c.read \in Readings
        /\ c.target \in Sessions \cup {NoSession} /\ c.value \in Reading \cup {"none"}
BY DEF CallState, Readings

(* A call that begins anew, from wherever it was.                          *)
LEMMA Restarts ==
    ASSUME TypeOK, NEW p \in Callers, NEW c \in CallState, call' = [call EXCEPT ![p] = c]
    PROVE  call' \in [Callers -> CallState] /\ call'[p] = c
           /\ \A q \in Callers \ {p} : call'[q] = call[q]
BY DEF TypeOK

LEMMA TypeInit == Init => TypeOK
<1> SUFFICES ASSUME Init PROVE TypeOK
    OBVIOUS
<1>1. call \in [Callers -> CallState] /\ call["watch"].at = "off"
  BY AtPlaces DEF Init, Callers
<1>2. 0 \in 0 .. MaxSignals /\ 0 \in 0 .. MaxChanges /\ 0 \in 0 .. MaxErrors
  BY LogindAssumption
<1>3. QED
  BY <1>1, <1>2 DEF Init, TypeOK

(* logind, the user and the screen locker.                                 *)
LEMMA TypeWorld ==
    ASSUME TypeOK, NEW s \in Sessions \cup {NoSession},
           \/ s \in Sessions /\ (SetHint(s) \/ LogIn(s) \/ LogOut(s))
           \/ Switch(s)
    PROVE  TypeOK'
<1>1. CASE s \in Sessions /\ SetHint(s)
  <2>1. signals' \in 0 .. MaxSignals
    BY <1>1, LogindAssumption DEF SetHint, TypeOK
  <2>2. hint' \in [Sessions -> Reading]
    BY <1>1 DEF SetHint, TypeOK, Reading
  <2>3. QED
    BY <1>1, <2>1, <2>2 DEF SetHint, TypeOK
<1>2. CASE Disturb
  <2>1. changes' \in 0 .. MaxChanges /\ disturbed' \in [Callers -> BOOLEAN]
        /\ UNCHANGED <<signals, call, last, errors>>
    BY <1>2, LogindAssumption DEF Disturb, TypeOK
  <2>2. CASE s \in Sessions /\ LogIn(s)
    BY <2>1, <2>2 DEF LogIn, TypeOK
  <2>3. CASE s \in Sessions /\ LogOut(s)
    <3>1. hint' \in [Sessions -> Reading]
      BY <2>3 DEF LogOut, TypeOK, Reading
    <3>2. foreground' \in (present' \cap Seated) \cup {NoSession} /\ present' \subseteq Sessions
      BY <2>3, LogindAssumption DEF LogOut, TypeOK
    <3>3. QED
      BY <2>1, <3>1, <3>2 DEF TypeOK
  <2>4. CASE Switch(s)
    BY <2>1, <2>4 DEF Switch, TypeOK
  <2>5. QED
    BY <1>2, <2>2, <2>3, <2>4 DEF SetHint, Disturb, TypeOK, LogIn, LogOut, Switch
<1>3. QED
  BY <1>1, <1>2 DEF LogIn, LogOut, Switch

LEMMA FailsType ==
    ASSUME TypeOK, NEW p \in Callers, Fails(p)
    PROVE  /\ call' = [call EXCEPT ![p] = Failed(p)] /\ Failed(p) \in CallState
           /\ Failed(p).at \in {"wait", "off"}
           /\ Failed(p).at = "wait" => p = "watch" /\ last # "none"
           /\ errors' \in 0 .. MaxErrors
           /\ disturbed' \in [Callers -> BOOLEAN] /\ disturbed'[p] = TRUE
           /\ \A q \in Callers \ {p} : disturbed'[q] = disturbed[q]
<1>1. Failed(p) \in CallState /\ Failed(p).at \in {"wait", "off"}
      /\ (Failed(p).at = "wait" => p = "watch" /\ last # "none")
  BY AtPlaces DEF Failed
<1>2. errors' \in 0 .. MaxErrors
  BY LogindAssumption DEF Fails, TypeOK
<1>3. QED
  BY <1>1, <1>2 DEF Fails, TypeOK

(* A call moves on, and the world is as it was.                            *)
LEMMA TypeMoves ==
    ASSUME TypeOK, UNCHANGED <<present, foreground, hint, changes>>,
           NEW p \in Callers, NEW c \in CallState, call' = [call EXCEPT ![p] = c],
           p = "watch" /\ c.at = "wait" => last' # "none",
           p = "lock" => last' = last,
           last' \in Reading \cup {"none"}, signals' \in 0 .. MaxSignals,
           errors' \in 0 .. MaxErrors, disturbed' \in [Callers -> BOOLEAN]
    PROVE  TypeOK'
<1>1. call' \in [Callers -> CallState] /\ (call'["watch"].at = "wait" => last' # "none")
  BY Restarts DEF TypeOK, Callers
<1>2. QED
  BY <1>1 DEF TypeOK

(* One session's properties are read: what the call has read after that.   *)
LEMMA ReadsOne ==
    ASSUME TypeOK, NEW p \in Callers, NEW s \in Sessions, ReadProps(p, s)
    PROVE  \E c \in IF s \in present THEN {Truth(s)} \cup Unread(s) ELSE {Unreadable} :
           \E d \in CallState :
              /\ call' = [call EXCEPT ![p] = d]
              /\ d.at = "props" /\ d.todo = call[p].todo \ {s}
              /\ d.read = [t \in DOMAIN call[p].read \cup {s} |-> IF t = s THEN c ELSE call[p].read[t]]
              /\ \/ UNCHANGED disturbed /\ (s \notin present \/ c = Truth(s))
                 \/ disturbed' = [disturbed EXCEPT ![p] = TRUE]
<1>1. PICK c \in IF s \in present THEN {Truth(s)} \cup Unread(s) ELSE {Unreadable} :
          /\ call' = [call EXCEPT ![p].todo = @ \ {s},
                                  ![p].read = [t \in DOMAIN @ \cup {s} |-> IF t = s THEN c ELSE @[t]]]
          /\ \/ UNCHANGED disturbed /\ (s \notin present \/ c = Truth(s))
             \/ disturbed' = [disturbed EXCEPT ![p] = TRUE]
  BY DEF ReadProps
<1>2. c \in Candidate
  BY TruthIsCandidate, UnreadAreCandidates
<1> DEFINE r == [t \in DOMAIN call[p].read \cup {s} |-> IF t = s THEN c ELSE call[p].read[t]]
           d == [call[p] EXCEPT !.todo = @ \ {s}, !.read = r]
<1>3. call[p] \in CallState
  BY DEF TypeOK
<1>4. call[p].read \in Readings
  BY <1>3, CallStateParts
<1>5. r \in Readings
  BY <1>2, <1>4, Reread
<1>6. d \in CallState /\ d.at = "props" /\ d.todo = call[p].todo \ {s} /\ d.read = r
  BY <1>3, <1>5, CallStateParts DEF ReadProps, CallState, Readings
<1>7. call' = [call EXCEPT ![p] = d]
  BY <1>1 DEF TypeOK
<1>8. QED
  BY <1>1, <1>6, <1>7

(* The steps that Lock and Watch share.                                    *)
LEMMA TypeCall ==
    ASSUME TypeOK, NEW p \in Callers, List(p) \/ Pick(p) \/ \E s \in Sessions : ReadProps(p, s)
    PROVE  TypeOK'
<1>1. UNCHANGED <<present, foreground, hint, changes, signals, last>>
  BY DEF List, Pick, ReadProps, world
<1>2. ASSUME NEW c \in CallState, call' = [call EXCEPT ![p] = c],
             p = "watch" /\ c.at = "wait" => last # "none",
             errors' \in 0 .. MaxErrors, disturbed' \in [Callers -> BOOLEAN]
      PROVE  TypeOK'
  BY <1>1, <1>2, TypeMoves DEF TypeOK
<1>3. CASE Fails(p)
  BY <1>2, <1>3, FailsType
<1>4. CASE List(p) /\ ~Fails(p)
  <2>1. [At("props") EXCEPT !.todo = present] \in CallState
        /\ [At("props") EXCEPT !.todo = present].at = "props"
    BY AtPlaces DEF CallState, TypeOK
  <2>2. QED
    BY <1>2, <1>4, <2>1 DEF List, TypeOK
<1>5. ASSUME NEW s \in Sessions, ReadProps(p, s) PROVE TypeOK'
  <2>1. PICK d \in CallState : d.at = "props" /\ call' = [call EXCEPT ![p] = d]
    BY <1>5, ReadsOne
  <2>2. CASE UNCHANGED <<errors, disturbed>>
    BY <1>2, <2>1, <2>2 DEF TypeOK
  <2>3. CASE errors < MaxErrors /\ errors' = errors + 1 /\ disturbed' = [disturbed EXCEPT ![p] = TRUE]
    <3>1. errors' \in 0 .. MaxErrors /\ disturbed' \in [Callers -> BOOLEAN]
      BY <2>3, LogindAssumption DEF TypeOK
    <3>2. QED
      BY <1>2, <2>1, <3>1
  <2>4. QED
    BY <1>5, <2>2, <2>3 DEF ReadProps
<1>6. CASE Pick(p)
  <2>1. Failed(p) \in CallState /\ (Failed(p).at = "wait" => p = "watch" /\ last # "none")
    BY AtPlaces DEF Failed
  <2>2. \A t \in Sessions : [At("use") EXCEPT !.target = t] \in CallState
                            /\ [At("use") EXCEPT !.target = t].at = "use"
    BY AtPlaces DEF CallState
  <2>3. Best(call[p].read) \subseteq Sessions
    BY CallStateParts, IsReading DEF Best, TypeOK
  <2>4. UNCHANGED <<errors, disturbed>>
    BY <1>6 DEF Pick
  <2>5. QED
    BY <1>2, <1>6, <2>1, <2>2, <2>3, <2>4 DEF Pick, TypeOK
<1>7. QED
  BY <1>3, <1>4, <1>5, <1>6

(* What Lock and Watch do around them: what Watch reports is a reading.    *)
LEMMA TypeAround ==
    ASSUME TypeOK, call["watch"].at = "report" => call["watch"].value \in Reading,
           \/ CallLock \/ AskSession \/ LockReturns
           \/ StartWatch \/ TakeSignal \/ ReadHint \/ Report \/ CancelWatch
    PROVE  TypeOK'
<1>1. UNCHANGED <<present, foreground, hint, changes>>
  BY DEF CallLock, AskSession, LockReturns, StartWatch, TakeSignal, ReadHint, Report, CancelWatch, world
<1>2. call["lock"] \in CallState /\ call["watch"] \in CallState /\ {"lock", "watch"} = Callers
  BY DEF TypeOK, Callers
<1>3. /\ signals \in 0 .. MaxSignals /\ 0 \in 0 .. MaxSignals /\ last \in Reading \cup {"none"}
      /\ errors \in 0 .. MaxErrors /\ disturbed \in [Callers -> BOOLEAN]
  BY LogindAssumption DEF TypeOK
<1>4. \A at \in {"off", "wait", "list", "report"} : At(at) \in CallState /\ At(at).at = at
  BY AtPlaces
<1>5. ASSUME NEW p \in Callers, Fails(p), UNCHANGED <<signals, last>> PROVE TypeOK'
  <2>1. /\ call' = [call EXCEPT ![p] = Failed(p)] /\ Failed(p) \in CallState
        /\ (Failed(p).at = "wait" => last # "none")
        /\ errors' \in 0 .. MaxErrors /\ disturbed' \in [Callers -> BOOLEAN]
    BY <1>5, FailsType
  <2>2. last' = last /\ signals' = signals
    BY <1>5
  <2>3. QED
    BY <1>1, <1>3, <2>1, <2>2, TypeMoves
<1>6. CASE CallLock \/ LockReturns
  BY <1>1, <1>2, <1>3, <1>4, <1>6, TypeMoves DEF CallLock, LockReturns
<1>7. CASE AskSession /\ UNCHANGED <<errors, disturbed>>
  <2>1. \/ call' = [call EXCEPT !["lock"] = [call["lock"] EXCEPT !.at = "done"]]
        \/ call' = [call EXCEPT !["lock"] = At("off")]
        \/ Fails("lock")
    BY <1>7 DEF AskSession
  <2>2. [call["lock"] EXCEPT !.at = "done"] \in CallState
    BY <1>2 DEF CallState
  <2>3. UNCHANGED <<signals, last>>
    BY <1>7 DEF AskSession
  <2>4. QED
    BY <1>1, <1>2, <1>3, <1>4, <1>5, <1>7, <2>1, <2>2, <2>3, TypeMoves
<1>8. CASE StartWatch \/ TakeSignal \/ CancelWatch
  <2>1. signals' \in 0 .. MaxSignals /\ last' \in Reading \cup {"none"} /\ UNCHANGED <<errors, disturbed>>
    <3>1. CASE StartWatch \/ CancelWatch
      BY <1>3, <3>1 DEF StartWatch, CancelWatch
    <3>2. CASE TakeSignal
      BY <1>3, <3>2, LogindAssumption DEF TakeSignal
    <3>3. QED
      BY <1>8, <3>1, <3>2
  <2>2. call' = [call EXCEPT !["watch"] = At("list")] \/ call' = [call EXCEPT !["watch"] = At("off")]
    BY <1>8 DEF StartWatch, TakeSignal, CancelWatch
  <2>3. QED
    BY <1>1, <1>2, <1>3, <1>4, <2>1, <2>2, TypeMoves
<1>9. CASE ReadHint /\ UNCHANGED <<errors, disturbed>>
  <2>1. PICK s : \/ /\ s \in present
                    /\ call' = [call EXCEPT !["watch"] = [At("report") EXCEPT !.value = hint[s]]]
                 \/ call' = [call EXCEPT !["watch"] = Failed("watch")]
    BY <1>9 DEF ReadHint, Fails
  <2>2. UNCHANGED <<signals, last>>
    BY <1>9 DEF ReadHint
  <2>3. s \in present => /\ [At("report") EXCEPT !.value = hint[s]] \in CallState
                        /\ [At("report") EXCEPT !.value = hint[s]].at = "report"
    BY <1>4 DEF CallState, TypeOK
  <2>4. Failed("watch") \in CallState /\ (Failed("watch").at = "wait" => last # "none")
    BY <1>4 DEF Failed
  <2>5. QED
    BY <1>1, <1>2, <1>3, <1>9, <2>1, <2>2, <2>3, <2>4, TypeMoves
<1>10. CASE Report
  BY <1>1, <1>2, <1>3, <1>4, <1>10, TypeMoves DEF Report, Reading
<1>11. QED
  BY <1>5, <1>6, <1>7, <1>8, <1>9, <1>10 DEF AskSession, ReadHint, Callers

-----------------------------------------------------------------------------
(* The world changes while calls are under way: each is disturbed, or only *)
(* a hint changed, and then a signal goes to a Watch that has subscribed.  *)
LEMMA InvWorld ==
    ASSUME TypeOK, LogindInv, NEW s \in Sessions \cup {NoSession},
           \/ s \in Sessions /\ (SetHint(s) \/ LogIn(s) \/ LogOut(s))
           \/ Switch(s)
    PROVE  LogindInv'
<1>1. CASE s \in Sessions /\ SetHint(s)
  <2>1. UNCHANGED <<present, foreground, call, last, disturbed>> /\ Tracked' = Tracked
    BY <1>1, TrackedFrame DEF SetHint
  <2>2. CallInv'
    BY <2>1 DEF LogindInv, CallInv, ReadInv, TargetInv, Truth
  <2>3. call["watch"].at # "off" => signals' # 0
    BY <1>1 DEF SetHint, Subscribed, TypeOK
  <2>4. WatchInv'
    BY <2>1, <2>3 DEF LogindInv, WatchInv, Quiet
  <2>5. QED
    BY <2>2, <2>4 DEF LogindInv
<1>2. CASE Disturb
  <2>1. call' = call /\ \A p \in Callers : disturbed'[p] = TRUE
    BY <1>2 DEF Disturb
  <2>2. CallInv'
    BY <2>1 DEF LogindInv, CallInv, ReadInv, TargetInv
  <2>3. WatchInv'
    BY <2>1 DEF LogindInv, WatchInv, Quiet, Callers
  <2>4. QED
    BY <2>2, <2>3 DEF LogindInv
<1>3. QED
  BY <1>1, <1>2 DEF LogIn, LogOut, Switch

(* One call moves on, and who is present and in front is as it was.        *)
LEMMA InvMoves ==
    ASSUME TypeOK, LogindInv, NEW p \in Callers, NEW c \in CallState,
           UNCHANGED <<present, foreground>>, call' = [call EXCEPT ![p] = c],
           \A q \in Callers \ {p} : disturbed'[q] = disturbed[q],
           c.at = "props" => ReadInv(p)',
           c.at \in {"use", "done"} => TargetInv(p)'
    PROVE  CallInv'
<1>1. call'[p] = c /\ Tracked' = Tracked
  BY TrackedFrame DEF TypeOK
<1>2. ASSUME NEW q \in Callers \ {p}
      PROVE  /\ call'[q].at = "props" => ReadInv(q)'
             /\ call'[q].at \in {"use", "done"} => TargetInv(q)'
  <2>1. call'[q] = call[q] /\ disturbed'[q] = disturbed[q]
    BY <1>2 DEF TypeOK
  <2>2. QED
    BY <1>1, <2>1 DEF LogindInv, CallInv, ReadInv, TargetInv, Truth
<1>3. QED
  BY <1>1, <1>2 DEF CallInv

LEMMA WatchMoves ==
    ASSUME TypeOK, LogindInv, NEW p \in Callers, NEW c \in CallState,
           UNCHANGED <<present, foreground, hint>>, call' = [call EXCEPT ![p] = c],
           p = "lock" => /\ c.at \notin {"wait", "report"}
                         /\ UNCHANGED <<signals, last>> /\ disturbed'["watch"] = disturbed["watch"],
           p = "watch" =>
               /\ c.at # "done"
               /\ c.at = "report" =>
                     c.value \in Reading /\ (Quiet' => \E s \in Tracked : c.value = hint[s])
               /\ c.at = "wait" /\ Quiet' /\ Tracked # {} => \E s \in Tracked : last' = hint[s]
    PROVE  WatchInv'
<1>1. Tracked' = Tracked /\ hint' = hint
  BY TrackedFrame
<1>2. CASE p = "lock"
  <2>1. call'["lock"] = c /\ call'["watch"] = call["watch"] /\ (Quiet' <=> Quiet) /\ last' = last
    BY <1>2 DEF TypeOK, Callers, Quiet
  <2>2. QED
    BY <1>1, <1>2, <2>1 DEF LogindInv, WatchInv
<1>3. CASE p = "watch"
  <2>1. call'["watch"] = c /\ call'["lock"] = call["lock"]
    BY <1>3 DEF TypeOK, Callers
  <2>2. QED
    BY <1>1, <1>3, <2>1 DEF LogindInv, WatchInv
<1>4. QED
  BY <1>2, <1>3 DEF Callers

LEMMA InvFails ==
    ASSUME TypeOK, LogindInv, NEW p \in Callers, Fails(p),
           UNCHANGED <<present, foreground, hint, signals, last>>
    PROVE  LogindInv'
<1>1. /\ call' = [call EXCEPT ![p] = Failed(p)] /\ Failed(p) \in CallState
      /\ Failed(p).at \in {"wait", "off"} /\ (Failed(p).at = "wait" => p = "watch")
      /\ disturbed'[p] = TRUE /\ \A q \in Callers \ {p} : disturbed'[q] = disturbed[q]
  BY FailsType
<1>2. CallInv'
  BY <1>1, InvMoves
<1>3. p = "watch" => ~Quiet'
  BY <1>1 DEF Quiet
<1>4. p = "lock" => disturbed'["watch"] = disturbed["watch"]
  BY <1>1 DEF Callers
<1>5. WatchInv'
  BY <1>1, <1>3, <1>4, WatchMoves
<1>6. QED
  BY <1>2, <1>5 DEF LogindInv

(* A call whose pick found nothing or whose session is gone gives up: if   *)
(* nothing disturbed it there was nothing to track.                        *)
LEMMA InvGivesUp ==
    ASSUME TypeOK, LogindInv, NEW p \in Callers, call' = [call EXCEPT ![p] = Failed(p)],
           ~disturbed[p] => Tracked = {},
           UNCHANGED <<present, foreground, hint, signals, last, disturbed>>
    PROVE  LogindInv'
<1>1. /\ Failed(p) \in CallState /\ Failed(p).at \in {"wait", "off"}
      /\ (Failed(p).at = "wait" => p = "watch")
  BY AtPlaces DEF Failed
<1>2. CallInv'
  BY <1>1, InvMoves
<1>3. p = "watch" => ~Quiet' \/ Tracked = {}
  BY DEF Quiet
<1>4. WatchInv'
  BY <1>1, <1>3, WatchMoves
<1>5. QED
  BY <1>2, <1>4 DEF LogindInv

LEMMA InvList == \A p \in Callers : TypeOK /\ LogindInv /\ List(p) => LogindInv'
<1> SUFFICES ASSUME NEW p \in Callers, TypeOK, LogindInv, List(p) PROVE LogindInv'
    OBVIOUS
<1>1. UNCHANGED <<present, foreground, hint, signals, last>>
  BY DEF List, world
<1>2. CASE Fails(p)
  BY <1>1, <1>2, InvFails
<1>3. CASE ~Fails(p)
  <2> DEFINE c == [At("props") EXCEPT !.todo = present]
  <2>1. c \in CallState /\ c.at = "props" /\ c.todo = present /\ DOMAIN c.read = {}
    BY AtPlaces DEF CallState, TypeOK, At
  <2>2. call' = [call EXCEPT ![p] = c] /\ disturbed' = [disturbed EXCEPT ![p] = FALSE]
    BY <1>3 DEF List
  <2> HIDE DEF c
  <2>3. call'[p] = c /\ \A q \in Callers \ {p} : disturbed'[q] = disturbed[q]
    BY <2>2 DEF TypeOK
  <2>4. ReadInv(p)'
    BY <1>1, <2>1, <2>3 DEF ReadInv
  <2>5. CallInv'
    BY <1>1, <2>1, <2>2, <2>3, <2>4, InvMoves
  <2>6. p = "lock" => disturbed'["watch"] = disturbed["watch"]
    BY <2>3 DEF Callers
  <2>7. WatchInv'
    BY <1>1, <2>1, <2>2, <2>6, WatchMoves
  <2>8. QED
    BY <2>5, <2>7 DEF LogindInv
<1>4. QED
  BY <1>2, <1>3

LEMMA InvPick == \A p \in Callers : TypeOK /\ LogindInv /\ Pick(p) => LogindInv'
<1> SUFFICES ASSUME NEW p \in Callers, TypeOK, LogindInv, Pick(p) PROVE LogindInv'
    OBVIOUS
<1> DEFINE r == call[p].read
<1>1. /\ UNCHANGED <<present, foreground, hint, signals, last, disturbed>>
      /\ call[p].at = "props" /\ call[p].todo = {}
  BY DEF Pick, world
<1>2. r \in Readings /\ ReadInv(p)
  BY <1>1, CallStateParts DEF LogindInv, CallInv, TypeOK
<1>3. ~disturbed[p] => Best(r) = Tracked
  BY <1>1, <1>2, TruthTracks DEF ReadInv
<1>4. Best(r) \subseteq Sessions \ Managers
  BY <1>2, IsReading DEF ReadInv, Best
<1>5. CASE Best(r) = {}
  BY <1>1, <1>3, <1>5, InvGivesUp DEF Pick
<1>6. ASSUME NEW s \in Best(r), call' = [call EXCEPT ![p] = [At("use") EXCEPT !.target = s]]
      PROVE  LogindInv'
  <2> DEFINE c == [At("use") EXCEPT !.target = s]
  <2>1. c \in CallState /\ c.at = "use" /\ c.target = s
    BY <1>4, AtPlaces DEF CallState, At
  <2> HIDE DEF c
  <2>2. call'[p] = c /\ Tracked' = Tracked /\ disturbed' = disturbed
    BY <1>1, <1>6, TrackedFrame DEF TypeOK, c
  <2>3. TargetInv(p)'
    BY <1>3, <1>4, <2>1, <2>2 DEF TargetInv
  <2>4. call' = [call EXCEPT ![p] = c]
    BY <1>6 DEF c
  <2>5. CallInv'
    BY <1>1, <2>1, <2>3, <2>4, InvMoves
  <2>6. WatchInv'
    BY <1>1, <2>1, <2>4, WatchMoves
  <2>7. QED
    BY <2>5, <2>6 DEF LogindInv
<1>7. QED
  BY <1>5, <1>6 DEF Pick

LEMMA InvReadProps ==
    \A p \in Callers : \A s \in Sessions : TypeOK /\ LogindInv /\ ReadProps(p, s) => LogindInv'
<1> SUFFICES ASSUME NEW p \in Callers, NEW s \in Sessions, TypeOK, LogindInv, ReadProps(p, s)
             PROVE  LogindInv'
    OBVIOUS
<1>1. /\ UNCHANGED <<present, foreground, hint, signals, last>>
      /\ call[p].at = "props" /\ s \in call[p].todo
  BY DEF ReadProps, world
<1>2. ReadInv(p)
  BY <1>1 DEF LogindInv, CallInv
<1>3. PICK c \in IF s \in present THEN {Truth(s)} \cup Unread(s) ELSE {Unreadable} :
      \E d \in CallState :
          /\ call' = [call EXCEPT ![p] = d]
          /\ d.at = "props" /\ d.todo = call[p].todo \ {s}
          /\ d.read = [t \in DOMAIN call[p].read \cup {s} |-> IF t = s THEN c ELSE call[p].read[t]]
          /\ \/ UNCHANGED disturbed /\ (s \notin present \/ c = Truth(s))
             \/ disturbed' = [disturbed EXCEPT ![p] = TRUE]
  BY ReadsOne
<1>4. PICK d \in CallState :
          /\ call' = [call EXCEPT ![p] = d]
          /\ d.at = "props" /\ d.todo = call[p].todo \ {s}
          /\ d.read = [t \in DOMAIN call[p].read \cup {s} |-> IF t = s THEN c ELSE call[p].read[t]]
          /\ \/ UNCHANGED disturbed /\ (s \notin present \/ c = Truth(s))
             \/ disturbed' = [disturbed EXCEPT ![p] = TRUE]
  BY <1>3
<1>5. call'[p] = d /\ \A q \in Callers \ {p} : disturbed'[q] = disturbed[q]
  BY <1>4 DEF TypeOK
<1>6. s \in Managers => ~IsLockable(c)
  BY UnreadAreCandidates
<1>7. \A t \in DOMAIN d.read : t \in Managers => ~IsLockable(d.read[t])
  BY <1>2, <1>4, <1>6 DEF ReadInv
<1>8. ASSUME ~disturbed'[p]
      PROVE  DOMAIN d.read \cup d.todo = present /\ \A t \in DOMAIN d.read : d.read[t] = Truth(t)
  <2>1. ~disturbed[p] /\ (s \notin present \/ c = Truth(s))
    BY <1>4, <1>8 DEF TypeOK
  <2>2. DOMAIN call[p].read \cup call[p].todo = present /\ s \in present
    BY <1>1, <1>2, <2>1 DEF ReadInv
  <2>3. QED
    BY <1>1, <1>2, <1>4, <2>1, <2>2 DEF ReadInv
<1>9. ReadInv(p)'
  BY <1>1, <1>5, <1>7, <1>8 DEF ReadInv, Truth
<1>10. CallInv'
  BY <1>1, <1>4, <1>5, <1>9, InvMoves
<1>11. p = "lock" => disturbed'["watch"] = disturbed["watch"]
  BY <1>5 DEF Callers
<1>12. WatchInv'
  BY <1>1, <1>4, <1>11, WatchMoves
<1>13. QED
  BY <1>10, <1>12 DEF LogindInv

-----------------------------------------------------------------------------
LEMMA InvAround ==
    ASSUME TypeOK, LogindInv,
           \/ CallLock \/ AskSession \/ LockReturns
           \/ StartWatch \/ TakeSignal \/ ReadHint \/ Report \/ CancelWatch
    PROVE  LogindInv'
<1>1. UNCHANGED <<present, foreground, hint>>
  BY DEF CallLock, AskSession, LockReturns, StartWatch, TakeSignal, ReadHint, Report, CancelWatch, world
<1>2. call["lock"] \in CallState /\ call["watch"] \in CallState /\ Callers = {"lock", "watch"}
  BY DEF TypeOK, Callers
<1>3. ASSUME NEW p \in Callers, Fails(p), UNCHANGED <<signals, last>> PROVE LogindInv'
  BY <1>1, <1>3, InvFails
<1>4. ASSUME NEW p \in Callers, NEW place \in {"off", "list"}, call' = [call EXCEPT ![p] = At(place)],
             p = "lock" => UNCHANGED <<signals, last>>, UNCHANGED disturbed
      PROVE  LogindInv'
  <2>1. At(place) \in CallState /\ At(place).at = place
    BY AtPlaces
  <2>2. QED
    BY <1>1, <1>4, <2>1, InvMoves, WatchMoves DEF LogindInv
<1>5. CASE CallLock \/ LockReturns \/ StartWatch \/ TakeSignal \/ CancelWatch
  BY <1>2, <1>4, <1>5 DEF CallLock, LockReturns, StartWatch, TakeSignal, CancelWatch
<1>6. CASE AskSession
  <2>1. CASE Fails("lock")
    BY <1>2, <1>3, <1>6, <2>1 DEF AskSession
  <2>2. CASE call' = [call EXCEPT !["lock"] = At("off")] /\ UNCHANGED disturbed
    BY <1>2, <1>4, <1>6, <2>2 DEF AskSession
  <2>3. CASE call' = [call EXCEPT !["lock"].at = "done"] /\ UNCHANGED disturbed
    <3> DEFINE c == [call["lock"] EXCEPT !.at = "done"]
    <3>1. c \in CallState /\ c.at = "done" /\ c.target = call["lock"].target
      BY <1>2 DEF CallState
    <3>2. call' = [call EXCEPT !["lock"] = c]
      BY <2>3
    <3> HIDE DEF c
    <3>3. TargetInv("lock")
      BY <1>2, <1>6 DEF AskSession, LogindInv, CallInv
    <3>4. TargetInv("lock")'
      BY <1>1, <1>2, <2>3, <3>1, <3>2, <3>3, TrackedFrame DEF TargetInv, TypeOK
    <3>5. CallInv'
      BY <1>1, <1>2, <2>3, <3>1, <3>2, <3>4, InvMoves
    <3>6. WatchInv'
      BY <1>1, <1>2, <1>6, <2>3, <3>1, <3>2, WatchMoves DEF AskSession
    <3>7. QED
      BY <3>5, <3>6 DEF LogindInv
  <2>4. QED
    BY <1>6, <2>1, <2>2, <2>3 DEF AskSession
<1>7. CASE ReadHint
  <2> DEFINE s == call["watch"].target
             c == [At("report") EXCEPT !.value = hint[s]]
  <2>1. TargetInv("watch") /\ UNCHANGED <<signals, last>>
    BY <1>2, <1>7 DEF ReadHint, LogindInv, CallInv
  <2>2. CASE Fails("watch")
    BY <1>2, <1>3, <2>1, <2>2
  <2>3. CASE s \notin present /\ call' = [call EXCEPT !["watch"] = Failed("watch")] /\ UNCHANGED disturbed
    <3>1. disturbed["watch"]
      BY <2>1, <2>3, TrackedPresent DEF TargetInv
    <3>2. QED
      BY <1>1, <1>2, <2>1, <2>3, <3>1, InvGivesUp
  <2>4. CASE s \in present /\ call' = [call EXCEPT !["watch"] = c] /\ UNCHANGED disturbed
    <3>1. c \in CallState /\ c.at = "report" /\ c.value = hint[s] /\ hint[s] \in Reading
      BY <2>4, AtPlaces DEF CallState, TypeOK, At
    <3> HIDE DEF c
    <3>2. Quiet' => \E t \in Tracked : c.value = hint[t]
      BY <2>1, <2>4, <3>1 DEF Quiet, TargetInv
    <3>3. CallInv'
      BY <1>1, <1>2, <2>4, <3>1, InvMoves
    <3>4. WatchInv'
      BY <1>1, <1>2, <2>4, <3>1, <3>2, WatchMoves
    <3>5. QED
      BY <3>3, <3>4 DEF LogindInv
  <2>5. QED
    BY <1>7, <2>2, <2>3, <2>4 DEF ReadHint
<1>8. CASE Report
  <2>1. /\ call' = [call EXCEPT !["watch"] = At("wait")] /\ last' = call["watch"].value
        /\ UNCHANGED <<signals, disturbed>> /\ call["watch"].at = "report"
    BY <1>8 DEF Report
  <2>2. At("wait") \in CallState /\ At("wait").at = "wait"
    BY AtPlaces
  <2>3. Quiet' => \E s \in Tracked : last' = hint[s]
    BY <2>1 DEF Quiet, LogindInv, WatchInv
  <2>4. CallInv'
    BY <1>1, <1>2, <2>1, <2>2, InvMoves
  <2>5. WatchInv'
    BY <1>1, <1>2, <2>1, <2>2, <2>3, WatchMoves
  <2>6. QED
    BY <2>4, <2>5 DEF LogindInv
<1>9. QED
  BY <1>5, <1>6, <1>7, <1>8

-----------------------------------------------------------------------------
LEMMA InvInit == Init => LogindInv
<1>1. Init => \A p \in Callers : call[p].at = "off"
  BY AtPlaces DEF Init
<1>2. QED
  BY <1>1 DEF Init, LogindInv, CallInv, WatchInv, Callers

LEMMA Step == TypeOK /\ LogindInv /\ [Next]_vars => TypeOK' /\ LogindInv'
<1> SUFFICES ASSUME TypeOK, LogindInv, [Next]_vars PROVE TypeOK' /\ LogindInv'
    OBVIOUS
<1>1. CASE \/ \E s \in Sessions : SetHint(s) \/ LogIn(s) \/ LogOut(s)
          \/ \E s \in Seated \cup {NoSession} : Switch(s)
  BY <1>1, TypeWorld, InvWorld, LogindAssumption
<1>2. CASE \E p \in Callers : List(p) \/ Pick(p) \/ \E s \in Sessions : ReadProps(p, s)
  BY <1>2, TypeCall, InvList, InvPick, InvReadProps
<1>3. CASE \/ CallLock \/ AskSession \/ LockReturns
          \/ StartWatch \/ TakeSignal \/ ReadHint \/ Report \/ CancelWatch
  <2>1. call["watch"].at = "report" => call["watch"].value \in Reading
    BY DEF LogindInv, WatchInv
  <2>2. QED
    BY <1>3, <2>1, TypeAround, InvAround
<1>4. CASE UNCHANGED vars
  <2>1. Tracked' = Tracked
    BY <1>4, TrackedFrame DEF vars, world
  <2>2. QED
    BY <1>4, <2>1 DEF vars, world, TypeOK, LogindInv, CallInv, ReadInv, TargetInv, WatchInv, Quiet, Truth
<1>5. QED
  BY <1>1, <1>2, <1>3, <1>4 DEF Next

(* The types, of what the calls have read so far in particular, and a Watch*)
(* that waits has reported.                                                *)
THEOREM TypeCorrect == Spec => []TypeOK
BY TypeInit, InvInit, Step, PTL DEF Spec

(* Lock asks a real user session, and one that no other outranks unless    *)
(* something changed or failed meanwhile (logind.Lock, pickCandidate).     *)
THEOREM LocksTheRightSession == Spec => []LockTarget
<1>1. TypeOK /\ LogindInv => LockTarget
  BY DEF LogindInv, CallInv, TargetInv, LockTarget, Callers
<1>2. QED
  BY <1>1, TypeInit, InvInit, Step, PTL DEF Spec

(* A Watch with nothing left to handle has reported the present state      *)
(* unless something changed or failed since it last listed (logind.Watch). *)
THEOREM WatchKeepsUp == Spec => []WatchIsCurrent
<1>1. TypeOK /\ LogindInv => WatchIsCurrent
  BY DEF LogindInv, WatchInv, WatchIsCurrent, WatchIdle, Quiet
<1>2. QED
  BY <1>1, TypeInit, InvInit, Step, PTL DEF Spec
=============================================================================
