----------------------------- MODULE CoreProofs -----------------------------
(***************************************************************************)
(* Replay protection of internal/core, proved for every skew, every stall, *)
(* every amount of clock setting and any number of restarts.               *)
(*                                                                         *)
(* AtMostOnce is not inductive: it says nothing of the cache or the clocks.*)
(* CoreInv adds the two facts that carry it.  Remembered: a nonce that was *)
(* accepted is in the cache, or a whole NonceTTL has passed.  Drift: since *)
(* a command was checked the wall clock has advanced at least as much as   *)
(* the monotonic clock, but for the seconds it was set back.  So when the  *)
(* cache has forgotten a command, its timestamp is too old.                *)
(***************************************************************************)
EXTENDS Core, TLAPS

(* A nonce stays in the cache for NonceTTL after it was last accepted.     *)
Remembered ==
    \A e \in accepts :
        e.life = life =>
            \/ e.cmd.nonce \in DOMAIN seen /\ seen[e.cmd.nonce] >= e.at
            \/ mono - e.at > NonceTTL

(* Every record was fresh when it was checked and is not from the future.  *)
Recorded ==
    \A e \in accepts :
        /\ e.life <= life
        /\ e.at <= mono
        /\ e.wall - e.cmd.ts <= MaxSkew

(* The wall clock against the monotonic clock since a record was made.     *)
Drift ==
    \A e \in accepts : wall + stepped - mono >= e.wall - e.at

(* The command between its two clock readings.                             *)
Checked ==
    pc = "add" =>
        /\ check.wall - cur.ts <= MaxSkew
        /\ check.mono <= mono
        /\ mono - check.mono <= MaxStall
        /\ wall + stepped - mono >= check.wall - check.mono
        /\ \A e \in accepts :
              check.wall + MaxStepBack - check.mono >= e.wall - e.at

CoreInv ==
    /\ TypeOK
    /\ Remembered
    /\ Recorded
    /\ Drift
    /\ Checked
    /\ AtMostOnce

(* The nonces in the cache are those for which the session layer was asked *)
(* and the one that is about to be.                                        *)
AskedInv ==
    /\ TypeOK
    /\ DOMAIN seen \subseteq asked \cup (IF pc = "lock" THEN {cur.nonce} ELSE {})
    /\ ReplayRefusalMeansAsked

-----------------------------------------------------------------------------
(* What the handler keeps of a command, and what it answers.               *)
LEMMA CommandFacts ==
    ASSUME NEW c \in Command
    PROVE  /\ c.ts \in Nat
           /\ c.nonce \in Nonces \cup {NoNonce}
BY CoreAssumption DEF Command, Stamps

LEMMA LockResultType ==
    ASSUME NEW n \in Nonces \cup {NoNonce}, NEW ok \in BOOLEAN, NEW e \in Errors
    PROVE  LockResult(n, ok, e) \in Reply
BY DEF LockResult, Reply

LEMMA StatusReplyType ==
    ASSUME NEW reading
    PROVE  StatusReply(reading) \in Reply
BY DEF StatusReply, Reply, Errors

LEMMA InitialValues == NoCommand \in Command /\ NoReply \in Reply /\ NoCheck \in ClockReading
BY CoreAssumption DEF NoCommand, Command, Stamps, NoReply, Reply, Errors, NoCheck, ClockReading

-----------------------------------------------------------------------------
LEMMA TypeInit == Init => TypeOK
BY InitialValues, CoreAssumption DEF Init, TypeOK

LEMMA TypeStep == TypeOK /\ [Next]_vars => TypeOK'
<1> SUFFICES ASSUME TypeOK, [Next]_vars PROVE TypeOK'
    OBVIOUS
<1> USE CoreAssumption
<1>1. CASE Tick
  BY <1>1 DEF Tick, TypeOK
<1>2. CASE StepBack
  BY <1>2 DEF StepBack, TypeOK
<1>3. CASE StepForward
  BY <1>3 DEF StepForward, TypeOK
<1>4. ASSUME NEW c \in Command, CheckTimestamp(c) PROVE TypeOK'
  <2>1. c.nonce # NoNonce => c.nonce \in Nonces
    BY CommandFacts
  <2>2. Clocks \in ClockReading
    BY DEF TypeOK, Clocks, ClockReading
  <2>3. CASE out' = NoReply /\ pc' = "add" /\ cur' = c /\ check' = Clocks /\ c.nonce # NoNonce
    BY <1>4, <2>1, <2>2, <2>3, InitialValues DEF CheckTimestamp, TypeOK, clocks
  <2>4. ASSUME NEW why \in Errors, Refuse(c, why), UNCHANGED check PROVE TypeOK'
    <3>1. LockResult(c.nonce, FALSE, why) \in Reply
      BY CommandFacts, LockResultType
    <3>2. QED
      BY <1>4, <2>4, <3>1, InitialValues DEF CheckTimestamp, Refuse, TypeOK, clocks
  <2>5. QED
    BY <1>4, <2>3, <2>4 DEF CheckTimestamp, Errors
<1>5. CASE AddNonce
  <2>1. cur.nonce \in Nonces /\ cur \in Command
    BY <1>5 DEF AddNonce, TypeOK
  <2>2. Live \subseteq DOMAIN seen
    BY DEF Live
  <2>3. CASE cur.nonce \in Live
    <3>1. LockResult(cur.nonce, FALSE, "replayed nonce") \in Reply
      BY <2>1, LockResultType DEF Errors
    <3>2. QED
      BY <1>5, <2>1, <2>2, <2>3, <3>1, InitialValues DEF AddNonce, Refuse, TypeOK, clocks
  <2>4. CASE cur.nonce \notin Live
    <3>1. DOMAIN seen' \subseteq Nonces /\ \A n \in DOMAIN seen' : seen'[n] \in Nat
      BY <1>5, <2>1, <2>2, <2>4 DEF AddNonce, Remember, TypeOK
    <3>2. [cmd |-> cur, wall |-> check.wall, at |-> mono, life |-> life]
             \in [cmd : Command, wall : Int, at : Nat, life : Nat]
      BY <2>1 DEF TypeOK, ClockReading
    <3>3. QED
      BY <1>5, <2>1, <2>4, <3>1, <3>2, InitialValues DEF AddNonce, TypeOK, clocks
  <2>5. QED
    BY <2>3, <2>4
<1>6. CASE CallLock
  <2>1. PICK ok \in BOOLEAN :
            out' = LockResult(cur.nonce, ok, IF ok THEN "none" ELSE "session")
    BY <1>6 DEF CallLock
  <2>2. cur.nonce \in Nonces
    BY <1>6 DEF CallLock, TypeOK
  <2>3. out' \in Reply
    BY <2>1, <2>2, LockResultType DEF Errors
  <2>4. QED
    BY <1>6, <2>2, <2>3, InitialValues DEF CallLock, TypeOK, clocks
<1>7. CASE HandleStatus
  BY <1>7, StatusReplyType DEF HandleStatus, TypeOK, clocks
<1>8. CASE HandleUnknown
  BY <1>8, InitialValues DEF HandleUnknown, TypeOK, clocks
<1>9. CASE Restart
  BY <1>9, InitialValues DEF Restart, TypeOK, clocks
<1>10. CASE UNCHANGED vars
  BY <1>10 DEF vars, TypeOK
<1>11. QED
  BY <1>1, <1>2, <1>3, <1>4, <1>5, <1>6, <1>7, <1>8, <1>9, <1>10 DEF Next

(* The variables keep their types: the cache holds only nonces of the      *)
(* protocol, never the empty one, and a handler past the checks has one.   *)
THEOREM TypeCorrect == Spec => []TypeOK
BY TypeInit, TypeStep, PTL DEF Spec

-----------------------------------------------------------------------------
LEMMA CoreInvInit == Init => CoreInv
<1> SUFFICES ASSUME Init PROVE CoreInv
    OBVIOUS
<1>1. accepts = {} /\ pc = "idle"
  BY DEF Init
<1>2. QED
  BY <1>1, TypeInit DEF CoreInv, Remembered, Recorded, Drift, Checked, AtMostOnce

(* A record is of its type; the facts about it that arithmetic needs.      *)
LEMMA RecordFacts ==
    ASSUME TypeOK, NEW e \in accepts
    PROVE  /\ e.cmd \in Command /\ e.cmd.ts \in Nat
           /\ e.wall \in Int /\ e.at \in Nat /\ e.life \in Nat
BY CommandFacts DEF TypeOK

(* Steps that touch neither the cache, the records nor the life leave what *)
(* was remembered and recorded as it was, time only passing.               *)
LEMMA QuietStep ==
    ASSUME TypeOK, TypeOK', Remembered, Recorded, AtMostOnce,
           UNCHANGED <<seen, accepts, life>>, mono' >= mono
    PROVE  Remembered' /\ Recorded' /\ AtMostOnce'
<1> USE CoreAssumption
<1>1. Remembered'
  <2> SUFFICES ASSUME NEW e \in accepts, e.life = life
               PROVE  \/ e.cmd.nonce \in DOMAIN seen /\ seen[e.cmd.nonce] >= e.at
                      \/ mono' - e.at > NonceTTL
      BY DEF Remembered, NonceTTL
  <2>1. mono \in Nat /\ mono' \in Nat /\ e.at \in Nat /\ NonceTTL \in Nat
    BY RecordFacts DEF TypeOK, NonceTTL
  <2>2. QED
    BY <2>1 DEF Remembered
<1>2. Recorded'
  <2> SUFFICES ASSUME NEW e \in accepts
               PROVE  e.life <= life /\ e.at <= mono' /\ e.wall - e.cmd.ts <= MaxSkew
      BY DEF Recorded
  <2>1. QED
    BY RecordFacts DEF TypeOK, Recorded
<1>3. AtMostOnce'
  BY DEF AtMostOnce, Margin
<1>4. QED
  BY <1>1, <1>2, <1>3

(* A nonce that Live has dropped was accepted more than NonceTTL ago.      *)
LEMMA ForgottenIsOld ==
    ASSUME TypeOK, Remembered, NEW e \in accepts, e.life = life,
           e.cmd.nonce \notin Live
    PROVE  mono - e.at > NonceTTL
<1>1. mono \in Nat /\ e.at \in Nat /\ NonceTTL \in Nat
  BY RecordFacts, CoreAssumption DEF TypeOK, NonceTTL
<1>2. CASE e.cmd.nonce \in DOMAIN seen /\ seen[e.cmd.nonce] >= e.at
  <2>1. seen[e.cmd.nonce] \in Nat
    BY <1>2 DEF TypeOK
  <2>2. mono - seen[e.cmd.nonce] > NonceTTL
    BY <1>1, <1>2, <2>1 DEF Live
  <2>3. QED
    BY <1>1, <1>2, <2>1, <2>2
<1>3. QED
  BY <1>2 DEF Remembered

(* The heart of the argument: a command with margin enough that passes the *)
(* timestamp check again was first accepted at most NonceTTL ago.          *)
LEMMA FreshIsRecent ==
    ASSUME TypeOK, Checked, pc = "add", NEW e \in accepts, e.cmd = cur,
           Margin(e) >= MaxStall + MaxStepBack
    PROVE  mono - e.at <= NonceTTL
<1> USE CoreAssumption
<1> DEFINE ts == cur.ts  w == check.wall  m == check.mono  ew == e.wall  ea == e.at
<1>1. ts \in Nat /\ w \in Int /\ m \in Nat /\ ew \in Int /\ ea \in Nat /\ mono \in Nat
  BY RecordFacts, CommandFacts DEF TypeOK, ClockReading
<1>2. ew - (ts - MaxSkew) >= MaxStall + MaxStepBack
  BY DEF Margin
<1>3. w - ts <= MaxSkew /\ mono - m <= MaxStall /\ w + MaxStepBack - m >= ew - ea
  BY DEF Checked
<1>4. MaxSkew \in Nat /\ MaxStall \in Nat /\ MaxStepBack \in Nat
  OBVIOUS
<1> HIDE DEF ts, w, m, ew, ea
<1>5. mono - ea <= 2 * MaxSkew
  BY <1>1, <1>2, <1>3, <1>4
<1>6. QED
  BY <1>5 DEF NonceTTL, ea

-----------------------------------------------------------------------------
(* The clocks never run apart by more than the wall clock is set back.     *)
LEMMA ClockStep ==
    ASSUME TypeOK, Drift, Recorded, Checked,
           mono' \in Nat, wall' \in Int, stepped' \in Nat,
           wall' + stepped' - mono' >= wall + stepped - mono,
           mono' >= mono, pc = "add" => mono' - check.mono <= MaxStall,
           UNCHANGED <<accepts, pc, cur, check>>
    PROVE  Drift' /\ Checked'
<1> USE CoreAssumption
<1>1. mono \in Nat /\ wall \in Int /\ stepped \in Nat
      /\ check.mono \in Nat /\ check.wall \in Int
  BY DEF TypeOK, ClockReading
<1> DEFINE d == wall + stepped - mono  dp == wall' + stepped' - mono'
<1>2. d \in Int /\ dp \in Int /\ dp >= d
  <2>1. d \in Int /\ dp \in Int
    BY <1>1
  <2>2. dp >= d
    OBVIOUS
  <2>3. QED
    BY <2>1, <2>2
<1>3. Drift'
  <2> SUFFICES ASSUME NEW e \in accepts
               PROVE  dp >= e.wall - e.at
      BY DEF Drift
  <2>1. d >= e.wall - e.at /\ e.wall \in Int /\ e.at \in Int
    BY RecordFacts DEF Drift
  <2> HIDE DEF d, dp
  <2>2. QED
    BY <1>2, <2>1
<1>4. Checked'
  <2> SUFFICES ASSUME pc = "add"
               PROVE  check.mono <= mono' /\ dp >= check.wall - check.mono
      BY DEF Checked
  <2>1. check.mono <= mono /\ d >= check.wall - check.mono
    BY DEF Checked
  <2> HIDE DEF d, dp
  <2>2. QED
    BY <1>1, <1>2, <2>1
<1>5. QED
  BY <1>3, <1>4

LEMMA CheckStep ==
    ASSUME CoreInv, TypeOK', NEW c \in Command, CheckTimestamp(c)
    PROVE  CoreInv'
<1> USE CoreAssumption
<1>1. TypeOK /\ Remembered /\ Recorded /\ Drift /\ AtMostOnce
  BY DEF CoreInv
<1>2. UNCHANGED <<mono, wall, stepped, seen, accepts, life>>
  BY DEF CheckTimestamp, clocks
<1>3. mono \in Nat /\ wall \in Int /\ stepped \in Nat /\ stepped <= MaxStepBack
      /\ c.ts \in Nat
  BY <1>1, CommandFacts DEF TypeOK
<1>4. Remembered' /\ Recorded' /\ AtMostOnce'
  BY <1>1, <1>2, <1>3, QuietStep
<1>5. Drift'
  BY <1>1, <1>2 DEF Drift
<1>6. Checked'
  <2> SUFFICES ASSUME pc' = "add" PROVE Checked'
      BY DEF Checked
  <2>1. ~Stale(c) /\ cur' = c /\ check' = Clocks
    BY DEF CheckTimestamp, Refuse
  <2>2. wall - c.ts <= MaxSkew
    BY <1>3, <2>1 DEF Stale
  <2>3. \A e \in accepts : wall + MaxStepBack - mono >= e.wall - e.at
    <3> SUFFICES ASSUME NEW e \in accepts
                 PROVE  wall + MaxStepBack - mono >= e.wall - e.at
        OBVIOUS
    <3>1. wall + stepped - mono >= e.wall - e.at /\ e.wall \in Int /\ e.at \in Nat
      BY <1>1, RecordFacts DEF Drift
    <3>2. QED
      BY <1>3, <3>1
  <2>4. QED
    BY <1>2, <1>3, <2>1, <2>2, <2>3 DEF Checked, Clocks
<1>7. QED
  BY <1>4, <1>5, <1>6 DEF CoreInv

(* A nonce that is still in the cache is refused: nothing is recorded, and *)
(* what the pruning drops is old.                                          *)
LEMMA ReplayStep ==
    ASSUME CoreInv, TypeOK', AddNonce, cur.nonce \in Live
    PROVE  CoreInv'
<1> USE CoreAssumption
<1>1. TypeOK /\ Remembered /\ Recorded /\ Drift /\ AtMostOnce
  BY DEF CoreInv
<1>2. UNCHANGED <<mono, wall, stepped, accepts, life>> /\ pc' = "idle"
      /\ seen' = [n \in Live |-> seen[n]]
  BY DEF AddNonce, Refuse, clocks
<1>3. Remembered'
  <2> SUFFICES ASSUME NEW e \in accepts, e.life = life, e.cmd.nonce \in Live
               PROVE  \/ seen[e.cmd.nonce] >= e.at
                      \/ mono - e.at > NonceTTL
      BY <1>1, <1>2, ForgottenIsOld DEF Remembered, NonceTTL
  <2>1. QED
    BY <1>1 DEF Remembered
<1>4. Recorded' /\ Drift' /\ AtMostOnce'
  BY <1>1, <1>2 DEF Recorded, Drift, AtMostOnce, Margin
<1>5. Checked'
  BY <1>2 DEF Checked
<1>6. QED
  BY <1>3, <1>4, <1>5 DEF CoreInv

(* A nonce that is not in the cache is accepted.                           *)
LEMMA AcceptStep ==
    ASSUME CoreInv, TypeOK', AddNonce, cur.nonce \notin Live
    PROVE  CoreInv'
<1> USE CoreAssumption
<1> DEFINE new == [cmd |-> cur, wall |-> check.wall, at |-> mono, life |-> life]
<1>1. TypeOK /\ Remembered /\ Recorded /\ Drift /\ Checked /\ AtMostOnce
  BY DEF CoreInv
<1>2. /\ UNCHANGED <<mono, wall, stepped, life>>
      /\ pc = "add" /\ pc' = "lock"
      /\ seen' = Remember(Live, cur.nonce)
      /\ accepts' = accepts \cup {new}
  BY DEF AddNonce, clocks
<1>3. /\ mono \in Nat /\ wall \in Int /\ stepped \in Nat /\ life \in Nat
      /\ check.wall \in Int /\ check.mono \in Nat /\ cur.ts \in Nat
      /\ NonceTTL \in Nat
  BY <1>1, CommandFacts DEF TypeOK, ClockReading, NonceTTL
<1>4. new.cmd = cur /\ new.wall = check.wall /\ new.at = mono /\ new.life = life
  OBVIOUS
<1>5. cur.nonce \in DOMAIN seen' /\ seen'[cur.nonce] = mono
  BY <1>2 DEF Remember
<1>6. Remembered'
  <2> SUFFICES ASSUME NEW e \in accepts', e.life = life
               PROVE  \/ e.cmd.nonce \in DOMAIN seen' /\ seen'[e.cmd.nonce] >= e.at
                      \/ mono - e.at > NonceTTL
      BY <1>2 DEF Remembered, NonceTTL
  <2>1. CASE e.cmd.nonce = cur.nonce
    <3>1. e.at <= mono
      BY <1>1, <1>2, <1>3, <1>4 DEF Recorded
    <3>2. QED
      BY <1>5, <2>1, <3>1
  <2>2. CASE e.cmd.nonce # cur.nonce
    <3>1. e \in accepts
      BY <1>2, <1>4, <2>2
    <3>2. CASE e.cmd.nonce \in Live
      <4>1. e.cmd.nonce \in DOMAIN seen' /\ seen'[e.cmd.nonce] = seen[e.cmd.nonce]
        BY <1>2, <2>2, <3>2 DEF Remember
      <4>2. QED
        BY <1>1, <3>1, <4>1 DEF Remembered
    <3>3. CASE e.cmd.nonce \notin Live
      BY <1>1, <3>1, <3>3, ForgottenIsOld
    <3>4. QED
      BY <3>2, <3>3
  <2>3. QED
    BY <2>1, <2>2
<1>7. Recorded'
  <2> SUFFICES ASSUME NEW e \in accepts'
               PROVE  e.life <= life /\ e.at <= mono /\ e.wall - e.cmd.ts <= MaxSkew
      BY <1>2 DEF Recorded
  <2>1. CASE e \in accepts
    BY <1>1, <2>1 DEF Recorded
  <2>2. CASE e = new
    BY <1>1, <1>2, <1>3, <1>4, <2>2 DEF Checked
  <2>3. QED
    BY <1>2, <2>1, <2>2
<1>8. Drift'
  <2> SUFFICES ASSUME NEW e \in accepts'
               PROVE  wall + stepped - mono >= e.wall - e.at
      BY <1>2 DEF Drift
  <2>1. CASE e \in accepts
    BY <1>1, <2>1 DEF Drift
  <2>2. CASE e = new
    <3>1. wall + stepped - mono >= check.wall - check.mono /\ check.mono <= mono
      BY <1>1, <1>2 DEF Checked
    <3>2. QED
      BY <1>3, <1>4, <2>2, <3>1
  <2>3. QED
    BY <1>2, <2>1, <2>2
<1>9. Checked'
  BY <1>2 DEF Checked
<1>10. AtMostOnce'
  <2> SUFFICES ASSUME NEW e \in accepts', NEW f \in accepts', e.cmd = f.cmd,
                      e.life = f.life, e.at <= f.at,
                      Margin(e) >= MaxStall + MaxStepBack
               PROVE  e = f
      BY DEF AtMostOnce, Margin
  <2>1. CASE e \in accepts /\ f \in accepts
    BY <1>1, <2>1 DEF AtMostOnce
  <2>2. CASE e \in accepts /\ f = new
    <3>1. mono - e.at > NonceTTL
      BY <1>1, <1>4, <2>2, ForgottenIsOld
    <3>2. mono - e.at <= NonceTTL
      BY <1>1, <1>2, <1>4, <2>2, FreshIsRecent
    <3>3. QED
      BY <1>3, <2>2, <3>1, <3>2, RecordFacts, <1>1
  <2>3. CASE e = new /\ f \in accepts
    <3>1. mono - f.at > NonceTTL
      BY <1>1, <1>4, <2>3, ForgottenIsOld
    <3>2. f.at \in Nat
      BY <1>1, <2>3, RecordFacts
    <3>3. QED
      BY <1>3, <1>4, <2>3, <3>1, <3>2
  <2>4. QED
    BY <1>2, <2>1, <2>2, <2>3
<1>11. QED
  BY <1>6, <1>7, <1>8, <1>9, <1>10 DEF CoreInv

LEMMA CoreInvStep == CoreInv /\ [Next]_vars => CoreInv'
<1> SUFFICES ASSUME CoreInv, [Next]_vars PROVE CoreInv'
    OBVIOUS
<1> USE CoreAssumption
<1>1. TypeOK /\ Remembered /\ Recorded /\ Drift /\ Checked /\ AtMostOnce
  BY DEF CoreInv
<1>2. TypeOK'
  BY <1>1, TypeStep
<1>3. mono \in Nat /\ wall \in Int /\ stepped \in Nat /\ check.mono \in Nat
  BY <1>1 DEF TypeOK, ClockReading
<1>4. mono' \in Nat /\ wall' \in Int /\ stepped' \in Nat
  BY <1>2 DEF TypeOK
<1>5. ASSUME UNCHANGED <<seen, pc, cur, check, life, accepts>>, mono' >= mono,
             wall' + stepped' - mono' >= wall + stepped - mono,
             pc = "add" => mono' - check.mono <= MaxStall
      PROVE  CoreInv'
  <2>1. Remembered' /\ Recorded' /\ AtMostOnce'
    BY <1>1, <1>2, <1>5, QuietStep
  <2>2. Drift' /\ Checked'
    BY <1>1, <1>4, <1>5, ClockStep
  <2>3. QED
    BY <1>2, <2>1, <2>2 DEF CoreInv
<1>6. pc = "add" => mono - check.mono <= MaxStall
  BY <1>1 DEF Checked
<1>7. CASE Tick
  <2>1. mono' = mono + 1 /\ wall' = wall + 1 /\ stepped' = stepped
    BY <1>7 DEF Tick
  <2>2. pc = "add" => mono' - check.mono <= MaxStall
    BY <1>3, <1>7, <2>1 DEF Tick
  <2>3. QED
    BY <1>3, <1>5, <1>7, <2>1, <2>2 DEF Tick
<1>8. CASE StepBack
  <2>1. wall' + stepped' - mono' >= wall + stepped - mono
    BY <1>3, <1>8 DEF StepBack
  <2>2. QED
    BY <1>3, <1>5, <1>6, <1>8, <2>1 DEF StepBack
<1>9. CASE StepForward
  <2>1. wall' + stepped' - mono' >= wall + stepped - mono
    BY <1>3, <1>9 DEF StepForward
  <2>2. QED
    BY <1>3, <1>5, <1>6, <1>9, <2>1 DEF StepForward
<1>10. ASSUME NEW c \in Command, CheckTimestamp(c) PROVE CoreInv'
  BY <1>2, <1>10, CheckStep
<1>11. CASE AddNonce
  BY <1>2, <1>11, ReplayStep, AcceptStep
<1>12. CASE CallLock
  <2>1. UNCHANGED <<mono, wall, stepped, seen, accepts, life>> /\ pc' = "idle"
    BY <1>12 DEF CallLock, clocks
  <2>2. Remembered' /\ Recorded' /\ AtMostOnce'
    BY <1>1, <1>2, <1>3, <2>1, QuietStep
  <2>3. QED
    BY <1>1, <1>2, <2>1, <2>2 DEF CoreInv, Drift, Checked
<1>13. CASE HandleStatus
  BY <1>3, <1>5, <1>6, <1>13 DEF HandleStatus, clocks
<1>14. CASE HandleUnknown
  BY <1>3, <1>5, <1>6, <1>14 DEF HandleUnknown, clocks
<1>15. CASE Restart
  <2>1. /\ UNCHANGED <<mono, wall, stepped, accepts>>
        /\ pc' = "idle" /\ life' = life + 1
    BY <1>15 DEF Restart, clocks
  <2>2. life \in Nat
    BY <1>1 DEF TypeOK
  <2>3. \A e \in accepts : e.life \in Nat /\ e.life <= life
    BY <1>1, RecordFacts DEF Recorded
  <2>4. Remembered' /\ Recorded'
    BY <1>1, <2>1, <2>2, <2>3 DEF Remembered, Recorded
  <2>5. Drift' /\ Checked' /\ AtMostOnce'
    BY <1>1, <2>1 DEF Drift, Checked, AtMostOnce, Margin
  <2>6. QED
    BY <1>2, <2>4, <2>5 DEF CoreInv
<1>16. CASE UNCHANGED vars
  BY <1>3, <1>5, <1>6, <1>16 DEF vars
<1>17. QED
  BY <1>7, <1>8, <1>9, <1>10, <1>11, <1>12, <1>13, <1>14, <1>15, <1>16 DEF Next

(* Replay protection (core.checkFreshness, nonceCache): in one run of the  *)
(* agent a lock command passes at most once, if it first passed with       *)
(* enough of its window left to make up for stalls and clock settings.     *)
THEOREM ReplayProtection == Spec => []AtMostOnce
<1>1. CoreInv => AtMostOnce
  BY DEF CoreInv
<1>2. QED
  BY <1>1, CoreInvInit, CoreInvStep, PTL DEF Spec

-----------------------------------------------------------------------------
LEMMA RefusalFields ==
    ASSUME NEW c, NEW why, Refuse(c, why)
    PROVE  out'.nonce = c.nonce /\ out'.err = why
BY DEF Refuse, LockResult

LEMMA OtherReplies ==
    /\ \A r : StatusReply(r).err # "replayed nonce"
    /\ NoReply.err # "replayed nonce"
BY DEF StatusReply, NoReply

LEMMA AskedInvInit == Init => AskedInv
BY TypeInit DEF Init, AskedInv, ReplayRefusalMeansAsked, NoReply

LEMMA AskedInvStep == AskedInv /\ [Next]_vars => AskedInv'
<1> SUFFICES ASSUME AskedInv, [Next]_vars PROVE AskedInv'
    OBVIOUS
<1> DEFINE Cached == DOMAIN seen \subseteq
                        asked \cup (IF pc = "lock" THEN {cur.nonce} ELSE {})
<1>1. TypeOK /\ Cached /\ ReplayRefusalMeansAsked
  BY DEF AskedInv
<1>2. TypeOK'
  BY <1>1, TypeStep
<1> SUFFICES Cached' /\ ReplayRefusalMeansAsked'
    BY <1>2 DEF AskedInv
<1>3. CASE Tick \/ StepBack \/ StepForward
  BY <1>1, <1>3 DEF Tick, StepBack, StepForward, ReplayRefusalMeansAsked
<1>4. ASSUME NEW c \in Command, CheckTimestamp(c)
      PROVE  Cached' /\ ReplayRefusalMeansAsked'
  <2>1. DOMAIN seen \subseteq asked /\ UNCHANGED <<seen, asked>>
    BY <1>1, <1>4 DEF CheckTimestamp
  <2>2. out'.err # "replayed nonce"
    <3>1. CASE out' = NoReply
      BY <3>1, OtherReplies
    <3>2. ASSUME NEW why \in {"missing nonce", "stale timestamp"}, Refuse(c, why)
          PROVE  out'.err # "replayed nonce"
      BY <3>2, RefusalFields
    <3>3. QED
      BY <1>4, <3>1, <3>2 DEF CheckTimestamp
  <2>3. QED
    BY <2>1, <2>2 DEF ReplayRefusalMeansAsked
<1>5. CASE AddNonce
  <2>1. DOMAIN seen \subseteq asked /\ asked' = asked /\ Live \subseteq DOMAIN seen
    BY <1>1, <1>5 DEF AddNonce, Live
  <2>2. CASE cur.nonce \in Live
    <3>1. DOMAIN seen' = Live /\ out'.nonce = cur.nonce
      BY <1>5, <2>2, RefusalFields DEF AddNonce
    <3>2. QED
      BY <2>1, <2>2, <3>1 DEF ReplayRefusalMeansAsked
  <2>3. CASE cur.nonce \notin Live
    <3>1. /\ DOMAIN seen' = Live \cup {cur.nonce}
          /\ pc' = "lock" /\ UNCHANGED <<cur, out>>
      BY <1>5, <2>3 DEF AddNonce, Remember
    <3>2. QED
      BY <1>1, <2>1, <3>1 DEF ReplayRefusalMeansAsked
  <2>4. QED
    BY <2>2, <2>3
<1>6. CASE CallLock
  <2>1. asked' = asked \cup {cur.nonce} /\ pc = "lock" /\ pc' = "idle" /\ seen' = seen
    BY <1>6 DEF CallLock
  <2>2. out'.err # "replayed nonce"
    <3>1. PICK ok \in BOOLEAN :
              out' = LockResult(cur.nonce, ok, IF ok THEN "none" ELSE "session")
      BY <1>6 DEF CallLock
    <3>2. out'.err = IF ok THEN "none" ELSE "session"
      BY <3>1 DEF LockResult
    <3>3. QED
      BY <3>2
  <2>3. QED
    BY <1>1, <2>1, <2>2 DEF ReplayRefusalMeansAsked
<1>7. CASE HandleStatus
  BY <1>1, <1>7, OtherReplies DEF HandleStatus, ReplayRefusalMeansAsked
<1>8. CASE HandleUnknown
  BY <1>1, <1>8, OtherReplies DEF HandleUnknown, ReplayRefusalMeansAsked
<1>9. CASE Restart
  BY <1>9, OtherReplies DEF Restart, ReplayRefusalMeansAsked
<1>10. CASE UNCHANGED vars
  BY <1>1, <1>10 DEF vars, ReplayRefusalMeansAsked
<1>11. QED
  BY <1>3, <1>4, <1>5, <1>6, <1>7, <1>8, <1>9, <1>10 DEF Next

(* A client that is told its nonce is a replay can rely on it that this    *)
(* run of the agent has asked the operating system to lock for that nonce: *)
(* a refused command does not burn its nonce (core.checkFreshness).        *)
THEOREM ReplayRefusalIsHonest == Spec => []ReplayRefusalMeansAsked
<1>1. AskedInv => ReplayRefusalMeansAsked
  BY DEF AskedInv
<1>2. QED
  BY <1>1, AskedInvInit, AskedInvStep, PTL DEF Spec

-----------------------------------------------------------------------------
(* The refinement mapping, under names of its own.                         *)
Counted(e) == e.life = life /\ Margin(e) >= MaxStall + MaxStepBack
Done == {e.cmd : e \in {x \in accepts : /\ x.life = life
                                      /\ Margin(x) >= MaxStall + MaxStepBack}}
Pending == IF pc = "lock" THEN cur ELSE NoCommand
Said == IF out.kind = "lock_result" /\ out.ok THEN out.nonce ELSE NoNonce

LEMMA DoneIs == Done = {e.cmd : e \in {x \in accepts : Counted(x)}}
BY DEF Done, Counted

(* A reply that is not an ok confirms nothing.                             *)
LEMMA SaysNothing ==
    /\ \A c, why : Refuse(c, why) => Said' = NoNonce
    /\ \A r : out' = StatusReply(r) => Said' = NoNonce
    /\ out' = NoReply => Said' = NoNonce
BY DEF Refuse, LockResult, StatusReply, NoReply, Said

(* A command that reaches the cache and is not in it was not counted       *)
(* before: a counted one would still be fresh only while it is remembered. *)
LEMMA PassesOnce ==
    ASSUME CoreInv, AddNonce, cur.nonce \notin Live
    PROVE  cur \notin Done
<1> SUFFICES ASSUME NEW e \in accepts, e.cmd = cur, Counted(e) PROVE FALSE
    BY DoneIs
<1>1. TypeOK /\ Remembered /\ Recorded /\ Drift /\ Checked /\ pc = "add"
  BY DEF CoreInv, AddNonce
<1>2. e.life = life /\ Margin(e) >= MaxStall + MaxStepBack
  BY DEF Counted
<1>3. mono - e.at > NonceTTL
  BY <1>1, <1>2, ForgottenIsOld
<1>4. mono - e.at <= NonceTTL
  BY <1>1, <1>2, FreshIsRecent
<1>5. mono \in Nat /\ e.at \in Nat /\ NonceTTL \in Nat
  BY <1>1, RecordFacts, CoreAssumption DEF TypeOK, NonceTTL
<1>6. QED
  BY <1>3, <1>4, <1>5

LEMMA PassStep ==
    ASSUME CoreInv, AddNonce, cur.nonce \notin Live
    PROVE  Promise!Pass
<1> DEFINE new == [cmd |-> cur, wall |-> check.wall, at |-> mono, life |-> life]
<1>1. accepts' = accepts \cup {new} /\ UNCHANGED <<life, cur, out>>
      /\ pc = "add" /\ pc' = "lock"
  BY DEF AddNonce
<1>2. Pending = NoCommand /\ Pending' = cur /\ Said' = Said
  BY <1>1 DEF Pending, Said
<1>3. Pending' \in Command \ Done
  BY <1>2, PassesOnce DEF CoreInv, TypeOK
<1>4. \A e : Counted(e)' <=> Counted(e)
  BY <1>1 DEF Counted, Margin
<1>5. Done' = {e.cmd : e \in {x \in accepts' : Counted(x)}}
  BY <1>1 DEF Done, Counted, Margin
<1>6. Done' \in {Done, Done \cup {Pending'}}
  <2>1. CASE Counted(new)
    <3>1. Done' = Done \cup {new.cmd}
      BY <1>1, <1>5, <2>1, DoneIs
    <3>2. QED
      BY <1>2, <3>1
  <2>2. CASE ~Counted(new)
    BY <1>1, <1>5, <2>2, DoneIs
  <2>3. QED
    BY <2>1, <2>2
<1>7. QED
  BY <1>2, <1>3, <1>6 DEF Promise!Pass, Pending, Done, Said

LEMMA PromiseInit == Init => Promise!Init
<1> SUFFICES ASSUME Init PROVE Promise!Init
    OBVIOUS
<1>1. Done = {} /\ Pending = NoCommand
  BY DEF Init, Done, Pending
<1>2. Said = NoNonce
  BY DEF Init, Said, NoReply
<1>3. QED
  BY <1>1, <1>2 DEF Promise!Init, Done, Pending, Said

LEMMA PromiseStep == CoreInv /\ [Next]_vars => [Promise!Next]_Promise!vars
<1> SUFFICES ASSUME CoreInv, [Next]_vars PROVE [Promise!Next]_Promise!vars
    OBVIOUS
<1>1. ASSUME Done' = Done, Pending' = Pending, Said' = NoNonce
      PROVE  Promise!Next
  BY <1>1 DEF Promise!Next, Promise!SayNothing, Done, Pending, Said
<1>2. ASSUME Done' = Done, Pending' = Pending, Said' = Said
      PROVE  UNCHANGED Promise!vars
  BY <1>2 DEF Promise!vars, Done, Pending, Said
<1>3. UNCHANGED <<accepts, life>> => Done' = Done
  BY DEF Done, Margin
<1>4. CASE Tick \/ StepBack \/ StepForward \/ UNCHANGED vars
  <2>1. UNCHANGED <<accepts, life, pc, cur, out>>
    BY <1>4 DEF Tick, StepBack, StepForward, vars
  <2>2. Pending' = Pending /\ Said' = Said
    BY <2>1 DEF Pending, Said
  <2>3. QED
    BY <1>2, <1>3, <2>1, <2>2
<1>5. ASSUME NEW c \in Command, CheckTimestamp(c)
      PROVE  Promise!Next
  <2>1. UNCHANGED <<accepts, life>> /\ pc = "idle" /\ pc' # "lock"
    BY <1>5 DEF CheckTimestamp, Refuse
  <2>2. Pending' = Pending
    BY <2>1 DEF Pending
  <2>3. Said' = NoNonce
    BY <1>5, SaysNothing DEF CheckTimestamp
  <2>4. QED
    BY <1>1, <1>3, <2>1, <2>2, <2>3
<1>6. CASE AddNonce /\ cur.nonce \in Live
  <2>1. UNCHANGED <<accepts, life>> /\ pc = "add" /\ pc' = "idle"
        /\ Refuse(cur, "replayed nonce")
    BY <1>6 DEF AddNonce, Refuse
  <2>2. Pending' = Pending
    BY <2>1 DEF Pending
  <2>3. QED
    BY <1>1, <1>3, <2>1, <2>2, SaysNothing
<1>7. CASE AddNonce /\ cur.nonce \notin Live
  BY <1>7, PassStep DEF Promise!Next
<1>8. CASE CallLock
  <2>1. UNCHANGED <<accepts, life>> /\ pc = "lock" /\ pc' = "idle"
    BY <1>8 DEF CallLock
  <2>2. Pending = cur /\ Pending' = NoCommand /\ Done' = Done
    BY <1>3, <2>1 DEF Pending
  <2>3. cur # NoCommand
    BY <2>1, CoreAssumption DEF CoreInv, TypeOK, NoCommand
  <2>4. Said' \in {NoNonce, Pending.nonce}
    <3>1. PICK ok \in BOOLEAN :
              out' = LockResult(cur.nonce, ok, IF ok THEN "none" ELSE "session")
      BY <1>8 DEF CallLock
    <3>2. out'.nonce = cur.nonce
      BY <3>1 DEF LockResult
    <3>3. QED
      BY <2>2, <3>2 DEF Said
  <2>5. QED
    BY <2>2, <2>3, <2>4 DEF Promise!Next, Promise!Answer, Done, Pending, Said
<1>9. CASE HandleStatus \/ HandleUnknown
  <2>1. UNCHANGED <<accepts, life, pc, cur>>
    BY <1>9 DEF HandleStatus, HandleUnknown
  <2>2. Pending' = Pending
    BY <2>1 DEF Pending
  <2>3. Said' = NoNonce
    BY <1>9, SaysNothing DEF HandleStatus, HandleUnknown
  <2>4. QED
    BY <1>1, <1>3, <2>1, <2>2, <2>3
<1>10. CASE Restart
  <2>1. accepts' = accepts /\ life' = life + 1 /\ pc' = "idle" /\ out' = NoReply
    BY <1>10 DEF Restart
  <2>2. \A e \in accepts : e.life \in Nat /\ e.life <= life
    BY RecordFacts DEF CoreInv, Recorded
  <2>3. life \in Nat
    BY DEF CoreInv, TypeOK
  <2>4. Done' = {}
    BY <2>1, <2>2, <2>3 DEF Done, Margin
  <2>5. Pending' = NoCommand /\ Said' = NoNonce
    BY <2>1, SaysNothing DEF Pending
  <2>6. QED
    BY <2>4, <2>5 DEF Promise!Next, Promise!Restart, Done, Pending, Said
<1>11. QED
  BY <1>4, <1>5, <1>6, <1>7, <1>8, <1>9, <1>10 DEF Next

(* core.go implements the promise of LockOnce: for every skew, stall,      *)
(* clock setting and number of restarts, each run of the agent lets a      *)
(* command pass once and confirms only what it asked for.                  *)
THEOREM CoreImplementsLockOnce == Spec => LockedOnce
<1>1. QED
  BY PromiseInit, CoreInvInit, CoreInvStep, PromiseStep, PTL
     DEF Spec, LockedOnce, Promise!Spec
=============================================================================
