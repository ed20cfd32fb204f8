-------------------------------- MODULE Core --------------------------------
(***************************************************************************)
(* internal/core: the message logic behind the gateway, and the replay     *)
(* protection of lock commands (checkFreshness and the nonce cache).       *)
(*                                                                         *)
(* relay.Client delivers payloads one at a time, so there is one handler,  *)
(* but a lock command is handled in three separate moments: it reads the   *)
(* clock for the timestamp check, reads the clock again for the nonce      *)
(* cache, and then calls the session layer.  Time passes between them.     *)
(*                                                                         *)
(* Go's time.Time carries two readings.  now.Sub(time.Unix(ts, 0)) uses    *)
(* the wall clock, which can be set; now.Sub(t) of two process-local       *)
(* times uses the monotonic clock, which cannot.  Both are modelled.       *)
(***************************************************************************)
EXTENDS Integers

CONSTANTS
    Nonces,       \* the nonces that clients draw
    NoNonce,      \* the empty nonce of a command that carries none
    MaxSkew,      \* maxSkew, in seconds
    MaxStall,     \* most seconds between a handler's two clock readings
    MaxStepBack,  \* most seconds the wall clock is set back, all steps together
    Horizon,      \* bound: the wall clock stops here
    MaxRestarts   \* bound: how often the agent is restarted

ASSUME CoreAssumption ==
    /\ MaxSkew \in Nat
    /\ MaxStall \in Nat
    /\ MaxStepBack \in Nat
    /\ Horizon \in Nat
    /\ MaxRestarts \in Nat
    /\ NoNonce \notin Nonces

VARIABLES
    mono,     \* monotonic clock
    wall,     \* wall clock
    stepped,  \* seconds the wall clock has been set back so far
    seen,     \* nonceCache.seen: nonce -> monotonic time it was added
    pc,       \* where the handler is: "idle", "add" (before nonces.add), "lock"
    cur,      \* the lock command being handled, NoCommand when idle
    check,    \* history: the clocks when cur's timestamp was checked,
              \* NoCheck when the handler is not at "add"
    out,      \* the last reply, NoReply if there was none
    life,     \* history: number of restarts
    accepts,  \* history: one record per command that passed checkFreshness
    asked     \* history: nonces passed to session.Lock since the last start

vars == <<mono, wall, stepped, seen, pc, cur, check, out, life, accepts, asked>>
clocks == <<mono, wall, stepped>>

Stamps == 0 .. Horizon
Command == [nonce : Nonces \cup {NoNonce}, ts : Stamps]
NoCommand == [nonce |-> NoNonce, ts |-> 0]

(* newNonceCache(2 * maxSkew); MutShortTTL is the mutation that forgets    *)
(* that a command is also accepted before its timestamp.                   *)
MutShortTTL == MaxSkew
NonceTTL == 2 * MaxSkew

Clocks == [mono |-> mono, wall |-> wall]
NoCheck == [mono |-> 0, wall |-> 0]
ClockReading == [mono : Nat, wall : Int]

-----------------------------------------------------------------------------
(* Replies.                                                                *)

Errors == {"none", "missing nonce", "stale timestamp", "replayed nonce", "session"}
LockResult(nonce, ok, err) ==
    [kind |-> "lock_result", nonce |-> nonce, ok |-> ok, err |-> err]
StatusReply(reading) ==
    [kind |-> "status", nonce |-> NoNonce, ok |-> reading # "unreadable",
     err |-> IF reading = "unreadable" THEN "session" ELSE "none"]
NoReply == [kind |-> "nothing", nonce |-> NoNonce, ok |-> FALSE, err |-> "none"]
Reply == [kind : {"lock_result", "status", "nothing"},
          nonce : Nonces \cup {NoNonce}, ok : BOOLEAN, err : Errors]

-----------------------------------------------------------------------------
Init ==
    /\ mono = 0
    /\ wall = MaxStepBack    \* an arbitrary origin that keeps stamps >= 0
    /\ stepped = 0
    /\ seen = [n \in {} |-> 0]
    /\ pc = "idle"
    /\ cur = NoCommand
    /\ check = NoCheck
    /\ out = NoReply
    /\ life = 0
    /\ accepts = {}
    /\ asked = {}

(* The clocks.  A handler between its two readings is overtaken by at most *)
(* MaxStall seconds.                                                       *)
Tick ==
    /\ wall < Horizon
    /\ pc = "add" => mono - check.mono < MaxStall
    /\ mono' = mono + 1
    /\ wall' = wall + 1
    /\ UNCHANGED <<stepped, seen, pc, cur, check, out, life, accepts, asked>>

(* The wall clock is set back (NTP, the user).                             *)
StepBack ==
    /\ \E d \in 1 .. MaxStepBack :
          /\ stepped + d <= MaxStepBack
          /\ wall' = wall - d
          /\ stepped' = stepped + d
    /\ UNCHANGED <<mono, seen, pc, cur, check, out, life, accepts, asked>>

(* The wall clock is set forward, or the machine wakes from a suspension   *)
(* during which the monotonic clock stood still.                           *)
StepForward ==
    /\ \E d \in 1 .. Horizon : wall + d <= Horizon /\ wall' = wall + d
    /\ UNCHANGED <<mono, stepped, seen, pc, cur, check, out, life, accepts, asked>>

-----------------------------------------------------------------------------
(* age > maxSkew || age < -maxSkew *)
Stale(c) == wall - c.ts > MaxSkew \/ wall - c.ts < -MaxSkew

Remember(live, n) == [k \in live \cup {n} |-> IF k = n THEN mono ELSE seen[k]]

Refuse(c, why) ==
    /\ out' = LockResult(c.nonce, FALSE, why)
    /\ pc' = "idle"
    /\ cur' = NoCommand

(* Core.lock up to the timestamp check of checkFreshness.  The mutations:  *)
(* the empty nonce is let through; the nonce enters the cache before the   *)
(* timestamp is looked at.                                                 *)
MutEmptyNonce(c) ==
    /\ pc = "idle"
    /\ UNCHANGED <<clocks, seen, life, accepts, asked>>
    /\ IF Stale(c)
       THEN Refuse(c, "stale timestamp") /\ UNCHANGED check
       ELSE pc' = "add" /\ cur' = c /\ check' = Clocks /\ out' = NoReply

MutRememberFirst(c) ==
    /\ pc = "idle"
    /\ UNCHANGED <<clocks, life, accepts, asked>>
    /\ IF c.nonce = NoNonce
       THEN Refuse(c, "missing nonce") /\ UNCHANGED <<seen, check>>
       ELSE IF Stale(c)
       THEN /\ seen' = Remember(DOMAIN seen, c.nonce)
            /\ Refuse(c, "stale timestamp") /\ UNCHANGED check
       ELSE /\ pc' = "add" /\ cur' = c /\ check' = Clocks
            /\ out' = NoReply /\ UNCHANGED seen

CheckTimestamp(c) ==
    /\ pc = "idle"
    /\ \/ /\ c.nonce = NoNonce
          /\ Refuse(c, "missing nonce")
          /\ UNCHANGED check
       \/ /\ c.nonce # NoNonce
          /\ Stale(c)
          /\ Refuse(c, "stale timestamp")
          /\ UNCHANGED check
       \/ /\ c.nonce # NoNonce
          /\ ~Stale(c)
          /\ pc' = "add"
          /\ cur' = c
          /\ check' = Clocks
          /\ out' = NoReply
    /\ UNCHANGED <<clocks, seen, life, accepts, asked>>

(* nonceCache.add prunes with its own clock reading, then looks the nonce  *)
(* up and records it.  The mutation drops a nonce one second early.        *)
MutLive == {n \in DOMAIN seen : mono - seen[n] < NonceTTL}
Live == {n \in DOMAIN seen : mono - seen[n] <= NonceTTL}

AddNonce ==
    /\ pc = "add"
    /\ \/ /\ cur.nonce \in Live
          /\ seen' = [n \in Live |-> seen[n]]
          /\ Refuse(cur, "replayed nonce")
          /\ UNCHANGED accepts
       \/ /\ cur.nonce \notin Live
          /\ seen' = Remember(Live, cur.nonce)
          /\ accepts' = accepts \cup
                {[cmd |-> cur, wall |-> check.wall, at |-> mono, life |-> life]}
          /\ pc' = "lock"
          /\ UNCHANGED <<cur, out>>
    /\ check' = NoCheck
    /\ UNCHANGED <<clocks, life, asked>>

(* sess.Lock: the operating system is asked, and answers or fails.         *)
CallLock ==
    /\ pc = "lock"
    /\ \E ok \in BOOLEAN :
          out' = LockResult(cur.nonce, ok, IF ok THEN "none" ELSE "session")
    /\ asked' = asked \cup {cur.nonce}
    /\ pc' = "idle"
    /\ cur' = NoCommand
    /\ UNCHANGED <<clocks, seen, check, life, accepts>>

(* Core.status: the session layer reads the lock state or fails.           *)
HandleStatus ==
    /\ pc = "idle"
    /\ \E reading \in {"locked", "unlocked", "unreadable"} :
          out' = StatusReply(reading)
    /\ UNCHANGED <<clocks, seen, pc, cur, check, life, accepts, asked>>

(* Any other kind of payload gets no reply.                                *)
HandleUnknown ==
    /\ pc = "idle"
    /\ out' = NoReply
    /\ UNCHANGED <<clocks, seen, pc, cur, check, life, accepts, asked>>

(* The agent ends and is started again: the nonce cache lives in memory.   *)
Restart ==
    /\ life < MaxRestarts
    /\ life' = life + 1
    /\ seen' = [n \in {} |-> 0]
    /\ pc' = "idle"
    /\ cur' = NoCommand
    /\ check' = NoCheck
    /\ out' = NoReply
    /\ asked' = {}
    /\ UNCHANGED <<clocks, accepts>>

Next ==
    \/ Tick \/ StepBack \/ StepForward
    \/ \E c \in Command : CheckTimestamp(c)
    \/ AddNonce \/ CallLock
    \/ HandleStatus \/ HandleUnknown
    \/ Restart

Spec == Init /\ [][Next]_vars

-----------------------------------------------------------------------------
(* Type correctness of the handler, the cache and the histories.           *)
TypeOK ==
    /\ mono \in Nat /\ wall \in Int /\ stepped \in Nat
    /\ stepped <= MaxStepBack
    /\ DOMAIN seen \subseteq Nonces
    /\ \A n \in DOMAIN seen : seen[n] \in Nat
    /\ pc \in {"idle", "add", "lock"}
    /\ cur \in Command
    /\ pc # "idle" => cur.nonce \in Nonces
    /\ check \in ClockReading
    /\ out \in Reply
    /\ life \in Nat
    /\ accepts \subseteq [cmd : Command, wall : Int, at : Nat, life : Nat]
    /\ asked \subseteq Nonces

(* How far inside its window of acceptance a command was when its          *)
(* timestamp was checked: 0 is maxSkew before the timestamp, and a command *)
(* from a phone whose clock is not ahead of the agent's has MaxSkew or     *)
(* more.                                                                   *)
Margin(e) == e.wall - (e.cmd.ts - MaxSkew)

(* Replay protection within one run of the agent (core.checkFreshness,     *)
(* nonceCache.add): however often and whenever a lock command is delivered *)
(* again, it passes at most once, provided it first passed far enough      *)
(* inside its window to make up for a stalled handler and for clock steps. *)
(* With neither, every command is covered.                                 *)
AtMostOnce ==
    \A e, f \in accepts :
        /\ e.cmd = f.cmd
        /\ e.life = f.life
        /\ e.at <= f.at
        /\ Margin(e) >= MaxStall + MaxStepBack
        => e = f

(* "replayed nonce" is only ever said of a nonce for which this run of the *)
(* agent did ask the session layer to lock: a command that was refused,    *)
(* for its timestamp say, does not burn its nonce.                         *)
ReplayRefusalMeansAsked ==
    out.err = "replayed nonce" => out.nonce \in asked

(* The detailed handler keeps the promise of LockOnce: in each run of the  *)
(* agent no command passes again after it first passed far enough inside   *)
(* its window, and ok is only said of the command the operating system was *)
(* asked for.  AtMostOnce compares records of passes, so a second pass at  *)
(* the very same clock readings escapes it; here it is a step.             *)
Promise == INSTANCE LockOnce WITH
    Commands <- Command,
    done <- {e.cmd : e \in {x \in accepts : /\ x.life = life
                                           /\ Margin(x) >= MaxStall + MaxStepBack}},
    pending <- IF pc = "lock" THEN cur ELSE NoCommand,
    said <- IF out.kind = "lock_result" /\ out.ok THEN out.nonce ELSE NoNonce

LockedOnce == Promise!Spec
=============================================================================
