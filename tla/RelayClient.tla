---------------------------- MODULE RelayClient ----------------------------
(***************************************************************************)
(* internal/relay: the agent's connection to the relay.  Run dials, shakes *)
(* hands, serves envelopes one at a time and, when the connection is lost, *)
(* waits with exponential backoff and dials again, until it is cancelled.  *)
(*                                                                         *)
(* The relay and the network are external.  A healthy relay answers hello  *)
(* with a welcome or a challenge and a proof with a welcome; MaxFaults     *)
(* times something else happens: it refuses a dial, falls silent, sends    *)
(* what does not belong there, or the network goes down.  A network that   *)
(* is down is noticed by the next read or write, or later: what is written *)
(* meanwhile is lost.                                                      *)
(***************************************************************************)
EXTENDS Integers, Sequences, FiniteSetsExt

CONSTANTS
    Clients,       \* senders of envelopes
    NoSender,      \* the sender of an envelope whose "from" is missing
    MaxWait,       \* cap of the backoff, in seconds (30)
    MaxEnvelopes,  \* bound: envelopes sent by the relay
    MaxFaults      \* bound: faults of the relay and the network

ASSUME RelayClientAssumption ==
    /\ MaxWait \in Nat \ {0}
    /\ MaxEnvelopes \in Nat
    /\ MaxFaults \in Nat
    /\ NoSender \notin Clients

VARIABLES
    pc,         \* where Run is
    conn,       \* the connection: "none", "up", or "down" and not yet noticed
    peer,       \* what the relay does next on this connection
    inbox,      \* frames on their way to the agent
    in,         \* the envelope being handled
    backoff,    \* backoff.cur, in seconds
    shown,      \* what onState last stored: the UI's "connected"
    cancelled,  \* ctx was cancelled
    sent,       \* envelopes the relay has sent: their senders
    replies,    \* history: replies written, with the envelope they answer
    welcomed,   \* history: a welcome was read on this connection
    attempts,   \* history: sessions that ended since the last welcome
    faults      \* history: faults so far

vars == <<pc, conn, peer, inbox, in, backoff, shown, cancelled, sent, replies,
          welcomed, attempts, faults>>
network == <<conn, peer, inbox>>

Senders == Clients \cup {NoSender}
Challenge == [type |-> "challenge"]
Welcome == [type |-> "welcome"]
Refusal == [type |-> "error"]
Envelope(id, from) == [type |-> "envelope", id |-> id, from |-> from]
NoEnvelope == [type |-> "none"]
Envelopes == {Envelope(id, from) : id \in 1 .. MaxEnvelopes, from \in Senders}
Frames == {Challenge, Welcome, Refusal} \cup Envelopes

Handshaking == {"hello", "welcome", "prove", "proved"}
Serving == {"serve", "handle", "reply"}
Places == {"dial", "dialing", "closing", "ended", "wait", "returned"} \cup Handshaking \cup Serving
PeerStates == {"accept", "answer", "challenged", "verify", "forward", "mute"}

Init ==
    /\ pc = "dial"
    /\ conn = "none" /\ peer = "accept" /\ inbox = <<>>
    /\ in = NoEnvelope
    /\ backoff = 0
    /\ shown = FALSE
    /\ cancelled = FALSE
    /\ sent = <<>> /\ replies = <<>>
    /\ welcomed = FALSE /\ attempts = 0 /\ faults = 0

-----------------------------------------------------------------------------
(* backoff.next: one second, doubling up to the cap; the mutation doubles  *)
(* without looking at the cap again.                                       *)
MutNextWait(cur) ==
    IF cur = 0 THEN 1 ELSE IF cur < MaxWait THEN 2 * cur ELSE cur
NextWait(cur) ==
    IF cur = 0 THEN 1
    ELSE IF cur < MaxWait THEN Min({2 * cur, MaxWait})
    ELSE cur

(* websocket.Dial succeeds, fails, or waits for an answer that never comes.*)
(* It is given no deadline: only the context ends such a wait.             *)
Dial ==
    /\ pc = "dial"
    /\ \/ /\ ~cancelled
          /\ conn' = "up" /\ peer' = "accept" /\ inbox' = <<>>
          /\ pc' = "hello"
          /\ UNCHANGED faults
       \/ /\ cancelled \/ faults < MaxFaults
          /\ faults' = IF cancelled THEN faults ELSE faults + 1
          /\ pc' = "ended"
          /\ UNCHANGED network
       \/ /\ ~cancelled /\ faults < MaxFaults
          /\ faults' = faults + 1
          /\ pc' = "dialing"
          /\ UNCHANGED network
    /\ welcomed' = FALSE
    /\ UNCHANGED <<in, backoff, shown, cancelled, sent, replies, attempts>>

DialCancelled ==
    /\ pc = "dialing" /\ cancelled
    /\ pc' = "ended"
    /\ UNCHANGED <<network, in, backoff, shown, cancelled, sent, replies,
                   welcomed, attempts, faults>>

(* A write puts the relay to work when the network is up; when it is down, *)
(* what is written is lost.  Either way it can fail instead when the       *)
(* network is down or the context has ended.                               *)
WriteTo(p) ==
    /\ IF conn = "up" /\ peer # "mute" THEN peer' = p ELSE UNCHANGED peer
    /\ UNCHANGED <<conn, inbox>>
Broken == conn = "down" \/ cancelled

(* handshake: hello, and the first read.                                   *)
SendHello ==
    /\ pc = "hello"
    /\ WriteTo("answer")
    /\ pc' = "welcome"
    /\ UNCHANGED <<in, backoff, shown, cancelled, sent, replies, welcomed,
                   attempts, faults>>

(* session, once the handshake has succeeded.                              *)
Connected ==
    /\ backoff' = 0 /\ attempts' = 0
    /\ shown' = TRUE
    /\ welcomed' = TRUE
    /\ pc' = "serve"

Receive == inbox' = Tail(inbox) /\ UNCHANGED <<conn, peer>>

(* A challenge is answered once, a welcome ends the handshake, anything    *)
(* else refuses it; the mutation goes on with whatever is no challenge.    *)
MutTrustAnyAnswer ==
    /\ pc \in {"welcome", "proved"} /\ inbox # <<>>
    /\ Receive
    /\ \/ /\ Head(inbox).type = "challenge" /\ pc = "welcome"
          /\ pc' = "prove"
          /\ UNCHANGED <<backoff, shown, welcomed, attempts>>
       \/ /\ Head(inbox).type # "challenge"
          /\ backoff' = 0 /\ attempts' = 0 /\ shown' = TRUE /\ pc' = "serve"
          /\ welcomed' = (Head(inbox).type = "welcome")
    /\ UNCHANGED <<in, cancelled, sent, replies, faults>>

ReadAnswer ==
    /\ pc \in {"welcome", "proved"} /\ inbox # <<>>
    /\ Receive
    /\ LET type == Head(inbox).type IN
       \/ /\ type = "challenge" /\ pc = "welcome"
          /\ pc' = "prove"
          /\ UNCHANGED <<backoff, shown, welcomed, attempts>>
       \/ /\ type = "welcome"
          /\ Connected
       \/ /\ type # "welcome" /\ ~(type = "challenge" /\ pc = "welcome")
          /\ pc' = "closing"
          /\ UNCHANGED <<backoff, shown, welcomed, attempts>>
    /\ UNCHANGED <<in, cancelled, sent, replies, faults>>

SendProof ==
    /\ pc = "prove"
    /\ WriteTo("verify")
    /\ pc' = "proved"
    /\ UNCHANGED <<in, backoff, shown, cancelled, sent, replies, welcomed,
                   attempts, faults>>

(* The handshake's ten seconds run out: a healthy relay answers sooner.    *)
(* The mutation gives the handshake no deadline of its own.                *)
LeaveHandshake ==
    /\ pc \in Handshaking
    /\ pc' = "closing"
    /\ UNCHANGED <<network, in, backoff, shown, cancelled, sent, replies,
                   welcomed, attempts, faults>>
MutNoDeadline == Broken /\ LeaveHandshake
HandshakeFails == (peer = "mute" \/ Broken) /\ LeaveHandshake

-----------------------------------------------------------------------------
(* serve: read a frame, skip what is not an envelope, hand an envelope to  *)
(* the gateway and write its reply, if any, to the sender.  The mutation   *)
(* decodes every frame into the same variable: a missing field keeps the   *)
(* value of the frame before.                                              *)
MutStaleSender ==
    /\ pc = "serve" /\ inbox # <<>>
    /\ Receive
    /\ LET f == Head(inbox) IN
       IF f.type # "envelope" THEN UNCHANGED <<pc, in>>
       ELSE /\ in' = IF f.from = NoSender /\ in # NoEnvelope
                     THEN [f EXCEPT !.from = in.from] ELSE f
            /\ pc' = "handle"
    /\ UNCHANGED <<backoff, shown, cancelled, sent, replies, welcomed,
                   attempts, faults>>

ReadEnvelope ==
    /\ pc = "serve" /\ inbox # <<>>
    /\ Receive
    /\ IF Head(inbox).type = "envelope"
       THEN in' = Head(inbox) /\ pc' = "handle"
       ELSE UNCHANGED <<pc, in>>
    /\ UNCHANGED <<backoff, shown, cancelled, sent, replies, welcomed,
                   attempts, faults>>

Handle ==
    /\ pc = "handle"
    /\ pc' \in {"serve", "reply"}
    /\ UNCHANGED <<network, in, backoff, shown, cancelled, sent, replies,
                   welcomed, attempts, faults>>

WriteReply ==
    /\ pc = "reply"
    /\ WriteTo("forward")
    /\ replies' = Append(replies, [id |-> in.id, to |-> in.from])
    /\ pc' = "serve"
    /\ UNCHANGED <<in, backoff, shown, cancelled, sent, welcomed, attempts, faults>>

(* A read or a write fails: the deferred setState(false), then the close.  *)
(* The mutations: a return without setState(false), a read that is not     *)
(* bound to the context.                                                   *)
MutKeepsShown ==
    /\ pc \in {"serve", "reply"} /\ Broken
    /\ pc' = "closing"
    /\ UNCHANGED <<network, in, backoff, shown, cancelled, sent, replies,
                   welcomed, attempts, faults>>

MutUnboundRead ==
    /\ pc \in {"serve", "reply"} /\ conn = "down"
    /\ shown' = FALSE
    /\ pc' = "closing"
    /\ UNCHANGED <<network, in, backoff, cancelled, sent, replies, welcomed,
                   attempts, faults>>

ServeFails ==
    /\ pc \in {"serve", "reply"} /\ Broken
    /\ shown' = FALSE
    /\ pc' = "closing"
    /\ UNCHANGED <<network, in, backoff, cancelled, sent, replies, welcomed,
                   attempts, faults>>

Close ==
    /\ pc = "closing"
    /\ conn' = "none" /\ peer' = "accept" /\ inbox' = <<>>
    /\ welcomed' = FALSE
    /\ pc' = "ended"
    /\ UNCHANGED <<in, backoff, shown, cancelled, sent, replies, attempts, faults>>

-----------------------------------------------------------------------------
(* Run, when session has returned: give up when cancelled, else wait.      *)
Ended ==
    /\ pc = "ended"
    /\ IF cancelled
       THEN pc' = "returned" /\ UNCHANGED <<backoff, attempts>>
       ELSE /\ backoff' = NextWait(backoff)
            /\ attempts' = attempts + 1
            /\ pc' = "wait"
    /\ UNCHANGED <<network, in, shown, cancelled, sent, replies, welcomed, faults>>

WaitOver ==
    /\ pc = "wait"
    /\ pc' = "dial"
    /\ UNCHANGED <<network, in, backoff, shown, cancelled, sent, replies,
                   welcomed, attempts, faults>>

WaitCancelled ==
    /\ pc = "wait" /\ cancelled
    /\ pc' = "returned"
    /\ UNCHANGED <<network, in, backoff, shown, cancelled, sent, replies,
                   welcomed, attempts, faults>>

(* A signal, the tray or the stop button.                                  *)
Cancel ==
    /\ ~cancelled
    /\ cancelled' = TRUE
    /\ UNCHANGED <<pc, network, in, backoff, shown, sent, replies, welcomed,
                   attempts, faults>>

-----------------------------------------------------------------------------
(* The relay and the network.                                              *)
agent == <<pc, in, backoff, shown, cancelled, replies, welcomed, attempts>>

RelayAnswers ==
    /\ conn = "up"
    /\ \/ /\ peer = "answer"
          /\ \/ inbox' = Append(inbox, Challenge) /\ peer' = "challenged"
             \/ inbox' = Append(inbox, Welcome) /\ peer' = "forward"
       \/ /\ peer = "verify"
          /\ inbox' = Append(inbox, Welcome) /\ peer' = "forward"
    /\ UNCHANGED <<conn, agent, sent, faults>>

RelayForwards ==
    /\ conn = "up" /\ peer = "forward"
    /\ Len(sent) < MaxEnvelopes
    /\ \E from \in Senders :
          /\ sent' = Append(sent, from)
          /\ inbox' = Append(inbox, Envelope(Len(sent) + 1, from))
    /\ UNCHANGED <<conn, peer, agent, faults>>

(* A frame out of place, an envelope before the welcome say, or a frame    *)
(* that ends the handshake: an error, a challenge that cannot be answered. *)
RelayMisbehaves ==
    /\ conn = "up" /\ faults < MaxFaults
    /\ \/ /\ inbox' = Append(inbox, Refusal)
          /\ UNCHANGED <<peer, sent>>
       \/ /\ Len(sent) < MaxEnvelopes
          /\ \E c \in Clients :
                /\ sent' = Append(sent, c)
                /\ inbox' = Append(inbox, Envelope(Len(sent) + 1, c))
          /\ UNCHANGED peer
       \/ /\ peer' = "mute"
          /\ UNCHANGED <<inbox, sent>>
    /\ faults' = faults + 1
    /\ UNCHANGED <<conn, agent>>

NetworkDown ==
    /\ conn = "up" /\ faults < MaxFaults
    /\ conn' = "down"
    /\ faults' = faults + 1
    /\ UNCHANGED <<peer, inbox, agent, sent>>

AgentStep ==
    \/ Dial \/ DialCancelled \/ SendHello \/ ReadAnswer \/ SendProof \/ HandshakeFails
    \/ ReadEnvelope \/ Handle \/ WriteReply \/ ServeFails \/ Close
    \/ Ended \/ WaitOver \/ WaitCancelled

Next ==
    \/ AgentStep \/ Cancel
    \/ RelayAnswers \/ RelayForwards \/ RelayMisbehaves \/ NetworkDown

Spec == Init /\ [][Next]_vars

(* The agent's goroutine runs: blocking calls return when their context    *)
(* has ended, timers fire, the handler returns.  A healthy relay answers.  *)
Fairness == WF_vars(AgentStep) /\ WF_vars(RelayAnswers)
FairSpec == Spec /\ Fairness

-----------------------------------------------------------------------------
(* The variables have their types.                                         *)
TypeOK ==
    /\ pc \in Places
    /\ conn \in {"none", "up", "down"}
    /\ peer \in PeerStates
    /\ inbox \in Seq(Frames)
    /\ in \in Envelopes \cup {NoEnvelope}
    /\ pc \in {"handle", "reply"} => in \in Envelopes
    /\ backoff \in 0 .. MaxWait
    /\ shown \in BOOLEAN /\ cancelled \in BOOLEAN /\ welcomed \in BOOLEAN
    /\ sent \in Seq(Senders)
    /\ replies \in Seq([id : 1 .. MaxEnvelopes, to : Senders])
    /\ attempts \in Nat /\ faults \in 0 .. MaxFaults

(* The UI shows "connected" only while the agent serves a connection on    *)
(* which the relay has welcomed it, and no longer when Run has moved on to *)
(* close it, wait or dial again.                                           *)
ShownIsHonest == shown => welcomed /\ pc \in Serving

(* And envelopes reach the gateway only on such a connection.              *)
ServedAfterWelcome == pc \in Serving => welcomed

(* A reply goes to the sender of the very envelope it answers, and the     *)
(* replies leave in the order in which the envelopes came, each once, over *)
(* any number of lost connections.                                         *)
RepliesMatch ==
    /\ \A i \in 1 .. Len(replies) : replies[i].to = sent[replies[i].id]
    /\ \A i, j \in 1 .. Len(replies) : i < j => replies[i].id < replies[j].id

(* The wait after n sessions without a welcome is 2^(n-1) seconds, at most *)
(* MaxWait, whatever mix of refused dials, failed handshakes and lost      *)
(* connections they were; a welcome starts it over.                        *)
PowerOfTwo[n \in Nat] == IF n = 0 THEN 1 ELSE 2 * PowerOfTwo[n - 1]
Backoff == backoff = IF attempts = 0 THEN 0 ELSE Min({PowerOfTwo[attempts - 1], MaxWait})

(* Run returns after it was cancelled, wherever it was.                    *)
CancelEnds == cancelled ~> pc = "returned"

(* Once the faults are over the agent is connected, and stays so, unless it*)
(* hangs in a dial that is never answered.                                 *)
Reconnects == <>[](shown \/ cancelled \/ pc = "dialing")

(* What Run promises: it keeps the connection alive until it is cancelled. *)
KeepsAlive == <>[](shown \/ cancelled)
=============================================================================
