------------------------- MODULE RelayClientProofs -------------------------
(***************************************************************************)
(* The connection to the relay, proved for any number of senders, of       *)
(* envelopes and of faults, and any cap of the backoff.                    *)
(*                                                                         *)
(* ShownIsHonest and ServedAfterWelcome carry themselves, over the types.  *)
(* RepliesMatch needs MatchInv: the envelopes on their way are those that  *)
(* were sent, in that order; they come after the one being handled, and    *)
(* that one after what has been answered.  Backoff needs the recursion     *)
(* equation of PowerOfTwo, and that by induction over the naturals.        *)
(***************************************************************************)
EXTENDS RelayClient, SequenceTheorems, WellFoundedInduction, TLAPS

IsEnvelope(f) == f.type = "envelope"
WasSent(e) == e.id \in 1 .. Len(sent) /\ e.from = sent[e.id]
Handling == pc \in {"handle", "reply"}

InboxInv ==
    /\ \A k \in 1 .. Len(inbox) : IsEnvelope(inbox[k]) => WasSent(inbox[k])
    /\ \A k, l \in 1 .. Len(inbox) :
          k < l /\ IsEnvelope(inbox[k]) /\ IsEnvelope(inbox[l]) => inbox[k].id < inbox[l].id

InInv ==
    in # NoEnvelope =>
        /\ WasSent(in)
        /\ \A k \in 1 .. Len(inbox) : IsEnvelope(inbox[k]) => in.id < inbox[k].id

ReplyInv ==
    /\ \A i \in 1 .. Len(replies) :
          /\ replies[i].id \in 1 .. Len(sent) /\ replies[i].to = sent[replies[i].id]
          /\ in # NoEnvelope
          /\ replies[i].id <= in.id
          /\ Handling => replies[i].id < in.id
    /\ \A i, j \in 1 .. Len(replies) : i < j => replies[i].id < replies[j].id

MatchInv == InboxInv /\ InInv /\ ReplyInv

-----------------------------------------------------------------------------
LEMMA FrameKinds ==
    /\ \A f \in Frames : IsEnvelope(f) <=> f \in Envelopes
    /\ NoEnvelope \notin Envelopes
    /\ \A e \in Envelopes : e.id \in 1 .. MaxEnvelopes /\ e.from \in Senders /\ IsEnvelope(e)
    /\ {Challenge, Welcome, Refusal} \subseteq Frames
    /\ ~IsEnvelope(Challenge) /\ ~IsEnvelope(Welcome) /\ ~IsEnvelope(Refusal)
<1>1. \A e \in Envelopes : e.id \in 1 .. MaxEnvelopes /\ e.from \in Senders /\ IsEnvelope(e)
  BY DEF Envelopes, Envelope, IsEnvelope
<1>2. {Challenge, Welcome, Refusal} \subseteq Frames
  BY DEF Frames
<1>3. ~IsEnvelope(Challenge) /\ ~IsEnvelope(Welcome) /\ ~IsEnvelope(Refusal)
  BY DEF IsEnvelope, Challenge, Welcome, Refusal
<1>4. ~IsEnvelope(NoEnvelope)
  BY DEF IsEnvelope, NoEnvelope
<1>5. QED
  BY <1>1, <1>2, <1>3, <1>4 DEF Frames

LEMMA Received ==
    ASSUME TypeOK, inbox # <<>>, Receive
    PROVE  /\ inbox' \in Seq(Frames) /\ Head(inbox) \in Frames /\ Head(inbox) = inbox[1]
           /\ Len(inbox) \in Nat \ {0} /\ Len(inbox') = Len(inbox) - 1
           /\ \A k \in 1 .. Len(inbox') : inbox'[k] = inbox[k + 1]
BY HeadTailProperties, LenProperties, EmptySeq DEF TypeOK, Receive

LEMMA Arrives ==
    ASSUME TypeOK, NEW f \in Frames, inbox' = Append(inbox, f)
    PROVE  /\ inbox' \in Seq(Frames) /\ Len(inbox) \in Nat /\ Len(inbox') = Len(inbox) + 1
           /\ \A k \in 1 .. Len(inbox) : inbox'[k] = inbox[k]
           /\ inbox'[Len(inbox) + 1] = f
BY AppendProperties, LenProperties DEF TypeOK

LEMMA MinOfTwo ==
    ASSUME NEW a \in Int, NEW b \in Int
    PROVE  Min({a, b}) \in {a, b} /\ Min({a, b}) <= a /\ Min({a, b}) <= b
<1>1. \E x \in {a, b} : \A y \in {a, b} : x <= y
  OBVIOUS
<1>2. Min({a, b}) = CHOOSE x \in {a, b} : \A y \in {a, b} : x <= y
  BY DEF Min
<1>3. QED
  BY <1>1, <1>2

LEMMA WaitBounded == \A cur \in 0 .. MaxWait : NextWait(cur) \in 0 .. MaxWait
<1> SUFFICES ASSUME NEW cur \in 0 .. MaxWait PROVE NextWait(cur) \in 0 .. MaxWait
    OBVIOUS
<1>1. cur \in Nat /\ MaxWait \in Nat \ {0} /\ 2 * cur \in Int
  BY RelayClientAssumption
<1>2. Min({2 * cur, MaxWait}) \in 0 .. MaxWait
  <2>1. Min({2 * cur, MaxWait}) \in {2 * cur, MaxWait} /\ Min({2 * cur, MaxWait}) <= MaxWait
    BY <1>1, MinOfTwo
  <2>2. QED
    BY <1>1, <2>1
<1>3. QED
  BY <1>1, <1>2 DEF NextWait

-----------------------------------------------------------------------------
LEMMA TypeInit == Init => TypeOK
<1> SUFFICES ASSUME Init PROVE TypeOK
    OBVIOUS
<1>1. inbox \in Seq(Frames) /\ sent \in Seq(Senders)
      /\ replies \in Seq([id : 1 .. MaxEnvelopes, to : Senders])
  BY EmptySeq DEF Init
<1>2. backoff \in 0 .. MaxWait /\ faults \in 0 .. MaxFaults /\ attempts \in Nat
  BY RelayClientAssumption DEF Init
<1>3. QED
  BY <1>1, <1>2 DEF Init, TypeOK, Places, PeerStates

(* The agent only moves on and perhaps counts.                             *)
LEMMA TypeStep == TypeOK /\ [Next]_vars => TypeOK'
<1> SUFFICES ASSUME TypeOK, [Next]_vars PROVE TypeOK'
    OBVIOUS
<1> USE DEF network, agent
<1>1. CASE Dial
  <2>1. inbox' \in Seq(Frames) /\ conn' \in {"none", "up", "down"} /\ peer' \in PeerStates
    BY <1>1, EmptySeq DEF Dial, TypeOK, PeerStates
  <2>2. pc' \in {"hello", "ended", "dialing"} /\ welcomed' = FALSE
        /\ UNCHANGED <<in, backoff, shown, cancelled, sent, replies, attempts>>
    BY <1>1 DEF Dial
  <2>3. faults' \in 0 .. MaxFaults
    BY <1>1, RelayClientAssumption DEF Dial, TypeOK
  <2>4. QED
    BY <2>1, <2>2, <2>3 DEF TypeOK, Places, Handshaking
<1>2. CASE DialCancelled \/ HandshakeFails \/ ServeFails \/ WaitOver \/ WaitCancelled
  BY <1>2 DEF DialCancelled, HandshakeFails, LeaveHandshake, ServeFails, WaitOver, WaitCancelled,
              TypeOK, Places
<1>3. CASE SendHello \/ SendProof
  BY <1>3 DEF SendHello, SendProof, WriteTo, TypeOK, Places, PeerStates, Handshaking
<1>4. CASE ReadAnswer
  <2>1. inbox' \in Seq(Frames)
    BY <1>4, Received DEF ReadAnswer
  <2>2. \/ /\ pc' \in {"prove", "closing"}
           /\ UNCHANGED <<backoff, shown, welcomed, attempts>>
        \/ /\ pc' = "serve" /\ backoff' = 0 /\ attempts' = 0
           /\ shown' = TRUE /\ welcomed' = TRUE
    BY <1>4 DEF ReadAnswer, Connected
  <2>3. UNCHANGED <<conn, peer, in, cancelled, sent, replies, faults>>
    BY <1>4 DEF ReadAnswer, Receive
  <2>4. 0 \in 0 .. MaxWait
    BY RelayClientAssumption
  <2>5. /\ pc' \in {"prove", "serve", "closing"} /\ backoff' \in 0 .. MaxWait /\ attempts' \in Nat
        /\ shown' \in BOOLEAN /\ welcomed' \in BOOLEAN
    <3>1. CASE UNCHANGED <<backoff, shown, welcomed, attempts>>
      BY <2>2, <3>1 DEF TypeOK
    <3>2. CASE backoff' = 0 /\ attempts' = 0 /\ shown' = TRUE /\ welcomed' = TRUE
      BY <2>2, <2>4, <3>2
    <3>3. QED
      BY <2>2, <3>1, <3>2
  <2>6. QED
    BY <2>1, <2>3, <2>5 DEF TypeOK, Places, Handshaking, Serving
<1>5. CASE ReadEnvelope
  <2>1. inbox' \in Seq(Frames) /\ Head(inbox) \in Frames
    BY <1>5, Received DEF ReadEnvelope
  <2>2. \/ in' \in Envelopes /\ pc' = "handle"
        \/ in' = in /\ pc' = "serve"
    BY <1>5, <2>1, FrameKinds DEF ReadEnvelope, IsEnvelope
  <2>3. UNCHANGED <<conn, peer, backoff, shown, cancelled, sent, replies, welcomed, attempts, faults>>
    BY <1>5 DEF ReadEnvelope, Receive
  <2>4. QED
    BY <2>1, <2>2, <2>3 DEF TypeOK, Places, Serving
<1>6. CASE Handle
  BY <1>6 DEF Handle, TypeOK, Places, Serving
<1>7. CASE WriteReply
  <2>1. in \in Envelopes /\ [id |-> in.id, to |-> in.from] \in [id : 1 .. MaxEnvelopes, to : Senders]
    BY <1>7, FrameKinds DEF WriteReply, TypeOK
  <2>2. replies' \in Seq([id : 1 .. MaxEnvelopes, to : Senders])
    BY <1>7, <2>1, AppendProperties DEF WriteReply, TypeOK
  <2>3. QED
    BY <1>7, <2>2 DEF WriteReply, WriteTo, TypeOK, Places, PeerStates, Serving
<1>8. CASE Close
  <2>1. inbox' \in Seq(Frames)
    BY <1>8, EmptySeq DEF Close
  <2>2. QED
    BY <1>8, <2>1 DEF Close, TypeOK, Places, PeerStates
<1>9. CASE Ended
  BY <1>9, WaitBounded DEF Ended, TypeOK, Places
<1>10. CASE Cancel
  BY <1>10 DEF Cancel, TypeOK
<1>11. CASE RelayAnswers
  <2>1. inbox' \in Seq(Frames)
    BY <1>11, Arrives, FrameKinds DEF RelayAnswers
  <2>2. QED
    BY <1>11, <2>1 DEF RelayAnswers, TypeOK, PeerStates
<1>12. ASSUME NEW from \in Senders, Len(sent) < MaxEnvelopes, sent' = Append(sent, from),
              inbox' = Append(inbox, Envelope(Len(sent) + 1, from))
       PROVE  inbox' \in Seq(Frames) /\ sent' \in Seq(Senders)
  <2>1. Len(sent) + 1 \in 1 .. MaxEnvelopes
    BY <1>12, LenProperties, RelayClientAssumption DEF TypeOK
  <2>2. Envelope(Len(sent) + 1, from) \in Frames
    BY <2>1 DEF Frames, Envelopes
  <2>3. QED
    BY <1>12, <2>2, Arrives, AppendProperties DEF TypeOK
<1>13. CASE RelayForwards
  BY <1>12, <1>13 DEF RelayForwards, TypeOK
<1>14. CASE RelayMisbehaves
  <2>1. inbox' \in Seq(Frames) /\ sent' \in Seq(Senders)
    BY <1>12, <1>14, Arrives, FrameKinds DEF RelayMisbehaves, TypeOK, Senders
  <2>2. QED
    BY <1>14, <2>1, RelayClientAssumption DEF RelayMisbehaves, TypeOK, PeerStates
<1>15. CASE NetworkDown
  BY <1>15, RelayClientAssumption DEF NetworkDown, TypeOK
<1>16. CASE UNCHANGED vars
  BY <1>16 DEF vars, TypeOK
<1>17. QED
  BY <1>1, <1>2, <1>3, <1>4, <1>5, <1>6, <1>7, <1>8, <1>9, <1>10, <1>11, <1>13, <1>14, <1>15,
     <1>16 DEF Next, AgentStep

(* Connection, frames, backoff and flags have their types: the wait never  *)
(* exceeds its cap, and what is being handled is an envelope.              *)
THEOREM TypeCorrect == Spec => []TypeOK
BY TypeInit, TypeStep, PTL DEF Spec

-----------------------------------------------------------------------------
LEMMA HonestStep ==
    ShownIsHonest /\ ServedAfterWelcome /\ [Next]_vars => ShownIsHonest' /\ ServedAfterWelcome'
<1> SUFFICES ASSUME ShownIsHonest, ServedAfterWelcome, [Next]_vars
             PROVE  ShownIsHonest' /\ ServedAfterWelcome'
    OBVIOUS
<1> USE DEF ShownIsHonest, ServedAfterWelcome, Serving, Handshaking
<1>1. CASE Dial \/ DialCancelled \/ SendHello \/ SendProof \/ HandshakeFails
  BY <1>1 DEF Dial, DialCancelled, SendHello, SendProof, HandshakeFails, LeaveHandshake
<1>2. CASE ReadAnswer
  BY <1>2 DEF ReadAnswer, Connected
<1>3. CASE ReadEnvelope \/ Handle \/ WriteReply \/ ServeFails \/ Close
  BY <1>3 DEF ReadEnvelope, Handle, WriteReply, ServeFails, Close
<1>4. CASE Ended \/ WaitOver \/ WaitCancelled
  BY <1>4 DEF Ended, WaitOver, WaitCancelled
<1>5. CASE UNCHANGED <<pc, shown, welcomed>>
  BY <1>5
<1>6. QED
  BY <1>1, <1>2, <1>3, <1>4, <1>5
     DEF Next, AgentStep, Cancel, RelayAnswers, RelayForwards, RelayMisbehaves, NetworkDown, agent, vars

(* "Connected" is shown only while a connection is served that the relay   *)
(* has welcomed (relay.Client.session and its deferred setState).          *)
THEOREM ConnectedIsTrue == Spec => []ShownIsHonest
<1>1. Init => ShownIsHonest /\ ServedAfterWelcome
  BY DEF Init, ShownIsHonest, ServedAfterWelcome, Serving
<1>2. QED
  BY <1>1, HonestStep, PTL DEF Spec

(* No envelope reaches the gateway before the welcome.                     *)
THEOREM WelcomeComesFirst == Spec => []ServedAfterWelcome
<1>1. Init => ShownIsHonest /\ ServedAfterWelcome
  BY DEF Init, ShownIsHonest, ServedAfterWelcome, Serving
<1>2. QED
  BY <1>1, HonestStep, PTL DEF Spec

-----------------------------------------------------------------------------
(* Nothing is sent, received or answered, and no handler begins.           *)
LEMMA QuietMatch ==
    ASSUME TypeOK, MatchInv, UNCHANGED <<in, sent, replies>>,
           inbox' \in {inbox, <<>>}, Handling' => Handling
    PROVE  MatchInv'
<1>1. InboxInv' /\ InInv'
  BY DEF MatchInv, InboxInv, InInv, WasSent
<1>2. ReplyInv'
  BY DEF MatchInv, ReplyInv
<1>3. QED
  BY <1>1, <1>2 DEF MatchInv

(* What is left when a frame is taken keeps its order.                     *)
LEMMA RestMatch ==
    ASSUME TypeOK, InboxInv, inbox # <<>>, Receive, UNCHANGED sent
    PROVE  InboxInv'
<1>1. /\ Len(inbox) \in Nat /\ Len(inbox') = Len(inbox) - 1
      /\ \A k \in 1 .. Len(inbox') : k + 1 \in 1 .. Len(inbox) /\ inbox'[k] = inbox[k + 1]
  BY Received
<1>2. ASSUME NEW k \in 1 .. Len(inbox'), IsEnvelope(inbox'[k])
      PROVE  inbox'[k].id \in 1 .. Len(sent') /\ inbox'[k].from = sent'[inbox'[k].id]
  BY <1>1, <1>2 DEF InboxInv, WasSent
<1>3. ASSUME NEW k \in 1 .. Len(inbox'), NEW l \in 1 .. Len(inbox'), k < l,
             IsEnvelope(inbox'[k]), IsEnvelope(inbox'[l])
      PROVE  inbox'[k].id < inbox'[l].id
  <2>1. k + 1 < l + 1 /\ k + 1 \in 1 .. Len(inbox) /\ l + 1 \in 1 .. Len(inbox)
    BY <1>1, <1>3
  <2>2. inbox'[k] = inbox[k + 1] /\ inbox'[l] = inbox[l + 1]
    BY <1>1
  <2>3. QED
    BY <1>3, <2>1, <2>2 DEF InboxInv
<1>4. QED
  BY <1>2, <1>3 DEF InboxInv, WasSent

(* A frame is taken from the inbox and skipped.                            *)
LEMMA SkipMatch ==
    ASSUME TypeOK, MatchInv, inbox # <<>>, Receive, UNCHANGED <<in, sent, replies>>, ~Handling'
    PROVE  MatchInv'
<1>1. InboxInv'
  BY RestMatch DEF MatchInv
<1>2. InInv'
  BY Received DEF MatchInv, InInv, WasSent
<1>3. ReplyInv'
  BY DEF MatchInv, ReplyInv
<1>4. QED
  BY <1>1, <1>2, <1>3 DEF MatchInv

(* An envelope arrives, or another frame.                                  *)
LEMMA SendMatch ==
    ASSUME TypeOK, MatchInv, NEW from \in Senders, Len(sent) < MaxEnvelopes,
           sent' = Append(sent, from), inbox' = Append(inbox, Envelope(Len(sent) + 1, from)),
           UNCHANGED <<pc, in, replies>>
    PROVE  MatchInv'
<1>1. /\ Len(sent) \in Nat /\ Len(sent') = Len(sent) + 1 /\ sent'[Len(sent) + 1] = from
      /\ \A k \in 1 .. Len(sent) : sent'[k] = sent[k]
  BY AppendProperties, LenProperties DEF TypeOK
<1> DEFINE e == Envelope(Len(sent) + 1, from)
<1>2. e \in Frames /\ e.id = Len(sent) + 1 /\ e.from = from
  BY <1>1, RelayClientAssumption DEF Frames, Envelopes, Envelope
<1>3. /\ Len(inbox) \in Nat /\ Len(inbox') = Len(inbox) + 1 /\ inbox'[Len(inbox) + 1] = e
      /\ \A k \in 1 .. Len(inbox) : inbox'[k] = inbox[k]
  BY <1>2, Arrives
<1> HIDE DEF e
<1>4. ASSUME NEW k \in 1 .. Len(inbox'), IsEnvelope(inbox'[k])
      PROVE  inbox'[k].id \in 1 .. Len(sent') /\ inbox'[k].from = sent'[inbox'[k].id]
  <2>1. CASE k \in 1 .. Len(inbox)
    <3>1. inbox'[k] = inbox[k] /\ inbox[k].id \in 1 .. Len(sent) /\ inbox[k].from = sent[inbox[k].id]
      BY <1>3, <1>4, <2>1 DEF MatchInv, InboxInv, WasSent
    <3>2. QED
      BY <1>1, <3>1
  <2>2. CASE k = Len(inbox) + 1
    BY <1>1, <1>2, <1>3, <2>2
  <2>3. QED
    BY <1>3, <2>1, <2>2
<1>5. ASSUME NEW k \in 1 .. Len(inbox'), NEW l \in 1 .. Len(inbox'), k < l,
             IsEnvelope(inbox'[k]), IsEnvelope(inbox'[l])
      PROVE  inbox'[k].id < inbox'[l].id
  <2>1. k \in 1 .. Len(inbox) /\ inbox'[k] = inbox[k]
    BY <1>3, <1>5
  <2>2. inbox[k].id \in 1 .. Len(sent)
    BY <1>5, <2>1 DEF MatchInv, InboxInv, WasSent
  <2>3. CASE l \in 1 .. Len(inbox)
    BY <1>3, <1>5, <2>1, <2>3 DEF MatchInv, InboxInv
  <2>4. CASE l = Len(inbox) + 1
    BY <1>1, <1>2, <1>3, <2>1, <2>2, <2>4
  <2>5. QED
    BY <1>3, <2>3, <2>4
<1>6. InboxInv'
  BY <1>4, <1>5 DEF InboxInv, WasSent
<1>7. InInv'
  <2> SUFFICES ASSUME in # NoEnvelope
               PROVE  /\ WasSent(in)'
                      /\ \A k \in 1 .. Len(inbox') : IsEnvelope(inbox'[k]) => in.id < inbox'[k].id
      BY DEF InInv, WasSent
  <2>1. WasSent(in) /\ in.id \in 1 .. Len(sent)
    BY DEF MatchInv, InInv, WasSent
  <2>2. ASSUME NEW k \in 1 .. Len(inbox'), IsEnvelope(inbox'[k]) PROVE in.id < inbox'[k].id
    <3>1. CASE k \in 1 .. Len(inbox)
      BY <1>3, <2>2, <3>1 DEF MatchInv, InInv
    <3>2. CASE k = Len(inbox) + 1
      BY <1>1, <1>2, <1>3, <2>1, <3>2
    <3>3. QED
      BY <1>3, <3>1, <3>2
  <2>3. QED
    BY <1>1, <2>1, <2>2 DEF WasSent
<1>8. ReplyInv'
  BY <1>1 DEF MatchInv, ReplyInv, Handling
<1>9. QED
  BY <1>6, <1>7, <1>8 DEF MatchInv

LEMMA OtherFrameMatch ==
    ASSUME TypeOK, MatchInv, NEW f \in {Challenge, Welcome, Refusal}, inbox' = Append(inbox, f),
           UNCHANGED <<pc, in, sent, replies>>
    PROVE  MatchInv'
<1>1. /\ Len(inbox) \in Nat /\ Len(inbox') = Len(inbox) + 1 /\ inbox'[Len(inbox) + 1] = f
      /\ \A k \in 1 .. Len(inbox) : inbox'[k] = inbox[k]
  BY Arrives, FrameKinds
<1>2. \A k \in 1 .. Len(inbox') : IsEnvelope(inbox'[k]) => k \in 1 .. Len(inbox) /\ inbox'[k] = inbox[k]
  BY <1>1, FrameKinds
<1>3. InboxInv'
  BY <1>2 DEF MatchInv, InboxInv, WasSent
<1>4. InInv'
  BY <1>2 DEF MatchInv, InInv, WasSent
<1>5. ReplyInv'
  BY DEF MatchInv, ReplyInv, Handling
<1>6. QED
  BY <1>3, <1>4, <1>5 DEF MatchInv

-----------------------------------------------------------------------------
LEMMA TakesEnvelope ==
    ASSUME TypeOK, MatchInv, inbox # <<>>, Receive, IsEnvelope(Head(inbox)),
           in' = Head(inbox), UNCHANGED <<sent, replies>>
    PROVE  MatchInv'
<1>1. InboxInv'
  BY RestMatch DEF MatchInv
<1>2. /\ in' = inbox[1] /\ 1 \in 1 .. Len(inbox) /\ IsEnvelope(inbox[1])
      /\ in' # NoEnvelope /\ WasSent(inbox[1])
  BY Received, FrameKinds DEF MatchInv, InboxInv
<1>3. InInv'
  <2>1. \A k \in 1 .. Len(inbox') : IsEnvelope(inbox'[k]) => in'.id < inbox'[k].id
    BY <1>2, Received DEF MatchInv, InboxInv
  <2>2. QED
    BY <1>2, <2>1 DEF InInv, WasSent
<1>4. ReplyInv'
  <2>1. ASSUME NEW i \in 1 .. Len(replies)
        PROVE  replies[i].id < in'.id
    <3>1. in # NoEnvelope /\ replies[i].id <= in.id /\ replies[i].id \in 1 .. Len(sent)
      BY DEF MatchInv, ReplyInv
    <3>2. in.id < inbox[1].id /\ in.id \in 1 .. Len(sent) /\ inbox[1].id \in 1 .. Len(sent)
      BY <1>2, <3>1 DEF MatchInv, InInv, WasSent
    <3>3. Len(sent) \in Nat
      BY LenProperties DEF TypeOK
    <3>4. QED
      BY <1>2, <3>1, <3>2, <3>3
  <2>2. ASSUME NEW i \in 1 .. Len(replies) PROVE replies[i].id <= in'.id
    <3>1. replies[i].id \in 1 .. Len(sent) /\ in'.id \in 1 .. Len(sent) /\ Len(sent) \in Nat
      BY <1>2, LenProperties DEF MatchInv, ReplyInv, WasSent, TypeOK
    <3>2. QED
      BY <2>1, <3>1
  <2>3. QED
    BY <1>2, <2>1, <2>2 DEF MatchInv, ReplyInv
<1>5. QED
  BY <1>1, <1>3, <1>4 DEF MatchInv

LEMMA ReplyMatch == TypeOK /\ MatchInv /\ WriteReply => MatchInv'
<1> SUFFICES ASSUME TypeOK, MatchInv, WriteReply PROVE MatchInv'
    OBVIOUS
<1>1. in \in Envelopes /\ in # NoEnvelope /\ Handling /\ ~Handling' /\ UNCHANGED <<in, sent, inbox>>
  BY FrameKinds DEF WriteReply, WriteTo, TypeOK, Handling
<1> DEFINE r == [id |-> in.id, to |-> in.from]
<1>2. r \in [id : 1 .. MaxEnvelopes, to : Senders] /\ r.id = in.id /\ r.to = in.from
  BY <1>1, FrameKinds
<1>3. /\ Len(replies) \in Nat /\ Len(replies') = Len(replies) + 1 /\ replies'[Len(replies) + 1] = r
      /\ \A i \in 1 .. Len(replies) : replies'[i] = replies[i]
  BY <1>2, AppendProperties, LenProperties DEF WriteReply, TypeOK
<1> HIDE DEF r
<1>4. InboxInv' /\ InInv'
  BY <1>1 DEF MatchInv, InboxInv, InInv, WasSent
<1>5. WasSent(in) /\ Len(sent) \in Nat
  BY <1>1, LenProperties DEF MatchInv, InInv, TypeOK
<1>6. ASSUME NEW i \in 1 .. Len(replies')
      PROVE  /\ replies'[i].id \in 1 .. Len(sent) /\ replies'[i].to = sent[replies'[i].id]
             /\ replies'[i].id <= in.id
             /\ i # Len(replies) + 1 => replies'[i].id < in.id
  <2>1. CASE i \in 1 .. Len(replies)
    <3>1. replies'[i] = replies[i] /\ replies[i].id < in.id /\ replies[i].id <= in.id
      BY <1>1, <1>3, <2>1 DEF MatchInv, ReplyInv
    <3>2. QED
      BY <2>1, <3>1 DEF MatchInv, ReplyInv
  <2>2. CASE i = Len(replies) + 1
    BY <1>2, <1>3, <1>5, <2>2 DEF WasSent
  <2>3. QED
    BY <1>3, <2>1, <2>2
<1>7. ASSUME NEW i \in 1 .. Len(replies'), NEW j \in 1 .. Len(replies'), i < j
      PROVE  replies'[i].id < replies'[j].id
  <2>1. CASE j \in 1 .. Len(replies)
    BY <1>3, <1>7, <2>1 DEF MatchInv, ReplyInv
  <2>2. CASE j = Len(replies) + 1
    BY <1>2, <1>3, <1>6, <1>7, <2>2
  <2>3. QED
    BY <1>3, <2>1, <2>2
<1>8. ReplyInv'
  BY <1>1, <1>6, <1>7 DEF ReplyInv
<1>9. QED
  BY <1>4, <1>8 DEF MatchInv

LEMMA MatchStep == TypeOK /\ MatchInv /\ [Next]_vars => MatchInv'
<1> SUFFICES ASSUME TypeOK, MatchInv, [Next]_vars PROVE MatchInv'
    OBVIOUS
<1> USE DEF network, agent, Handling
<1>1. CASE Dial \/ DialCancelled \/ HandshakeFails \/ Ended \/ WaitOver \/ WaitCancelled
  BY <1>1, QuietMatch DEF Dial, DialCancelled, HandshakeFails, LeaveHandshake, Ended, WaitOver, WaitCancelled
<1>2. CASE SendHello \/ SendProof \/ Handle \/ ServeFails \/ Close
  BY <1>2, QuietMatch DEF SendHello, SendProof, WriteTo, Handle, ServeFails, Close
<1>3. CASE ReadAnswer
  BY <1>3, SkipMatch DEF ReadAnswer, Connected
<1>4. CASE ReadEnvelope
  BY <1>4, SkipMatch, TakesEnvelope DEF ReadEnvelope, IsEnvelope
<1>5. CASE WriteReply
  BY <1>5, ReplyMatch
<1>6. CASE Cancel \/ NetworkDown \/ UNCHANGED vars
  BY <1>6, QuietMatch DEF Cancel, NetworkDown, vars
<1>7. CASE RelayAnswers
  BY <1>7, OtherFrameMatch DEF RelayAnswers
<1>8. CASE RelayForwards
  BY <1>8, SendMatch DEF RelayForwards
<1>9. CASE RelayMisbehaves
  <2>1. CASE inbox' = Append(inbox, Refusal) /\ UNCHANGED sent
    BY <1>9, <2>1, OtherFrameMatch DEF RelayMisbehaves
  <2>2. ASSUME NEW c \in Clients, Len(sent) < MaxEnvelopes, sent' = Append(sent, c),
               inbox' = Append(inbox, Envelope(Len(sent) + 1, c))
        PROVE  MatchInv'
    BY <1>9, <2>2, SendMatch DEF RelayMisbehaves, Senders
  <2>3. CASE UNCHANGED <<inbox, sent>>
    BY <1>9, <2>3, QuietMatch DEF RelayMisbehaves
  <2>4. QED
    BY <1>9, <2>1, <2>2, <2>3 DEF RelayMisbehaves
<1>10. QED
  BY <1>1, <1>2, <1>3, <1>4, <1>5, <1>6, <1>7, <1>8, <1>9 DEF Next, AgentStep

(* Every reply goes to the sender of the envelope it answers, in order and *)
(* once, over any number of lost connections (relay.Client.serve).         *)
THEOREM RepliesGoBack == Spec => []RepliesMatch
<1>1. Init => MatchInv
  BY DEF Init, MatchInv, InboxInv, InInv, ReplyInv
<1>2. MatchInv => RepliesMatch
  BY DEF MatchInv, ReplyInv, RepliesMatch
<1>3. QED
  BY <1>1, <1>2, TypeInit, TypeStep, MatchStep, PTL DEF Spec

-----------------------------------------------------------------------------
(* Induction over the naturals, for a set in the place of a predicate.     *)
LEMMA LeastNatural ==
    ASSUME NEW T \in SUBSET Nat, T # {}
    PROVE  \E n \in T : \A m \in T : n <= m
<1> DEFINE Less == {ss \in Nat \X Nat : ss[1] < ss[2]}
<1>1. OpToRel(<, Nat) = Less
  BY DEF OpToRel
<1>2. IsWellFoundedOn(Less, Nat)
  BY <1>1, NatLessThanWellFounded
<1>3. \A m, n \in Nat : <<m, n>> \notin Less => n <= m
  OBVIOUS
<1> HIDE DEF Less
<1>4. PICK n \in T : \A m \in T : <<m, n>> \notin Less
  BY <1>2, WFMin
<1>5. QED
  BY <1>3, <1>4

LEMMA SetInduction ==
    ASSUME NEW S, 0 \in S, \A n \in Nat : n \in S => n + 1 \in S
    PROVE  Nat \subseteq S
<1> SUFFICES ASSUME Nat \ S # {} PROVE FALSE
    OBVIOUS
<1>1. PICK n \in Nat \ S : \A m \in Nat \ S : n <= m
  BY LeastNatural
<1>2. n # 0 /\ n - 1 \in Nat /\ (n - 1) + 1 = n
  BY <1>1
<1>3. n - 1 \in S
  BY <1>1, <1>2
<1>4. QED
  BY <1>1, <1>2, <1>3

(* The powers of two exist: up to n as a function on 0 .. n, any two of    *)
(* which agree where both are defined.                                     *)
PowersUpTo(h, n) ==
    h \in [0 .. n -> Nat] /\ \A k \in 0 .. n : h[k] = IF k = 0 THEN 1 ELSE 2 * h[k - 1]

LEMMA PowersExist == \A n \in Nat : \E h : PowersUpTo(h, n)
<1> DEFINE S == {n \in Nat : \E h : PowersUpTo(h, n)}
<1>1. 0 \in S
  <2>1. PowersUpTo([k \in 0 .. 0 |-> 1], 0)
    BY DEF PowersUpTo
  <2>2. QED
    BY <2>1
<1>2. ASSUME NEW n \in Nat, n \in S PROVE n + 1 \in S
  <2>1. PICK h : PowersUpTo(h, n)
    BY <1>2
  <2>2. PowersUpTo([k \in 0 .. n + 1 |-> IF k <= n THEN h[k] ELSE 2 * h[n]], n + 1)
    BY <2>1 DEF PowersUpTo
  <2>3. QED
    BY <2>2
<1> HIDE DEF S
<1>3. Nat \subseteq S
  BY <1>1, <1>2, SetInduction
<1>4. QED
  BY <1>3 DEF S

LEMMA PowersAgree ==
    ASSUME NEW m \in Nat, NEW n \in Nat, NEW g, NEW h, PowersUpTo(g, m), PowersUpTo(h, n)
    PROVE  \A k \in Nat : k <= m /\ k <= n => g[k] = h[k]
<1> DEFINE S == {k \in Nat : k <= m /\ k <= n => g[k] = h[k]}
<1>1. 0 \in S
  BY DEF PowersUpTo
<1>2. ASSUME NEW k \in Nat, k \in S PROVE k + 1 \in S
  <2> SUFFICES ASSUME k + 1 <= m, k + 1 <= n PROVE g[k + 1] = h[k + 1]
    OBVIOUS
  <2>1. g[k] = h[k]
    BY <1>2
  <2>2. g[k + 1] = 2 * g[k] /\ h[k + 1] = 2 * h[k]
    BY DEF PowersUpTo
  <2>3. QED
    BY <2>1, <2>2
<1> HIDE DEF S
<1>3. Nat \subseteq S
  BY <1>1, <1>2, SetInduction
<1>4. QED
  BY <1>3 DEF S

(* So the function that PowerOfTwo chooses satisfies its equation.         *)
LEMMA PowerOfTwoEquation ==
    \A n \in Nat : PowerOfTwo[n] = IF n = 0 THEN 1 ELSE 2 * PowerOfTwo[n - 1]
<1> DEFINE upTo == [n \in Nat |-> CHOOSE h : PowersUpTo(h, n)]
           f == [n \in Nat |-> upTo[n][n]]
<1>1. \A n \in Nat : PowersUpTo(upTo[n], n)
  BY PowersExist
<1> HIDE DEF upTo
<1>2. ASSUME NEW n \in Nat PROVE f[n] = IF n = 0 THEN 1 ELSE 2 * f[n - 1]
  <2>1. CASE n = 0
    BY <1>1, <2>1 DEF PowersUpTo
  <2>2. CASE n # 0
    <3>1. n - 1 \in Nat
      BY <2>2
    <3>2. upTo[n][n] = 2 * upTo[n][n - 1]
      BY <1>1, <2>2 DEF PowersUpTo
    <3>3. upTo[n][n - 1] = upTo[n - 1][n - 1]
      BY <1>1, <3>1, PowersAgree
    <3>4. QED
      BY <2>2, <3>1, <3>2, <3>3
  <2>3. QED
    BY <2>1, <2>2
<1>3. f = [n \in Nat |-> IF n = 0 THEN 1 ELSE 2 * f[n - 1]]
  BY <1>2
<1> HIDE DEF f
<1>4. PowerOfTwo = [n \in Nat |-> IF n = 0 THEN 1 ELSE 2 * PowerOfTwo[n - 1]]
  BY <1>3 DEF PowerOfTwo
<1>5. QED
  BY <1>4

LEMMA PowerOfTwoType == \A n \in Nat : PowerOfTwo[n] \in Nat \ {0}
<1> DEFINE S == {n \in Nat : PowerOfTwo[n] \in Nat \ {0}}
<1>1. 0 \in S
  BY PowerOfTwoEquation
<1>2. ASSUME NEW n \in Nat, n \in S PROVE n + 1 \in S
  BY <1>2, PowerOfTwoEquation
<1> HIDE DEF S
<1>3. Nat \subseteq S
  BY <1>1, <1>2, SetInduction
<1>4. QED
  BY <1>3 DEF S

-----------------------------------------------------------------------------
(* One failure more: the wait doubles, and once at its cap it stays there. *)
LEMMA WaitDoubles == TypeOK /\ Backoff /\ Ended => Backoff'
<1> SUFFICES ASSUME TypeOK, Backoff, Ended PROVE Backoff'
    OBVIOUS
<1>1. attempts \in Nat /\ MaxWait \in Nat \ {0} /\ MaxWait \in Int
  BY RelayClientAssumption DEF TypeOK
<1>2. CASE cancelled
  BY <1>2 DEF Ended, Backoff
<1>3. ASSUME ~cancelled PROVE Backoff'
  <2>1. backoff' = NextWait(backoff) /\ attempts' = attempts + 1
    BY <1>3 DEF Ended
  <2>2. CASE attempts = 0
    <3>1. Min({1, MaxWait}) \in {1, MaxWait} /\ Min({1, MaxWait}) <= 1
      BY <1>1, MinOfTwo
    <3>2. backoff' = 1 /\ attempts' = 1
      BY <2>1, <2>2 DEF Backoff, NextWait
    <3>3. QED
      BY <1>1, <3>1, <3>2, PowerOfTwoEquation DEF Backoff
  <2>3. CASE attempts # 0
    <3> DEFINE p == PowerOfTwo[attempts - 1]
    <3>1. p \in Nat \ {0} /\ p \in Int /\ 2 * p \in Int /\ PowerOfTwo[attempts] = 2 * p
      BY <1>1, <2>3, PowerOfTwoEquation, PowerOfTwoType
    <3>2. backoff = Min({p, MaxWait}) /\ (attempts + 1) - 1 = attempts /\ attempts + 1 # 0
      BY <1>1, <2>3 DEF Backoff
    <3> HIDE DEF p
    <3>3. backoff \in {p, MaxWait} /\ backoff <= p /\ backoff <= MaxWait
      BY <1>1, <3>1, <3>2, MinOfTwo
    <3>4. Min({2 * p, MaxWait}) \in {2 * p, MaxWait} /\ Min({2 * p, MaxWait}) <= MaxWait
          /\ Min({2 * p, MaxWait}) <= 2 * p
      BY <1>1, <3>1, MinOfTwo
    <3>5. NextWait(backoff) = Min({2 * p, MaxWait})
      BY <1>1, <3>1, <3>3, <3>4 DEF NextWait
    <3>6. QED
      BY <2>1, <3>1, <3>2, <3>5 DEF Backoff
  <2>4. QED
    BY <2>2, <2>3
<1>4. QED
  BY <1>2, <1>3

LEMMA BackoffStep == TypeOK /\ Backoff /\ [Next]_vars => Backoff'
<1> SUFFICES ASSUME TypeOK, Backoff, [Next]_vars PROVE Backoff'
    OBVIOUS
<1>1. CASE Ended
  BY <1>1, WaitDoubles
<1>2. CASE backoff' = 0 /\ attempts' = 0
  BY <1>2 DEF Backoff
<1>3. CASE UNCHANGED <<backoff, attempts>>
  BY <1>3 DEF Backoff
<1>4. CASE ReadAnswer
  BY <1>2, <1>3, <1>4 DEF ReadAnswer, Connected
<1>5. QED
  BY <1>1, <1>3, <1>4 DEF Next, AgentStep, Dial, DialCancelled, SendHello, SendProof, HandshakeFails,
     LeaveHandshake, ReadEnvelope, Handle, WriteReply, ServeFails, Close, WaitOver, WaitCancelled,
     Cancel, RelayAnswers, RelayForwards, RelayMisbehaves, NetworkDown, agent, vars

(* The wait before a redial doubles from one second to its cap with every  *)
(* session that ends without a welcome, and a welcome starts it over       *)
(* (relay.backoff and Client.Run).                                         *)
THEOREM WaitsDouble == Spec => []Backoff
<1>1. Init => Backoff
  BY DEF Init, Backoff
<1>2. QED
  BY <1>1, TypeInit, TypeStep, BackoffStep, PTL DEF Spec
=============================================================================
