------------------------------- MODULE Agent -------------------------------
(***************************************************************************)
(* Pairing from end to end: Gateway, the companion devices that scan its   *)
(* codes, and the relay server between them, which may hold a message back *)
(* or lose it.  Devices and server are not part of this repository; what a *)
(* device does follows from the client half of internal/secure/pairing.go  *)
(* (RequestMAC, VerifyAcceptMAC) and from docs/protocol.md, section 2.     *)
(*                                                                         *)
(* A device keeps one key pair.  It repeats its request as long as it has  *)
(* no answer, so several copies of it arrive over time.  The agent answers *)
(* once: the pair_accept is the reply of the handler that used the code    *)
(* up, and if it is lost the device is paired without knowing it.  A       *)
(* message is lost if it is never received: nothing says that it must be.  *)
(***************************************************************************)
EXTENDS Gateway

CONSTANT OwnKey   \* the public key of each device

ASSUME AgentAssumption == OwnKey \in [Clients -> Keys]

VARIABLES
    client,     \* each device: what it is doing, and the code it scanned
    requests,   \* pair_requests on their way
    replies,    \* pair_accepts on their way
    dropped     \* history: devices removed since they were last stored

outside == <<client, requests, replies, dropped>>
agentVars == <<vars, outside>>

Message == [who : Clients, win : WindowIds]

AgentInit ==
    /\ Init
    /\ client = [c \in Clients |-> [at |-> "idle", win |-> NoWindow]]
    /\ requests = {}
    /\ replies = {}
    /\ dropped = {}

-----------------------------------------------------------------------------
(* What gateway.Pairing reports to the UI: the active code.  It may have   *)
(* been used up meanwhile.  The mutation does not look whether there is one*)
(* and goes by the time left.                                              *)
MutPairing == shownUntil - now >= 0
Pairing == window # NoWindow /\ shownUntil - now > 0

(* The user holds the device before the code on the screen.                *)
Scan(c) ==
    /\ Pairing
    /\ client' = [client EXCEPT ![c] = [at |-> "waiting", win |-> window]]
    /\ UNCHANGED <<vars, requests, replies, dropped>>

(* A pair_request with RequestMAC, for the first time or again.            *)
SendRequest(c) ==
    /\ client[c].at = "waiting"
    /\ requests' = requests \cup {[who |-> c, win |-> client[c].win]}
    /\ UNCHANGED <<vars, client, replies, dropped>>

(* A pair_accept arrives: VerifyAcceptMAC under the secret of the code that*)
(* was scanned last.  The mutation takes any.                              *)
MutAnyAccept(m) == TRUE
VerifyAccept(m) == m.win = client[m.who].win

ReceiveAccept(m) ==
    /\ m \in replies
    /\ replies' = replies \ {m}
    /\ client' = IF client[m.who].at = "waiting" /\ VerifyAccept(m)
                 THEN [client EXCEPT ![m.who].at = "paired"]
                 ELSE client
    /\ UNCHANGED <<vars, requests, dropped>>

-----------------------------------------------------------------------------
(* The agent's steps that touch the outside.                               *)
ReceiveRequest(m) ==
    /\ m \in requests
    /\ requests' = requests \ {m}
    /\ DeliverPairRequest(m.who, OwnKey[m.who], m.win)
    /\ UNCHANGED <<client, replies, dropped>>

StoreDevice ==
    /\ PersistAdd
    /\ dropped' = IF relay'.at = "consume" THEN dropped \ {relay.from} ELSE dropped
    /\ UNCHANGED <<client, requests, replies>>

(* The reply goes out on the connection, if that is still up.              *)
Reply ==
    /\ Consume
    /\ \/ replies' = replies \cup {[who |-> relay.from, win |-> relay.win]}
       \/ UNCHANGED replies
    /\ UNCHANGED <<client, requests, dropped>>

Unpair(u, c) ==
    /\ RemoveDevice(u, c)
    /\ dropped' = dropped \cup {c}
    /\ UNCHANGED <<client, requests, replies>>

Inside ==
    /\ \/ Tick \/ HandleInCore \/ AddDevice \/ Crash \/ Start
       \/ \E c \in Clients : client[c].at = "paired" /\ DeliverSealed(c, OwnKey[c])
       \/ \E u \in Requests : NewWindow(u) \/ UiStep(u)
    /\ UNCHANGED outside

AgentNext ==
    \/ \E c \in Clients : Scan(c) \/ SendRequest(c)
    \/ \E m \in Message : ReceiveAccept(m) \/ ReceiveRequest(m)
    \/ StoreDevice \/ Reply \/ Inside
    \/ \E u \in Requests, c \in Clients : Unpair(u, c)

AgentSpec == AgentInit /\ [][AgentNext]_agentVars

(* Goroutines as in Gateway; a device repeats its request; and of the many *)
(* copies of a request the relay server gets one through in the end.  It   *)
(* may lose every pair_accept, and nobody need scan, click or wait.        *)
AgentFairness ==
    /\ SF_agentVars(AddDevice /\ UNCHANGED outside)
    /\ WF_agentVars((HandleInCore /\ UNCHANGED outside) \/ StoreDevice \/ Reply)
    /\ \A u \in Requests : WF_agentVars(UiStep(u) /\ UNCHANGED outside)
    /\ \A c \in Clients : WF_agentVars(SendRequest(c))
    /\ \A m \in Message :
          SF_agentVars(ReceiveRequest(m) /\ client[m.who] = [at |-> "waiting", win |-> m.win])

AgentFairSpec == AgentSpec /\ AgentFairness

-----------------------------------------------------------------------------
(* The variables outside have their types; a device waits or is paired     *)
(* with the code of a window that was opened.                              *)
OutsideOK ==
    /\ client \in [Clients -> [at : {"idle", "waiting", "paired"},
                               win : 0 .. Len(windows)]]
    /\ \A c \in Clients : client[c].at # "idle" => client[c].win # NoWindow
    /\ requests \cup replies \subseteq Message
    /\ dropped \subseteq Clients

(* Two devices that both scanned a code are never both paired with it,     *)
(* however their requests and the answers are delayed, repeated or lost,   *)
(* and the answer to an earlier attempt never counts for a later one       *)
(* (docs/protocol.md:51-52: the code is used up by the pairing).           *)
OnePerCode ==
    \A c, d \in Clients :
        client[c].at = "paired" /\ client[d].at = "paired"
            /\ client[c].win = client[d].win => c = d

(* A device that believes it is paired is one the agent knows, under that  *)
(* device's key and over every restart, unless the user removed it: no     *)
(* pair_accept is sent before the device is on disk, and neither a failed  *)
(* write nor a second attempt takes it out again.                          *)
PairedIsServed ==
    alive => \A c \in Clients :
        client[c].at = "paired" /\ c \notin dropped =>
            c \in DOMAIN devices /\ devices[c] = OwnKey[c]

(* A device with a code that is still good gets an answer to one of its    *)
(* requests, also when earlier answers were lost or the disk failed on the *)
(* way, so that the agent has it in its list already: the agent sends a    *)
(* pair_accept for the code, unless it expires or is replaced first, or    *)
(* the process ends.                                                       *)
PairingConcludes ==
    \A c \in Clients, w \in WindowIds :
        (client[c] = [at |-> "waiting", win |-> w])
            ~> \/ client[c] # [at |-> "waiting", win |-> w]
               \/ accepts[w] > 0
               \/ window # w
               \/ now > windows[w].expires
=============================================================================
