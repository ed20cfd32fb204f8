--------------------------- MODULE GatewayProofs ---------------------------
(***************************************************************************)
(* The pairing window and the allowlist, proved for any number of clients, *)
(* keys, windows and UI requests, any disk failures and any restarts.      *)
(*                                                                         *)
(* Four arguments, each an invariant of its own over the same lock; that   *)
(* memory and disk agree needs none of them, that Membership is            *)
(* implemented needs all.                                                  *)
(*   Locking: whoever is in the middle of a write holds the store's lock,  *)
(*   so there is one, and the file is torn meanwhile.                      *)
(*   WindowInv: a window for which an accept was sent is used, and the     *)
(*   relay handler only works with one that is not.                        *)
(*   GoneInv: a device the UI reported as unpaired is neither in memory    *)
(*   nor on disk, and one being removed is out of memory already.          *)
(*   StoreInv: what was promised to a client is in memory, and on disk     *)
(*   unless the file is torn.                                              *)
(* Then pairing from end to end, for any number of devices and any delay   *)
(* or loss of messages: every step of Agent is one of Gateway or leaves    *)
(* Gateway alone, so the invariants hold there, and so does Membership.    *)
(***************************************************************************)
EXTENDS Agent, SequenceTheorems, TLAPS

(* One line each of the code.                                              *)
USE DEF OnAddError, Unlock, Forget, TakeLock

(* The windows that the handlers hold exist.                               *)
WindowsExist ==
    /\ relay.at \in {"add", "persist", "consume"} => relay.win <= Len(windows)
    /\ \A u \in Requests : ui[u].at = "publish" => ui[u].win <= Len(windows)

Locking ==
    /\ holder = "relay" <=> relay.at = "persist"
    /\ \A u \in Requests : holder = u <=> ui[u].at = "persist"
    /\ holder # "none" => file = Torn
    /\ ~alive => /\ relay = RelayIdle /\ devices = EmptyStore
                 /\ \A u \in Requests : ui[u] = UiIdle

(* Accepts are counted by the window's used flag.                          *)
Spent(w) == w <= Len(windows) /\ windows[w].used
WindowInv ==
    /\ \A w \in WindowIds : accepts[w] <= (IF Spent(w) THEN 1 ELSE 0)
    /\ relay.at \in {"add", "persist", "consume"} => ~windows[relay.win].used

(* A device that is being removed is out of memory and not yet reported.   *)
Removing ==
    \A u \in Requests :
        ui[u].at = "persist" =>
            /\ ui[u].client \notin DOMAIN devices
            /\ told[ui[u].client] # "unpaired"

(* Only a client reported as unpaired has late payloads, and the one that  *)
(* is being handled is counted in.                                         *)
InCore(c) == relay.at = "core" /\ relay.from = c
LateInv ==
    \A c \in Clients :
        /\ told[c] # "unpaired" => late[c] = 0
        /\ late[c] <= 1
        /\ InCore(c) => late[c] = 0

(* What was promised is in memory, and so is what is being promised.       *)
Stored(c, k) ==
    /\ c \in DOMAIN devices => devices[c] = k
    /\ file # Torn /\ c \in DOMAIN devices => c \in DOMAIN file /\ file[c] = k
PromiseInv ==
    /\ alive => \A c \in DOMAIN promised :
                    c \in DOMAIN devices /\ devices[c] = promised[c]
    /\ relay.at = "persist" =>
            relay.from \in DOMAIN devices /\ devices[relay.from] = relay.key
    /\ relay.at = "consume" => Stored(relay.from, relay.key)

BaseInv == TypeOK /\ WindowsExist /\ Locking

GoneInv == Removing /\ UnpairDurable /\ LateInv

StoreInv == PromiseInv /\ AcceptedIsStored

-----------------------------------------------------------------------------
(* The allowlist's operations keep it an allowlist.                        *)
LEMMA EmptyStoreType == EmptyStore \in Allowlist /\ DOMAIN EmptyStore = {}
<1>1. EmptyStore \in [{} -> Keys]
  BY DEF EmptyStore
<1>2. QED
  BY <1>1 DEF Allowlist, EmptyStore

LEMMA WithType ==
    ASSUME NEW f \in Allowlist, NEW c \in Clients, NEW k \in Keys
    PROVE  /\ With(f, c, k) \in Allowlist
           /\ DOMAIN With(f, c, k) = DOMAIN f \cup {c}
           /\ With(f, c, k)[c] = k
           /\ \A d \in DOMAIN f : d # c => With(f, c, k)[d] = f[d]
<1>1. PICK S \in SUBSET Clients : f \in [S -> Keys]
  BY DEF Allowlist
<1>2. With(f, c, k) \in [S \cup {c} -> Keys]
  BY <1>1 DEF With
<1>3. S \cup {c} \in SUBSET Clients
  BY <1>1
<1>4. With(f, c, k) \in Allowlist
  BY <1>2, <1>3 DEF Allowlist
<1>5. QED
  BY <1>4 DEF With

LEMMA WithoutType ==
    ASSUME NEW f \in Allowlist, NEW c
    PROVE  /\ Without(f, c) \in Allowlist
           /\ DOMAIN Without(f, c) = DOMAIN f \ {c}
           /\ \A d \in DOMAIN f : d # c => Without(f, c)[d] = f[d]
<1>1. PICK S \in SUBSET Clients : f \in [S -> Keys]
  BY DEF Allowlist
<1>2. Without(f, c) \in [S \ {c} -> Keys]
  BY <1>1 DEF Without, Restrict
<1>3. S \ {c} \in SUBSET Clients
  BY <1>1
<1>4. Without(f, c) \in Allowlist
  BY <1>2, <1>3 DEF Allowlist
<1>5. QED
  BY <1>4 DEF Without, Restrict

(* What a handler's state holds, by where it is.                           *)
LEMMA RelayFacts ==
    ASSUME relay \in RelayState
    PROVE  /\ relay.at \in {"idle", "core", "add", "persist", "consume"}
           /\ relay.at = "idle" => relay = RelayIdle
           /\ relay.at # "idle" => relay.from \in Clients
           /\ relay.at = "add" => relay.key \in Keys \cup {BadKey}
           /\ relay.at \in {"persist", "consume"} => relay.key \in Keys
           /\ relay.at \in {"add", "persist", "consume"} => relay.win \in WindowIds
BY DEF RelayState, RelayIdle

LEMMA UiFacts ==
    ASSUME ui \in [Requests -> UiState], NEW u \in Requests
    PROVE  /\ ui[u].at \in {"idle", "publish", "persist"}
           /\ ui[u].at = "idle" => ui[u] = UiIdle
           /\ ui[u].at = "publish" => ui[u].win \in WindowIds
           /\ ui[u].at = "persist" => ui[u].client \in Clients
<1>1. ui[u] \in UiState
  OBVIOUS
<1>2. QED
  BY <1>1 DEF UiState, UiIdle

LEMMA PlaceFacts ==
    /\ RelayIdle \in RelayState /\ RelayIdle.at = "idle"
    /\ UiIdle \in UiState /\ UiIdle.at = "idle"
BY DEF RelayState, RelayIdle, UiState, UiIdle

(* Moving on within a pair request.                                        *)
LEMMA MoveFacts ==
    ASSUME relay \in RelayState, relay.at \in {"add", "persist"},
           relay.key \in Keys, NEW p \in {"persist", "consume"}
    PROVE  /\ [relay EXCEPT !.at = p] \in RelayState
           /\ [relay EXCEPT !.at = p].at = p
           /\ [relay EXCEPT !.at = p].from = relay.from
           /\ [relay EXCEPT !.at = p].key = relay.key
           /\ [relay EXCEPT !.at = p].win = relay.win
<1>1. relay \in [at : {"add"}, from : Clients, key : Keys \cup {BadKey}, win : WindowIds]
      \/ relay \in [at : {"persist", "consume"}, from : Clients, key : Keys, win : WindowIds]
  BY DEF RelayState, RelayIdle
<1>2. [relay EXCEPT !.at = p] \in
          [at : {"persist", "consume"}, from : Clients, key : Keys, win : WindowIds]
  BY <1>1
<1>3. QED
  BY <1>1, <1>2 DEF RelayState

-----------------------------------------------------------------------------
LEMMA TypeInit == Init => TypeOK
<1> SUFFICES ASSUME Init PROVE TypeOK
    OBVIOUS
<1>1. windows \in Seq([expires : Nat, used : BOOLEAN]) /\ Len(windows) = 0
  BY DEF Init
<1>2. ui \in [Requests -> UiState]
  BY PlaceFacts DEF Init
<1>3. QED
  BY <1>1, <1>2, EmptyStoreType, PlaceFacts, GatewayAssumption
  DEF Init, TypeOK, NoWindow, Answers, WindowIds

LEMMA TypeStep == TypeOK /\ WindowsExist /\ [Next]_vars => TypeOK'
<1> SUFFICES ASSUME TypeOK, WindowsExist, [Next]_vars PROVE TypeOK'
    OBVIOUS
<1> USE GatewayAssumption
<1> USE DEF process, history
<1>1. relay \in RelayState /\ ui \in [Requests -> UiState]
  BY DEF TypeOK
<1>2. CASE Tick
  BY <1>2 DEF Tick, TypeOK
<1>3. ASSUME NEW c \in Clients, NEW k \in Keys, DeliverSealed(c, k) PROVE TypeOK'
  <2>1. Sealed(c) \in RelayState
    BY DEF Sealed, RelayState
  <2>2. QED
    BY <1>3, <2>1 DEF DeliverSealed, TypeOK
<1>4. ASSUME NEW c \in Clients, NEW k \in Keys \cup {BadKey},
             NEW w \in WindowIds \cup {NoWindow}, DeliverPairRequest(c, k, w)
      PROVE  TypeOK'
  <2>1. CASE VerifyRequest(w)
    <3>1. w \in WindowIds
      BY <2>1 DEF VerifyRequest
    <3>2. Pair("add", c, k, w) \in RelayState
      BY <3>1 DEF Pair, RelayState
    <3>3. QED
      BY <1>4, <2>1, <3>2 DEF DeliverPairRequest, TypeOK
  <2>2. CASE ~VerifyRequest(w)
    BY <1>4, <2>2 DEF DeliverPairRequest, TypeOK
  <2>3. QED
    BY <2>1, <2>2
<1>5. CASE HandleInCore
  <2>1. relay.from \in Clients /\ late \in [Clients -> Nat]
    BY <1>1, <1>5, RelayFacts DEF HandleInCore, TypeOK
  <2>2. late' \in [Clients -> Nat]
    BY <1>5, <2>1 DEF HandleInCore
  <2>3. QED
    BY <1>5, <2>2, PlaceFacts DEF HandleInCore, TypeOK
<1>6. CASE AddDevice
  <2>1. CASE RefuseKey
    BY <1>6, <2>1, PlaceFacts DEF AddDevice, RefuseKey, TypeOK, KeyDecodes
  <2>2. CASE relay.key # BadKey
    <3>1. /\ relay.at = "add" /\ relay.from \in Clients
          /\ relay.key \in Keys /\ relay.win \in WindowIds
      BY <1>1, <1>6, <2>2, RelayFacts DEF AddDevice
    <3>2. EnterDevice
      BY <1>6, <2>2 DEF AddDevice, RefuseKey, KeyDecodes
    <3>3. devices' \in Allowlist /\ promised' \in Allowlist
      BY <3>1, <3>2, WithType, WithoutType DEF EnterDevice, TypeOK
    <3>4. /\ added' \in [WindowIds -> SUBSET Clients]
          /\ told' \in [Clients -> Answers] /\ late' \in [Clients -> Nat]
      BY <3>1, <3>2 DEF EnterDevice, TypeOK, Answers
    <3>5. CASE OpenFile /\ holder' = "relay" /\ relay' = [relay EXCEPT !.at = "persist"]
      <4>1. relay' \in RelayState
        BY <1>1, <3>1, <3>5, MoveFacts
      <4>2. QED
        BY <1>6, <3>3, <3>4, <3>5, <4>1 DEF AddDevice, OpenFile, TypeOK
    <3>6. CASE OpenFails /\ relay' = RelayIdle /\ UNCHANGED holder
      BY <1>6, <3>3, <3>4, <3>6, PlaceFacts DEF AddDevice, OpenFails, TypeOK
    <3>7. QED
      BY <1>6, <2>2, <3>5, <3>6 DEF AddDevice, RefuseKey, KeyDecodes
  <2>3. QED
    BY <1>6, <2>1, <2>2 DEF AddDevice, KeyDecodes
<1>7. CASE PersistAdd
  <2>1. relay.key \in Keys /\ relay.at = "persist"
    BY <1>1, <1>7, RelayFacts DEF PersistAdd
  <2>2. [relay EXCEPT !.at = "consume"] \in RelayState
    BY <1>1, <2>1, MoveFacts
  <2>3. relay' \in RelayState
    BY <1>7, <2>2, PlaceFacts DEF PersistAdd
  <2>4. file' \in Allowlist \cup {Torn} /\ failures' \in Nat
    BY <1>7 DEF PersistAdd, WriteFile, WriteFails, TypeOK
  <2>5. QED
    BY <1>7, <2>3, <2>4 DEF PersistAdd, TypeOK
<1>8. CASE Consume
  <2>1. /\ relay.from \in Clients /\ relay.key \in Keys
        /\ relay.win \in WindowIds /\ relay.win \in 1 .. Len(windows)
    BY <1>1, <1>8, RelayFacts DEF Consume, SendAccept, WindowsExist, WindowIds, TypeOK
  <2>2. promised' \in Allowlist
    <3>1. promised \in Allowlist
      BY DEF TypeOK
    <3>2. With(promised, relay.from, relay.key) \in Allowlist
      BY <2>1, <3>1, WithType
    <3>3. QED
      BY <1>8, <3>1, <3>2 DEF Consume, SendAccept
  <2>3. accepts' \in [WindowIds -> Nat]
    <3>1. accepts \in [WindowIds -> Nat]
      BY DEF TypeOK
    <3>2. accepts' = [accepts EXCEPT ![relay.win] = @ + 1]
      BY <1>8 DEF Consume, SendAccept
    <3>3. QED
      BY <2>1, <3>1, <3>2
  <2>4. windows' \in Seq([expires : Nat, used : BOOLEAN]) /\ Len(windows') = Len(windows)
    <3> DEFINE w == relay.win  spent == [windows[w] EXCEPT !.used = TRUE]
    <3>1. windows \in Seq([expires : Nat, used : BOOLEAN])
      BY DEF TypeOK
    <3>2. spent \in [expires : Nat, used : BOOLEAN]
      <4>1. windows[w] \in [expires : Nat, used : BOOLEAN]
        BY <2>1, <3>1, ElementOfSeq
      <4>2. QED
        BY <4>1
    <3>3. windows' = [windows EXCEPT ![w] = spent]
      BY <1>8 DEF Consume
    <3> HIDE DEF w, spent
    <3>4. QED
      BY <2>1, <3>1, <3>2, <3>3, ExceptSeq DEF w
  <2>5. QED
    BY <1>8, <2>2, <2>3, <2>4, PlaceFacts DEF Consume, SendAccept, TypeOK
<1>9. ASSUME NEW u \in Requests, NewWindow(u) PROVE TypeOK'
  <2>1. Len(windows) \in Nat /\ Len(windows) + 1 \in WindowIds
    BY <1>9 DEF NewWindow, TypeOK, WindowIds
  <2>2. [at |-> "publish", win |-> Len(windows) + 1] \in UiState
    BY <2>1 DEF UiState
  <2>3. ui' \in [Requests -> UiState]
    BY <1>1, <1>9, <2>2 DEF NewWindow
  <2>4. [expires |-> now + WindowTTL, used |-> FALSE] \in [expires : Nat, used : BOOLEAN]
    BY DEF TypeOK
  <2>5. /\ windows' \in Seq([expires : Nat, used : BOOLEAN])
        /\ Len(windows') = Len(windows) + 1
    BY <1>9, <2>4 DEF NewWindow, TypeOK
  <2>6. Len(windows') <= MaxWindows /\ window' \in 0 .. Len(windows')
    BY <1>9, <2>1, <2>5 DEF NewWindow, TypeOK
  <2>7. QED
    BY <1>9, <2>3, <2>5, <2>6 DEF NewWindow, TypeOK
<1>10. ASSUME NEW u \in Requests, Publish(u) PROVE TypeOK'
  <2>1. ui[u].win \in 0 .. Len(windows)
    BY <1>1, <1>10, UiFacts DEF Publish, WindowsExist, WindowIds, TypeOK
  <2>2. ui' \in [Requests -> UiState]
    BY <1>1, <1>10, PlaceFacts DEF Publish
  <2>3. QED
    BY <1>10, <2>1, <2>2 DEF Publish, TypeOK
<1>11. ASSUME NEW u \in Requests, NEW c \in Clients, RemoveUnknown(u, c) PROVE TypeOK'
  <2>1. told' \in [Clients -> Answers]
    BY <1>11 DEF RemoveUnknown, TypeOK, Answers
  <2>2. QED
    BY <1>11, <2>1 DEF RemoveUnknown, TypeOK
<1>12. ASSUME NEW u \in Requests, NEW c \in Clients, RemoveDevice(u, c) PROVE TypeOK'
  <2>1. devices' \in Allowlist /\ promised' \in Allowlist
    BY <1>12, WithoutType DEF RemoveDevice, TypeOK
  <2>2. [at |-> "persist", client |-> c] \in UiState
    BY DEF UiState
  <2>3. ui' \in [Requests -> UiState] /\ holder' \in Requests \cup {"none", "relay"}
    BY <1>1, <1>12, <2>2 DEF RemoveDevice, TypeOK
  <2>4. file' \in Allowlist \cup {Torn} /\ failures' \in Nat
    BY <1>12 DEF RemoveDevice, OpenFile, OpenFails, TypeOK
  <2>5. QED
    BY <1>12, <2>1, <2>3, <2>4 DEF RemoveDevice, TypeOK
<1>13. ASSUME NEW u \in Requests, PersistRemove(u) PROVE TypeOK'
  <2>1. told' \in [Clients -> Answers]
    BY <1>13 DEF PersistRemove, TypeOK, Answers
  <2>2. ui' \in [Requests -> UiState]
    BY <1>1, <1>13, PlaceFacts DEF PersistRemove
  <2>3. QED
    BY <1>13, <2>1, <2>2 DEF PersistRemove, WriteFile, WriteFails, TypeOK
<1>14. CASE Crash
  <2>1. ui' \in [Requests -> UiState]
    BY <1>14, PlaceFacts DEF Crash
  <2>2. window' \in 0 .. Len(windows')
    BY <1>14 DEF Crash, NoWindow, TypeOK
  <2>3. relay' \in RelayState /\ devices' \in Allowlist /\ crashes' \in Nat
    BY <1>14, PlaceFacts, EmptyStoreType DEF Crash, TypeOK
  <2>4. QED
    BY <1>14, <2>1, <2>2, <2>3 DEF Crash, TypeOK
<1>15. CASE Start
  BY <1>15 DEF Start, TypeOK
<1>16. CASE UNCHANGED vars
  BY <1>16 DEF vars, TypeOK
<1>17. QED
  BY <1>2, <1>3, <1>4, <1>5, <1>6, <1>7, <1>8, <1>9, <1>10, <1>11, <1>12, <1>13,
     <1>14, <1>15, <1>16 DEF Next, RelayStep, UiStep

-----------------------------------------------------------------------------
(* The handlers' windows exist, and a write is made under the lock.        *)
LEMMA WindowsExistStep == BaseInv /\ [Next]_vars => WindowsExist'
<1> SUFFICES ASSUME BaseInv, [Next]_vars PROVE WindowsExist'
    OBVIOUS
<1> USE GatewayAssumption
<1> USE DEF process
<1>1. TypeOK /\ WindowsExist /\ relay \in RelayState /\ ui \in [Requests -> UiState]
  BY DEF BaseInv, TypeOK
<1>2. Len(windows) \in Nat
  BY <1>1 DEF TypeOK
<1>3. CASE Tick \/ Start \/ UNCHANGED vars
  BY <1>1, <1>3 DEF Tick, Start, vars, WindowsExist
<1>4. ASSUME NEW c \in Clients, NEW k \in Keys, DeliverSealed(c, k) PROVE WindowsExist'
  BY <1>1, <1>4 DEF DeliverSealed, Sealed, WindowsExist
<1>5. ASSUME NEW c \in Clients, NEW k \in Keys \cup {BadKey},
             NEW w \in WindowIds \cup {NoWindow}, DeliverPairRequest(c, k, w)
      PROVE  WindowsExist'
  <2>1. CASE VerifyRequest(w)
    <3>1. relay'.win = w /\ w <= Len(windows)
      BY <1>1, <1>2, <1>5, <2>1 DEF DeliverPairRequest, VerifyRequest, Pair, TypeOK
    <3>2. QED
      BY <1>1, <1>5, <3>1 DEF DeliverPairRequest, WindowsExist
  <2>2. QED
    BY <1>1, <1>5, <2>1 DEF DeliverPairRequest, WindowsExist
<1>6. CASE HandleInCore
  BY <1>1, <1>6, PlaceFacts DEF HandleInCore, WindowsExist
<1>7. ASSUME AddDevice \/ PersistAdd
      PROVE  WindowsExist'
  <2>1. /\ relay.at \in {"add", "persist"} /\ UNCHANGED <<windows, ui>>
        /\ relay' # RelayIdle => relay.key \in Keys
        /\ relay' = RelayIdle \/ \E p \in {"persist", "consume"} : relay' = [relay EXCEPT !.at = p]
    BY <1>1, <1>7, RelayFacts DEF AddDevice, PersistAdd, RefuseKey, KeyDecodes
  <2>2. relay' # RelayIdle => relay'.win = relay.win
    BY <1>1, <2>1, MoveFacts
  <2>3. QED
    BY <1>1, <2>1, <2>2, PlaceFacts DEF WindowsExist
<1>8. CASE Consume
  <2>1. Len(windows') = Len(windows)
    BY <1>1, <1>8 DEF Consume, TypeOK
  <2>2. QED
    BY <1>1, <1>8, <2>1, PlaceFacts DEF Consume, SendAccept, WindowsExist
<1>9. ASSUME NEW u \in Requests, NewWindow(u) PROVE WindowsExist'
  <2>1. Len(windows') = Len(windows) + 1
    BY <1>1, <1>9 DEF NewWindow, TypeOK
  <2>2. relay.at \in {"add", "persist", "consume"} => relay.win \in Int
    BY <1>1, RelayFacts DEF WindowIds
  <2>3. \A v \in Requests : ui[v].at = "publish" => ui[v].win \in Int
    BY <1>1, UiFacts DEF WindowIds
  <2>4. \A v \in Requests : ui'[v].at = "publish" => ui'[v].win <= Len(windows')
    <3> SUFFICES ASSUME NEW v \in Requests, ui'[v].at = "publish"
                 PROVE  ui'[v].win <= Len(windows) + 1
        BY <2>1
    <3>1. CASE v = u
      BY <1>1, <1>2, <1>9, <3>1 DEF NewWindow
    <3>2. CASE v # u
      <4>1. ui'[v] = ui[v]
        BY <1>1, <1>9, <3>2 DEF NewWindow
      <4>2. QED
        BY <1>1, <1>2, <2>3, <4>1 DEF WindowsExist
    <3>3. QED
      BY <3>1, <3>2
  <2>5. relay.at \in {"add", "persist", "consume"} => relay.win <= Len(windows')
    BY <1>1, <1>2, <2>1, <2>2 DEF WindowsExist
  <2>6. QED
    BY <1>9, <2>4, <2>5 DEF NewWindow, WindowsExist
<1>10. ASSUME NEW u \in Requests, ui'[u].at # "publish",
              \A v \in Requests : v # u => ui'[v] = ui[v],
              UNCHANGED <<windows, relay>>
       PROVE  WindowsExist'
  BY <1>1, <1>10 DEF WindowsExist
<1>11. ASSUME NEW u \in Requests, Publish(u) \/ PersistRemove(u) PROVE WindowsExist'
  <2>1. ui' = [ui EXCEPT ![u] = UiIdle] /\ UNCHANGED <<windows, relay>>
    BY <1>11 DEF Publish, PersistRemove
  <2>2. QED
    BY <1>1, <1>10, <2>1, PlaceFacts
<1>12. ASSUME NEW u \in Requests, NEW c \in Clients, RemoveUnknown(u, c) PROVE WindowsExist'
  BY <1>1, <1>12 DEF RemoveUnknown, WindowsExist
<1>13. ASSUME NEW u \in Requests, NEW c \in Clients, RemoveDevice(u, c) PROVE WindowsExist'
  <2>1. \/ ui' = [ui EXCEPT ![u] = [at |-> "persist", client |-> c]]
        \/ ui' = ui
    BY <1>13 DEF RemoveDevice
  <2>2. UNCHANGED <<windows, relay>>
    BY <1>13 DEF RemoveDevice
  <2>3. QED
    BY <1>1, <1>10, <2>1, <2>2 DEF WindowsExist
<1>14. CASE Crash
  BY <1>14, PlaceFacts DEF Crash, WindowsExist
<1>15. QED
  BY <1>3, <1>4, <1>5, <1>6, <1>7, <1>8, <1>9, <1>11, <1>12, <1>13, <1>14
  DEF Next, RelayStep, UiStep

-----------------------------------------------------------------------------
(* A handler that moves does so while the process is alive.                *)
LEMMA BusyIsAlive ==
    ASSUME Locking
    PROVE  /\ relay.at # "idle" => alive
           /\ \A u \in Requests : ui[u].at # "idle" => alive
BY PlaceFacts DEF Locking

LEMMA LockingStep == BaseInv /\ [Next]_vars => Locking'
<1> SUFFICES ASSUME BaseInv, [Next]_vars PROVE Locking'
    OBVIOUS
<1> USE GatewayAssumption
<1> USE DEF process
<1>1. TypeOK /\ Locking /\ relay \in RelayState /\ ui \in [Requests -> UiState]
  BY DEF BaseInv, TypeOK
<1>2. ASSUME alive, UNCHANGED <<alive, holder, file>>,
             relay'.at = "persist" <=> relay.at = "persist",
             \A u \in Requests : ui'[u].at = "persist" <=> ui[u].at = "persist"
      PROVE  Locking'
  BY <1>1, <1>2 DEF Locking
<1>3. CASE Tick \/ UNCHANGED vars
  BY <1>1, <1>3 DEF Tick, vars, Locking
<1>4. ASSUME NEW c \in Clients, NEW k \in Keys, DeliverSealed(c, k) PROVE Locking'
  BY <1>2, <1>4, PlaceFacts DEF DeliverSealed, Sealed
<1>5. ASSUME NEW c \in Clients, NEW k \in Keys \cup {BadKey},
             NEW w \in WindowIds \cup {NoWindow}, DeliverPairRequest(c, k, w)
      PROVE  Locking'
  BY <1>2, <1>5, PlaceFacts DEF DeliverPairRequest, Pair
<1>6. CASE HandleInCore
  BY <1>1, <1>2, <1>6, BusyIsAlive, PlaceFacts DEF HandleInCore
<1>7. CASE AddDevice
  <2>1. alive /\ alive' = alive /\ ui' = ui /\ relay.at = "add" /\ holder = "none"
    BY <1>1, <1>7, BusyIsAlive DEF AddDevice
  <2>2. CASE RefuseKey
    BY <1>2, <2>1, <2>2, PlaceFacts DEF RefuseKey
  <2>3. CASE OpenFails /\ relay' = RelayIdle /\ UNCHANGED holder
    BY <1>2, <2>1, <2>3, PlaceFacts DEF OpenFails
  <2>4. CASE /\ OpenFile /\ holder' = "relay" /\ KeyDecodes(relay.key)
             /\ relay' = [relay EXCEPT !.at = "persist"]
    <3>1. relay'.at = "persist"
      BY <1>1, <2>1, <2>4, RelayFacts, MoveFacts DEF KeyDecodes
    <3>2. QED
      BY <1>1, <2>1, <2>4, <3>1 DEF Locking, OpenFile
  <2>5. QED
    BY <1>7, <2>2, <2>3, <2>4 DEF AddDevice
<1>8. CASE PersistAdd
  <2>1. /\ alive /\ alive' = alive /\ ui' = ui
        /\ relay.at = "persist" /\ holder = "relay" /\ holder' = "none"
    BY <1>1, <1>8, BusyIsAlive DEF PersistAdd, Locking
  <2>2. relay'.at # "persist"
    BY <1>1, <1>8, <2>1, RelayFacts, MoveFacts, PlaceFacts DEF PersistAdd
  <2>3. QED
    BY <1>1, <2>1, <2>2 DEF Locking
<1>9. CASE Consume
  BY <1>1, <1>2, <1>9, BusyIsAlive, PlaceFacts DEF Consume, SendAccept
<1>10. ASSUME NEW u \in Requests, NewWindow(u) PROVE Locking'
  <2>1. ui'[u].at = "publish" /\ \A v \in Requests : v # u => ui'[v] = ui[v]
    BY <1>1, <1>10 DEF NewWindow
  <2>2. QED
    BY <1>2, <1>10, <2>1, PlaceFacts DEF NewWindow
<1>11. ASSUME NEW u \in Requests, Publish(u) PROVE Locking'
  <2>1. ui'[u] = UiIdle /\ \A v \in Requests : v # u => ui'[v] = ui[v]
    BY <1>1, <1>11 DEF Publish
  <2>2. QED
    BY <1>1, <1>2, <1>11, <2>1, BusyIsAlive, PlaceFacts DEF Publish
<1>12. ASSUME NEW u \in Requests, NEW c \in Clients, RemoveUnknown(u, c) PROVE Locking'
  BY <1>2, <1>12 DEF RemoveUnknown
<1>13. ASSUME NEW u \in Requests, NEW c \in Clients, RemoveDevice(u, c) PROVE Locking'
  <2>1. /\ alive /\ alive' = alive /\ relay' = relay /\ holder = "none"
        /\ ui[u] = UiIdle
    BY <1>13 DEF RemoveDevice
  <2>2. CASE OpenFails /\ UNCHANGED <<holder, ui>>
    BY <1>2, <2>1, <2>2 DEF OpenFails
  <2>3. CASE OpenFile /\ holder' = u /\ ui' = [ui EXCEPT ![u] = [at |-> "persist", client |-> c]]
    <3>1. ui'[u].at = "persist" /\ \A v \in Requests : v # u => ui'[v] = ui[v]
      BY <1>1, <2>3
    <3>2. QED
      BY <1>1, <2>1, <2>3, <3>1 DEF Locking, OpenFile
  <2>4. QED
    BY <1>13, <2>2, <2>3 DEF RemoveDevice
<1>14. ASSUME NEW u \in Requests, PersistRemove(u) PROVE Locking'
  <2>1. /\ alive /\ alive' = alive /\ relay' = relay
        /\ holder = u /\ holder' = "none"
    BY <1>1, <1>14, BusyIsAlive DEF PersistRemove, Locking
  <2>2. ui'[u] = UiIdle /\ \A v \in Requests : v # u => ui'[v] = ui[v]
    BY <1>1, <1>14 DEF PersistRemove
  <2>3. QED
    BY <1>1, <2>1, <2>2, PlaceFacts DEF Locking
<1>15. CASE Crash
  BY <1>15, PlaceFacts DEF Crash, Locking
<1>16. CASE Start
  BY <1>1, <1>16 DEF Start, Locking
<1>17. QED
  BY <1>3, <1>4, <1>5, <1>6, <1>7, <1>8, <1>9, <1>10, <1>11, <1>12, <1>13, <1>14,
     <1>15, <1>16 DEF Next, RelayStep, UiStep

LEMMA BaseInit == Init => BaseInv
<1> SUFFICES ASSUME Init PROVE BaseInv
    OBVIOUS
<1>1. relay.at = "idle" /\ \A u \in Requests : ui[u].at = "idle"
  BY PlaceFacts DEF Init
<1>2. QED
  BY <1>1, TypeInit, GatewayAssumption DEF Init, BaseInv, WindowsExist, Locking

LEMMA BaseStep == BaseInv /\ [Next]_vars => BaseInv'
BY TypeStep, WindowsExistStep, LockingStep DEF BaseInv

(* The variables keep their types, for any number of windows and requests. *)
THEOREM TypeCorrect == Spec => []TypeOK
<1>1. BaseInv => TypeOK
  BY DEF BaseInv
<1>2. QED
  BY <1>1, BaseInit, BaseStep, PTL DEF Spec

-----------------------------------------------------------------------------
(* A window is used before the accept leaves, and used stays.              *)
LEMMA WindowInvStep == BaseInv /\ WindowInv /\ [Next]_vars => WindowInv'
<1> SUFFICES ASSUME BaseInv, WindowInv, [Next]_vars PROVE WindowInv'
    OBVIOUS
<1> USE GatewayAssumption
<1> USE DEF process, history
<1>1. /\ TypeOK /\ WindowsExist /\ Locking /\ relay \in RelayState
      /\ ui \in [Requests -> UiState] /\ Len(windows) \in Nat
      /\ accepts \in [WindowIds -> Nat]
  BY DEF BaseInv, TypeOK
<1>2. WindowIds \subseteq Nat
  BY DEF WindowIds
<1>3. ASSUME UNCHANGED <<windows, accepts>>,
             relay'.at \in {"add", "persist", "consume"} =>
                /\ relay.at \in {"add", "persist", "consume"}
                /\ relay'.win = relay.win
      PROVE  WindowInv'
  BY <1>3 DEF WindowInv, Spent
<1>4. CASE Tick \/ Start \/ UNCHANGED vars
  BY <1>3, <1>4 DEF Tick, Start, vars
<1>5. ASSUME NEW c \in Clients, NEW k \in Keys, DeliverSealed(c, k) PROVE WindowInv'
  BY <1>3, <1>5 DEF DeliverSealed, Sealed
<1>6. ASSUME NEW c \in Clients, NEW k \in Keys \cup {BadKey},
             NEW w \in WindowIds \cup {NoWindow}, DeliverPairRequest(c, k, w)
      PROVE  WindowInv'
  <2>1. CASE VerifyRequest(w)
    <3>1. relay'.win = w /\ ~windows[w].used
      BY <1>6, <2>1 DEF DeliverPairRequest, VerifyRequest, Pair
    <3>2. QED
      BY <1>6, <3>1 DEF DeliverPairRequest, WindowInv, Spent
  <2>2. QED
    BY <1>3, <1>6, <2>1 DEF DeliverPairRequest
<1>7. CASE HandleInCore
  BY <1>3, <1>7, PlaceFacts DEF HandleInCore
<1>8. ASSUME AddDevice \/ PersistAdd
      PROVE  WindowInv'
  <2>1. /\ relay.at \in {"add", "persist"} /\ UNCHANGED <<windows, accepts>>
        /\ relay' # RelayIdle => relay.key \in Keys
        /\ \/ relay' = RelayIdle
           \/ \E p \in {"persist", "consume"} : relay' = [relay EXCEPT !.at = p]
    BY <1>1, <1>8, RelayFacts DEF AddDevice, PersistAdd, RefuseKey, KeyDecodes
  <2>2. relay' # RelayIdle => relay'.win = relay.win
    BY <1>1, <2>1, MoveFacts
  <2>3. QED
    BY <1>3, <2>1, <2>2, PlaceFacts
<1>9. CASE Consume
  <2>1. /\ relay.at = "consume" /\ relay.win \in WindowIds
        /\ relay.win \in 1 .. Len(windows) /\ ~windows[relay.win].used
    BY <1>1, <1>9, RelayFacts DEF Consume, SendAccept, WindowsExist, WindowInv, WindowIds
  <2>2. /\ relay' = RelayIdle
        /\ accepts' = [accepts EXCEPT ![relay.win] = @ + 1]
        /\ windows' = [windows EXCEPT ![relay.win].used = TRUE]
    BY <1>9 DEF Consume, SendAccept
  <2>3. Len(windows') = Len(windows) /\ windows'[relay.win].used
    BY <1>1, <2>1, <2>2, ElementOfSeq DEF TypeOK
  <2>4. \A w \in 1 .. Len(windows) : w # relay.win => windows'[w] = windows[w]
    BY <1>1, <2>1, <2>2 DEF TypeOK
  <2>5. accepts[relay.win] = 0
    BY <1>1, <2>1 DEF WindowInv, Spent
  <2>6. \A w \in WindowIds : accepts'[w] <= (IF Spent(w)' THEN 1 ELSE 0)
    <3> SUFFICES ASSUME NEW w \in WindowIds
                 PROVE  accepts'[w] <= (IF Spent(w)' THEN 1 ELSE 0)
        OBVIOUS
    <3>1. CASE w = relay.win
      <4>1. accepts'[w] = 1
        BY <1>1, <2>1, <2>2, <2>5, <3>1
      <4>2. Spent(w)'
        BY <2>1, <2>3, <3>1 DEF Spent
      <4>3. QED
        BY <4>1, <4>2
    <3>2. CASE w # relay.win
      <4>1. accepts'[w] = accepts[w]
        BY <1>1, <2>1, <2>2, <3>2
      <4>2. w \in 1 .. Len(windows) => windows'[w] = windows[w]
        BY <2>4, <3>2
      <4>3. Spent(w)' <=> Spent(w)
        BY <1>1, <1>2, <2>3, <4>2 DEF Spent, WindowIds
      <4>4. QED
        BY <4>1, <4>3 DEF WindowInv
    <3>3. QED
      BY <3>1, <3>2
  <2>7. QED
    BY <2>2, <2>6, PlaceFacts DEF WindowInv
<1>10. ASSUME NEW u \in Requests, NewWindow(u) PROVE WindowInv'
  <2>1. /\ Len(windows') = Len(windows) + 1 /\ UNCHANGED <<accepts, relay>>
        /\ \A w \in 1 .. Len(windows) : windows'[w] = windows[w]
        /\ ~windows'[Len(windows) + 1].used
    BY <1>1, <1>10 DEF NewWindow, TypeOK
  <2>2. \A w \in WindowIds : Spent(w)' <=> Spent(w)
    <3> SUFFICES ASSUME NEW w \in WindowIds PROVE Spent(w)' <=> Spent(w)
        OBVIOUS
    <3>1. w \in Nat /\ w >= 1
      BY DEF WindowIds
    <3>2. CASE w = Len(windows) + 1
      BY <1>1, <2>1, <3>1, <3>2 DEF Spent
    <3>3. CASE w # Len(windows) + 1
      BY <1>1, <2>1, <3>1, <3>3 DEF Spent
    <3>4. QED
      BY <3>2, <3>3
  <2>3. relay.at \in {"add", "persist", "consume"} => relay.win \in 1 .. Len(windows)
    BY <1>1, RelayFacts DEF WindowsExist, WindowIds
  <2>4. QED
    BY <2>1, <2>2, <2>3 DEF WindowInv
<1>11. ASSUME NEW u \in Requests, Publish(u) \/ PersistRemove(u) PROVE WindowInv'
  BY <1>3, <1>11 DEF Publish, PersistRemove
<1>12. ASSUME NEW u \in Requests, NEW c \in Clients,
              RemoveUnknown(u, c) \/ RemoveDevice(u, c)
       PROVE  WindowInv'
  BY <1>3, <1>12 DEF RemoveUnknown, RemoveDevice
<1>13. CASE Crash
  BY <1>3, <1>13, PlaceFacts DEF Crash
<1>14. QED
  BY <1>4, <1>5, <1>6, <1>7, <1>8, <1>9, <1>10, <1>11, <1>12, <1>13
  DEF Next, RelayStep, UiStep

(* A pairing window is one-time: whatever requests, removals, replaced     *)
(* windows, disk failures and restarts come together, no more than one     *)
(* pair_accept is sent for it (gateway.handlePairRequest, Window.Consume). *)
THEOREM WindowsAreOneTime == Spec => []SingleUse
<1>1. Init => WindowInv
  BY PlaceFacts, GatewayAssumption DEF Init, WindowInv, Spent
<1>2. BaseInv /\ WindowInv => SingleUse
  <2> SUFFICES ASSUME BaseInv, WindowInv, NEW w \in WindowIds PROVE accepts[w] <= 1
      BY DEF SingleUse
  <2>1. accepts[w] \in Nat
    BY DEF BaseInv, TypeOK
  <2>2. QED
    BY <2>1 DEF WindowInv
<1>3. QED
  BY <1>1, <1>2, BaseInit, BaseStep, WindowInvStep, PTL DEF Spec

-----------------------------------------------------------------------------
(* A device reported as unpaired is gone, and stays so until it pairs.     *)
LEMMA GoneInvStep == BaseInv /\ GoneInv /\ [Next]_vars => GoneInv'
<1> SUFFICES ASSUME BaseInv, GoneInv, [Next]_vars PROVE GoneInv'
    OBVIOUS
<1> USE GatewayAssumption
<1> USE DEF process, history
<1>1. /\ TypeOK /\ Locking /\ relay \in RelayState /\ ui \in [Requests -> UiState]
      /\ devices \in Allowlist /\ told \in [Clients -> Answers]
      /\ late \in [Clients -> Nat]
  BY DEF BaseInv, TypeOK
<1>2. Removing /\ UnpairDurable /\ LateInv
  BY DEF GoneInv
<1>3. ASSUME UNCHANGED <<devices, file, told, late>>,
             \A u \in Requests : ui'[u].at = "persist" => ui'[u] = ui[u],
             relay'.at = "core" => relay' = relay
      PROVE  GoneInv'
  BY <1>2, <1>3 DEF GoneInv, Removing, UnpairDurable, Absent, LateInv, InCore
<1>4. CASE Tick \/ UNCHANGED vars
  BY <1>3, <1>4 DEF Tick, vars
<1>5. ASSUME NEW c \in Clients, NEW k \in Keys, DeliverSealed(c, k) PROVE GoneInv'
  <2>1. CASE relay' = relay
    BY <1>3, <1>5, <2>1 DEF DeliverSealed
  <2>2. CASE c \in DOMAIN devices /\ relay' = Sealed(c)
    <3>1. told[c] # "unpaired"
      BY <1>2, <2>2 DEF UnpairDurable, Absent
    <3>2. \A d \in Clients : InCore(d)' => d = c
      BY <2>2 DEF InCore, Sealed
    <3>3. LateInv'
      BY <1>2, <1>5, <3>1, <3>2 DEF DeliverSealed, LateInv
    <3>4. QED
      BY <1>2, <1>5, <3>3 DEF DeliverSealed, GoneInv, Removing, UnpairDurable, Absent
  <2>3. QED
    BY <1>5, <2>1, <2>2 DEF DeliverSealed
<1>6. ASSUME NEW c \in Clients, NEW k \in Keys \cup {BadKey},
             NEW w \in WindowIds \cup {NoWindow}, DeliverPairRequest(c, k, w)
      PROVE  GoneInv'
  BY <1>3, <1>6 DEF DeliverPairRequest, Pair
<1>7. CASE HandleInCore
  <2>1. /\ relay.at = "core" /\ relay.from \in Clients /\ relay' = RelayIdle
        /\ UNCHANGED <<devices, file, told, ui>>
    BY <1>1, <1>7, RelayFacts DEF HandleInCore
  <2>2. late[relay.from] = 0
    BY <1>2, <2>1 DEF LateInv, InCore
  <2>3. \A d \in Clients :
           late'[d] = IF d = relay.from /\ told[d] = "unpaired" THEN 1 ELSE late[d]
    BY <1>1, <1>7, <2>1, <2>2 DEF HandleInCore
  <2>4. \A d \in Clients : ~InCore(d)'
    BY <2>1, PlaceFacts DEF InCore
  <2>5. LateInv'
    BY <1>2, <2>1, <2>3, <2>4 DEF LateInv
  <2>6. QED
    BY <1>2, <2>1, <2>5 DEF GoneInv, Removing, UnpairDurable, Absent
<1>8. CASE AddDevice
  <2>1. CASE RefuseKey
    BY <1>3, <1>8, <2>1, PlaceFacts DEF AddDevice, RefuseKey
  <2>2. CASE ~RefuseKey
    <3>1. /\ EnterDevice /\ relay.at = "add" /\ relay.from \in Clients
          /\ relay.key \in Keys /\ holder = "none" /\ ui' = ui
          /\ file' = file \/ file' = Torn
          /\ relay' = RelayIdle \/ relay' = [relay EXCEPT !.at = "persist"]
      BY <1>1, <1>8, <2>2, RelayFacts
      DEF AddDevice, KeyDecodes, OpenFile, OpenFails
    <3>2. relay'.at # "core"
      BY <1>1, <3>1, MoveFacts, PlaceFacts
    <3>3. /\ DOMAIN devices' = DOMAIN devices \cup {relay.from}
          /\ told'[relay.from] = "nothing" /\ late'[relay.from] = 0
          /\ \A d \in Clients : d # relay.from =>
                told'[d] = told[d] /\ late'[d] = late[d]
      BY <1>1, <3>1, WithType DEF EnterDevice
    <3>4. Removing'
      BY <1>1, <3>1 DEF Locking, Removing
    <3>5. UnpairDurable'
      BY <1>2, <3>1, <3>3 DEF UnpairDurable, Absent
    <3>6. LateInv'
      BY <1>2, <3>2, <3>3 DEF LateInv, InCore
    <3>7. QED
      BY <3>4, <3>5, <3>6 DEF GoneInv
  <2>3. QED
    BY <2>1, <2>2
<1>9. ASSUME UNCHANGED <<devices, told, late>>, file' = file \/ file' = devices,
             \A u \in Requests : ui'[u].at = "persist" => ui'[u] = ui[u],
             relay'.at = "core" => relay' = relay
      PROVE  GoneInv'
  <2>1. UnpairDurable'
    BY <1>2, <1>9 DEF UnpairDurable, Absent
  <2>2. QED
    BY <1>2, <1>9, <2>1 DEF GoneInv, Removing, LateInv, InCore
<1>10. CASE PersistAdd
  <2>1. relay'.at # "core"
    BY <1>1, <1>10, RelayFacts, MoveFacts, PlaceFacts DEF PersistAdd
  <2>2. QED
    BY <1>9, <1>10, <2>1 DEF PersistAdd, WriteFile, WriteFails
<1>11. CASE Consume
  BY <1>3, <1>11, PlaceFacts DEF Consume, SendAccept
<1>12. ASSUME NEW u \in Requests, NewWindow(u) PROVE GoneInv'
  <2>1. \A v \in Requests : ui'[v].at = "persist" => ui'[v] = ui[v]
    BY <1>1, <1>12 DEF NewWindow
  <2>2. QED
    BY <1>3, <1>12, <2>1 DEF NewWindow
<1>13. ASSUME NEW u \in Requests, Publish(u) PROVE GoneInv'
  <2>1. \A v \in Requests : ui'[v].at = "persist" => ui'[v] = ui[v]
    BY <1>1, <1>13, PlaceFacts DEF Publish
  <2>2. QED
    BY <1>3, <1>13, <2>1 DEF Publish
<1>14. ASSUME NEW u \in Requests, NEW c \in Clients, RemoveUnknown(u, c) PROVE GoneInv'
  <2>1. /\ UNCHANGED <<devices, file, late, ui, relay>> /\ holder = "none"
        /\ \A d \in Clients : told'[d] = "unpaired" <=> told[d] = "unpaired"
    BY <1>1, <1>14 DEF RemoveUnknown
  <2>2. Removing'
    BY <1>1, <2>1 DEF Locking, Removing
  <2>3. QED
    BY <1>2, <2>1, <2>2 DEF GoneInv, UnpairDurable, Absent, LateInv, InCore
<1>15. ASSUME NEW u \in Requests, NEW c \in Clients, RemoveDevice(u, c) PROVE GoneInv'
  <2>1. /\ DOMAIN devices' = DOMAIN devices \ {c} /\ c \in DOMAIN devices
        /\ UNCHANGED <<told, late, relay>> /\ holder = "none"
        /\ file' = file \/ file' = Torn
    BY <1>1, <1>15, WithoutType DEF RemoveDevice, OpenFile, OpenFails
  <2>2. told[c] # "unpaired"
    BY <1>2, <2>1 DEF UnpairDurable, Absent
  <2>3. \A v \in Requests : ui[v].at # "persist"
    BY <1>1, <2>1 DEF Locking
  <2>4. \A v \in Requests : ui'[v].at = "persist" => ui'[v].client = c
    BY <1>1, <1>15, <2>3 DEF RemoveDevice
  <2>5. Removing'
    BY <2>1, <2>2, <2>4 DEF Removing
  <2>6. QED
    BY <1>2, <2>1, <2>5 DEF GoneInv, UnpairDurable, Absent, LateInv, InCore
<1>16. ASSUME NEW u \in Requests, PersistRemove(u) PROVE GoneInv'
  <2>1. /\ ui[u].at = "persist" /\ ui[u].client \in Clients /\ ui'[u] = UiIdle
        /\ \A v \in Requests : v # u => ui'[v] = ui[v]
    BY <1>1, <1>16, UiFacts DEF PersistRemove
  <2>2. \A v \in Requests : ui'[v].at # "persist"
    BY <1>1, <2>1, PlaceFacts DEF Locking
  <2>3. ui[u].client \notin DOMAIN devices /\ late[ui[u].client] = 0
    BY <1>2, <2>1 DEF Removing, LateInv
  <2>4. CASE WriteFile /\ told' = [told EXCEPT ![ui[u].client] = "unpaired"]
    <3>1. UNCHANGED <<devices, late, relay>> /\ file' = devices
      BY <1>16, <2>4 DEF PersistRemove, WriteFile
    <3>2. \A d \in Clients : told'[d] = IF d = ui[u].client THEN "unpaired" ELSE told[d]
      BY <1>1, <2>4
    <3>3. UnpairDurable' /\ LateInv'
      BY <1>2, <2>3, <3>1, <3>2 DEF UnpairDurable, Absent, LateInv, InCore
    <3>4. QED
      BY <2>2, <3>3 DEF GoneInv, Removing
  <2>5. CASE WriteFails /\ UNCHANGED told
    BY <1>3, <1>16, <2>2, <2>5 DEF PersistRemove, WriteFails
  <2>6. QED
    BY <1>16, <2>4, <2>5 DEF PersistRemove
<1>17. CASE Crash
  <2>1. /\ DOMAIN devices' = {} /\ UNCHANGED <<file, told, late>>
        /\ relay' = RelayIdle /\ \A u \in Requests : ui'[u] = UiIdle
    BY <1>17, EmptyStoreType DEF Crash
  <2>2. QED
    BY <1>2, <2>1, PlaceFacts DEF GoneInv, Removing, UnpairDurable, Absent, LateInv, InCore
<1>18. CASE Start
  <2>1. /\ file # Torn /\ devices' = file /\ UNCHANGED <<file, told, late, relay, ui>>
        /\ \A u \in Requests : ui[u].at # "persist"
    BY <1>1, <1>18, PlaceFacts DEF Start, Locking
  <2>2. QED
    BY <1>2, <2>1 DEF GoneInv, Removing, UnpairDurable, Absent, LateInv, InCore
<1>19. QED
  BY <1>4, <1>5, <1>6, <1>7, <1>8, <1>10, <1>11, <1>12, <1>13, <1>14, <1>15, <1>16,
     <1>17, <1>18 DEF Next, RelayStep, UiStep

LEMMA GoneInvInit == Init => GoneInv
BY PlaceFacts, GatewayAssumption
DEF Init, GoneInv, Removing, UnpairDurable, LateInv, InCore

(* Once the UI has answered that a device is unpaired, it is neither in    *)
(* memory nor on disk until it pairs again, over any failed writes and any *)
(* restarts (DeviceStore.Remove, LoadDevices).                             *)
THEOREM UnpairingIsDurable == Spec => []UnpairDurable
<1>1. GoneInv => UnpairDurable
  BY DEF GoneInv
<1>2. QED
  BY <1>1, BaseInit, BaseStep, GoneInvInit, GoneInvStep, PTL DEF Spec

(* And only the one payload that was being handled meanwhile reaches the   *)
(* core after that answer (gateway.handleSealed reads the store first).    *)
THEOREM OneLatePayload == Spec => []AtMostOneLate
<1>1. GoneInv => AtMostOneLate
  BY DEF GoneInv, LateInv, AtMostOneLate
<1>2. QED
  BY <1>1, BaseInit, BaseStep, GoneInvInit, GoneInvStep, PTL DEF Spec

-----------------------------------------------------------------------------
(* What was promised is stored, and what is being promised too.            *)
LEMMA StoreInvStep == BaseInv /\ StoreInv /\ [Next]_vars => StoreInv'
<1> SUFFICES ASSUME BaseInv, StoreInv, [Next]_vars PROVE StoreInv'
    OBVIOUS
<1> USE GatewayAssumption
<1> USE DEF process, history
<1>1. /\ TypeOK /\ Locking /\ relay \in RelayState /\ ui \in [Requests -> UiState]
      /\ devices \in Allowlist /\ promised \in Allowlist
  BY DEF BaseInv, TypeOK
<1>2. PromiseInv /\ AcceptedIsStored
  BY DEF StoreInv
<1>3. ASSUME UNCHANGED <<devices, promised>>, alive' => alive,
             file' = file \/ file' = Torn,
             relay'.at \in {"persist", "consume"} => relay' = relay
      PROVE  StoreInv'
  BY <1>2, <1>3 DEF StoreInv, PromiseInv, Stored, AcceptedIsStored
<1>4. CASE Tick \/ UNCHANGED vars
  BY <1>3, <1>4 DEF Tick, vars
<1>5. ASSUME NEW c \in Clients, NEW k \in Keys, DeliverSealed(c, k) PROVE StoreInv'
  BY <1>3, <1>5 DEF DeliverSealed, Sealed
<1>6. ASSUME NEW c \in Clients, NEW k \in Keys \cup {BadKey},
             NEW w \in WindowIds \cup {NoWindow}, DeliverPairRequest(c, k, w)
      PROVE  StoreInv'
  BY <1>3, <1>6 DEF DeliverPairRequest, Pair
<1>7. CASE HandleInCore
  BY <1>3, <1>7, PlaceFacts DEF HandleInCore
<1>8. CASE AddDevice
  <2>1. CASE RefuseKey
    BY <1>3, <1>8, <2>1, PlaceFacts DEF AddDevice, RefuseKey
  <2>2. CASE ~RefuseKey
    <3>1. /\ EnterDevice /\ relay.at = "add" /\ relay.from \in Clients
          /\ relay.key \in Keys /\ UNCHANGED alive
          /\ file' = file \/ file' = Torn
          /\ relay' = RelayIdle \/ relay' = [relay EXCEPT !.at = "persist"]
      BY <1>1, <1>8, <2>2, RelayFacts
      DEF AddDevice, KeyDecodes, OpenFile, OpenFails
    <3>2. /\ relay'.at # "consume"
          /\ relay'.at = "persist" =>
                relay'.from = relay.from /\ relay'.key = relay.key
      BY <1>1, <3>1, MoveFacts, PlaceFacts
    <3>3. /\ DOMAIN devices' = DOMAIN devices \cup {relay.from}
          /\ devices'[relay.from] = relay.key
          /\ \A d \in DOMAIN devices : d # relay.from => devices'[d] = devices[d]
      <4>1. devices' = With(devices, relay.from, relay.key)
        BY <3>1 DEF EnterDevice
      <4>2. \A d \in DOMAIN devices : d # relay.from =>
               With(devices, relay.from, relay.key)[d] = devices[d]
        BY DEF With
      <4>3. /\ DOMAIN With(devices, relay.from, relay.key) = DOMAIN devices \cup {relay.from}
            /\ With(devices, relay.from, relay.key)[relay.from] = relay.key
        BY DEF With
      <4>4. QED
        BY <4>1, <4>2, <4>3
    <3>4. /\ DOMAIN promised' = DOMAIN promised \ {relay.from}
          /\ \A d \in DOMAIN promised : d # relay.from => promised'[d] = promised[d]
      BY <1>1, <3>1, WithoutType DEF EnterDevice
    <3>5. AcceptedIsStored'
      BY <1>2, <3>1, <3>4 DEF AcceptedIsStored
    <3>6. PromiseInv'
      BY <1>2, <3>1, <3>2, <3>3, <3>4 DEF PromiseInv
    <3>7. QED
      BY <3>5, <3>6 DEF StoreInv
  <2>3. QED
    BY <2>1, <2>2
<1>9. CASE PersistAdd
  <2>1. /\ relay.at = "persist" /\ relay.key \in Keys /\ alive
        /\ UNCHANGED <<devices, promised, alive>>
    BY <1>1, <1>9, RelayFacts, BusyIsAlive DEF PersistAdd
  <2>2. CASE WriteFails /\ relay' = RelayIdle
    BY <1>3, <2>1, <2>2, PlaceFacts DEF WriteFails
  <2>3. CASE WriteFile /\ relay' = [relay EXCEPT !.at = "consume"]
    <3>1. relay'.at = "consume" /\ relay'.from = relay.from /\ relay'.key = relay.key
      BY <1>1, <2>1, <2>3, MoveFacts
    <3>2. relay.from \in DOMAIN devices /\ devices[relay.from] = relay.key
      BY <1>2, <2>1 DEF PromiseInv
    <3>3. \A c \in DOMAIN promised : c \in DOMAIN devices /\ devices[c] = promised[c]
      BY <1>2, <2>1 DEF PromiseInv
    <3>4. file' = devices
      BY <2>3 DEF WriteFile
    <3>5. QED
      BY <2>1, <3>1, <3>2, <3>3, <3>4 DEF StoreInv, PromiseInv, Stored, AcceptedIsStored
  <2>4. QED
    BY <1>9, <2>2, <2>3 DEF PersistAdd
<1>10. CASE Consume
  <2>1. /\ relay.at = "consume" /\ relay.from \in Clients /\ relay.key \in Keys
        /\ relay' = RelayIdle /\ UNCHANGED <<devices, file, alive>>
    BY <1>1, <1>10, RelayFacts DEF Consume, SendAccept
  <2>2. Stored(relay.from, relay.key)
    BY <1>2, <2>1 DEF PromiseInv
  <2>3. CASE relay.from \notin DOMAIN devices
    BY <1>3, <1>10, <2>1, <2>3, PlaceFacts DEF Consume, SendAccept
  <2>4. CASE relay.from \in DOMAIN devices
    <3>1. promised' = With(promised, relay.from, relay.key)
      BY <1>10, <2>4 DEF Consume, SendAccept
    <3>2. /\ DOMAIN promised' = DOMAIN promised \cup {relay.from}
          /\ promised'[relay.from] = relay.key
          /\ \A d \in DOMAIN promised : d # relay.from => promised'[d] = promised[d]
      <4>1. \A d \in DOMAIN promised : d # relay.from =>
               With(promised, relay.from, relay.key)[d] = promised[d]
        BY DEF With
      <4>2. /\ DOMAIN With(promised, relay.from, relay.key) = DOMAIN promised \cup {relay.from}
            /\ With(promised, relay.from, relay.key)[relay.from] = relay.key
        BY DEF With
      <4>3. QED
        BY <3>1, <4>1, <4>2
    <3>3. QED
      BY <1>2, <2>1, <2>2, <2>4, <3>2, PlaceFacts
      DEF StoreInv, PromiseInv, Stored, AcceptedIsStored
  <2>5. QED
    BY <2>3, <2>4
<1>11. ASSUME NEW u \in Requests, NewWindow(u) \/ Publish(u) PROVE StoreInv'
  BY <1>3, <1>11 DEF NewWindow, Publish
<1>12. ASSUME NEW u \in Requests, NEW c \in Clients, RemoveUnknown(u, c) PROVE StoreInv'
  BY <1>3, <1>12 DEF RemoveUnknown
<1>13. ASSUME NEW u \in Requests, NEW c \in Clients, RemoveDevice(u, c) PROVE StoreInv'
  <2>1. /\ UNCHANGED <<alive, relay>> /\ holder = "none"
        /\ file' = file \/ file' = Torn
    BY <1>13 DEF RemoveDevice, OpenFile, OpenFails
  <2>2. /\ DOMAIN devices' = DOMAIN devices \ {c}
        /\ \A d \in DOMAIN devices : d # c => devices'[d] = devices[d]
    BY <1>1, <1>13, WithoutType DEF RemoveDevice
  <2>3. /\ DOMAIN promised' = DOMAIN promised \ {c}
        /\ \A d \in DOMAIN promised : d # c => promised'[d] = promised[d]
    BY <1>1, <1>13, WithoutType DEF RemoveDevice
  <2>4. relay.at # "persist"
    BY <1>1, <2>1 DEF Locking
  <2>5. AcceptedIsStored'
    BY <1>2, <2>1, <2>3 DEF AcceptedIsStored
  <2>6. PromiseInv'
    BY <1>2, <2>1, <2>2, <2>3, <2>4 DEF PromiseInv, Stored
  <2>7. QED
    BY <2>5, <2>6 DEF StoreInv
<1>14. ASSUME NEW u \in Requests, PersistRemove(u) PROVE StoreInv'
  <2>1. /\ ui[u].at = "persist" /\ alive /\ UNCHANGED <<devices, promised, alive, relay>>
    BY <1>1, <1>14, BusyIsAlive DEF PersistRemove
  <2>2. CASE WriteFails
    BY <1>3, <2>1, <2>2 DEF WriteFails
  <2>3. CASE WriteFile
    <3>1. file' = devices /\ relay.at # "persist"
      BY <1>1, <2>1, <2>3 DEF WriteFile, Locking
    <3>2. QED
      BY <1>2, <2>1, <3>1 DEF StoreInv, PromiseInv, Stored, AcceptedIsStored
  <2>4. QED
    BY <1>14, <2>2, <2>3 DEF PersistRemove
<1>15. CASE Crash
  BY <1>2, <1>15, PlaceFacts DEF Crash, StoreInv, PromiseInv, AcceptedIsStored
<1>16. CASE Start
  <2>1. /\ file # Torn /\ devices' = file /\ UNCHANGED <<file, promised, relay>>
        /\ relay.at = "idle"
    BY <1>1, <1>16, PlaceFacts DEF Start, Locking
  <2>2. QED
    BY <1>2, <2>1 DEF StoreInv, PromiseInv, AcceptedIsStored
<1>17. QED
  BY <1>4, <1>5, <1>6, <1>7, <1>8, <1>9, <1>10, <1>11, <1>12, <1>13, <1>14, <1>15,
     <1>16 DEF Next, RelayStep, UiStep

(* A client that was sent a pair_accept, and is not being removed, is in   *)
(* the file under its key or the file is torn: no failed write, no later   *)
(* pairing and no restart silently drops it (DeviceStore.Add).             *)
THEOREM AcceptMeansStored == Spec => []AcceptedIsStored
<1>1. Init => StoreInv
  BY EmptyStoreType, PlaceFacts DEF Init, StoreInv, PromiseInv, AcceptedIsStored
<1>2. StoreInv => AcceptedIsStored
  BY DEF StoreInv
<1>3. QED
  BY <1>1, <1>2, BaseInit, BaseStep, StoreInvStep, PTL DEF Spec

-----------------------------------------------------------------------------
(* A write that succeeds leaves in the file what is in memory; one that    *)
(* fails is counted; and nothing else changes either of them while the     *)
(* lock is free, but the end of the process and its start.                 *)
LEMMA InSyncStep == TypeOK /\ StoreInSync /\ [Next]_vars => StoreInSync'
<1> SUFFICES ASSUME TypeOK, StoreInSync, [Next]_vars PROVE StoreInSync'
    OBVIOUS
<1> USE DEF StoreInSync
<1>1. failures \in Nat /\ Requests \cap {"none", "relay"} = {}
  BY GatewayAssumption DEF TypeOK
<1>2. CASE AddDevice
  BY <1>1, <1>2 DEF AddDevice, RefuseKey, OpenFile, OpenFails
<1>3. CASE PersistAdd
  BY <1>1, <1>3 DEF PersistAdd, WriteFile, WriteFails
<1>4. ASSUME NEW u \in Requests, NEW c \in Clients, RemoveDevice(u, c) PROVE StoreInSync'
  BY <1>1, <1>4 DEF RemoveDevice, OpenFile, OpenFails
<1>5. ASSUME NEW u \in Requests, PersistRemove(u) PROVE StoreInSync'
  BY <1>1, <1>5 DEF PersistRemove, WriteFile, WriteFails
<1>6. CASE Crash
  BY <1>6 DEF Crash
<1>7. CASE Start
  BY <1>7 DEF Start
<1>8. CASE UNCHANGED <<alive, holder, failures, file, devices>>
  BY <1>8
<1>9. QED
  BY <1>2, <1>3, <1>4, <1>5, <1>6, <1>7, <1>8
     DEF Next, RelayStep, UiStep, vars, process, history, Tick, DeliverSealed,
         HandleInCore, DeliverPairRequest, Consume, SendAccept, NewWindow,
         Publish, RemoveUnknown

(* Memory and disk agree whenever nobody holds the store's lock, as long as*)
(* no write has failed (DeviceStore.Add, Remove and LoadDevices).          *)
THEOREM MemoryMatchesDisk == Spec => []StoreInSync
<1>1. Init => StoreInSync
  BY DEF Init, StoreInSync
<1>2. QED
  BY <1>1, InSyncStep, TypeCorrect, PTL DEF Spec

-----------------------------------------------------------------------------
(* The refinement mapping, under names of its own.                         *)
Status(c) ==
    IF told[c] = "unpaired" THEN "gone"
    ELSE IF c \in DOMAIN promised THEN "paired" ELSE "unsettled"
Member == [c \in Clients |-> Status(c)]
Issued == 1 .. Len(windows)
SpentCodes == {w \in WindowIds : accepts[w] > 0}

(* Leaving the histories and the number of windows alone is a stutter.     *)
LEMMA NothingSaid ==
    ASSUME UNCHANGED <<told, promised, accepts, late>>, Len(windows') = Len(windows)
    PROVE  UNCHANGED Promise!vars
BY DEF Promise!vars

LEMMA MembershipStep ==
    BaseInv /\ WindowInv /\ GoneInv /\ StoreInv /\ [Next]_vars
        => [Promise!Next]_Promise!vars
<1> SUFFICES ASSUME BaseInv, WindowInv, GoneInv, StoreInv, [Next]_vars
             PROVE  [Promise!Next]_Promise!vars
    OBVIOUS
<1> USE GatewayAssumption
<1> USE DEF process, history
<1>1. /\ TypeOK /\ Locking /\ WindowsExist
      /\ relay \in RelayState /\ ui \in [Requests -> UiState]
      /\ promised \in Allowlist /\ told \in [Clients -> Answers]
      /\ accepts \in [WindowIds -> Nat] /\ late \in [Clients -> Nat]
      /\ Len(windows) \in Nat /\ Len(windows) <= MaxWindows
  BY DEF BaseInv, TypeOK
<1>2. Removing /\ UnpairDurable /\ LateInv /\ PromiseInv
  BY DEF GoneInv, StoreInv
<1>3. ASSUME UNCHANGED <<told, promised, accepts, late>>, Len(windows') = Len(windows)
      PROVE  [Promise!Next]_Promise!vars
  BY <1>3, NothingSaid
<1>4. ASSUME relay.at \in {"add", "persist", "consume"}
      PROVE  /\ relay.from \in Clients
             /\ relay.win \in Issued \ SpentCodes /\ relay.win \in WindowIds
  <2>1. relay.from \in Clients /\ relay.win \in WindowIds /\ relay.win <= Len(windows)
    BY <1>1, <1>4, RelayFacts DEF WindowsExist
  <2>2. accepts[relay.win] = 0
    <3>1. accepts[relay.win] <= 0 /\ accepts[relay.win] \in Nat
      BY <1>1, <1>4, <2>1 DEF WindowInv, Spent
    <3>2. QED
      BY <3>1
  <2>3. relay.win \in Issued
    BY <1>1, <2>1 DEF Issued, WindowIds
  <2>4. QED
    BY <2>1, <2>2, <2>3 DEF SpentCodes
<1>5. CASE Tick \/ UNCHANGED vars
  BY <1>3, <1>5 DEF Tick, vars
<1>6. ASSUME NEW c \in Clients, NEW k \in Keys, DeliverSealed(c, k)
      PROVE  [Promise!Next]_Promise!vars
  BY <1>3, <1>6 DEF DeliverSealed
<1>7. ASSUME NEW c \in Clients, NEW k \in Keys \cup {BadKey},
             NEW w \in WindowIds \cup {NoWindow}, DeliverPairRequest(c, k, w)
      PROVE  [Promise!Next]_Promise!vars
  BY <1>3, <1>7 DEF DeliverPairRequest
<1>8. CASE HandleInCore
  <2>1. relay.from \in Clients /\ relay.at = "core"
    BY <1>1, <1>8, RelayFacts DEF HandleInCore
  <2>2. UNCHANGED <<told, promised, accepts, windows>>
    BY <1>8 DEF HandleInCore
  <2>3. CASE told[relay.from] = "unpaired"
    <3>1. late[relay.from] = 0
      BY <1>2, <2>1 DEF LateInv, InCore
    <3>2. late' = [late EXCEPT ![relay.from] = 1]
      BY <1>1, <1>8, <2>1, <2>3, <3>1 DEF HandleInCore
    <3>3. Promise!ServeLate(relay.from)
      BY <2>1, <2>2, <2>3, <3>1, <3>2 DEF Promise!ServeLate
    <3>4. QED
      BY <2>1, <3>3 DEF Promise!Next
  <2>4. CASE told[relay.from] # "unpaired"
    <3>1. late' = late
      BY <1>1, <1>8, <2>1, <2>4 DEF HandleInCore
    <3>2. QED
      BY <1>3, <2>2, <3>1
  <2>5. QED
    BY <2>3, <2>4
<1>9. CASE AddDevice
  <2>1. CASE RefuseKey
    BY <1>3, <1>9, <2>1 DEF AddDevice, RefuseKey
  <2>2. CASE EnterDevice
    <3>0. PICK who \in Clients : who = relay.from
      BY <1>4, <1>9 DEF AddDevice
    <3>1. Issued \ SpentCodes # {} /\ UNCHANGED <<windows, accepts>>
      BY <1>4, <1>9 DEF AddDevice
    <3>2. /\ told' = [told EXCEPT ![who] = "nothing"]
          /\ late' = [late EXCEPT ![who] = 0]
          /\ DOMAIN promised' = DOMAIN promised \ {who}
      BY <1>1, <2>2, <3>0, WithoutType DEF EnterDevice
    <3>3. Member' = [Member EXCEPT ![who] = "unsettled"]
      BY <1>1, <3>1, <3>2 DEF Member, Status
    <3>4. Promise!Admit(who)
      BY <3>1, <3>2, <3>3 DEF Promise!Admit, Member, Status, Issued, SpentCodes
    <3>5. QED
      BY <3>4 DEF Promise!Next
  <2>3. QED
    BY <1>9, <2>1, <2>2 DEF AddDevice
<1>10. CASE PersistAdd
  BY <1>3, <1>10 DEF PersistAdd
<1>11. CASE Consume
  <2>1. PICK who \in Clients, code \in WindowIds :
            who = relay.from /\ code = relay.win /\ code \in Issued \ SpentCodes
    BY <1>4, <1>11 DEF Consume, SendAccept
  <2>2. /\ UNCHANGED <<told, late>>
        /\ accepts' = [accepts EXCEPT ![code] = @ + 1]
        /\ promised' = IF who \in DOMAIN devices
                       THEN With(promised, who, relay.key) ELSE promised
        /\ Len(windows') = Len(windows)
    BY <1>11, <2>1 DEF Consume, SendAccept
  <2>3. who \in DOMAIN devices => told[who] # "unpaired"
    BY <1>2, <2>1 DEF UnpairDurable, Absent
  <2>4. SpentCodes' = SpentCodes \cup {code}
    BY <1>1, <2>1, <2>2 DEF SpentCodes
  <2>5. \/ Member' = Member
        \/ Status(who) # "gone" /\ Member' = [Member EXCEPT ![who] = "paired"]
    <3>1. CASE who \in DOMAIN devices
      <4>1. DOMAIN promised' = DOMAIN promised \cup {who}
        BY <2>2, <3>1 DEF With
      <4>2. Status(who) # "gone" /\ Member' = [Member EXCEPT ![who] = "paired"]
        BY <1>1, <2>1, <2>2, <2>3, <3>1, <4>1 DEF Member, Status
      <4>3. QED
        BY <4>2
    <3>2. CASE who \notin DOMAIN devices
      BY <2>2, <3>2 DEF Member, Status
    <3>3. QED
      BY <3>1, <3>2
  <2>6. Promise!Accept(who, code)
    BY <2>1, <2>2, <2>4, <2>5
    DEF Promise!Accept, Member, Status, Issued, SpentCodes
  <2>7. QED
    BY <2>1, <2>6 DEF Promise!Next
<1>12. ASSUME NEW u \in Requests, NewWindow(u) PROVE [Promise!Next]_Promise!vars
  <2>1. /\ Len(windows') = Len(windows) + 1 /\ Len(windows) + 1 \in WindowIds
        /\ UNCHANGED <<told, promised, accepts, late>>
    BY <1>1, <1>12 DEF NewWindow, TypeOK, WindowIds
  <2>2. 1 .. Len(windows') = 1 .. Len(windows) \cup {Len(windows) + 1}
    BY <1>1, <2>1
  <2>3. Promise!Issue(Len(windows) + 1)
    BY <2>1, <2>2 DEF Promise!Issue
  <2>4. QED
    BY <2>1, <2>3 DEF Promise!Next
<1>13. ASSUME NEW u \in Requests, Publish(u) PROVE [Promise!Next]_Promise!vars
  BY <1>3, <1>13 DEF Publish
<1>14. ASSUME NEW u \in Requests, NEW c \in Clients, RemoveUnknown(u, c)
       PROVE  [Promise!Next]_Promise!vars
  <2>1. UNCHANGED <<promised, accepts, late, windows>>
        /\ \A d \in Clients : told'[d] = "unpaired" <=> told[d] = "unpaired"
    BY <1>1, <1>14 DEF RemoveUnknown
  <2>2. QED
    BY <2>1 DEF Promise!vars
<1>15. ASSUME NEW u \in Requests, NEW c \in Clients, RemoveDevice(u, c)
       PROVE  [Promise!Next]_Promise!vars
  <2>1. /\ UNCHANGED <<told, accepts, late, windows>>
        /\ DOMAIN promised' = DOMAIN promised \ {c}
        /\ told[c] # "unpaired"
    BY <1>1, <1>2, <1>15, WithoutType DEF RemoveDevice, UnpairDurable, Absent
  <2>2. CASE c \in DOMAIN promised
    <3>1. Member' = [Member EXCEPT ![c] = "unsettled"] /\ Status(c) = "paired"
      BY <2>1, <2>2 DEF Member, Status
    <3>2. Promise!Drop(c)
      BY <2>1, <3>1 DEF Promise!Drop, Member, Status
    <3>3. QED
      BY <3>2 DEF Promise!Next
  <2>3. CASE c \notin DOMAIN promised
    <3>1. DOMAIN promised' = DOMAIN promised
      BY <2>1, <2>3
    <3>2. QED
      BY <2>1, <3>1 DEF Promise!vars
  <2>4. QED
    BY <2>2, <2>3
<1>16. ASSUME NEW u \in Requests, PersistRemove(u) PROVE [Promise!Next]_Promise!vars
  <2>1. ui[u].at = "persist" /\ ui[u].client \in Clients /\ alive
    BY <1>1, <1>16, UiFacts, BusyIsAlive DEF PersistRemove
  <2>2. PICK who \in Clients : who = ui[u].client
    BY <2>1
  <2>3. UNCHANGED <<promised, accepts, late, windows>>
    BY <1>16 DEF PersistRemove
  <2>4. told[who] # "unpaired" /\ who \notin DOMAIN promised
    BY <1>2, <2>1, <2>2 DEF Removing, PromiseInv
  <2>5. CASE UNCHANGED told
    BY <1>3, <2>3, <2>5
  <2>6. CASE told' = [told EXCEPT ![who] = "unpaired"]
    <3>1. Member' = [Member EXCEPT ![who] = "gone"] /\ Status(who) = "unsettled"
      BY <1>1, <2>3, <2>4, <2>6 DEF Member, Status
    <3>2. Promise!Confirm(who)
      BY <2>3, <3>1 DEF Promise!Confirm, Member, Status
    <3>3. QED
      BY <3>2 DEF Promise!Next
  <2>7. QED
    BY <1>16, <2>2, <2>5, <2>6 DEF PersistRemove
<1>17. CASE Crash \/ Start
  BY <1>3, <1>17 DEF Crash, Start
<1>18. QED
  BY <1>5, <1>6, <1>7, <1>8, <1>9, <1>10, <1>11, <1>12, <1>13, <1>14, <1>15, <1>16,
     <1>17 DEF Next, RelayStep, UiStep

(* internal/gateway and the device store keep the promise of Membership:   *)
(* for any number of clients, windows and requests, any disk failures and  *)
(* restarts, a client enters only while an issued code is unspent, a code  *)
(* is answered once, and an unpaired device stays gone.                    *)
THEOREM GatewayImplementsMembership == Spec => KeepsMembership
<1>1. Init => Promise!Init
  BY EmptyStoreType, GatewayAssumption DEF Init, Promise!Init
<1>2. Init => WindowInv /\ StoreInv
  BY EmptyStoreType, PlaceFacts, GatewayAssumption
  DEF Init, WindowInv, Spent, StoreInv, PromiseInv, AcceptedIsStored
<1>3. QED
  BY <1>1, <1>2, BaseInit, BaseStep, WindowInvStep, GoneInvInit, GoneInvStep,
     StoreInvStep, MembershipStep, PTL DEF Spec, KeepsMembership, Promise!Spec

-----------------------------------------------------------------------------
(* Agent: the gateway among the devices and the messages.  Besides the     *)
(* gateway's invariants, and that every key in it is its device's own      *)
(* (KeyInv):                                                               *)
(*   CodeInv: a device that has the answer for a code, or to which it is   *)
(*   on its way, is the only one, and the code is spent.                   *)
(*   KeptInv: a device that has or may still get an answer, and was not    *)
(*   removed since it was stored, is in memory and, unless the file is     *)
(*   torn, on disk.                                                        *)
GatewayInv == BaseInv /\ WindowInv /\ StoreInv

Answer(c, w) == [who |-> c, win |-> w]
Holds(c, w) ==
    \/ client[c].at = "paired" /\ client[c].win = w
    \/ Answer(c, w) \in replies
CodeInv ==
    \A w \in WindowIds, c \in Clients :
        Holds(c, w) => accepts[w] > 0 /\ \A d \in Clients : Holds(d, w) => c = d

(* A device that counts on being known.                                    *)
Counts(c) ==
    \/ client[c].at = "paired"
    \/ \E w \in WindowIds : Answer(c, w) \in replies
    \/ relay.at = "consume" /\ relay.from = c
Kept(c) ==
    /\ alive => c \in DOMAIN devices
    /\ file # Torn => c \in DOMAIN file
KeptInv == \A c \in Clients : Counts(c) /\ c \notin dropped => Kept(c)

(* Every key that the agent sees is the device's own.                      *)
KeyInv ==
    /\ relay.at \in {"add", "persist"} => relay.key = OwnKey[relay.from]
    /\ \A c \in DOMAIN devices : devices[c] = OwnKey[c]
    /\ file # Torn => \A c \in DOMAIN file : file[c] = OwnKey[c]

AgentInv == GatewayInv /\ OutsideOK /\ CodeInv /\ KeptInv /\ KeyInv

-----------------------------------------------------------------------------
LEMMA KeyIsKey ==
    \A c \in Clients : OwnKey[c] \in Keys /\ OwnKey[c] # BadKey
BY AgentAssumption, GatewayAssumption

(* The agent in its surroundings does what Gateway says.                   *)
LEMMA GatewayStep == [AgentNext]_agentVars => [Next]_vars
<1> SUFFICES ASSUME [AgentNext]_agentVars PROVE [Next]_vars
    OBVIOUS
<1>1. CASE \E c \in Clients : Scan(c) \/ SendRequest(c)
  BY <1>1 DEF Scan, SendRequest
<1>2. CASE \E m \in Message : ReceiveAccept(m)
  BY <1>2 DEF ReceiveAccept
<1>3. ASSUME NEW m \in Message, ReceiveRequest(m) PROVE [Next]_vars
  <2>1. m.who \in Clients /\ m.win \in WindowIds
    BY DEF Message
  <2>2. QED
    BY <1>3, <2>1, KeyIsKey DEF ReceiveRequest, Next
<1>4. CASE StoreDevice \/ Reply
  BY <1>4 DEF StoreDevice, Reply, Next, RelayStep
<1>5. CASE Inside
  <2>1. CASE \E c \in Clients : DeliverSealed(c, OwnKey[c])
    BY <2>1, KeyIsKey DEF Next
  <2>2. CASE \E u \in Requests : NewWindow(u) \/ UiStep(u)
    BY <2>2 DEF Next
  <2>3. CASE Tick \/ HandleInCore \/ AddDevice \/ Crash \/ Start
    BY <2>3 DEF Next, RelayStep
  <2>4. QED
    BY <1>5, <2>1, <2>2, <2>3 DEF Inside
<1>6. CASE \E u \in Requests, c \in Clients : Unpair(u, c)
  BY <1>6 DEF Unpair, Next
<1>7. CASE UNCHANGED agentVars
  BY <1>7 DEF agentVars
<1>8. QED
  BY <1>1, <1>2, <1>3, <1>4, <1>5, <1>6, <1>7 DEF AgentNext

(* Pairing over a network is pairing as Gateway describes it: all that is  *)
(* proved of Gateway holds between real devices (Gateway.Handle as the     *)
(* relay.Handler).                                                         *)
THEOREM AgentImplementsGateway == AgentSpec => Spec
BY GatewayStep, PTL DEF AgentSpec, AgentInit, Spec

(* And so is the promise: whatever the network delays, repeats or loses, a *)
(* device enters only while an issued code is unspent, a code is answered  *)
(* once, and an unpaired device stays gone.                                *)
THEOREM AgentKeepsMembership == AgentSpec => KeepsMembership
BY AgentImplementsGateway, GatewayImplementsMembership

LEMMA GatewayInvInit == Init => GatewayInv
<1>1. Init => WindowInv
  BY PlaceFacts, GatewayAssumption DEF Init, WindowInv, Spent
<1>2. Init => StoreInv
  BY EmptyStoreType, PlaceFacts DEF Init, StoreInv, PromiseInv, AcceptedIsStored
<1>3. QED
  BY <1>1, <1>2, BaseInit DEF GatewayInv

LEMMA GatewayInvStep == GatewayInv /\ [AgentNext]_agentVars => GatewayInv'
BY GatewayStep, BaseStep, WindowInvStep, StoreInvStep DEF GatewayInv

-----------------------------------------------------------------------------
(* The steps that leave client and replies alone, and those that do not.   *)
LEMMA OutsideFacts ==
    ASSUME [AgentNext]_agentVars
    PROVE  \/ UNCHANGED <<client, replies>> /\ accepts' = accepts
           \/ (\E c \in Clients : Scan(c)) /\ UNCHANGED vars
           \/ (\E m \in Message : ReceiveAccept(m)) /\ UNCHANGED vars
           \/ Reply
<1> USE DEF process, history
<1>1. CASE StoreDevice
  BY <1>1 DEF StoreDevice, PersistAdd
<1>2. CASE Inside
  BY <1>2 DEF Inside, outside, Tick, HandleInCore, AddDevice, Crash, Start,
              DeliverSealed, NewWindow, UiStep, Publish, PersistRemove
<1>3. ASSUME NEW m \in Message, ReceiveRequest(m)
      PROVE  UNCHANGED <<client, replies>> /\ accepts' = accepts
  BY <1>3 DEF ReceiveRequest, DeliverPairRequest
<1>4. CASE \E u \in Requests, c \in Clients : Unpair(u, c)
  BY <1>4 DEF Unpair, RemoveDevice
<1>5. CASE \E c \in Clients : SendRequest(c)
  BY <1>5 DEF SendRequest, vars
<1>6. CASE UNCHANGED agentVars
  BY <1>6 DEF agentVars, outside, vars
<1>7. CASE (\E c \in Clients : Scan(c)) \/ (\E m \in Message : ReceiveAccept(m))
  BY <1>7 DEF Scan, ReceiveAccept
<1>8. QED
  BY <1>1, <1>2, <1>3, <1>4, <1>5, <1>6, <1>7 DEF AgentNext

(* What an answer received or a code scanned does to the devices.          *)
LEMMA ClientFacts ==
    ASSUME OutsideOK, NEW c \in Clients,
           (\E d \in Clients : Scan(d)) \/ (\E m \in Message : ReceiveAccept(m))
    PROVE  /\ replies' \subseteq replies
           /\ \/ client'[c] = client[c]
              \/ client'[c].at = "waiting"
              \/ /\ client'[c].at = "paired" /\ client'[c].win = client[c].win
                 /\ client[c].win \in WindowIds
                 /\ Answer(c, client[c].win) \in replies
<1>1. client \in [Clients -> [at : {"idle", "waiting", "paired"}, win : 0 .. Len(windows)]]
  BY DEF OutsideOK
<1>2. ASSUME NEW d \in Clients, Scan(d) PROVE client'[c] = client[c] \/ client'[c].at = "waiting"
  BY <1>1, <1>2 DEF Scan
<1>3. ASSUME NEW m \in Message, ReceiveAccept(m), client'[c] # client[c]
      PROVE  /\ client'[c].at = "paired" /\ client'[c].win = client[c].win
             /\ client[c].win \in WindowIds
             /\ Answer(c, client[c].win) \in replies
  <2>1. m.who = c /\ VerifyAccept(m) /\ client' = [client EXCEPT ![c].at = "paired"]
    BY <1>1, <1>3 DEF ReceiveAccept, Message
  <2>2. m = Answer(c, client[c].win) /\ client[c].win \in WindowIds
    BY <2>1 DEF VerifyAccept, Answer, Message
  <2>3. QED
    BY <1>1, <1>3, <2>1, <2>2 DEF ReceiveAccept
<1>4. replies' \subseteq replies
  BY DEF Scan, ReceiveAccept
<1>5. QED
  BY <1>2, <1>3, <1>4

LEMMA CodeInvStep ==
    GatewayInv /\ OutsideOK /\ CodeInv /\ [AgentNext]_agentVars => CodeInv'
<1> SUFFICES ASSUME GatewayInv, OutsideOK, CodeInv, [AgentNext]_agentVars PROVE CodeInv'
    OBVIOUS
<1>1. accepts \in [WindowIds -> Nat] /\ relay \in RelayState
  BY DEF GatewayInv, BaseInv, TypeOK
<1>2. ASSUME accepts' = accepts,
             \A c \in Clients, w \in WindowIds : Holds(c, w)' => Holds(c, w)
      PROVE  CodeInv'
  BY <1>2 DEF CodeInv
<1>3. CASE UNCHANGED <<client, replies>> /\ accepts' = accepts
  BY <1>2, <1>3 DEF Holds
<1>4. CASE /\ (\E c \in Clients : Scan(c)) \/ (\E m \in Message : ReceiveAccept(m))
           /\ UNCHANGED vars
  <2>1. ASSUME NEW c \in Clients, NEW w \in WindowIds, Holds(c, w)' PROVE Holds(c, w)
    BY <1>4, <2>1, ClientFacts DEF Holds, Answer
  <2>2. QED
    BY <1>2, <1>4, <2>1 DEF vars, history
<1>5. CASE Reply
  <2>1. /\ relay.at = "consume" /\ relay.from \in Clients /\ relay.win \in WindowIds
        /\ client' = client /\ replies' \subseteq replies \cup {Answer(relay.from, relay.win)}
        /\ accepts' = [accepts EXCEPT ![relay.win] = @ + 1]
    BY <1>1, <1>5, RelayFacts DEF Reply, Consume, SendAccept, Answer
  <2>2. accepts[relay.win] = 0
    <3>1. relay.win <= Len(windows) /\ ~Spent(relay.win)
      BY <2>1 DEF GatewayInv, BaseInv, WindowsExist, WindowInv, Spent
    <3>2. QED
      BY <1>1, <2>1, <3>1 DEF GatewayInv, WindowInv
  <2>3. \A c \in Clients : ~Holds(c, relay.win)
    BY <2>1, <2>2 DEF CodeInv
  <2>4. \A c \in Clients, w \in WindowIds :
           Holds(c, w)' => Holds(c, w) \/ (c = relay.from /\ w = relay.win)
    BY <2>1 DEF Holds, Answer
  <2>5. ASSUME NEW w \in WindowIds, NEW c \in Clients, Holds(c, w)'
        PROVE  accepts'[w] > 0 /\ \A d \in Clients : Holds(d, w)' => c = d
    <3>1. CASE w = relay.win
      BY <1>1, <2>1, <2>2, <2>3, <2>4, <2>5, <3>1
    <3>2. CASE w # relay.win
      BY <1>1, <2>1, <2>4, <2>5, <3>2 DEF CodeInv
    <3>3. QED
      BY <3>1, <3>2
  <2>6. QED
    BY <2>5 DEF CodeInv
<1>6. QED
  BY <1>3, <1>4, <1>5, OutsideFacts

LEMMA OutsideStep ==
    GatewayInv /\ OutsideOK /\ [AgentNext]_agentVars => OutsideOK'
<1> SUFFICES ASSUME GatewayInv, OutsideOK, [AgentNext]_agentVars PROVE OutsideOK'
    OBVIOUS
<1>1. TypeOK /\ TypeOK' /\ relay \in RelayState
  BY GatewayInvStep DEF GatewayInv, BaseInv, TypeOK
<1>2. Len(windows) \in Nat /\ Len(windows') \in Nat /\ Len(windows) <= MaxWindows
  BY <1>1, LenProperties DEF TypeOK
<1>3. Len(windows') >= Len(windows)
  <2>1. CASE windows' = windows
    BY <1>2, <2>1
  <2>2. CASE Reply
    <3>1. windows' = [windows EXCEPT ![relay.win].used = TRUE]
      BY <2>2 DEF Reply, Consume
    <3>2. Len(windows') = Len(windows)
      BY <1>1, <3>1, ExceptSeq, LenProperties DEF TypeOK
    <3>3. QED
      BY <1>2, <3>2
  <2>3. CASE \E u \in Requests : NewWindow(u)
    <3>1. windows' = Append(windows, [expires |-> now + WindowTTL, used |-> FALSE])
      BY <2>3 DEF NewWindow
    <3>2. Len(windows') = Len(windows) + 1
      BY <1>1, <3>1, AppendProperties, GatewayAssumption DEF TypeOK
    <3>3. QED
      BY <1>2, <3>2
  <2>4. QED
    <3> USE DEF process
    <3>1. CASE Inside /\ ~(\E u \in Requests : NewWindow(u))
      BY <2>1, <3>1 DEF Inside, Tick, HandleInCore, AddDevice, Crash, Start,
                        DeliverSealed, UiStep, Publish, PersistRemove
    <3>2. CASE \E c \in Clients : Scan(c) \/ SendRequest(c)
      BY <2>1, <3>2 DEF Scan, SendRequest, vars
    <3>3. CASE \E m \in Message : ReceiveAccept(m) \/ ReceiveRequest(m)
      BY <2>1, <3>3 DEF ReceiveAccept, ReceiveRequest, DeliverPairRequest, vars
    <3>4. CASE StoreDevice \/ \E u \in Requests, c \in Clients : Unpair(u, c)
      BY <2>1, <3>4 DEF StoreDevice, PersistAdd, Unpair, RemoveDevice
    <3>5. CASE UNCHANGED agentVars
      BY <2>1, <3>5 DEF agentVars, vars
    <3>6. QED
      BY <2>2, <2>3, <3>1, <3>2, <3>3, <3>4, <3>5 DEF AgentNext
<1>4. client \in [Clients -> [at : {"idle", "waiting", "paired"}, win : 0 .. Len(windows')]]
  BY <1>2, <1>3 DEF OutsideOK
<1>5. CASE client' = client
  <2>1. requests' \cup replies' \subseteq Message /\ dropped' \subseteq Clients
    <3>1. CASE Inside \/ UNCHANGED agentVars
      BY <3>1 DEF Inside, outside, agentVars, OutsideOK
    <3>2. ASSUME NEW c \in Clients, SendRequest(c) PROVE requests' \subseteq Message
      <4>1. client[c].win \in WindowIds
        BY <1>2, <3>2, GatewayAssumption DEF OutsideOK, SendRequest, NoWindow, WindowIds
      <4>2. QED
        BY <3>2, <4>1 DEF SendRequest, Message, OutsideOK
    <3>3. CASE \E c \in Clients : SendRequest(c)
      BY <3>2, <3>3 DEF SendRequest, OutsideOK
    <3>4. CASE \E c \in Clients : Scan(c)
      BY <3>4 DEF Scan, OutsideOK
    <3>5. CASE \E m \in Message : ReceiveAccept(m) \/ ReceiveRequest(m)
      BY <3>5 DEF ReceiveAccept, ReceiveRequest, OutsideOK
    <3>6. CASE StoreDevice \/ \E u \in Requests, c \in Clients : Unpair(u, c)
      BY <3>6 DEF StoreDevice, Unpair, OutsideOK
    <3>7. CASE Reply
      <4>1. relay.from \in Clients /\ relay.win \in WindowIds
        BY <1>1, <3>7, RelayFacts DEF Reply, Consume, SendAccept
      <4>2. QED
        BY <3>7, <4>1 DEF Reply, OutsideOK, Message
    <3>8. QED
      BY <3>1, <3>3, <3>4, <3>5, <3>6, <3>7 DEF AgentNext
  <2>2. QED
    BY <1>4, <1>5, <2>1 DEF OutsideOK
<1>6. ASSUME NEW c \in Clients, Scan(c) PROVE OutsideOK'
  <2>1. window \in 0 .. Len(windows) /\ window # NoWindow /\ windows' = windows
    BY <1>1, <1>6 DEF TypeOK, Scan, Pairing, vars
  <2>2. QED
    BY <1>6, <2>1 DEF Scan, OutsideOK
<1>7. ASSUME NEW m \in Message, ReceiveAccept(m) PROVE OutsideOK'
  <2>1. windows' = windows /\ m.who \in Clients
    BY <1>7 DEF ReceiveAccept, vars, Message
  <2>2. QED
    BY <1>7, <2>1 DEF ReceiveAccept, OutsideOK
<1>8. QED
  BY <1>5, <1>6, <1>7, OutsideFacts DEF Reply

(* One key per device, wherever it appears.                                *)
LEMMA KeyInvStep ==
    GatewayInv /\ KeyInv /\ [AgentNext]_agentVars => KeyInv'
<1> SUFFICES ASSUME GatewayInv, KeyInv, [AgentNext]_agentVars PROVE KeyInv'
    OBVIOUS
<1> USE DEF process
<1>1. /\ relay \in RelayState /\ devices \in Allowlist /\ Locking
      /\ file \in Allowlist \cup {Torn}
  BY DEF GatewayInv, BaseInv, TypeOK
<1>2. ASSUME UNCHANGED <<devices, file>>,
             relay' = relay \/ relay' = RelayIdle \/ relay'.at \notin {"add", "persist"}
      PROVE  KeyInv'
  BY <1>2, PlaceFacts DEF KeyInv
<1>3. CASE \E c \in Clients : Scan(c) \/ SendRequest(c)
  BY <1>2, <1>3 DEF Scan, SendRequest, vars
<1>4. ASSUME NEW m \in Message, ReceiveAccept(m) \/ ReceiveRequest(m) PROVE KeyInv'
  <2>1. UNCHANGED <<devices, file>>
        /\ (relay' = relay \/ relay' = Pair("add", m.who, OwnKey[m.who], m.win))
    BY <1>4 DEF ReceiveAccept, ReceiveRequest, DeliverPairRequest, vars
  <2>2. QED
    BY <2>1 DEF KeyInv, Pair
<1>5. CASE StoreDevice
  <2>1. /\ devices' = devices /\ (file' = devices \/ file' = file)
        /\ relay'.at \notin {"add", "persist"}
    BY <1>1, <1>5, RelayFacts, MoveFacts, PlaceFacts
    DEF StoreDevice, PersistAdd, WriteFile, WriteFails
  <2>2. QED
    BY <2>1 DEF KeyInv
<1>6. CASE Reply
  BY <1>2, <1>6 DEF Reply, Consume, SendAccept
<1>7. ASSUME NEW u \in Requests, NEW c \in Clients, Unpair(u, c) PROVE KeyInv'
  <2>1. /\ DOMAIN devices' = DOMAIN devices \ {c}
        /\ \A d \in DOMAIN devices : d # c => devices'[d] = devices[d]
        /\ relay' = relay /\ (file' = file \/ file' = Torn)
    BY <1>1, <1>7, WithoutType DEF Unpair, RemoveDevice, OpenFile, OpenFails
  <2>2. QED
    BY <2>1 DEF KeyInv
<1>8. CASE Inside
  <2>1. CASE Tick \/ HandleInCore
    BY <1>2, <2>1 DEF Tick, HandleInCore
  <2>2. CASE AddDevice
    <3>1. CASE RefuseKey
      BY <1>2, <2>2, <3>1 DEF AddDevice, RefuseKey
    <3>2. CASE ~RefuseKey
      <4>1. /\ EnterDevice /\ relay.from \in Clients /\ relay.key = OwnKey[relay.from]
            /\ file' = file \/ file' = Torn
            /\ relay' = RelayIdle \/ relay' = [relay EXCEPT !.at = "persist"]
        BY <1>1, <2>2, <3>2, RelayFacts DEF AddDevice, KeyDecodes, OpenFile, OpenFails, KeyInv
      <4>2. /\ DOMAIN devices' = DOMAIN devices \cup {relay.from}
            /\ \A d \in DOMAIN devices' : devices'[d] = OwnKey[d]
        <5>1. PICK d \in Clients, k \in Keys : d = relay.from /\ k = OwnKey[d]
          BY <4>1, KeyIsKey
        <5>2. devices' = With(devices, d, k)
          BY <4>1, <5>1 DEF EnterDevice
        <5>3. DOMAIN devices' = DOMAIN devices \cup {d} /\ devices'[d] = k
          BY <1>1, <5>2, WithType
        <5>4. \A e \in DOMAIN devices : e # d => devices'[e] = devices[e]
          BY <1>1, <5>2, WithType
        <5>5. QED
          BY <5>1, <5>3, <5>4 DEF KeyInv
      <4>3. relay'.at \in {"add", "persist"} => relay'.key = OwnKey[relay'.from]
        BY <1>1, <2>2, <4>1, MoveFacts, PlaceFacts, KeyIsKey DEF AddDevice
      <4>4. QED
        BY <4>1, <4>2, <4>3 DEF KeyInv
    <3>3. QED
      BY <3>1, <3>2
  <2>3. CASE Crash
    BY <2>3, PlaceFacts, EmptyStoreType DEF Crash, KeyInv
  <2>4. CASE Start
    BY <2>4 DEF Start, KeyInv
  <2>5. CASE \E c \in Clients : DeliverSealed(c, OwnKey[c])
    BY <1>2, <2>5 DEF DeliverSealed, Sealed
  <2>6. ASSUME NEW u \in Requests, NewWindow(u) \/ Publish(u) PROVE KeyInv'
    BY <1>2, <2>6 DEF NewWindow, Publish
  <2>7. ASSUME NEW u \in Requests, PersistRemove(u) PROVE KeyInv'
    BY <2>7 DEF PersistRemove, WriteFile, WriteFails, KeyInv
  <2>8. QED
    BY <1>8, <2>1, <2>2, <2>3, <2>4, <2>5, <2>6, <2>7 DEF Inside, UiStep
<1>9. CASE UNCHANGED agentVars
  BY <1>2, <1>9 DEF agentVars, vars
<1>10. QED
  BY <1>3, <1>4, <1>5, <1>6, <1>7, <1>8, <1>9 DEF AgentNext

(* Where a device that counts on being known is kept.                      *)
LEMMA KeptInvStep ==
    GatewayInv /\ OutsideOK /\ KeptInv /\ [AgentNext]_agentVars => KeptInv'
<1> SUFFICES ASSUME GatewayInv, OutsideOK, KeptInv, [AgentNext]_agentVars,
                    NEW c \in Clients, Counts(c)', c \notin dropped'
             PROVE  Kept(c)'
    BY DEF KeptInv
<1> USE DEF process, history
<1>1. /\ relay \in RelayState /\ devices \in Allowlist /\ Locking
      /\ ui \in [Requests -> UiState]
  BY DEF GatewayInv, BaseInv, TypeOK
<1>2. Counts(c) /\ c \notin dropped => Kept(c)
  BY DEF KeptInv
<1>3. ASSUME UNCHANGED <<alive, devices>>,
             file' = file \/ (alive /\ file' = devices) \/ file' = Torn,
             Counts(c), c \notin dropped
      PROVE  Kept(c)'
  BY <1>2, <1>3 DEF Kept
<1> DEFINE Sure == \/ client[c].at = "paired"
                  \/ \E w \in WindowIds : Answer(c, w) \in replies
<1>13. ASSUME replies' \subseteq replies, client'[c].at = "paired" => Sure,
              relay'.at = "consume" => relay' = relay
       PROVE  Counts(c)
  BY <1>13 DEF Counts, Answer
<1>4. CASE \E d \in Clients : SendRequest(d) \/ Scan(d)
  <2>1. replies' = replies /\ dropped' = dropped /\ UNCHANGED vars
    BY <1>4 DEF SendRequest, Scan
  <2>2. client'[c].at = "paired" => Sure
    BY <1>4, ClientFacts DEF SendRequest
  <2>3. Counts(c) /\ c \notin dropped /\ UNCHANGED vars
    BY <1>13, <2>1, <2>2 DEF vars
  <2>4. QED
    BY <1>3, <2>3 DEF vars
<1>5. CASE \E m \in Message : ReceiveAccept(m)
  <2>1. replies' \subseteq replies /\ dropped' = dropped /\ UNCHANGED vars
    BY <1>5 DEF ReceiveAccept
  <2>2. client'[c].at = "paired" => Sure
    BY <1>5, ClientFacts
  <2>3. Counts(c)
    BY <1>13, <2>1, <2>2 DEF vars
  <2>4. QED
    BY <1>3, <2>1, <2>3 DEF vars
<1>6. ASSUME NEW m \in Message, ReceiveRequest(m) PROVE Kept(c)'
  <2>1. /\ UNCHANGED <<alive, devices, file, client, replies, dropped>>
        /\ relay' = relay \/ relay' = Pair("add", m.who, OwnKey[m.who], m.win)
    BY <1>6 DEF ReceiveRequest, DeliverPairRequest
  <2>2. Counts(c)
    BY <1>13, <2>1 DEF Pair
  <2>3. QED
    BY <1>3, <2>1, <2>2
<1>7. CASE StoreDevice
  <2>1. /\ relay.at = "persist" /\ relay.from \in Clients /\ alive
        /\ UNCHANGED <<alive, devices, client, replies>>
        /\ relay' = RelayIdle \/ relay' = [relay EXCEPT !.at = "consume"]
    BY <1>1, <1>7, RelayFacts, PlaceFacts DEF StoreDevice, PersistAdd, Locking
  <2>2. CASE file' = devices /\ relay' = [relay EXCEPT !.at = "consume"]
    <3>1. relay'.from = relay.from
      BY <1>1, <2>1, <2>2, RelayFacts, MoveFacts
    <3>2. CASE c = relay.from
      <4>1. relay.from \in DOMAIN devices
        BY <2>1 DEF GatewayInv, StoreInv, PromiseInv
      <4>2. QED
        BY <2>1, <2>2, <3>2, <4>1 DEF Kept
    <3>3. CASE c # relay.from
      BY <1>3, <1>7, <2>1, <2>2, <3>1, <3>3 DEF StoreDevice, Counts, Answer
    <3>4. QED
      BY <3>2, <3>3
  <2>3. CASE file' = file /\ relay' = RelayIdle
    BY <1>3, <1>7, <2>1, <2>3, PlaceFacts DEF StoreDevice, Counts, Answer
  <2>4. QED
    BY <1>7, <2>2, <2>3 DEF StoreDevice, PersistAdd, WriteFile, WriteFails
<1>8. CASE Reply
  <2>1. /\ relay.at = "consume" /\ relay' = RelayIdle /\ client' = client
        /\ UNCHANGED <<alive, devices, file, dropped>>
        /\ replies' \subseteq replies \cup {Answer(relay.from, relay.win)}
    BY <1>8 DEF Reply, Consume, SendAccept, Answer
  <2>2. Counts(c)
    <3>1. Sure \/ c = relay.from
      BY <2>1, PlaceFacts DEF Counts, Answer
    <3>2. QED
      BY <2>1, <3>1 DEF Counts
  <2>3. QED
    BY <1>3, <2>1, <2>2
<1>9. ASSUME NEW u \in Requests, NEW d \in Clients, Unpair(u, d) PROVE Kept(c)'
  <2>1. /\ DOMAIN devices' = DOMAIN devices \ {d} /\ c # d /\ c \notin dropped
        /\ UNCHANGED <<alive, relay, client, replies>> /\ (file' = file \/ file' = Torn)
    BY <1>1, <1>9, WithoutType DEF Unpair, RemoveDevice, OpenFile, OpenFails
  <2>2. QED
    BY <1>2, <1>13, <2>1 DEF Kept
<1>10. CASE Inside
  <2>1. UNCHANGED <<client, replies, dropped>>
    BY <1>10 DEF Inside, outside
  <2>2. ASSUME relay'.at = "consume" => relay' = relay PROVE Counts(c) /\ c \notin dropped
    BY <1>13, <2>1, <2>2
  <2>3. CASE Tick \/ HandleInCore
    BY <1>3, <2>2, <2>3, PlaceFacts DEF Tick, HandleInCore
  <2>4. CASE AddDevice
    <3>1. CASE RefuseKey
      BY <1>3, <2>2, <2>4, <3>1, PlaceFacts DEF AddDevice, RefuseKey
    <3>2. CASE ~RefuseKey
      <4>1. /\ EnterDevice /\ relay.from \in Clients /\ relay.key \in Keys /\ alive' = alive
            /\ file' = file \/ file' = Torn
            /\ relay' = RelayIdle \/ relay' = [relay EXCEPT !.at = "persist"]
        BY <1>1, <2>4, <3>2, RelayFacts DEF AddDevice, KeyDecodes, OpenFile, OpenFails
      <4>2. DOMAIN devices' = DOMAIN devices \cup {relay.from}
        BY <1>1, <4>1, WithType DEF EnterDevice
      <4>3. relay'.at # "consume"
        BY <1>1, <2>4, <4>1, MoveFacts, PlaceFacts DEF AddDevice
      <4>4. QED
        BY <1>2, <2>2, <4>1, <4>2, <4>3 DEF Kept
    <3>3. QED
      BY <3>1, <3>2
  <2>5. CASE Crash
    BY <1>2, <2>2, <2>5, PlaceFacts DEF Crash, Kept
  <2>6. CASE Start
    BY <1>2, <2>2, <2>6 DEF Start, Kept
  <2>7. CASE \E d \in Clients : DeliverSealed(d, OwnKey[d])
    BY <1>3, <2>2, <2>7 DEF DeliverSealed, Sealed
  <2>8. ASSUME NEW u \in Requests, NewWindow(u) \/ Publish(u) PROVE Kept(c)'
    BY <1>3, <2>2, <2>8 DEF NewWindow, Publish
  <2>9. ASSUME NEW u \in Requests, PersistRemove(u) PROVE Kept(c)'
    <3>1. alive
      BY <1>1, <2>9, PlaceFacts DEF PersistRemove, Locking
    <3>2. QED
      BY <1>3, <2>2, <2>9, <3>1 DEF PersistRemove, WriteFile, WriteFails
  <2>10. QED
    BY <1>10, <2>3, <2>4, <2>5, <2>6, <2>7, <2>8, <2>9 DEF Inside, UiStep
<1>11. CASE UNCHANGED agentVars
  BY <1>3, <1>11, <1>13 DEF agentVars, outside, vars
<1>12. QED
  BY <1>4, <1>5, <1>6, <1>7, <1>8, <1>9, <1>10, <1>11 DEF AgentNext

-----------------------------------------------------------------------------
LEMMA AgentInvInit == AgentInit => AgentInv
<1> SUFFICES ASSUME AgentInit PROVE AgentInv
    OBVIOUS
<1>1. GatewayInv
  BY GatewayInvInit DEF AgentInit
<1>2. OutsideOK
  <2>1. Len(windows) = 0
    BY DEF AgentInit, Init
  <2>2. QED
    BY <2>1 DEF AgentInit, OutsideOK, NoWindow, Message
<1>3. CodeInv
  BY DEF AgentInit, CodeInv, Holds
<1>4. KeptInv
  BY PlaceFacts DEF AgentInit, Init, KeptInv, Counts
<1>5. KeyInv
  BY PlaceFacts, EmptyStoreType DEF AgentInit, Init, KeyInv
<1>6. QED
  BY <1>1, <1>2, <1>3, <1>4, <1>5 DEF AgentInv

LEMMA AgentInvStep == AgentInv /\ [AgentNext]_agentVars => AgentInv'
BY GatewayInvStep, OutsideStep, CodeInvStep, KeptInvStep, KeyInvStep DEF AgentInv

LEMMA AgentInvariant == AgentSpec => []AgentInv
BY AgentInvInit, AgentInvStep, PTL DEF AgentSpec

(* The devices and the messages have their types.                          *)
THEOREM OutsideTypeCorrect == AgentSpec => []OutsideOK
BY AgentInvariant, PTL DEF AgentInv

(* A code pairs one device at most, as the devices see it.                 *)
THEOREM CodesAreOneTime == AgentSpec => []OnePerCode
<1>1. AgentInv => OnePerCode
  <2> SUFFICES ASSUME AgentInv, NEW c \in Clients, NEW d \in Clients,
                      client[c].at = "paired", client[d].at = "paired",
                      client[c].win = client[d].win
               PROVE  c = d
      BY DEF OnePerCode
  <2>1. client[c].win \in WindowIds
    <3>1. client[c].win \in 0 .. Len(windows) /\ client[c].win # NoWindow
      BY DEF AgentInv, OutsideOK
    <3>2. Len(windows) \in Nat /\ Len(windows) <= MaxWindows
      BY LenProperties DEF AgentInv, GatewayInv, BaseInv, TypeOK
    <3>3. QED
      BY <3>1, <3>2, GatewayAssumption DEF NoWindow, WindowIds
  <2>2. QED
    BY <2>1 DEF AgentInv, CodeInv, Holds
<1>2. QED
  BY <1>1, AgentInvariant, PTL

(* A device that believes it is paired is served, unless it was removed.   *)
THEOREM PairedMeansServed == AgentSpec => []PairedIsServed
<1>1. AgentInv => PairedIsServed
  BY DEF AgentInv, KeptInv, Counts, Kept, KeyInv, PairedIsServed
<1>2. QED
  BY <1>1, AgentInvariant, PTL
=============================================================================
