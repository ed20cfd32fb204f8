------------------------------ MODULE Gateway ------------------------------
(***************************************************************************)
(* internal/gateway with the two parts of internal/secure that have state: *)
(* the pairing window and the device store (the allowlist).                *)
(*                                                                         *)
(* Two kinds of goroutine meet here.  relay.Client delivers one payload at *)
(* a time (the relay handler); the config UI opens windows and removes     *)
(* devices from HTTP handlers of its own, several at once.  g.mu guards    *)
(* only g.window, the store guards itself; between a handler's uses of the *)
(* two, anybody may run.                                                   *)
(*                                                                         *)
(* The allowlist is kept twice, in memory and in a file.  os.WriteFile     *)
(* truncates the file and then fills it, so the disk can fail, and the     *)
(* process can end, between the two: the file is then Torn.                *)
(*                                                                         *)
(* Cryptography is symbolic: a MAC is the window whose secret made it, and *)
(* a sealed payload opens exactly under the key that the store has.        *)
(***************************************************************************)
EXTENDS Integers, Sequences, FiniteSets, Functions

CONSTANTS
    Clients,          \* client ids, as the relay stamps them on envelopes
    Keys,             \* well-formed public keys
    BadKey,           \* a public key that DecodeKey refuses
    Requests,         \* HTTP handlers of the config UI that run at once
    WindowTTL,        \* how long a pairing window stays open
    Torn,             \* the content of a file that does not parse
    Horizon,          \* bound: the clock stops here
    MaxWindows,       \* bound: windows opened
    MaxCrashes,       \* bound: how often the process ends
    MaxDiskFailures   \* bound: failed writes of the devices file

ASSUME GatewayAssumption ==
    /\ WindowTTL \in Nat
    /\ Horizon \in Nat
    /\ MaxWindows \in Nat
    /\ MaxCrashes \in Nat
    /\ MaxDiskFailures \in Nat
    /\ BadKey \notin Keys
    /\ Requests \cap {"none", "relay"} = {}

VARIABLES
    now,        \* the clock of g.now
    alive,      \* the agent's process runs
    windows,    \* every secure.Window made so far
    window,     \* g.window, an index of windows, NoWindow for nil
    shownUntil, \* g.expires, what the UI shows the code by
    devices,    \* DeviceStore.devices: client -> public key
    file,       \* what the devices file holds, or Torn
    holder,     \* who holds DeviceStore.mu: "none", "relay" or a request
    relay,      \* the relay handler: where it is and what it works on
    ui,         \* the same for each request
    failures,   \* history: failed writes
    crashes,    \* history: ends of the process
    accepts,    \* history: pair_accepts sent per window
    added,      \* history: clients put in the allowlist per window
    promised,   \* history: client -> key it was sent a pair_accept for,
                \* until it pairs again or is being removed
    told,       \* history: what the UI was last told of a client
    late        \* history: payloads of a client that reached the core
                \* after the UI was told it is unpaired

process == <<window, shownUntil, devices, holder, relay, ui>>
history == <<failures, crashes, accepts, added, promised, told, late>>
vars == <<now, alive, windows, file, process, history>>

NoWindow == 0
WindowIds == 1 .. MaxWindows
Allowlist == UNION {[S -> Keys] : S \in SUBSET Clients}
EmptyStore == [c \in {} |-> BadKey]

(* The relay handler's place: before the core, before Add, in persist, and *)
(* before Consume.                                                         *)
RelayIdle == [at |-> "idle"]
Sealed(c) == [at |-> "core", from |-> c]
Pair(at, c, k, w) == [at |-> at, from |-> c, key |-> k, win |-> w]
RelayState ==
    {RelayIdle}
    \cup [at : {"core"}, from : Clients]
    \cup [at : {"add"}, from : Clients, key : Keys \cup {BadKey}, win : WindowIds]
    \cup [at : {"persist", "consume"}, from : Clients, key : Keys, win : WindowIds]

UiIdle == [at |-> "idle"]
UiState ==
    {UiIdle}
    \cup [at : {"publish"}, win : WindowIds]
    \cup [at : {"persist"}, client : Clients]

Answers == {"nothing", "unpaired", "unknown"}

With(f, c, k) == [d \in DOMAIN f \cup {c} |-> IF d = c THEN k ELSE f[d]]
Without(f, c) == Restrict(f, DOMAIN f \ {c})

-----------------------------------------------------------------------------
(* The agent starts with the file of an earlier run, or with none.         *)
Init ==
    /\ now = 0
    /\ alive = TRUE
    /\ windows = <<>>
    /\ window = NoWindow
    /\ shownUntil = 0
    /\ devices = EmptyStore
    /\ file = EmptyStore
    /\ holder = "none"
    /\ relay = RelayIdle
    /\ ui = [u \in Requests |-> UiIdle]
    /\ failures = 0
    /\ crashes = 0
    /\ accepts = [w \in WindowIds |-> 0]
    /\ added = [w \in WindowIds |-> {}]
    /\ promised = EmptyStore
    /\ told = [c \in Clients |-> "nothing"]
    /\ late = [c \in Clients |-> 0]

Tick ==
    /\ now < Horizon
    /\ now' = now + 1
    /\ UNCHANGED <<alive, windows, file, process, history>>

-----------------------------------------------------------------------------
(* DeviceStore.persistLocked, in two moments.  Opening truncates the file, *)
(* or fails and leaves it as it was; writing fills it, or fails and leaves *)
(* a part, which does not parse.                                           *)
OpenFile == file' = Torn /\ UNCHANGED failures
OpenFails == failures < MaxDiskFailures /\ failures' = failures + 1 /\ UNCHANGED file
WriteFile == file' = devices /\ UNCHANGED failures
WriteFails == failures < MaxDiskFailures /\ failures' = failures + 1 /\ UNCHANGED file

-----------------------------------------------------------------------------
(* The relay handler.                                                      *)

(* handleSealed: devices.Get and secure.Open.  From an unpaired client, or *)
(* under another key than the store has, a payload is ignored.             *)
DeliverSealed(c, k) ==
    /\ alive /\ relay = RelayIdle /\ holder = "none"
    /\ IF c \in DOMAIN devices /\ devices[c] = k
       THEN relay' = Sealed(c)
       ELSE UNCHANGED relay
    /\ UNCHANGED <<now, alive, windows, window, shownUntil, devices, file,
                   holder, ui, history>>

(* core.Handle and the sealed reply.                                       *)
HandleInCore ==
    /\ relay.at = "core"
    /\ late' = [late EXCEPT ![relay.from] =
                    IF told[relay.from] = "unpaired" THEN @ + 1 ELSE @]
    /\ relay' = RelayIdle
    /\ UNCHANGED <<now, alive, windows, window, shownUntil, devices, file,
                   holder, ui, failures, crashes, accepts, added, promised, told>>

(* Window.VerifyRequest of g.window, for a MAC made with the secret of     *)
(* window w; NoWindow stands for a MAC that is none of ours.  The mutation *)
(* forgets that a window is used up.                                       *)
MutUsedAgain(w) == window # NoWindow /\ w = window /\ now <= windows[w].expires
VerifyRequest(w) ==
    /\ window # NoWindow
    /\ w = window
    /\ ~windows[w].used
    /\ now <= windows[w].expires

(* handlePairRequest up to devices.Add.  g.window is read under g.mu and   *)
(* verified after it is released; only this handler sets used and time     *)
(* only passes, so a request that verifies did so when the window was read.*)
DeliverPairRequest(c, k, w) ==
    /\ alive /\ relay = RelayIdle
    /\ IF VerifyRequest(w)
       THEN relay' = Pair("add", c, k, w)
       ELSE UNCHANGED relay
    /\ UNCHANGED <<now, alive, windows, window, shownUntil, devices, file,
                   holder, ui, history>>

(* secure.DecodeKey accepts the key; the mutations do not look, or also    *)
(* refuse a client that is in the store.                                   *)
MutAnyKey(k) == TRUE
MutOnlyNew(k) == k # BadKey /\ relay.from \notin DOMAIN devices
KeyDecodes(k) == k # BadKey

(* handlePairRequest returns when Add fails; the mutation carries on.      *)
MutOnAddError == [relay EXCEPT !.at = "consume"]
OnAddError == RelayIdle

(* DeviceStore.Add: a bad key is refused; else the client is entered in    *)
(* memory, whatever then becomes of the file.                              *)
EnterDevice ==
    /\ devices' = With(devices, relay.from, relay.key)
    /\ added' = [added EXCEPT ![relay.win] = @ \cup {relay.from}]
    /\ promised' = Without(promised, relay.from)
    /\ told' = [told EXCEPT ![relay.from] = "nothing"]
    /\ late' = [late EXCEPT ![relay.from] = 0]

RefuseKey ==
    /\ ~KeyDecodes(relay.key)
    /\ relay' = OnAddError
    /\ UNCHANGED <<devices, file, holder, failures, added, promised, told, late>>

AddDevice ==
    /\ relay.at = "add" /\ holder = "none"
    /\ \/ RefuseKey
       \/ /\ KeyDecodes(relay.key)
          /\ EnterDevice
          /\ \/ /\ OpenFile
                /\ holder' = "relay"
                /\ relay' = [relay EXCEPT !.at = "persist"]
             \/ /\ OpenFails
                /\ relay' = OnAddError
                /\ UNCHANGED holder
    /\ UNCHANGED <<now, alive, windows, window, shownUntil, ui, crashes, accepts>>

(* The rest of persistLocked in Add.  The lock is released either way; the *)
(* mutation keeps it after an error.                                       *)
MutUnlock == holder' = IF failures' = failures THEN "none" ELSE holder
Unlock == holder' = "none"

PersistAdd ==
    /\ relay.at = "persist"
    /\ \/ /\ WriteFile
          /\ relay' = [relay EXCEPT !.at = "consume"]
       \/ /\ WriteFails
          /\ relay' = OnAddError
    /\ Unlock
    /\ UNCHANGED <<now, alive, windows, window, shownUntil, devices, ui,
                   crashes, accepts, added, promised, told, late>>

(* window.Consume and the pair_accept.  The mutation forgets the former.   *)
SendAccept ==
    /\ relay.at = "consume"
    /\ accepts' = [accepts EXCEPT ![relay.win] = @ + 1]
    /\ promised' = IF relay.from \in DOMAIN devices
                   THEN With(promised, relay.from, relay.key)
                   ELSE promised
    /\ relay' = RelayIdle
    /\ UNCHANGED <<now, alive, window, shownUntil, devices, file, holder, ui,
                   failures, crashes, added, told, late>>

MutNotConsumed == SendAccept /\ UNCHANGED windows

Consume ==
    /\ SendAccept
    /\ windows' = [windows EXCEPT ![relay.win].used = TRUE]

-----------------------------------------------------------------------------
(* The config UI's requests.                                               *)

(* OpenPairing: the secret is drawn first.                                 *)
NewWindow(u) ==
    /\ alive /\ ui[u] = UiIdle
    /\ Len(windows) < MaxWindows
    /\ windows' = Append(windows, [expires |-> now + WindowTTL, used |-> FALSE])
    /\ ui' = [ui EXCEPT ![u] = [at |-> "publish", win |-> Len(windows) + 1]]
    /\ UNCHANGED <<now, alive, window, shownUntil, devices, file, holder,
                   relay, history>>

(* Then, under g.mu, it becomes the window; g.expires is set by a clock    *)
(* reading of its own.                                                     *)
Publish(u) ==
    /\ ui[u].at = "publish"
    /\ window' = ui[u].win
    /\ shownUntil' = now + WindowTTL
    /\ ui' = [ui EXCEPT ![u] = UiIdle]
    /\ UNCHANGED <<now, alive, windows, devices, file, holder, relay, history>>

(* DeviceStore.Remove of a device that is not there.                       *)
RemoveUnknown(u, c) ==
    /\ alive /\ ui[u] = UiIdle /\ holder = "none"
    /\ c \notin DOMAIN devices
    /\ told' = [told EXCEPT ![c] = IF @ = "unpaired" THEN @ ELSE "unknown"]
    /\ UNCHANGED <<now, alive, windows, file, process, failures, crashes,
                   accepts, added, promised, late>>

(* DeviceStore.Remove of one that is: memory first, then the file.  The    *)
(* mutations leave the memory for later, or write without the lock.        *)
MutForget(c) == UNCHANGED devices
Forget(c) == devices' = Without(devices, c)
MutTakeLock(u) == UNCHANGED holder
TakeLock(u) == holder' = u

RemoveDevice(u, c) ==
    /\ alive /\ ui[u] = UiIdle /\ holder = "none"
    /\ c \in DOMAIN devices
    /\ Forget(c)
    /\ promised' = Without(promised, c)
    /\ \/ /\ OpenFile
          /\ TakeLock(u)
          /\ ui' = [ui EXCEPT ![u] = [at |-> "persist", client |-> c]]
       \/ /\ OpenFails
          /\ UNCHANGED <<holder, ui>>
    /\ UNCHANGED <<now, alive, windows, window, shownUntil, relay,
                   crashes, accepts, added, told, late>>

PersistRemove(u) ==
    /\ ui[u].at = "persist"
    /\ \/ /\ WriteFile
          /\ told' = [told EXCEPT ![ui[u].client] = "unpaired"]
       \/ /\ WriteFails
          /\ UNCHANGED told
    /\ Unlock
    /\ ui' = [ui EXCEPT ![u] = UiIdle]
    /\ UNCHANGED <<now, alive, windows, window, shownUntil, devices, relay,
                   crashes, accepts, added, promised, late>>

-----------------------------------------------------------------------------
(* The process ends at any moment (stop, kill, power), taking with it the  *)
(* memory; started again, it loads the file and refuses one that is torn.  *)
Crash ==
    /\ alive
    /\ crashes < MaxCrashes
    /\ crashes' = crashes + 1
    /\ alive' = FALSE
    /\ window' = NoWindow
    /\ shownUntil' = 0
    /\ devices' = EmptyStore
    /\ holder' = "none"
    /\ relay' = RelayIdle
    /\ ui' = [u \in Requests |-> UiIdle]
    /\ UNCHANGED <<now, windows, file, failures, accepts, added, promised, told, late>>

Start ==
    /\ ~alive
    /\ file # Torn
    /\ alive' = TRUE
    /\ devices' = file
    /\ UNCHANGED <<now, windows, window, shownUntil, file, holder, relay, ui,
                   history>>

RelayStep == HandleInCore \/ AddDevice \/ PersistAdd \/ Consume
UiStep(u) == Publish(u) \/ PersistRemove(u)

Next ==
    \/ Tick
    \/ \E c \in Clients, k \in Keys : DeliverSealed(c, k)
    \/ \E c \in Clients, k \in Keys \cup {BadKey}, w \in WindowIds \cup {NoWindow} :
          DeliverPairRequest(c, k, w)
    \/ RelayStep
    \/ \E u \in Requests :
          \/ NewWindow(u)
          \/ \E c \in Clients : RemoveUnknown(u, c) \/ RemoveDevice(u, c)
          \/ UiStep(u)
    \/ Crash \/ Start

Spec == Init /\ [][Next]_vars

(* A goroutine that can run does, and sync.Mutex hands the lock to one that*)
(* has waited a millisecond: waiting for the store is strongly fair.       *)
Fairness ==
    /\ SF_vars(AddDevice)
    /\ WF_vars(HandleInCore \/ PersistAdd \/ Consume)
    /\ \A u \in Requests : WF_vars(UiStep(u))

FairSpec == Spec /\ Fairness

-----------------------------------------------------------------------------
(* The variables have their types, and a handler that holds the store's    *)
(* lock is the one in the middle of a write.                               *)
TypeOK ==
    /\ now \in Nat
    /\ alive \in BOOLEAN
    /\ windows \in Seq([expires : Nat, used : BOOLEAN])
    /\ Len(windows) <= MaxWindows
    /\ window \in 0 .. Len(windows)
    /\ shownUntil \in Nat
    /\ devices \in Allowlist
    /\ file \in Allowlist \cup {Torn}
    /\ holder \in Requests \cup {"none", "relay"}
    /\ relay \in RelayState
    /\ ui \in [Requests -> UiState]
    /\ failures \in Nat /\ crashes \in Nat
    /\ accepts \in [WindowIds -> Nat]
    /\ added \in [WindowIds -> SUBSET Clients]
    /\ promised \in Allowlist
    /\ told \in [Clients -> Answers]
    /\ late \in [Clients -> Nat]

(* A pairing window is one-time (gateway.OpenPairing): however requests,   *)
(* new windows, removals, disk failures and restarts fall, at most one     *)
(* pair_accept is ever sent for it.                                        *)
SingleUse == \A w \in WindowIds : accepts[w] <= 1

(* And at most one client enters the allowlist through it.                 *)
OneDevicePerWindow == \A w \in WindowIds : Cardinality(added[w]) <= 1

Absent(c) == c \notin DOMAIN devices /\ (file # Torn => c \notin DOMAIN file)

(* Once the UI has said that a device is unpaired it stays out, in memory  *)
(* and on disk, over every later failure and restart, until it pairs anew. *)
UnpairDurable == \A c \in Clients : told[c] = "unpaired" => Absent(c)

(* A client that was sent a pair_accept, and has not been removed since,   *)
(* is on disk under its key, unless the file is torn: a restart never      *)
(* silently forgets a device or brings back its former key.                *)
AcceptedIsStored ==
    file # Torn =>
        \A c \in DOMAIN promised : c \in DOMAIN file /\ file[c] = promised[c]

(* Removing a device does not stop the payload that is already being       *)
(* handled, but no more than that one reaches the core afterwards.         *)
AtMostOneLate == \A c \in Clients : late[c] <= 1

(* While no write has failed, memory and disk agree whenever the store is  *)
(* not locked, whichever goroutines wrote.                                 *)
StoreInSync == alive /\ holder = "none" /\ failures = 0 => file = devices

(* Every payload and every request is dealt with: no goroutine waits for a *)
(* lock for ever, also when the disk fails.                                *)
EveryCallReturns ==
    /\ (relay # RelayIdle) ~> (relay = RelayIdle)
    /\ \A u \in Requests : (ui[u] # UiIdle) ~> (ui[u] = UiIdle)

(* Gateway keeps the promise of Membership.                                *)
Promise == INSTANCE Membership WITH
    Codes <- WindowIds,
    issued <- 1 .. Len(windows),
    spent <- {w \in WindowIds : accepts[w] > 0},
    member <- [c \in Clients |-> IF told[c] = "unpaired" THEN "gone"
                                ELSE IF c \in DOMAIN promised THEN "paired"
                                ELSE "unsettled"]

KeepsMembership == Promise!Spec
=============================================================================
