# lockping-agent in TLA+

The agent runs on a computer, keeps a WebSocket connection to a relay and lets
paired phones and watches ask for the session's state and lock its screen. This
directory models the parts of it that keep state, model-checks them with TLC on
small instances, and proves the central safety properties with TLAPS for every
value of the constants.

Source paths are relative to `src/`. Definitions carry the names of the code
where TLA+ allows it; `PROJECT.json` ("map") gives the lines each one stands for.

## 1. The system

| part | code | state | operations | talks to |
|---|---|---|---|---|
| core | `internal/core` | nonce cache | `Handle`: `status_request`, `lock` | session layer |
| gateway | `internal/gateway` | open pairing window, its expiry | `Handle` (sealed payload, `pair_request`), `OpenPairing`, `Pairing` | core, window, device store |
| pairing window | `internal/secure/pairing.go` | secret, expiry, used | `VerifyRequest`, `Consume` | |
| device store | `internal/secure/devices.go` | allowlist in memory and in `devices.json`, a mutex | `LoadDevices`, `Add`, `Remove`, `Get`, `List`, `Count` | the disk |
| keys, sealing, challenge | `internal/secure/{keys,crypt,auth}.go` | none | | |
| relay client | `internal/relay` | connection, backoff, connected flag | `Run`: dial, handshake, serve, wait | relay, gateway, UI |
| session choice | `internal/session/pick.go` | none | `pickCandidate` | |
| session layer, Linux | `internal/session/logind_linux.go` | a bus connection | `Locked`, `Lock`, `Watch` | logind over D-Bus |
| session layer, Windows | `internal/session/wts_windows.go` | `watchEvents`, `watchActive`, the window class | `Locked`, `Lock`, `Watch` with its message loop | Win32 |
| config UI | `internal/webui` | none of its own | state page, QR, pair, unpair, autostart, stop | gateway, store, session layer |
| identity | `internal/identity` | `agent.json` | `Load` | the disk |
| companion, tray, wiring | `cmd/lockping-agent` | context, connected flag | `run`, `lock`, `status`, `watch`, `open`, ... | everything |
| autostart, install | `internal/autostart`, `cmd/.../install_*.go` | none of their own | | systemd, registry |

`relay.Client` calls `gateway.Handle` for one envelope at a time, on its own
goroutine. `gateway.Handle` opens a sealed payload with the key the store has and
passes it to `core.Handle`, or pairs a new device. Beside it run the HTTP handlers
of the config UI, any number at once, which open windows and remove devices. The
store has a mutex, held during disk writes; `g.mu` guards only the window pointer
and its expiry; nothing covers a whole pairing. The process may end at any line.

What is hard here, part by part, and what makes each part right:

* **core**: the timestamp check uses the wall clock, the nonce cache the monotonic
  one, and they are read at different moments. Right: a command passes at most once;
  a refusal as replay is only said of a command that was acted on.
* **gateway, window, store**: pairing spans three lock regions and a disk write. Right:
  a window serves once, a removed device stays out, an accepted device stays in,
  memory and disk agree, nobody waits for ever.
* **relay client**: every step of a connection can fail or be cancelled. Right: the
  UI's "connected" is true, nothing is served before the welcome, replies reach their
  own senders in order, the backoff is bounded and starts over, cancellation ends it.
* **session layer, Linux**: one decision is made of many D-Bus reads of a changing world.
  Right: only a lockable session is locked, and the preferred one when nothing moved;
  Watch ends up with the present state.
* **session layer, Windows**: three parties, a bounded channel that drops, globals that outlive
  a call. Right: what is believed will be put right; a cancelled Watch leaves nothing.
* **pairing from end to end**: requests and answers are delayed, repeated and lost between a
  device and the agent. Right: a device that believes it is paired is in the agent's list, over
  restarts; one code pairs one device; a device that keeps asking is answered.
* **identity, store and companion start**: nothing keeps two agents of one user apart, and their
  files are written in place. Right: an existing id is never lost; agents that do not
  overlap have one identity and forget no device; `open` always ends.
* **wiring and tray**: two contexts, four goroutines and a library loop must all agree to end.
  Right: it ends when it was asked to, and only then.

`PROJECT.json` ("hazards") lists these risks line by line, with the properties that
would catch each of them.

## 2. Modules

| module | models | extends |
|---|---|---|
| `Core` | `core.Handle` and the nonce cache | |
| `LockOnce` | what `Core` promises | |
| `Gateway` | gateway, window, store, the UI's pair and unpair | |
| `Membership` | what `Gateway` promises | |
| `Agent` | `Gateway`, the devices that pair with it and the server between | `Gateway` |
| `RelayClient` | `relay.Client` with an external relay and network | |
| `Candidates` | which session is lockable, and its rank | |
| `PickCandidate` | the loop of `pickCandidate` | `Candidates` |
| `Logind` | `Lock` and `Watch` over D-Bus | `Candidates` |
| `WtsWatch` | `Watch`, message loop and `wndProc` | |
| `SessionFeed` | what `WtsWatch` promises | |
| `Startup` | `open`, the start of agents, `agent.json` and `devices.json` among them | |
| `Shutdown` | the goroutines and contexts of `run`, the tray, and the end | |
| `CoreProofs`, `GatewayProofs` (which has `Agent` too), `RelayClientProofs`, `LogindProofs`, `PickCandidateProofs`, `WtsWatchProofs`, `StartupProofs`, `ShutdownProofs` | theorems | the module and `TLAPS` |
| `MC*` | instances and symmetry sets for TLC | the module |

Definitions named `Mut...` are plausible bugs. No specification uses them: each is put
in the place of the definition below it to see that a property notices. Variables marked
"history" are never read by the code's actions.

**Core.** `seen` is `nonceCache.seen`. `CheckTimestamp` is the first half of
`checkFreshness` (`now` for the skew), `AddNonce` is `nonceCache.add` with its own `now`,
which first prunes (`Live`) and then looks the nonce up; `CallLock` is `sess.Lock` and the
reply. `Tick`, `StepBack` and `StepForward` move the two clocks of `time.Time`:
`now.Sub(time.Unix(ts, 0))` goes by the wall clock, `now.Sub(t)` of two process-local
times by the monotonic one. Only one payload is handled at a time, so `pc` is one
program counter.

**Gateway.** `relay` is the relay goroutine, `ui[u]` an HTTP handler. A pairing is
`DeliverPairRequest` (verify), `AddDevice` (key check, memory, open the file),
`PersistAdd` (fill it), `Consume` (mark the window used and answer). A removal is `RemoveDevice` and
`PersistRemove`. `holder` is the store's mutex. `os.WriteFile` truncates and then
fills: between the two, or when the filling fails, the file is `Torn`. `Crash` loses the
memory wherever the handlers are; `Start` is `LoadDevices`, which refuses a torn
file. A MAC is the number of the window whose secret made it; a payload opens under
exactly the key in the store. The operators `OnAddError`, `Unlock`, `Forget` and `TakeLock`
are single lines of the handlers, named because much depends on them.

**Agent** adds to Gateway the companion devices, whose half of the protocol is in
`secure/pairing.go` (`RequestMAC`, `VerifyAcceptMAC`) though no device is in this
repository. `Scan` is the device before the code that `Pairing` shows in the UI; `SendRequest`
repeats the request; `requests` and `replies` are what is on its way, in any order, and a
message that is never received is lost. `StoreDevice`, `Reply`, `Unpair` and `ReceiveRequest` are
Gateway's own steps with their effect outside; all else that Gateway can do is in `Inside`.
A device has one key pair, `OwnKey`. The relay server sends an answer to nobody but the device it is for.

**LockOnce**, **Membership** and **SessionFeed** are the abstract specifications. LockOnce knows no
clocks, nonce cache or handler, only commands that may not pass again, the one being carried out
and what was confirmed. Membership knows no files, locks or handlers, only codes that are issued and
spent, and who is in by them. `Promise` in Core and Gateway maps the code's state (and
histories) to theirs; each is a property of a run and a theorem. SessionFeed knows no threads, windows or
channel, only what has happened to the session since somebody listens and has not been told: it is told in
order, and lost only when as many as the channel holds are ahead of it. `Feed` in WtsWatch maps one call of
Watch to it, any one, `Watched`: what is pending is what the channel holds followed by what waits for the window.

**RelayClient.** `pc` walks through `Run`, `session`, `handshake`, `prove` and `serve`.
The relay (`peer`) and the network (`conn`) are external: a healthy relay answers, and up to
`MaxFaults` times it misbehaves (refuses, is silent, sends an envelope before the
welcome, sends an error) or the network goes down, which the agent notices late and
loses what it writes meanwhile. `shown` is the flag that `OnState` feeds; `sent`, `replies`,
`welcomed` and `attempts` are kept for the properties.

**PickCandidate** is the loop, one step per candidate. **Logind** uses its result with
"the first" replaced by "any of equals", because logind lists in no order: `Best` in `Candidates` is the set it
takes one of, and the theorem `ChoosesFirstBest` says that the loop returns the first of that set.

**Logind.** Two callers, `Lock` and `Watch`, each a sequence of D-Bus calls: `List`,
`ReadProps` per session, `Pick`, then `AskSession` or `ReadHint`. Between any two of these steps the
user locks, unlocks, switches, logs in or out, or a call fails. `ReadProps` is the three calls for one session
in one step; a change between those three would set `disturbed`, like one before or after them. An unreadable property
counts as empty, as in `boolProp` and `stringProp`. `signals` counts undelivered
`PropertiesChanged` signals that mention `LockedHint`; the code does not look at their content.

**WtsWatch.** `call[i]` is the goroutine of the i-th `Watch`, `loop[i]` its OS thread,
`queue[i]` the messages Windows has posted to its window. `watchEvents` and
`watchActive` are global, as in the code, and so is the window class, which
`createMessageWindow` registers and nobody unregisters. What is put in the channel or a queue is the
session's new state, or "other" for an event that says nothing of it; "close" is the message that `Watch` posts when
its context ends. `PostMessage`, whose result the code does not look at (`wts_windows.go:141`), is assumed to post it.

**Startup.** `opener[o]` is a run of `open`: `Probe`, `StartAgent`, `Poll`. `at[p]` is how far the agent
in process `p` is in `runRelay`: `load` and `create`/`fill` are `identity.Load` and its two moments
of writing, `devices` is `LoadDevices`, `run` and `persist` serving and the two moments of a
store's write. `LogOn` is a start by anything else: the session, systemd's `Restart=`, a
second `open`. `Stop` ends a process anywhere. A write that is reported as done is on disk: the
disk's own cache is not modelled. `born`, `twins`, `used` and `owed` are histories.

**Shutdown.** `main` is the main goroutine, `relay` the one in `Client.Run` (the same one without
a tray), `menu` the loop over the tray's menu, `server` the UI. `ctx` is `runRelay`'s context and `clicked` what
`trayCtx` has beyond it. `hangs` says that the session layer leaves calls unanswered, so that a
handler in the relay's goroutine never comes back.

## 3. Runs

| run | instance | what it shows |
|---|---|---|
| `core` | 2 nonces, skew 1, stall 1, step back 1, clock to 3, 1 restart | `AtMostOnce`, `ReplayRefusalMeansAsked`, `LockedOnce` (implements LockOnce) |
| `gateway` | 2 clients, 2 keys, 2 requests, 2 windows, 2 disk failures, 1 crash | `SingleUse`, `UnpairDurable`, `AcceptedIsStored`, `AtMostOneLate`, `StoreInSync`, `KeepsMembership` (implements Membership) |
| `agent` | 2 devices, a key each, 2 UI requests, 2 windows, 1 disk failure, 1 crash | `OnePerCode`, `PairedIsServed` |
| `agent_live` | 1 device, the rest the same | `EveryCallReturns`, `PairingConcludes` |
| `relay` | 2 envelopes, 4 faults, cap of the backoff 3 | `ShownIsHonest`, `ServedAfterWelcome`, `RepliesMatch`, `Backoff`, `CancelEnds`, `Reconnects` |
| `pick` | all lists of up to 3 sessions | `PicksPreferred` |
| `logind` | a manager session and 2 desktops, 1 change, 2 signals, 1 error | `LockTarget`, `WatchIsCurrent` |
| `wts` | 2 calls, channel of 2, 4 events, 1 error | `TruthUnderWay`, `NothingStays`, `KeepsFeed` (implements SessionFeed), `CancelEndsLoop` |
| `startup` | 2 agents at once, 3 starts, 1 `open` that polls twice, 1 failed write | `IdKept`, `OneIdentity`, `DevicesKept`, `OpenReturns` |
| `shutdown` | with and without tray, UI and a session layer that hangs (no bound) | `EndsWhenAsked`, `StopEnds` |
| `gateway_two_devices`, `relay_silent_dial` | smallest that shows it | the code departs from what its documentation says (section 6) |

Each passing run also checks the module's type invariant, except `agent_live`, whose module
is typed by `agent` and `gateway`, and `relay` and `shutdown`, whose type invariants are proved.

Why the bounds are enough to be of interest:

* `core`: the interesting distance is the cache's lifetime, 2 * `MaxSkew` = 2, and a command
  is fresh over 2 * `MaxSkew` + 1 = 3 seconds. With `Horizon` 3 and a step back of 1 the cache does forget a nonce while
  a stalled replay of it is between its two clock readings. A shorter lifetime
  (`MutShortTTL`) is caught in this instance. What the bounds cut off is covered by the
  proofs, which have none.
* `gateway`: two windows let one be replaced while the other is being used; two requests
  and the relay handler compete for one lock; two disk failures make both writes of a
  pairing and a removal fail; one crash falls at every place. The safety
  properties are also proved, without bounds.
* `agent`: two devices can scan the same code, and two windows let one device scan again, so that
  answers to an earlier attempt, or to another device, are under way when it waits for a later one.
  One failure and one crash fall at every place. For liveness one device is enough, since the
  properties speak of one; the other device only takes its code, which the properties exempt.
* `startup`: two agents may be in any two places of their start or their writes, and a third
  start follows what they leave behind. A second `open` command is one of the starts of `LogOn`, as
  `open` shares nothing with another but the agents and the port. `OneIdentity`, `IdKept` and
  `DevicesKept` are also proved, without bounds.
* `relay`: four faults take the backoff to 1, 2, 3 (the cap, which is not a power of two,
  as 30 is not) and let it stay there. Three lost connections and a last good one are included. The safety
  properties are also proved, without bounds.
* `pick`: three lets a later candidate tie with, beat and lose to an earlier one.
  The proof covers all lengths.
* `logind`: one change and one error fall between any two steps of both callers;
  the manager's session has no seat and counts as active, as on a real system. The safety
  properties are also proved, without bounds.
* `wts`: four events overfill a channel of two (the code's is eight) and let a later one
  through; two calls let a loop of the first outlive it. A second call finds the
  class registered and fails, as in the code. `Watched` is the first call: calls differ only in their
  number, and the proofs hold for every one. They have no bounds either.

Deadlock is checked where the system never stops by itself (`core`, `logind`,
`gateway_two_devices`). Elsewhere it may stop: an agent whose file is torn does not
start, `Run` has returned, the loop over candidates has ended, all calls of Watch are over, the
process is gone, the starts are used up.

## 4. Fairness

* `Gateway`: weak fairness of every step of a handler that holds the lock or needs none: goroutines
  run and disk calls return. Strong fairness of `AddDevice`, which waits for the store's mutex while
  others take and release it: `sync.Mutex` hands the lock to a waiter after a millisecond.
  Nothing makes clients, users, crashes or a restart happen.
* `Agent`: the same for Gateway's steps, each with its effect outside. A waiting device repeats its
  request (weak fairness), and of the copies of a request that are sent over and over one
  gets through in the end (strong fairness of its reception while the device waits with that
  code). Answers may all be lost, so no property says that a device learns it is paired: `PairingConcludes` says that
  the agent accepts it, unless the code expires or is replaced or the process ends first.
* `RelayClient`: weak fairness of the agent's goroutine as a whole (blocking calls return
  when their context has ended, timers fire, the handler returns, TCP's own timeouts
  end a read on a dead connection) and of the relay's
  answers in a handshake. Nothing is assumed of the dial except that a cancelled context ends it.
  A handler that blocks on a system bus that hangs is outside this assumption; `Shutdown` has it.
* `WtsWatch`: weak fairness of each goroutine and each OS thread, and of the branch
  of `select` that sees the end of the context, since `select` takes a ready case at random.
  `GetMessage` need not ever fail, and users need not do anything. That a posted message is not refused is an assumption of
  `TakeCancel`, on which `NothingStays` and `CancelEndsLoop` rest.
* `Startup`: weak fairness of the `open` command alone. Agents need not get anywhere, and `open` still ends.
* `Shutdown`: weak fairness of each goroutine that can go on, of the handler only if the session
  layer does not hang. No signal, click or request need come.

## 5. Proofs

`tlapm` checks the eight proof modules without any step left open. They rest on
the named assumptions of the modules, which say that bounds are natural numbers, that `Watched` is one of the calls of Watch, that every device has a key, and that
the values standing for "none" are not among the ordinary ones.

| theorem | states |
|---|---|
| `CoreProofs!TypeCorrect` | `Spec => []TypeOK` |
| `CoreProofs!ReplayProtection` | `Spec => []AtMostOnce` |
| `CoreProofs!ReplayRefusalIsHonest` | `Spec => []ReplayRefusalMeansAsked` |
| `CoreProofs!CoreImplementsLockOnce` | `Spec => LockedOnce`, that is `Promise!Spec` |
| `GatewayProofs!TypeCorrect` | `Spec => []TypeOK` |
| `GatewayProofs!WindowsAreOneTime` | `Spec => []SingleUse` |
| `GatewayProofs!UnpairingIsDurable` | `Spec => []UnpairDurable` |
| `GatewayProofs!OneLatePayload` | `Spec => []AtMostOneLate` |
| `GatewayProofs!AcceptMeansStored` | `Spec => []AcceptedIsStored` |
| `GatewayProofs!MemoryMatchesDisk` | `Spec => []StoreInSync` |
| `GatewayProofs!GatewayImplementsMembership` | `Spec => KeepsMembership`, that is `Promise!Spec` |
| `GatewayProofs!AgentImplementsGateway` | `AgentSpec => Spec` |
| `GatewayProofs!OutsideTypeCorrect` | `AgentSpec => []OutsideOK` |
| `GatewayProofs!CodesAreOneTime` | `AgentSpec => []OnePerCode` |
| `GatewayProofs!PairedMeansServed` | `AgentSpec => []PairedIsServed` |
| `GatewayProofs!AgentKeepsMembership` | `AgentSpec => KeepsMembership` |
| `StartupProofs!TypeCorrect` | `Spec => []TypeOK` |
| `StartupProofs!IdIsKept` | `Spec => []IdKept` |
| `StartupProofs!IdentityIsStable` | `Spec => []OneIdentity` |
| `StartupProofs!DevicesAreKept` | `Spec => []DevicesKept` |
| `ShutdownProofs!TypeCorrect` | `Spec => []TypeOK` |
| `ShutdownProofs!OnlyWhenAsked` | `Spec => []EndsWhenAsked` |
| `RelayClientProofs!TypeCorrect` | `Spec => []TypeOK` |
| `RelayClientProofs!ConnectedIsTrue` | `Spec => []ShownIsHonest` |
| `RelayClientProofs!WelcomeComesFirst` | `Spec => []ServedAfterWelcome` |
| `RelayClientProofs!RepliesGoBack` | `Spec => []RepliesMatch` |
| `RelayClientProofs!WaitsDouble` | `Spec => []Backoff` |
| `LogindProofs!TypeCorrect` | `Spec => []TypeOK` |
| `LogindProofs!LocksTheRightSession` | `Spec => []LockTarget` |
| `LogindProofs!WatchKeepsUp` | `Spec => []WatchIsCurrent` |
| `PickCandidateProofs!TypeCorrect` | `Spec => []TypeOK` |
| `PickCandidateProofs!ChoosesPreferred` | `Spec => []PicksPreferred` |
| `PickCandidateProofs!ChoosesFirstBest` | `Spec => []PicksFirstBest` |
| `WtsWatchProofs!TypeCorrect` | `Spec => []TypeOK` |
| `WtsWatchProofs!TruthIsUnderWay` | `Spec => []TruthUnderWay` |
| `WtsWatchProofs!NothingOutlivesWatch` | `Spec => []NothingStays` |
| `WtsWatchProofs!WatchIsAFeed` | `Spec => KeepsFeed`, that is `Feed!Spec` |

**Replay protection.** `AtMostOnce` speaks of two accepted commands and of
neither the cache nor the clocks, so it is not inductive. `CoreInv` adds `Remembered` (an accepted
nonce is in the cache, or a whole lifetime has gone by on the monotonic clock), `Drift`
(since it was checked, the wall clock has advanced as much as the monotonic one, less what
it was set back), `Recorded` (it was fresh) and `Checked` (the same for the command between its
two clock readings, which are at most `MaxStall` apart). When `AddNonce` lets a replay
through, the cache has forgotten it; so the monotonic clock, hence by `Drift` the wall clock, has
moved too far for the replay to have been fresh when it was checked. The condition on
`Margin` is exactly what a stall and a clock step can take away, and for an agent
with neither the theorem covers every command.
`AskedInv` says that the cache holds only nonces of commands that
reached the session layer, or are about to.

**Gateway.** Everything rests on `BaseInv`: types, `WindowsExist` (handlers hold windows
that exist) and `Locking` (who is writing holds the mutex, and the file is torn meanwhile).
`WindowInv` counts accepts by the used flag and says the window in the handler's
hand is unused, which gives `SingleUse`. `GoneInv` adds to `UnpairDurable` that a
device being removed is out of memory already (`Removing`), and that a payload being handled is
the one late payload there can be (`LateInv`). `StoreInv` adds to
`AcceptedIsStored` that whatever was promised, or is about to be, is in memory
under the same key (`PromiseInv`). `StoreInSync` is inductive by itself.

**The promises.** That Core implements LockOnce, Gateway implements Membership and WtsWatch implements SessionFeed is shown step by step: under the
invariants above each action is one abstract action or a stutter. For Core the invariant of
replay protection says that a command that passes is not among those done; for Gateway,
`WindowInv` says that an accept spends a code that was not, and `GoneInv` that a device that is gone
stays out until it is admitted. What SessionFeed needs is said below, under Watch on Windows.

**Agent.** `AgentImplementsGateway` brings every invariant of Gateway into the composition, and what Gateway implements (`AgentKeepsMembership`). `CodesAreOneTime` needs that
an answer under way, or a device that is paired with a code, is the one client that code was spent
on (`CodeInv`). `PairedMeansServed` needs that a client that was answered and not removed since stays on
disk (`KeptInv`), and that it is there under the device's key (`KeyInv`); the precise
statements are at the head of the module.

**Startup.** `IdKept` needs `IdInv`: where there was an `agent.json`, nobody ever draws an id, since the file is that
id or torn, and a torn one is refused; with keys in it nobody ever gets to write. `OneIdentity` needs `OneInv`:
as long as no two agents have run at once there is one at most, what agents have run under is what the file
holds, and then nobody is writing it. `DevicesKept` is inductive given that.

**Shutdown.** That the agent ends only when asked follows from a chain of reasons: a cancelled context, a
click, `Quit`, `connect` having returned and the end each imply the one before.

**Choice of session.** `LoopInv` adds `Leads`: `best` ranks strictly above each lockable
candidate before it and at least as high as each one between it and `i`. Both properties follow at the end of the
list. `PicksFirstBest`, which is stated with the proofs, says the same in terms of the rank; it is the link to `Logind`,
whose theorems take the choice to be a member of `Best`.

**Relay client.** `ShownIsHonest` and `ServedAfterWelcome` carry each other. `RepliesMatch` needs `MatchInv`: the
envelopes on their way are ones that were sent, in that order, all of them later than the one in hand, which is
later than all that were answered. A connection that is lost takes its frames with it and leaves that order alone. `Backoff` needs what a doubling does to the
power of two that a number of attempts stands for. That `PowerOfTwo` obeys its own equation is a statement about a
recursive definition; it is proved here from the order of the naturals alone: if the equation ever failed there would be
a least number where it does (`LeastNatural`, and `SetInduction` from it).

**logind.** `LogindInv` follows a call from its listing to its end: what an undisturbed call has read is the truth
(`ReadInv`), so its pick is one of `Tracked` (`TargetInv`), and what Watch then holds or has reported is the hint of
that one, unless a signal is on its way (`WatchInv`). That a manager's session is never picked needs no
such condition, since a property that cannot be read never makes a session lockable. The type invariant needs
`WatchInv` in turn: what is reported is a reading.

**Watch on Windows.** `CallInv` says that one call at most is running and what its loop can be doing meanwhile; `OwnerInv` that one
loop at most ever has a window, because the class can be registered once and is never unregistered. So whatever is put in the
global channel while a call is served comes from that call's own window, and a loop that was left behind cannot mix
in its events. `TruthInv` then follows the truth from the first reading on: the last lock event in the queue is the
session's state, and if none waits there it is the last in the channel, or else the last report, unless one was missed; it has to speak
already of a call that waits for a loop which may still get the window (`MayOwn`). `NothingStays` is carried
along. For SessionFeed two more facts are needed (`FeedInv`): the channel is empty when a window is first registered, so that nothing
of before is told, and a window is not closed under the call it serves, so that what is pending is not lost with its
queue. The rest is about the sequence of both: posting a message appends to it, taking one from the channel takes its
head, handing one over leaves it as it was, and dropping one leaves out the element behind those in the channel.

Only model-checked are the liveness properties, which are beyond the prover: `EveryCallReturns`, `PairingConcludes`, `CancelEnds`,
`Reconnects`, `CancelEndsLoop`, `OpenReturns`, `StopEnds`. Every other property of a passing run is the statement of a theorem.

## 6. Where the code departs from what is said of it

With a counterexample found by TLC, as a run:

* `gateway_two_devices`: `Add` enters the device in memory before it writes. When the write
  fails, the device was refused and yet can send commands, and the window, called
  "eenmalig" (`gateway.go:44`), lets in another device.
* `relay_silent_dial`: the dial has no deadline (`client.go:83`); `Run` says it
  "keeps the connection alive until ctx is cancelled" (`client.go:64`).

Exempted by a property, which TLC finds violated without the condition that exempts it:

* A restart empties the nonce cache (`nonce.go:12`), so a command passes again within its window, where
  `docs/protocol.md:85-86` has the agent refuse the nonces it has seen: `AtMostOnce` compares passes of one `life`.
* Two agents that start at once for the first time draw an identity each (`identity.go:86`), and the one whose file is
  overwritten goes on under its own until it ends, where `docs/protocol.md:15-17` has one id from the first start on; and
  agents that run at once overwrite each other's `devices.json`: `~twins` in `OneIdentity` and `DevicesKept`. An agent is started
  beside one that runs when that one's UI takes more than 700 ms (`open.go:34`), for which a slow session layer is
  enough (`webui.go:177`).
* On Linux, Watch does not see a switch to a session in another state, nor a change whose read failed, until the next
  signal (`logind_linux.go:159,163`), against "then every change" (`session.go:22`): `~disturbed` in `WatchIsCurrent`.
* On Windows, an event between the first reading and the registration of the window is not reported
  (`wts_windows.go:120,165`), against the same sentence, and the event that is dropped from a full channel is the newest
  (`wts_windows.go:196`), which leaves Watch with the opposite of the state, where the comment has "status wordt sowieso
  gededupliceerd". Both last until the next event gets through: `~missed` in `TruthUnderWay`.
* Without a tray, a handler that hangs in the session layer (`logind_linux.go:109`) keeps the agent from ending, whatever
  signals come and although the stop button, which ends it "netjes" (`webui.go:248`), has answered: `tray \/ ~hangs` in `StopEnds`.
* A device that the UI removes while its pairing is being answered is still sent the answer (`gateway.go:124`):
  `c \notin dropped` in `PairedIsServed`.

Visible in the models only:

* `os.WriteFile` truncates first. A process that ends then loses every pairing, or its identity, and does not start
  again (`devices.go:45,115`, `identity.go:41,86`): what a torn file holds is not stated, so `AcceptedIsStored` and
  `DevicesKept` speak of files that are not torn.
* With a tray the process ends without waiting for the connection's goroutine (`tray.go:52-57`): a handler may be cut off in the
  middle of a write, where `webui.go:248` has the agent end "netjes". What that leaves behind is what a `Crash` of `Gateway` leaves.
  Without a tray main is the connection's own goroutine.
* `Pairing` goes by the expiry (`gateway.go:67`), so a code that was used is still shown as "de actieve code"
  (`gateway.go:60`): a device can scan it and waits in vain. `PairingConcludes` is satisfied then by the accept of the other device.
* After a removal whose write failed, the retry is told "onbekend device"
  (`devices.go:69`) though the file still has the device.
* On Windows, a second Watch in one process cannot register the window class again
  (`wts_windows.go:235`). The agent starts only one.
* `docs/protocol.md:81-82` has the agent send `status` at every change; `run`
  never starts Watch, so status is sent only on request.

## 7. Not modelled, and the plan

Left out for good: the algorithms of sealing, MACs and keys (symbolic here); JSON; the HTML
page; the host and token filters of the UI, which keep no state; the state page and the autostart
switch, which pass calls through; logging; autostart and install, which are one system call each; the
stub for other platforms; the commands `status`, `lock` and `watch`, which are one call of the session layer; the disk's
write cache.

Of what is modelled, the parts are composed where they share state: `Agent` joins gateway, store and UI with the
devices; `Startup` joins the processes by their files; `Shutdown` joins the goroutines by their contexts. Core and
`RelayClient` meet the rest through one call and one reply, and are modelled apart; the order in which a handler's reply and a
lost connection fall is in `RelayClient`, what a lost reply means for pairing is in `Agent`.

What could follow:

1. An abstract specification of `Watch` on Linux beside SessionFeed. There a signal carries no state and changes coalesce, so
   it would say less: what is told is a state the tracked session had since the last time, and the last of them is told unless
   a read fails. `WatchIsCurrent` has the second half.
2. That agents which do not overlap behave as one agent that is restarted, as an abstract specification for `Startup`, which
   would join `OneIdentity`, `IdKept` and `DevicesKept` in one statement.
