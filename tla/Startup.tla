------------------------------ MODULE Startup ------------------------------
(***************************************************************************)
(* From a click on the menu item to an agent that runs: openCompanion and  *)
(* startAgent (cmd/lockping-agent/open.go), the order of runRelay          *)
(* (main.go), identity.Load, secure.LoadDevices and webui.Start.           *)
(*                                                                         *)
(* Nothing keeps two agents from running at once: the menu item sees only  *)
(* whether a config UI answers, and systemd knows only its own unit.  All  *)
(* agents of a user share agent.json, devices.json and the UI's port.      *)
(* os.WriteFile opens (and truncates) a file in one step and fills it in   *)
(* another; processes interleave between them, fail in them and die in     *)
(* them.  The agent that runs keeps only what concerns start and files;    *)
(* its store's lock and its handlers are in Gateway.                       *)
(***************************************************************************)
EXTENDS Integers

CONSTANTS
    Procs,        \* processes of the operating system that can be agents
    NoProc,       \* no process
    Openers,      \* runs of "lockping-agent open"
    Devices,      \* what can be paired
    Polls,        \* how often openCompanion polls the UI (20 in the code)
    Old,          \* the id, and the key, that agent.json holds beforehand
    NoKey,        \* the key of an agent.json from before keys were added
    Absent,       \* there is no such file
    Torn,         \* the content of a file that does not parse
    MaxStarts,    \* bound: agents started
    MaxFailures   \* bound: failed writes

ASSUME StartupAssumption ==
    /\ Polls \in Nat /\ MaxStarts \in Nat /\ MaxFailures \in Nat
    /\ NoProc \notin Procs
    /\ {Old, NoKey} \cap Nat = {} /\ Old # NoKey
    /\ Absent # Torn
    /\ {Absent, Torn} \cap [id : Nat \cup {Old}, key : Nat \cup {Old, NoKey}] = {}

VARIABLES
    agentFile,   \* agent.json
    devFile,     \* devices.json: the paired devices, or Torn
    at,          \* where the agent in process p is, "off" if there is none
    ident,       \* the identity it works with, NoIdent if none
    mem,         \* DeviceStore.devices in its memory
    port,        \* the process whose UI listens
    tried,       \* whether p's UI goroutine has tried to listen
    unit,        \* the process that is systemd's active unit
    opener,      \* where each "open" command is, and how often it polled
    drawn,       \* history: identities drawn
    starts,      \* history: agents started
    failures,    \* history: failed writes
    born,        \* history: agent.json at the beginning
    twins,       \* history: two agents have run at the same time
    used,        \* history: the identities that agents have run under
    owed         \* history: devices whose pairing was stored, not removed since

process == <<at, ident, mem, port, tried, unit>>
history == <<drawn, starts, failures, born, twins, used, owed>>
vars == <<agentFile, devFile, process, opener, history>>

Identity == [id : Nat \cup {Old}, key : Nat \cup {Old}]
PreKey == [id |-> Old, key |-> NoKey]
Complete == [id |-> Old, key |-> Old]
NoIdent == [id |-> NoKey, key |-> NoKey]

Goto(p, place) == at' = [at EXCEPT ![p] = place]

(* The process ends: whatever it was doing stays half done, its port is    *)
(* free again.                                                             *)
Exit(p) ==
    /\ Goto(p, "off")
    /\ ident' = [ident EXCEPT ![p] = NoIdent]
    /\ mem' = [mem EXCEPT ![p] = {}]
    /\ tried' = [tried EXCEPT ![p] = FALSE]
    /\ port' = IF port = p THEN NoProc ELSE port
    /\ unit' = IF unit = p THEN NoProc ELSE unit

Init ==
    /\ agentFile \in {Absent, PreKey, Complete}
    /\ devFile = {}                      \* a missing file is an empty store
    /\ at = [p \in Procs |-> "off"]
    /\ ident = [p \in Procs |-> NoIdent]
    /\ mem = [p \in Procs |-> {}]
    /\ port = NoProc
    /\ tried = [p \in Procs |-> FALSE]
    /\ unit = NoProc
    /\ opener = [o \in Openers |-> [at |-> "probe", polls |-> 0]]
    /\ drawn = 0
    /\ starts = 0
    /\ failures = 0
    /\ born = agentFile
    /\ twins = FALSE
    /\ used = {}
    /\ owed = {}

-----------------------------------------------------------------------------
(* Starting an agent, as systemd's unit or as a loose process.             *)
Spawn(asUnit) ==
    /\ starts < MaxStarts
    /\ starts' = starts + 1
    /\ \E p \in Procs :
          /\ at[p] = "off"
          /\ Goto(p, "load")
          /\ unit' = IF asUnit THEN p ELSE unit
          /\ twins' = (twins \/ \E q \in Procs : at[q] # "off")
    /\ UNCHANGED <<agentFile, devFile, ident, mem, port, tried, drawn, failures,
                   born, used, owed>>

(* The session, the user (a second click on the menu item, say) or         *)
(* systemd's Restart= starts one.                                          *)
LogOn ==
    /\ \E asUnit \in BOOLEAN : (asUnit => unit = NoProc) /\ Spawn(asUnit)
    /\ UNCHANGED opener

(* Opened is the browser showing a UI; like an error, the command returns. *)
Move(o, place) == opener' = [opener EXCEPT ![o] = [at |-> place, polls |-> 0]]

(* uiAlive: a GET of /api/state that must answer within 700 ms.  A UI that *)
(* is slow (the session layer is asked on the way) counts as none.         *)
Probe(o) ==
    /\ opener[o].at = "probe"
    /\ \/ port # NoProc /\ Move(o, "returned")
       \/ Move(o, "start")
    /\ UNCHANGED <<agentFile, devFile, process, history>>

(* startAgent: "systemctl --user start", which does nothing for a unit     *)
(* that is active; without systemd or the unit, a loose process; or none.  *)
StartAgent(o) ==
    /\ opener[o].at = "start"
    /\ \/ /\ unit # NoProc /\ Move(o, "poll")
          /\ UNCHANGED <<agentFile, devFile, process, history>>
       \/ unit = NoProc /\ Spawn(TRUE) /\ Move(o, "poll")
       \/ Spawn(FALSE) /\ Move(o, "poll")
       \/ /\ Move(o, "returned")
          /\ UNCHANGED <<agentFile, devFile, process, history>>

(* The loop of openCompanion.  The mutation does not count.                *)
MutNextPoll(o) == opener' = opener
NextPoll(o) ==
    LET n == opener[o].polls + 1
    IN  IF n < Polls THEN opener' = [opener EXCEPT ![o] = [at |-> "poll", polls |-> n]]
                     ELSE Move(o, "returned")

Poll(o) ==
    /\ opener[o].at = "poll"
    /\ \/ port # NoProc /\ Move(o, "returned")
       \/ NextPoll(o)
    /\ UNCHANGED <<agentFile, devFile, process, history>>

-----------------------------------------------------------------------------
(* identity.Load.  A file without keys keeps its id (keepID) and gets a    *)
(* key; the mutation draws a new id as well.  Ids and keys are random, so  *)
(* new: they are numbered as they are drawn.                               *)
MutDraft == [id |-> drawn + 1, key |-> drawn + 1]
Draft == [id |-> IF agentFile = Absent THEN drawn + 1 ELSE agentFile.id, key |-> drawn + 1]

ReadIdentity(p) ==
    /\ at[p] = "load"
    /\ \/ /\ agentFile \in {Absent, PreKey}
          /\ Goto(p, "create")
          /\ ident' = [ident EXCEPT ![p] = Draft]
          /\ drawn' = drawn + 1
          /\ UNCHANGED <<mem, port, tried, unit>>
       \/ /\ agentFile \notin {Absent, PreKey, Torn}
          /\ Goto(p, "devices")
          /\ ident' = [ident EXCEPT ![p] = agentFile]
          /\ UNCHANGED <<mem, port, tried, unit, drawn>>
       \/ /\ agentFile = Torn
          /\ Exit(p)
          /\ UNCHANGED drawn
    /\ UNCHANGED <<agentFile, devFile, opener, starts, failures, born, twins, used, owed>>

(* identity.create: a failed write ends the process; the mutation carries  *)
(* on with the identity that is not on disk.                               *)
MutGiveUp(p) == Goto(p, "devices") /\ UNCHANGED <<ident, mem, port, tried, unit>>
GiveUp(p) == Exit(p)

Fail == failures < MaxFailures /\ failures' = failures + 1

OpenIdentity(p) ==
    /\ at[p] = "create"
    /\ \/ /\ agentFile' = Torn
          /\ Goto(p, "fill")
          /\ UNCHANGED <<ident, mem, port, tried, unit, failures>>
       \/ Fail /\ GiveUp(p) /\ UNCHANGED agentFile
    /\ UNCHANGED <<devFile, opener, drawn, starts, born, twins, used, owed>>

(* Identities have one length on disk: of two writers the last one's stays.*)
FillIdentity(p) ==
    /\ at[p] = "fill"
    /\ \/ /\ agentFile' = ident[p]
          /\ Goto(p, "devices")
          /\ UNCHANGED <<ident, mem, port, tried, unit, failures>>
       \/ Fail /\ GiveUp(p) /\ agentFile' \in {agentFile, Torn}
    /\ UNCHANGED <<devFile, opener, drawn, starts, born, twins, used, owed>>

(* secure.LoadDevices refuses a torn file; the mutation takes it as empty. *)
MutLoadable == TRUE
Loadable == devFile # Torn

LoadDevices(p) ==
    /\ at[p] = "devices"
    /\ \/ /\ Loadable
          /\ Goto(p, "run")
          /\ mem' = [mem EXCEPT ![p] = IF devFile = Torn THEN {} ELSE devFile]
          /\ used' = used \cup {ident[p]}
          /\ UNCHANGED <<ident, port, tried, unit>>
       \/ ~Loadable /\ Exit(p) /\ UNCHANGED used
    /\ UNCHANGED <<agentFile, devFile, opener, drawn, starts, failures, born, twins, owed>>

(* webui.Start in its goroutine: if another agent has the port, that is    *)
(* logged, and this agent runs without a UI.  The mutation starts the UI   *)
(* before the files are loaded.                                            *)
MutServing(p) == at[p] # "off"
Serving(p) == at[p] \in {"run", "persist"}

Listen(p) ==
    /\ Serving(p) /\ ~tried[p]
    /\ tried' = [tried EXCEPT ![p] = TRUE]
    /\ port' = IF port = NoProc THEN p ELSE port
    /\ UNCHANGED <<agentFile, devFile, at, ident, mem, unit, opener, history>>

-----------------------------------------------------------------------------
(* DeviceStore.Add and Remove in the running agent: memory first, then the *)
(* file.                                                                   *)
ChangeDevices(p) ==
    /\ at[p] = "run"
    /\ \E d \in Devices :
          \/ mem' = [mem EXCEPT ![p] = @ \cup {d}] /\ UNCHANGED owed
          \/ d \in mem[p] /\ mem' = [mem EXCEPT ![p] = @ \ {d}] /\ owed' = owed \ {d}
    /\ \/ devFile' = Torn /\ Goto(p, "persist") /\ UNCHANGED failures
       \/ Fail /\ UNCHANGED <<devFile, at>>
    /\ UNCHANGED <<agentFile, ident, port, tried, unit, opener, drawn, starts,
                   born, twins, used>>

(* If another agent has written the file meanwhile, the longer of the two  *)
(* contents may stick out at the end.                                      *)
PersistDevices(p) ==
    /\ at[p] = "persist"
    /\ \/ /\ devFile' \in {mem[p]} \cup (IF devFile = Torn THEN {} ELSE {Torn})
          /\ owed' = owed \cup mem[p]
          /\ UNCHANGED failures
       \/ Fail /\ devFile' \in {devFile, Torn} /\ UNCHANGED owed
    /\ Goto(p, "run")
    /\ UNCHANGED <<agentFile, ident, mem, port, tried, unit, opener, drawn, starts,
                   born, twins, used>>

(* A signal, a crash, the power, or a read that fails.                     *)
Stop(p) ==
    /\ at[p] # "off"
    /\ Exit(p)
    /\ UNCHANGED <<agentFile, devFile, opener, history>>

OpenerStep(o) == Probe(o) \/ StartAgent(o) \/ Poll(o)

Next ==
    \/ LogOn
    \/ \E o \in Openers : OpenerStep(o)
    \/ \E p \in Procs :
          \/ ReadIdentity(p) \/ OpenIdentity(p) \/ FillIdentity(p)
          \/ LoadDevices(p) \/ Listen(p)
          \/ ChangeDevices(p) \/ PersistDevices(p)
          \/ Stop(p)

Spec == Init /\ [][Next]_vars

(* The open command runs; nothing is assumed of the agents it waits for.   *)
FairSpec == Spec /\ \A o \in Openers : WF_vars(OpenerStep(o))

-----------------------------------------------------------------------------
(* The variables have their types, and the UI's port is one agent's.       *)
TypeOK ==
    /\ agentFile \in Identity \cup {Absent, Torn, PreKey}
    /\ devFile \in {Torn} \cup SUBSET Devices
    /\ at \in [Procs -> {"off", "load", "create", "fill", "devices", "run", "persist"}]
    /\ ident \in [Procs -> Identity \cup {NoIdent}]
    /\ mem \in [Procs -> SUBSET Devices]
    /\ port \in {NoProc} \cup {p \in Procs : at[p] \in {"run", "persist"}}
    /\ tried \in [Procs -> BOOLEAN]
    /\ unit \in {NoProc} \cup {p \in Procs : at[p] # "off"}
    /\ opener \in [Openers -> [at : {"probe", "start", "poll", "returned"},
                               polls : 0 .. Polls]]
    /\ drawn \in Nat /\ starts \in Nat /\ failures \in Nat
    /\ born \in {Absent, PreKey, Complete}
    /\ twins \in BOOLEAN
    /\ used \in SUBSET Identity
    /\ owed \in SUBSET Devices

(* An agent.json that is there, with or without keys, is never lost to a   *)
(* new id: whatever starts race, fail and die, every agent runs under the  *)
(* id of that file, and under its key if it has one (identity.Load).       *)
IdKept ==
    born # Absent =>
        \A i \in used : i.id = Old /\ (born = Complete => i = Complete)

(* As long as no two agents run at once, all of them have the identity     *)
(* that the first one wrote: phones find the agent again.                  *)
OneIdentity == ~twins => \A i, j \in used : i = j

(* And no paired device is forgotten over restarts and failed writes: it   *)
(* is in the file unless that is torn, and in the memory of every agent.   *)
DevicesKept ==
    ~twins =>
        /\ devFile # Torn => owed \subseteq devFile
        /\ \A p \in Procs : at[p] \in {"run", "persist"} => owed \subseteq mem[p]

(* Whatever the agents do, the open command ends: with a UI or an error.   *)
OpenReturns ==
    \A o \in Openers : <>(opener[o].at = "returned")
=============================================================================
