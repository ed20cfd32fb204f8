--------------------------- MODULE StartupProofs ---------------------------
(***************************************************************************)
(* Starting agents, proved for any number of processes, of "open" commands *)
(* and of devices, and any failures.                                       *)
(*                                                                         *)
(* Three arguments:                                                        *)
(*   IdInv: with an agent.json from before, nobody ever draws an id, and   *)
(*   with keys in it nobody writes it.                                     *)
(*   OneInv: as long as no two agents have run at once there is one at     *)
(*   most, and what an agent has run under is what the file holds.         *)
(*   DevicesKept carries itself, given that there is one agent at most.    *)
(***************************************************************************)
EXTENDS Startup, TLAPS

Places == {"off", "load", "create", "fill", "devices", "run", "persist"}
Writing == {"create", "fill"}
Loaded == {"devices", "run", "persist"}

OldIds == {i \in Identity : i.id = Old}
KeptIds == {i \in OldIds : born = Complete => i = Complete}
IdInv ==
    born # Absent =>
        /\ born = Complete => agentFile = Complete /\ \A p \in Procs : at[p] \notin Writing
        /\ agentFile \in {PreKey, Torn} \cup OldIds
        /\ \A p \in Procs : at[p] \in Writing \cup Loaded => ident[p] \in KeptIds
        /\ used \subseteq KeptIds

OneAgent == \A p, q \in Procs : at[p] # "off" /\ at[q] # "off" => p = q
OneInv ==
    ~twins =>
        /\ OneAgent
        /\ \A p \in Procs : at[p] \in Loaded => ident[p] = agentFile
        /\ \A i \in used : agentFile = i /\ \A p \in Procs : at[p] \notin Writing

HasIdentity == \A p \in Procs : at[p] \in Writing \cup Loaded => ident[p] \in Identity

-----------------------------------------------------------------------------
LEMMA FilesDiffer ==
    /\ PreKey \notin Identity /\ Absent \notin Identity /\ Torn \notin Identity
    /\ Complete \in Identity /\ PreKey # Absent /\ PreKey # Torn /\ Absent # Torn
    /\ PreKey # Complete
<1>1. PreKey.key \notin Nat \cup {Old} /\ PreKey.key # Complete.key
  BY StartupAssumption DEF PreKey, Complete
<1>2. \A i \in Identity : i \in [id : Nat \cup {Old}, key : Nat \cup {Old, NoKey}]
  BY DEF Identity
<1>3. PreKey \in [id : Nat \cup {Old}, key : Nat \cup {Old, NoKey}]
  BY DEF PreKey
<1>4. Complete \in Identity
  BY DEF Complete, Identity
<1>5. PreKey \notin Identity
  BY <1>1 DEF Identity
<1>6. QED
  BY <1>1, <1>2, <1>3, <1>4, <1>5, StartupAssumption

LEMMA TypeInit == Init => TypeOK /\ HasIdentity
<1> SUFFICES ASSUME Init PROVE TypeOK /\ HasIdentity
    OBVIOUS
<1>1. opener \in [Openers -> [at : {"probe", "start", "poll", "returned"}, polls : 0 .. Polls]]
  BY StartupAssumption DEF Init
<1>2. agentFile \in Identity \cup {Absent, Torn, PreKey}
  BY FilesDiffer DEF Init
<1>3. QED
  BY <1>1, <1>2 DEF Init, TypeOK, HasIdentity, Writing, Loaded

(* The process ends.                                                       *)
LEMMA ExitType ==
    ASSUME TypeOK, HasIdentity, NEW p \in Procs, Exit(p)
    PROVE  /\ at' \in [Procs -> Places] /\ ident' \in [Procs -> Identity \cup {NoIdent}]
           /\ mem' \in [Procs -> SUBSET Devices] /\ tried' \in [Procs -> BOOLEAN]
           /\ port' \in {NoProc} \cup {q \in Procs : at'[q] \in {"run", "persist"}}
           /\ unit' \in {NoProc} \cup {q \in Procs : at'[q] # "off"}
           /\ \A q \in Procs : at'[q] # "off" => q # p /\ at'[q] = at[q] /\ ident'[q] = ident[q]
                                                /\ mem'[q] = mem[q]
BY DEF TypeOK, Exit, Goto, Places

(* A process moves on within its start or its run.                         *)
LEMMA GotoType ==
    ASSUME TypeOK, NEW p \in Procs, NEW place \in Places \ {"off"}, Goto(p, place),
           at[p] \in {"run", "persist"} => place \in {"run", "persist"}
    PROVE  /\ at' \in [Procs -> Places]
           /\ port \in {NoProc} \cup {q \in Procs : at'[q] \in {"run", "persist"}}
           /\ unit \in {NoProc} \cup {q \in Procs : at'[q] # "off"}
           /\ at'[p] = place
           /\ \A q \in Procs : q # p => at'[q] = at[q]
BY DEF TypeOK, Goto, Places

(* A new agent, in a process that was none.                                *)
LEMMA SpawnType ==
    ASSUME TypeOK, NEW asUnit \in BOOLEAN, Spawn(asUnit)
    PROVE  /\ at' \in [Procs -> Places] /\ starts' \in Nat /\ twins' \in BOOLEAN
           /\ port \in {NoProc} \cup {q \in Procs : at'[q] \in {"run", "persist"}}
           /\ unit' \in {NoProc} \cup {q \in Procs : at'[q] # "off"}
           /\ \E p \in Procs :
                 /\ at[p] = "off" /\ at'[p] = "load"
                 /\ \A q \in Procs : q # p => at'[q] = at[q]
                 /\ ~twins' => ~twins /\ \A q \in Procs : at[q] = "off"
<1>1. PICK p \in Procs : /\ at[p] = "off" /\ Goto(p, "load")
                         /\ unit' = IF asUnit THEN p ELSE unit
                         /\ twins' = (twins \/ \E q \in Procs : at[q] # "off")
  BY DEF Spawn
<1>2. starts' \in Nat
  BY DEF Spawn, TypeOK
<1>3. /\ at' \in [Procs -> Places]
      /\ port \in {NoProc} \cup {q \in Procs : at'[q] \in {"run", "persist"}}
      /\ unit \in {NoProc} \cup {q \in Procs : at'[q] # "off"}
      /\ at'[p] = "load"
      /\ \A q \in Procs : q # p => at'[q] = at[q]
  BY <1>1, GotoType DEF Places
<1>4. twins' \in BOOLEAN /\ (~twins' => ~twins /\ \A q \in Procs : at[q] = "off")
  BY <1>1 DEF TypeOK
<1>5. unit' \in {NoProc} \cup {q \in Procs : at'[q] # "off"}
  BY <1>1, <1>3
<1>6. QED
  BY <1>1, <1>2, <1>3, <1>4, <1>5

-----------------------------------------------------------------------------
LEMMA TypeStep == TypeOK /\ HasIdentity /\ [Next]_vars => TypeOK' /\ HasIdentity'
<1> SUFFICES ASSUME TypeOK, HasIdentity, [Next]_vars PROVE TypeOK' /\ HasIdentity'
    OBVIOUS
<1> USE DEF process, history
<1>1. ASSUME NEW asUnit \in BOOLEAN, Spawn(asUnit), opener' \in
                [Openers -> [at : {"probe", "start", "poll", "returned"}, polls : 0 .. Polls]]
      PROVE  TypeOK' /\ HasIdentity'
  <2>1. TypeOK'
    BY <1>1, SpawnType DEF Spawn, TypeOK, Places
  <2>2. HasIdentity'
    BY <1>1, SpawnType DEF Spawn, HasIdentity, Writing, Loaded
  <2>3. QED
    BY <2>1, <2>2
<1>2. ASSUME UNCHANGED <<agentFile, devFile, process, history>>, opener' \in
                [Openers -> [at : {"probe", "start", "poll", "returned"}, polls : 0 .. Polls]]
      PROVE  TypeOK' /\ HasIdentity'
  BY <1>2 DEF TypeOK, HasIdentity
<1>3. CASE LogOn
  BY <1>1, <1>3 DEF LogOn, TypeOK
<1>4. ASSUME NEW o \in Openers, OpenerStep(o) PROVE TypeOK' /\ HasIdentity'
  <2>1. ASSUME NEW place \in {"probe", "start", "poll", "returned"}, Move(o, place)
        PROVE  opener' \in [Openers -> [at : {"probe", "start", "poll", "returned"},
                                        polls : 0 .. Polls]]
    BY <2>1, StartupAssumption DEF Move, TypeOK
  <2>2. ASSUME NextPoll(o)
        PROVE  opener' \in [Openers -> [at : {"probe", "start", "poll", "returned"},
                                        polls : 0 .. Polls]]
    <3>1. opener[o].polls \in Nat
      BY DEF TypeOK
    <3>2. CASE opener[o].polls + 1 < Polls
      BY <2>2, <3>1, <3>2, StartupAssumption DEF NextPoll, TypeOK
    <3>3. CASE ~(opener[o].polls + 1 < Polls)
      BY <2>1, <2>2, <3>3 DEF NextPoll
    <3>4. QED
      BY <3>2, <3>3
  <2>3. CASE Probe(o) \/ Poll(o)
    BY <1>2, <2>1, <2>2, <2>3 DEF Probe, Poll
  <2>4. CASE StartAgent(o)
    BY <1>1, <1>2, <2>1, <2>4 DEF StartAgent
  <2>5. QED
    BY <1>4, <2>3, <2>4 DEF OpenerStep
<1>5. ASSUME NEW p \in Procs, Exit(p), UNCHANGED <<opener, starts, born, twins, used, owed>>,
             agentFile' \in Identity \cup {Absent, Torn, PreKey}, devFile' = devFile,
             drawn' = drawn, failures' \in Nat
      PROVE  TypeOK' /\ HasIdentity'
  <2>1. TypeOK'
    BY <1>5, ExitType DEF TypeOK, Places
  <2>2. HasIdentity'
    BY <1>5, ExitType DEF HasIdentity, Writing, Loaded
  <2>3. QED
    BY <2>1, <2>2
<1>6. ASSUME NEW p \in Procs, NEW place \in Places \ {"off"}, Goto(p, place),
             at[p] \in {"run", "persist"} => place \in {"run", "persist"},
             ident' \in [Procs -> Identity \cup {NoIdent}],
             \A q \in Procs : q # p => ident'[q] = ident[q],
             place \in Writing \cup Loaded => ident'[p] \in Identity,
             UNCHANGED <<port, tried, unit, opener, starts, born, twins>>,
             agentFile' \in Identity \cup {Absent, Torn, PreKey},
             devFile' \in {Torn} \cup SUBSET Devices,
             mem' \in [Procs -> SUBSET Devices], owed' \in SUBSET Devices,
             drawn' \in Nat, failures' \in Nat, used' \in SUBSET Identity
      PROVE  TypeOK' /\ HasIdentity'
  <2>1. TypeOK'
    BY <1>6, GotoType DEF TypeOK, Places
  <2>2. HasIdentity'
    BY <1>6, GotoType DEF HasIdentity
  <2>3. QED
    BY <2>1, <2>2
<1>7. ASSUME NEW p \in Procs, ReadIdentity(p) PROVE TypeOK' /\ HasIdentity'
  <2>1. CASE Exit(p) /\ UNCHANGED drawn
    BY <1>5, <1>7, <2>1 DEF ReadIdentity, TypeOK
  <2>2. ASSUME NEW place \in {"create", "devices"}, Goto(p, place), drawn' \in Nat,
               NEW i \in Identity, ident' = [ident EXCEPT ![p] = i],
               UNCHANGED <<mem, port, tried, unit>>
        PROVE  TypeOK' /\ HasIdentity'
    <3>1. /\ ident' \in [Procs -> Identity \cup {NoIdent}] /\ ident'[p] = i
          /\ \A q \in Procs : q # p => ident'[q] = ident[q]
      BY <2>2 DEF TypeOK
    <3>2. QED
      BY <1>7, <1>6, <2>2, <3>1 DEF ReadIdentity, TypeOK, Places
  <2>3. CASE /\ Goto(p, "create") /\ ident' = [ident EXCEPT ![p] = Draft]
             /\ agentFile \in {Absent, PreKey} /\ drawn' = drawn + 1
             /\ UNCHANGED <<mem, port, tried, unit>>
    <3>1. drawn + 1 \in Nat
      BY DEF TypeOK
    <3>2. (IF agentFile = Absent THEN drawn + 1 ELSE agentFile.id) \in Nat \cup {Old}
      BY <2>3, <3>1 DEF PreKey
    <3>3. Draft \in Identity
      BY <3>1, <3>2 DEF Draft, Identity
    <3>4. QED
      BY <2>2, <2>3, <3>1, <3>3
  <2>4. CASE /\ Goto(p, "devices") /\ ident' = [ident EXCEPT ![p] = agentFile]
             /\ agentFile \notin {Absent, PreKey, Torn} /\ UNCHANGED <<mem, port, tried, unit, drawn>>
    <3>1. agentFile \in Identity /\ drawn \in Nat
      BY <2>4 DEF TypeOK
    <3>2. QED
      BY <2>2, <2>4, <3>1
  <2>5. QED
    BY <1>7, <2>1, <2>3, <2>4 DEF ReadIdentity
<1>8. ASSUME NEW p \in Procs, OpenIdentity(p) PROVE TypeOK' /\ HasIdentity'
  <2>1. CASE Goto(p, "fill") /\ agentFile' = Torn /\ UNCHANGED <<ident, mem, port, tried, unit, failures>>
    BY <1>6, <1>8, <2>1 DEF OpenIdentity, TypeOK, HasIdentity, Places, Writing
  <2>2. CASE Fail /\ GiveUp(p) /\ UNCHANGED agentFile
    BY <1>5, <1>8, <2>2 DEF OpenIdentity, Fail, GiveUp, TypeOK
  <2>3. QED
    BY <1>8, <2>1, <2>2 DEF OpenIdentity
<1>9. ASSUME NEW p \in Procs, FillIdentity(p) PROVE TypeOK' /\ HasIdentity'
  <2>1. CASE Goto(p, "devices") /\ agentFile' = ident[p] /\ UNCHANGED <<ident, mem, port, tried, unit, failures>>
    BY <1>6, <1>9, <2>1 DEF FillIdentity, TypeOK, HasIdentity, Places, Writing
  <2>2. CASE Fail /\ GiveUp(p) /\ agentFile' \in {agentFile, Torn}
    BY <1>5, <1>9, <2>2 DEF FillIdentity, Fail, GiveUp, TypeOK
  <2>3. QED
    BY <1>9, <2>1, <2>2 DEF FillIdentity
<1>10. ASSUME NEW p \in Procs, LoadDevices(p) PROVE TypeOK' /\ HasIdentity'
  <2>1. CASE Exit(p) /\ UNCHANGED used
    BY <1>5, <1>10, <2>1 DEF LoadDevices, TypeOK
  <2>2. CASE Loadable /\ Goto(p, "run") /\ used' = used \cup {ident[p]}
             /\ mem' = [mem EXCEPT ![p] = IF devFile = Torn THEN {} ELSE devFile]
             /\ UNCHANGED <<ident, port, tried, unit>>
    <3>1. ident[p] \in Identity /\ at[p] = "devices"
      BY <1>10 DEF LoadDevices, HasIdentity, Loaded
    <3>2. mem' \in [Procs -> SUBSET Devices] /\ used' \in SUBSET Identity
      BY <2>2, <3>1 DEF TypeOK
    <3>3. QED
      BY <1>6, <1>10, <2>2, <3>1, <3>2 DEF LoadDevices, TypeOK, Places
  <2>3. QED
    BY <1>10, <2>1, <2>2 DEF LoadDevices
<1>11. ASSUME NEW p \in Procs, Listen(p) PROVE TypeOK' /\ HasIdentity'
  BY <1>11 DEF Listen, Serving, TypeOK, HasIdentity
<1>12. ASSUME NEW p \in Procs, ChangeDevices(p) PROVE TypeOK' /\ HasIdentity'
  <2>1. mem' \in [Procs -> SUBSET Devices] /\ owed' \in SUBSET Devices
    BY <1>12 DEF ChangeDevices, TypeOK
  <2>2. CASE devFile' = Torn /\ Goto(p, "persist") /\ UNCHANGED failures
    BY <1>6, <1>12, <2>1, <2>2 DEF ChangeDevices, TypeOK, HasIdentity, Places, Loaded
  <2>3. CASE Fail /\ UNCHANGED <<devFile, at>>
    BY <1>12, <2>1, <2>3 DEF ChangeDevices, Fail, TypeOK, HasIdentity
  <2>4. QED
    BY <1>12, <2>2, <2>3 DEF ChangeDevices
<1>13. ASSUME NEW p \in Procs, PersistDevices(p) PROVE TypeOK' /\ HasIdentity'
  <2>1. /\ devFile' \in {Torn} \cup SUBSET Devices /\ owed' \in SUBSET Devices
        /\ failures' \in Nat /\ at[p] = "persist" /\ Goto(p, "run")
    BY <1>13 DEF PersistDevices, Fail, TypeOK
  <2>2. QED
    BY <1>6, <1>13, <2>1 DEF PersistDevices, TypeOK, HasIdentity, Places, Loaded
<1>14. ASSUME NEW p \in Procs, Stop(p) PROVE TypeOK' /\ HasIdentity'
  BY <1>5, <1>14 DEF Stop, TypeOK
<1>15. CASE UNCHANGED vars
  BY <1>15 DEF vars, TypeOK, HasIdentity
<1>16. QED
  BY <1>3, <1>4, <1>7, <1>8, <1>9, <1>10, <1>11, <1>12, <1>13, <1>14, <1>15 DEF Next

(* The files, the processes and the open commands have their types.        *)
THEOREM TypeCorrect == Spec => []TypeOK
BY TypeInit, TypeStep, PTL DEF Spec

-----------------------------------------------------------------------------
(* Steps that neither read nor write agent.json, nor start to serve: the   *)
(* processes stay where they are as far as identities go, or end, or one   *)
(* begins.                                                                 *)
Stays(q) ==
    at'[q] \in Writing \cup Loaded =>
        /\ ident'[q] = ident[q]
        /\ at'[q] \in Writing => at[q] \in Writing
        /\ at'[q] \in Loaded => at[q] \in Loaded
NoneBegins == twins' = twins /\ \A q \in Procs : at'[q] # "off" => at[q] # "off"
OneBegins ==
    ~twins' => /\ ~twins /\ \A q \in Procs : at[q] = "off"
               /\ \E p \in Procs : \A q \in Procs : at'[q] # "off" => q = p
Quiet ==
    /\ UNCHANGED <<agentFile, born, used>>
    /\ \A q \in Procs : Stays(q)
    /\ NoneBegins \/ OneBegins

LEMMA QuietSteps ==
    ASSUME TypeOK, HasIdentity, [Next]_vars,
           ~ \E p \in Procs : ReadIdentity(p) \/ OpenIdentity(p) \/ FillIdentity(p) \/ LoadDevices(p)
    PROVE  Quiet
<1> USE DEF process, history
<1>1. ASSUME NEW asUnit \in BOOLEAN, Spawn(asUnit) PROVE Quiet
  <2>1. PICK p \in Procs : /\ at[p] = "off" /\ at'[p] = "load"
                           /\ \A q \in Procs : q # p => at'[q] = at[q]
                           /\ ~twins' => ~twins /\ \A q \in Procs : at[q] = "off"
    BY <1>1, SpawnType
  <2>2. \A q \in Procs : Stays(q)
    BY <1>1, <2>1 DEF Spawn, Stays, Writing, Loaded
  <2>3. OneBegins
    BY <2>1 DEF OneBegins
  <2>4. QED
    BY <1>1, <2>2, <2>3 DEF Spawn, Quiet
<1>2. ASSUME UNCHANGED <<agentFile, at, ident, born, used, twins>> PROVE Quiet
  BY <1>2 DEF Quiet, Stays, NoneBegins
<1>3. CASE LogOn
  BY <1>1, <1>3 DEF LogOn
<1>4. CASE \E o \in Openers : OpenerStep(o)
  BY <1>1, <1>2, <1>4 DEF OpenerStep, Probe, StartAgent, Poll
<1>5. CASE \E p \in Procs : Listen(p)
  BY <1>2, <1>5 DEF Listen
<1>6. ASSUME NEW p \in Procs, ChangeDevices(p) \/ PersistDevices(p) PROVE Quiet
  <2>1. /\ at[p] \in {"run", "persist"} /\ UNCHANGED <<agentFile, ident, born, used, twins>>
        /\ at' = at \/ Goto(p, "persist") \/ Goto(p, "run")
    BY <1>6 DEF ChangeDevices, PersistDevices
  <2>2. \A q \in Procs : at'[q] = at[q] \/ (q = p /\ at'[q] \in {"run", "persist"})
    BY <2>1 DEF Goto, TypeOK
  <2>3. QED
    BY <2>1, <2>2 DEF Quiet, Stays, NoneBegins, Writing, Loaded
<1>7. ASSUME NEW p \in Procs, Stop(p) PROVE Quiet
  BY <1>7, ExitType DEF Stop, Quiet, Stays, NoneBegins, Writing, Loaded
<1>8. CASE UNCHANGED vars
  BY <1>2, <1>8 DEF vars
<1>9. QED
  BY <1>3, <1>4, <1>5, <1>6, <1>7, <1>8 DEF Next

(* And those that do, seen from agent.json.                                *)
LEMMA EndsReading ==
    ASSUME TypeOK, HasIdentity, NEW p \in Procs, Exit(p),
           UNCHANGED <<agentFile, born, used, twins>>
    PROVE  Quiet
BY ExitType DEF Quiet, Stays, NoneBegins, Writing, Loaded

LEMMA MovesOn ==
    ASSUME TypeOK, NEW p \in Procs, NEW place \in Places \ {"off"}, Goto(p, place),
           at[p] # "off"
    PROVE  /\ at'[p] = place /\ \A q \in Procs : q # p => at'[q] = at[q]
           /\ \A q \in Procs : at'[q] # "off" => at[q] # "off"
BY DEF TypeOK, Goto, Places

LEMMA ReadsIdentity ==
    ASSUME TypeOK, HasIdentity, NEW p \in Procs, ReadIdentity(p)
    PROVE  \/ Quiet
           \/ /\ UNCHANGED <<agentFile, born, used, twins>> /\ at[p] = "load"
              /\ \A q \in Procs : q # p => at'[q] = at[q] /\ ident'[q] = ident[q]
              /\ \/ at'[p] = "create" /\ agentFile \in {Absent, PreKey} /\ ident'[p] = Draft
                 \/ at'[p] = "devices" /\ agentFile \in Identity /\ ident'[p] = agentFile
<1> USE DEF history
<1>1. CASE Exit(p)
  BY <1>1, EndsReading DEF ReadIdentity
<1>2. CASE ~Exit(p)
  <2>1. /\ at[p] = "load" /\ UNCHANGED <<agentFile, born, used, twins>>
        /\ \/ /\ Goto(p, "create") /\ agentFile \in {Absent, PreKey}
              /\ ident' = [ident EXCEPT ![p] = Draft]
           \/ /\ Goto(p, "devices") /\ agentFile \in Identity
              /\ ident' = [ident EXCEPT ![p] = agentFile]
    BY <1>2 DEF ReadIdentity, TypeOK
  <2>2. QED
    BY <2>1, MovesOn DEF Places, TypeOK
<1>3. QED
  BY <1>1, <1>2

LEMMA WritesIdentity ==
    ASSUME TypeOK, HasIdentity, NEW p \in Procs, OpenIdentity(p) \/ FillIdentity(p)
    PROVE  /\ UNCHANGED <<born, used, twins>> /\ at[p] \in Writing
           /\ \A q \in Procs : at'[q] # "off" =>
                 ident'[q] = ident[q] /\ at[q] # "off" /\ (q # p => at'[q] = at[q])
           /\ \/ at'[p] \in Writing /\ agentFile' = Torn
              \/ at'[p] = "devices" /\ agentFile' = ident[p]
              \/ at'[p] = "off" /\ agentFile' \in {agentFile, Torn}
<1> USE DEF history
<1>1. at[p] \in Writing /\ at[p] # "off" /\ UNCHANGED <<born, used, twins>>
  BY DEF OpenIdentity, FillIdentity, Writing
<1>2. CASE Exit(p) /\ agentFile' \in {agentFile, Torn}
  <2>1. at'[p] = "off"
    BY <1>2 DEF Exit, Goto, TypeOK
  <2>2. QED
    BY <1>1, <1>2, <2>1, ExitType
<1>3. CASE \E place \in {"fill", "devices"} : Goto(p, place) /\ ident' = ident
              /\ agentFile' = IF place = "fill" THEN Torn ELSE ident[p]
  BY <1>1, <1>3, MovesOn DEF Places, Writing
<1>4. QED
  BY <1>2, <1>3 DEF OpenIdentity, FillIdentity, GiveUp

LEMMA StartsServing ==
    ASSUME TypeOK, HasIdentity, NEW p \in Procs, LoadDevices(p)
    PROVE  \/ Quiet
           \/ /\ UNCHANGED <<agentFile, born, ident, twins>>
              /\ at[p] = "devices" /\ at'[p] = "run" /\ used' = used \cup {ident[p]}
              /\ \A q \in Procs : q # p => at'[q] = at[q]
<1> USE DEF history
<1>1. CASE Exit(p) /\ UNCHANGED used
  BY <1>1, EndsReading DEF LoadDevices
<1>2. CASE Goto(p, "run") /\ used' = used \cup {ident[p]} /\ ident' = ident
  BY <1>2, MovesOn DEF LoadDevices, Places
<1>3. QED
  BY <1>1, <1>2 DEF LoadDevices

-----------------------------------------------------------------------------
LEMMA IdInit == Init => IdInv
BY FilesDiffer DEF Init, IdInv, Writing, Loaded, OldIds, PreKey, Complete

LEMMA IdStep == TypeOK /\ HasIdentity /\ IdInv /\ [Next]_vars => IdInv'
<1> SUFFICES ASSUME TypeOK, HasIdentity, IdInv, [Next]_vars, born' # Absent
             PROVE  /\ born' = Complete => agentFile' = Complete /\ \A p \in Procs : at'[p] \notin Writing
                    /\ agentFile' \in {PreKey, Torn} \cup OldIds
                    /\ \A p \in Procs : at'[p] \in Writing \cup Loaded => ident'[p] \in KeptIds'
                    /\ used' \subseteq KeptIds'
    BY DEF IdInv, OldIds
<1> HasIdentity'
  BY TypeStep
<1>1. CASE Quiet
  BY <1>1 DEF Quiet, Stays, IdInv, KeptIds
<1>2. ASSUME NEW p \in Procs, ReadIdentity(p), ~Quiet
      PROVE  /\ UNCHANGED <<agentFile, born, used>> /\ ident'[p] \in KeptIds
             /\ \A q \in Procs : q # p => at'[q] = at[q] /\ ident'[q] = ident[q]
             /\ at'[p] \in Writing => born # Complete
  <2>1. CASE at'[p] = "create" /\ agentFile \in {Absent, PreKey} /\ ident'[p] = Draft
    <3>1. agentFile = PreKey /\ born # Complete
      BY <1>2, <2>1, ReadsIdentity, FilesDiffer DEF IdInv, OldIds
    <3>2. Draft.id = Old
      BY <3>1, FilesDiffer DEF Draft, PreKey
    <3>3. Draft \in Identity
      BY <2>1 DEF HasIdentity, Writing
    <3>4. QED
      BY <1>2, <2>1, <3>1, <3>2, <3>3, ReadsIdentity DEF KeptIds, OldIds
  <2>2. CASE at'[p] = "devices" /\ agentFile \in Identity /\ ident'[p] = agentFile
    BY <1>2, <2>2, ReadsIdentity, FilesDiffer DEF IdInv, KeptIds, OldIds, Writing
  <2>3. QED
    BY <1>2, <2>1, <2>2, ReadsIdentity
<1>3. CASE \E p \in Procs : ReadIdentity(p)
  BY <1>1, <1>2, <1>3 DEF IdInv, KeptIds
<1>4. ASSUME NEW p \in Procs, OpenIdentity(p) \/ FillIdentity(p)
      PROVE  /\ UNCHANGED <<born, used>> /\ born # Complete
             /\ agentFile' \in {PreKey, Torn} \cup OldIds
             /\ \A q \in Procs : at'[q] \in Writing \cup Loaded => ident'[q] \in KeptIds
  <2>1. born # Complete /\ ident[p] \in KeptIds /\ born' = born
    BY <1>4, WritesIdentity DEF IdInv
  <2>2. agentFile' \in {PreKey, Torn} \cup OldIds
    BY <1>4, <2>1, WritesIdentity DEF IdInv, KeptIds
  <2>3. ASSUME NEW q \in Procs, at'[q] \in Writing \cup Loaded PROVE ident'[q] \in KeptIds
    <3>1. at'[q] # "off"
      BY <2>3 DEF Writing, Loaded
    <3>2. ident'[q] = ident[q] /\ (q # p => at'[q] = at[q])
      BY <1>4, <3>1, WritesIdentity
    <3>3. QED
      BY <2>1, <2>3, <3>2 DEF IdInv
  <2>4. QED
    BY <1>4, <2>1, <2>2, <2>3, WritesIdentity
<1>5. CASE \E p \in Procs : OpenIdentity(p) \/ FillIdentity(p)
  BY <1>4, <1>5 DEF IdInv, KeptIds
<1>6. ASSUME NEW p \in Procs, LoadDevices(p), ~Quiet
      PROVE  /\ UNCHANGED <<agentFile, born, ident>> /\ ident[p] \in KeptIds
             /\ \A q \in Procs : q # p => at'[q] = at[q]
             /\ at'[p] = "run" /\ used' = used \cup {ident[p]}
  BY <1>6, StartsServing DEF IdInv, Loaded
<1>7. CASE \E p \in Procs : LoadDevices(p)
  BY <1>1, <1>6, <1>7 DEF IdInv, KeptIds, Writing
<1>8. QED
  BY <1>1, <1>3, <1>5, <1>7, QuietSteps

(* An agent.json that is there is never lost to a new id, nor its key to a *)
(* new key, in whatever way starts race, fail and die (identity.Load).     *)
THEOREM IdIsKept == Spec => []IdKept
<1>1. TypeOK /\ IdInv => IdKept
  BY DEF IdInv, IdKept, KeptIds, OldIds
<1>2. QED
  BY <1>1, TypeInit, TypeStep, IdInit, IdStep, PTL DEF Spec

-----------------------------------------------------------------------------
LEMMA OneInit == Init => OneInv
BY DEF Init, OneInv, OneAgent, Loaded

LEMMA OneStep == TypeOK /\ HasIdentity /\ OneInv /\ [Next]_vars => OneInv'
<1> SUFFICES ASSUME TypeOK, HasIdentity, OneInv, [Next]_vars, ~twins'
             PROVE  /\ OneAgent'
                    /\ \A p \in Procs : at'[p] \in Loaded => ident'[p] = agentFile'
                    /\ \A i \in used' : agentFile' = i /\ \A p \in Procs : at'[p] \notin Writing
    BY DEF OneInv
<1>1. CASE Quiet /\ NoneBegins
  <2>1. OneAgent'
    BY <1>1 DEF NoneBegins, OneInv, OneAgent
  <2>2. QED
    BY <1>1, <2>1 DEF Quiet, Stays, NoneBegins, OneInv, Writing, Loaded
<1>2. CASE Quiet /\ OneBegins
  <2>1. OneAgent'
    BY <1>2 DEF OneBegins, OneAgent
  <2>2. QED
    BY <1>2, <2>1 DEF Quiet, Stays, OneBegins, OneInv, Writing, Loaded
<1>3. ASSUME NEW p \in Procs, at[p] # "off", twins' = twins,
             \A q \in Procs : at'[q] # "off" => at[q] # "off"
      PROVE  ~twins /\ OneAgent' /\ \A q \in Procs : at[q] # "off" \/ at'[q] # "off" => q = p
  BY <1>3 DEF OneInv, OneAgent
<1>4. ASSUME NEW p \in Procs, ReadIdentity(p), ~Quiet
      PROVE  /\ OneAgent'
             /\ \A q \in Procs : at'[q] \in Loaded => ident'[q] = agentFile'
             /\ \A i \in used' : agentFile' = i /\ \A q \in Procs : at'[q] \notin Writing
  <2>1. /\ UNCHANGED <<agentFile, used, twins>> /\ at[p] = "load"
        /\ \A q \in Procs : q # p => at'[q] = at[q]
        /\ \/ at'[p] = "create" /\ agentFile \in {Absent, PreKey}
           \/ at'[p] = "devices" /\ ident'[p] = agentFile
    BY <1>4, ReadsIdentity
  <2>2. ~twins /\ OneAgent' /\ \A q \in Procs : at'[q] # "off" => q = p
    BY <1>3, <2>1
  <2>3. \A q \in Procs : at'[q] \in Loaded => ident'[q] = agentFile'
    BY <2>1, <2>2 DEF Loaded
  <2>4. ASSUME NEW i \in used' PROVE agentFile' = i /\ \A q \in Procs : at'[q] \notin Writing
    <3>1. agentFile = i /\ i \in Identity
      BY <2>1, <2>2, <2>4 DEF OneInv, TypeOK
    <3>2. at'[p] = "devices"
      BY <2>1, <3>1, FilesDiffer
    <3>3. QED
      BY <2>1, <2>2, <3>1, <3>2 DEF Writing
  <2>5. QED
    BY <2>2, <2>3, <2>4
<1>5. ASSUME NEW p \in Procs, OpenIdentity(p) \/ FillIdentity(p)
      PROVE  /\ OneAgent'
             /\ \A q \in Procs : at'[q] \in Loaded => ident'[q] = agentFile'
             /\ used' = {}
  <2>1. ~twins /\ OneAgent' /\ \A q \in Procs : at'[q] # "off" => q = p
    BY <1>3, <1>5, WritesIdentity DEF Writing
  <2>2. used' = {}
    BY <1>5, <2>1, WritesIdentity DEF OneInv
  <2>3. at'[p] \in Loaded => ident'[p] = agentFile'
    BY <1>5, WritesIdentity DEF Writing, Loaded
  <2>4. QED
    BY <2>1, <2>2, <2>3 DEF Loaded
<1>6. ASSUME NEW p \in Procs, LoadDevices(p), ~Quiet
      PROVE  /\ OneAgent'
             /\ \A q \in Procs : at'[q] \in Loaded => ident'[q] = agentFile'
             /\ \A i \in used' : agentFile' = i /\ \A q \in Procs : at'[q] \notin Writing
  <2>1. /\ UNCHANGED <<agentFile, ident, twins>> /\ at[p] = "devices" /\ at'[p] = "run"
        /\ used' = used \cup {ident[p]} /\ \A q \in Procs : q # p => at'[q] = at[q]
    BY <1>6, StartsServing
  <2>2. ~twins /\ OneAgent' /\ \A q \in Procs : at'[q] # "off" => q = p
    BY <1>3, <2>1
  <2>3. ident[p] = agentFile
    BY <2>1, <2>2 DEF OneInv, Loaded
  <2>4. QED
    BY <2>1, <2>2, <2>3 DEF OneInv, Loaded, Writing
<1>7. QED
  BY <1>1, <1>2, <1>4, <1>5, <1>6, QuietSteps DEF Quiet

(* As long as no two agents of a user run at once, what one of them has    *)
(* introduced itself as, all of them do.                                   *)
THEOREM IdentityIsStable == Spec => []OneIdentity
<1>1. OneInv => OneIdentity
  BY DEF OneInv, OneIdentity
<1>2. QED
  BY <1>1, TypeInit, TypeStep, OneInit, OneStep, PTL DEF Spec

-----------------------------------------------------------------------------
(* Steps that leave the devices and their file alone.                      *)
Serves(q) == at[q] \in {"run", "persist"}
Unpaired ==
    /\ UNCHANGED <<devFile, owed>>
    /\ ~twins' => ~twins /\ \A q \in Procs : Serves(q)' => Serves(q) /\ mem'[q] = mem[q]

LEMMA UnpairedKeeps == DevicesKept /\ Unpaired => DevicesKept'
BY DEF DevicesKept, Unpaired, Serves

LEMMA UnpairedSteps ==
    ASSUME TypeOK, HasIdentity, [Next]_vars,
           ~ \E p \in Procs : LoadDevices(p) \/ ChangeDevices(p) \/ PersistDevices(p)
    PROVE  Unpaired
<1> USE DEF process, history
<1>1. ASSUME NEW asUnit \in BOOLEAN, Spawn(asUnit) PROVE Unpaired
  <2>1. PICK p \in Procs : /\ at'[p] = "load" /\ \A q \in Procs : q # p => at'[q] = at[q]
                           /\ ~twins' => ~twins
    BY <1>1, SpawnType
  <2>2. QED
    BY <1>1, <2>1 DEF Spawn, Unpaired, Serves
<1>2. ASSUME UNCHANGED <<devFile, at, mem, twins, owed>> PROVE Unpaired
  BY <1>2 DEF Unpaired, Serves
<1>3. CASE LogOn \/ \E o \in Openers : OpenerStep(o)
  BY <1>1, <1>2, <1>3 DEF LogOn, OpenerStep, Probe, StartAgent, Poll
<1>4. ASSUME NEW p \in Procs, Exit(p), UNCHANGED <<devFile, owed, twins>> PROVE Unpaired
  BY <1>4, ExitType DEF Unpaired, Serves
<1>5. ASSUME NEW p \in Procs, NEW place \in {"create", "fill", "devices"}, Goto(p, place),
             UNCHANGED <<devFile, mem, twins, owed>>
      PROVE  Unpaired
  BY <1>5 DEF TypeOK, Goto, Unpaired, Serves
<1>6. ASSUME NEW p \in Procs, ReadIdentity(p) PROVE Unpaired
  BY <1>4, <1>5, <1>6 DEF ReadIdentity
<1>7. ASSUME NEW p \in Procs, OpenIdentity(p) \/ FillIdentity(p) PROVE Unpaired
  BY <1>4, <1>5, <1>7 DEF OpenIdentity, FillIdentity, GiveUp
<1>8. ASSUME NEW p \in Procs, Stop(p) PROVE Unpaired
  BY <1>4, <1>8 DEF Stop
<1>9. CASE UNCHANGED vars \/ \E p \in Procs : Listen(p)
  BY <1>2, <1>9 DEF vars, Listen
<1>10. QED
  BY <1>3, <1>6, <1>7, <1>8, <1>9 DEF Next

LEMMA DevicesStep ==
    TypeOK /\ HasIdentity /\ OneInv /\ DevicesKept /\ [Next]_vars => DevicesKept'
<1> SUFFICES ASSUME TypeOK, HasIdentity, OneInv, DevicesKept, [Next]_vars
             PROVE  DevicesKept'
    OBVIOUS
<1> USE DEF history
<1>1. ASSUME NEW p \in Procs, at[p] # "off", twins' = twins, ~twins',
             \A q \in Procs : q # p => at'[q] = at[q]
      PROVE  /\ ~twins /\ OneAgent
             /\ \A q \in Procs : Serves(q)' => q = p
  BY <1>1 DEF OneInv, OneAgent, Serves
<1>2. ASSUME NEW p \in Procs, LoadDevices(p), ~twins' PROVE DevicesKept'
  <2>1. CASE Exit(p)
    BY <1>2, <2>1, ExitType, UnpairedKeeps DEF LoadDevices, Unpaired, Serves
  <2>2. CASE ~Exit(p)
    <3>1. /\ Goto(p, "run") /\ devFile # Torn /\ mem'[p] = devFile /\ at[p] = "devices"
          /\ UNCHANGED <<devFile, owed, twins>>
      BY <1>2, <2>2 DEF LoadDevices, Loadable, TypeOK
    <3>2. ~twins /\ \A q \in Procs : Serves(q)' => q = p
      BY <1>1, <1>2, <3>1, MovesOn DEF Places
    <3>3. QED
      BY <3>1, <3>2 DEF DevicesKept, Serves
  <2>3. QED
    BY <2>1, <2>2
<1>3. ASSUME NEW p \in Procs, ChangeDevices(p), ~twins' PROVE DevicesKept'
  <2>1. /\ at[p] = "run" /\ twins' = twins
        /\ devFile' = Torn \/ devFile' = devFile
        /\ at' = at \/ Goto(p, "persist")
    BY <1>3 DEF ChangeDevices
  <2>2. ~twins /\ \A q \in Procs : Serves(q)' => q = p
    BY <1>1, <1>3, <2>1, MovesOn DEF Places
  <2>3. owed \subseteq mem[p]
    BY <2>1, <2>2 DEF DevicesKept
  <2>4. owed' \subseteq owed /\ owed' \subseteq mem'[p]
    BY <1>3, <2>3 DEF ChangeDevices, TypeOK
  <2>5. QED
    BY <2>1, <2>2, <2>4 DEF DevicesKept, Serves
<1>4. ASSUME NEW p \in Procs, PersistDevices(p), ~twins' PROVE DevicesKept'
  <2>1. at[p] = "persist" /\ twins' = twins /\ mem' = mem /\ Goto(p, "run")
    BY <1>4 DEF PersistDevices
  <2>2. ~twins /\ \A q \in Procs : Serves(q)' => q = p
    BY <1>1, <1>4, <2>1, MovesOn DEF Places
  <2>3. owed \subseteq mem[p] /\ (devFile # Torn => owed \subseteq devFile)
    BY <2>1, <2>2 DEF DevicesKept
  <2>4. owed' \subseteq mem[p] /\ (devFile' # Torn => owed' \subseteq devFile')
    BY <1>4, <2>3 DEF PersistDevices
  <2>5. QED
    BY <2>1, <2>2, <2>4 DEF DevicesKept, Serves
<1>5. CASE twins'
  BY <1>5 DEF DevicesKept
<1>6. QED
  BY <1>2, <1>3, <1>4, <1>5, UnpairedSteps, UnpairedKeeps

(* As long as no two agents run at once, a pairing that was stored is in   *)
(* devices.json, unless that is torn, and known to every agent that runs.  *)
THEOREM DevicesAreKept == Spec => []DevicesKept
<1>1. Init => DevicesKept
  BY DEF Init, DevicesKept
<1>2. QED
  BY <1>1, TypeInit, TypeStep, OneInit, OneStep, DevicesStep, PTL DEF Spec
=============================================================================
