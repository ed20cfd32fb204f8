--------------------------- MODULE WtsWatchProofs ---------------------------
(***************************************************************************)
(* Watch on Windows, proved for any number of calls, events and failures   *)
(* and any capacity of the channel.                                        *)
(*                                                                         *)
(*   CallInv: one call at most is running, and what its loop may be doing  *)
(*   when the call is where it is.                                         *)
(*   OwnerInv: one loop at most gets a window, since the class can be      *)
(*   registered once; so no other loop puts events in the channel that the *)
(*   call with the window reads.                                           *)
(*   TruthInv: from a call's first reading on, as long as its loop has the *)
(*   window or can still get it, the truth is under way unless missed.     *)
(*   NothingStays needs the first two and is carried along.                *)
(*   FeedInv, on top of these, for the refinement of SessionFeed: the      *)
(*   channel is empty when a window is registered, and a window is not     *)
(*   closed under the call it serves.                                      *)
(***************************************************************************)
EXTENDS WtsWatch, SequenceTheorems, TLAPS

Owner(i) == loop[i] \in {"register", "pump"} \/ registered[i]

CallInv ==
    /\ \A i, j \in Calls : Running(i) /\ Running(j) => i = j
    /\ \A i \in Calls :
          /\ call[i] \in {"idle", "busy", "read", "spawn"} => loop[i] = "off"
          /\ call[i] \in {"serve", "cancelled"} => loop[i] \in {"pump", "ended"}
          /\ call[i] = "failed" => loop[i] \in {"off", "ended"}
          /\ loopErr[i] # "none" => loop[i] = "ended"

OwnerInv ==
    /\ \A i, j \in Calls : Owner(i) /\ Owner(j) => i = j
    /\ \A i \in Calls :
          /\ Owner(i) => classExists
          /\ registered[i] => loop[i] \in {"pump", "ended"}
          /\ loop[i] = "pump" => registered[i]
          /\ ~registered[i] => queue[i] = <<>>

MayOwn(i) == Owner(i) \/ (loop[i] = "create" /\ ~classExists)

TruthInv ==
    \A i \in Calls :
        /\ registered[i] => \A k \in LastWaiting(i) : queue[i][k] = state
        /\ call[i] = "spawn" /\ ~missed[i] => last[i] = state
        /\ call[i] \in {"await", "serve"} /\ ~missed[i] /\ MayOwn(i)
              => (Waiting(i) = {} => Newest(i) = state)

WatchInv == CallInv /\ OwnerInv /\ TruthInv /\ NothingStays

-----------------------------------------------------------------------------
(* A message is posted to a window that waits for messages.                *)
LEMMA Posted ==
    ASSUME NEW m \in Messages, NEW q \in Seq(Messages)
    PROVE  /\ Append(q, m) \in Seq(Messages) /\ Len(q) \in Nat /\ Len(Append(q, m)) = Len(q) + 1
           /\ Append(q, m)[Len(q) + 1] = m
           /\ \A k \in 1 .. Len(q) : Append(q, m)[k] = q[k]
BY AppendProperties, LenProperties

LEMMA Taken ==
    ASSUME NEW S, NEW q \in Seq(S), q # <<>>
    PROVE  /\ Tail(q) \in Seq(S) /\ Head(q) \in S /\ Head(q) = q[1]
           /\ Len(q) \in Nat \ {0} /\ Len(Tail(q)) = Len(q) - 1
           /\ \A k \in 1 .. Len(Tail(q)) : Tail(q)[k] = q[k + 1]
BY HeadTailProperties, LenProperties, EmptySeq

(* Which of the messages in a queue are lock events.                       *)
Locks(q) == {k \in 1 .. Len(q) : q[k] \in States}
LastLock(q) == {k \in Locks(q) : \A l \in Locks(q) : l <= k}

LEMMA PostedLock ==
    ASSUME NEW q \in Seq(Messages), NEW m \in States
    PROVE  LastLock(Append(q, m)) = {Len(q) + 1}
<1>1. m \in Messages
  BY DEF Messages
<1>2. /\ Len(q) \in Nat /\ Len(Append(q, m)) = Len(q) + 1 /\ Append(q, m)[Len(q) + 1] = m
  BY <1>1, Posted
<1>3. Len(q) + 1 \in Locks(Append(q, m)) /\ \A k \in Locks(Append(q, m)) : k <= Len(q) + 1
  BY <1>2 DEF Locks
<1>4. QED
  BY <1>2, <1>3 DEF LastLock, Locks

LEMMA PostedOther ==
    ASSUME NEW q \in Seq(Messages), NEW m \in Messages \ States
    PROVE  /\ Locks(Append(q, m)) = Locks(q) /\ LastLock(Append(q, m)) = LastLock(q)
           /\ \A k \in LastLock(q) : Append(q, m)[k] = q[k]
<1>1. /\ Len(q) \in Nat /\ Len(Append(q, m)) = Len(q) + 1 /\ Append(q, m)[Len(q) + 1] = m
      /\ \A k \in 1 .. Len(q) : Append(q, m)[k] = q[k]
  BY Posted
<1>2. Locks(Append(q, m)) = Locks(q)
  BY <1>1 DEF Locks
<1>3. QED
  BY <1>1, <1>2 DEF LastLock, Locks

(* Taking the head moves the others up by one.                             *)
LEMMA TakenLocks ==
    ASSUME NEW q \in Seq(Messages), q # <<>>
    PROVE  /\ \A k \in Locks(Tail(q)) : k + 1 \in Locks(q) /\ Tail(q)[k] = q[k + 1]
           /\ \A k \in Locks(q) : k = 1 \/ k - 1 \in Locks(Tail(q))
           /\ \A k \in LastLock(Tail(q)) : k + 1 \in LastLock(q)
<1>1. /\ Len(q) \in Nat \ {0} /\ Len(Tail(q)) = Len(q) - 1
      /\ \A k \in 1 .. Len(Tail(q)) : Tail(q)[k] = q[k + 1]
  BY Taken
<1>2. \A k \in Locks(Tail(q)) : k + 1 \in Locks(q) /\ Tail(q)[k] = q[k + 1]
  BY <1>1 DEF Locks
<1>3. ASSUME NEW k \in Locks(q), k # 1 PROVE k - 1 \in Locks(Tail(q))
  <2>1. k - 1 \in 1 .. Len(Tail(q)) /\ Tail(q)[k - 1] = q[(k - 1) + 1] /\ (k - 1) + 1 = k
    BY <1>1, <1>3 DEF Locks
  <2>2. QED
    BY <1>3, <2>1 DEF Locks
<1>4. ASSUME NEW k \in LastLock(Tail(q)) PROVE k + 1 \in LastLock(q)
  <2>1. k \in Locks(Tail(q)) /\ k \in Nat /\ \A l \in Locks(Tail(q)) : l <= k
    BY <1>1 DEF LastLock, Locks
  <2>2. ASSUME NEW l \in Locks(q) PROVE l <= k + 1
    BY <1>3, <2>1, <2>2 DEF Locks
  <2>3. QED
    BY <1>2, <2>1, <2>2 DEF LastLock
<1>5. QED
  BY <1>2, <1>3, <1>4

LEMMA LocksOfQueue ==
    \A i : Waiting(i) = Locks(queue[i]) /\ LastWaiting(i) = LastLock(queue[i])
BY DEF Waiting, LastWaiting, Locks, LastLock

-----------------------------------------------------------------------------
LEMMA TypeInit == Init => TypeOK
<1> SUFFICES ASSUME Init PROVE TypeOK
    OBVIOUS
<1>1. watchEvents \in Seq(States) /\ Len(watchEvents) <= BufferSize
  BY EmptySeq, WtsAssumption DEF Init
<1>2. queue \in [Calls -> Seq(Messages)]
  BY EmptySeq DEF Init
<1>3. watchActive = (\E i \in Calls : Running(i))
  BY DEF Init, Running
<1>4. QED
  BY <1>1, <1>2, <1>3 DEF Init, TypeOK, Places, LoopPlaces

LEMMA InvInit == Init => WatchInv
<1> SUFFICES ASSUME Init PROVE WatchInv
    OBVIOUS
<1>1. \A i \in Calls : call[i] = "idle" /\ loop[i] = "off" /\ loopErr[i] = "none"
                      /\ ~registered[i] /\ queue[i] = <<>>
  BY DEF Init
<1>2. QED
  BY <1>1 DEF WatchInv, CallInv, OwnerInv, TruthInv, NothingStays, Owner, MayOwn, Running

(* Windows posts a message to every window that is registered.             *)
LEMMA PostType ==
    ASSUME TypeOK, NEW m \in Messages, Post(m)
    PROVE  /\ queue' \in [Calls -> Seq(Messages)]
           /\ \A i \in Calls : queue'[i] = IF registered[i] THEN Append(queue[i], m) ELSE queue[i]
<1>1. \A i \in Calls : queue[i] \in Seq(Messages) /\ Append(queue[i], m) \in Seq(Messages)
  BY Posted DEF TypeOK
<1>2. QED
  BY <1>1 DEF Post

LEMMA TypeWindows == TypeOK /\ (Toggle \/ OtherEvent) => TypeOK'
<1> SUFFICES ASSUME TypeOK, Toggle \/ OtherEvent PROVE TypeOK'
    OBVIOUS
<1>1. CASE Toggle
  <2>1. state' \in States /\ state' \in Messages /\ events' \in Nat
    BY <1>1 DEF Toggle, TypeOK, States, Messages
  <2>2. queue' \in [Calls -> Seq(Messages)]
    BY <1>1, <2>1, PostType DEF Toggle
  <2>3. missed' \in [Calls -> BOOLEAN]
    BY <1>1 DEF Toggle, TypeOK
  <2>4. UNCHANGED <<watchEvents, watcher, classExists, loop, registered, loopErr, errors>>
    BY <1>1 DEF Toggle
  <2>5. QED
    BY <2>1, <2>2, <2>3, <2>4 DEF TypeOK, watcher, Running
<1>2. CASE OtherEvent
  <2>1. queue' \in [Calls -> Seq(Messages)]
    BY <1>2, PostType DEF OtherEvent, Messages
  <2>2. events' \in Nat
    BY <1>2 DEF OtherEvent, TypeOK
  <2>3. QED
    BY <1>2, <2>1, <2>2 DEF OtherEvent, TypeOK, watcher, Running
<1>3. QED
  BY <1>1, <1>2

LEMMA TypeWatch ==
    ASSUME TypeOK, CallInv, NEW i \in Calls, Begin(i) \/ Cancel(i) \/ WatchStep(i)
    PROVE  TypeOK'
<1> USE DEF watcher, thread, history
<1>1. CASE Begin(i)
  <2>1. CASE watchActive
    BY <1>1, <2>1 DEF Begin, TypeOK, Places, Running
  <2>2. CASE ~watchActive
    BY <1>1, <2>2 DEF Begin, TypeOK, Places, Running
  <2>3. QED
    BY <2>1, <2>2
<1>2. ASSUME NEW why \in {"failed", "cancelled"}, Return(i, why), Running(i)
      PROVE  call' \in [Calls -> Places] /\ watchActive' = (\E j \in Calls : Running(j)')
  BY <1>2 DEF Return, TypeOK, CallInv, Running, Places
<1>3. ASSUME NEW place \in {"spawn", "await", "serve"}, Running(i),
             call' = [call EXCEPT ![i] = place], UNCHANGED watchActive
      PROVE  call' \in [Calls -> Places] /\ watchActive' = (\E j \in Calls : Running(j)')
  BY <1>3 DEF TypeOK, Running, Places
<1>4. CASE ReadState(i)
  <2>1. call' \in [Calls -> Places] /\ watchActive' = (\E j \in Calls : Running(j)')
    BY <1>2, <1>3, <1>4 DEF ReadState, Running
  <2>2. last' \in [Calls -> States \cup {"none"}] /\ missed' \in [Calls -> BOOLEAN] /\ errors' \in Nat
    <3>1. CASE /\ last' = [last EXCEPT ![i] = state] /\ missed' = [missed EXCEPT ![i] = FALSE]
               /\ UNCHANGED errors
      BY <3>1 DEF TypeOK
    <3>2. CASE Fault /\ UNCHANGED <<last, missed>>
      BY <3>2 DEF Fault, TypeOK
    <3>3. QED
      BY <1>4, <3>1, <3>2 DEF ReadState
  <2>3. QED
    BY <1>4, <2>1, <2>2 DEF ReadState, TypeOK
<1>5. CASE Spawn(i)
  <2>1. call' \in [Calls -> Places] /\ watchActive' = (\E j \in Calls : Running(j)')
    BY <1>3, <1>5 DEF Spawn, Running
  <2>2. watchEvents' \in Seq(States) /\ Len(watchEvents') <= BufferSize
    BY <1>5, EmptySeq, WtsAssumption DEF Spawn
  <2>3. loop' \in [Calls -> LoopPlaces]
    BY <1>5 DEF Spawn, TypeOK, LoopPlaces
  <2>4. QED
    BY <1>5, <2>1, <2>2, <2>3 DEF Spawn, TypeOK
<1>6. CASE Await(i) \/ TakeLoopErr(i)
  <2>1. call' \in [Calls -> Places] /\ watchActive' = (\E j \in Calls : Running(j)')
    BY <1>2, <1>3, <1>6 DEF Await, TakeLoopErr, Running
  <2>2. QED
    BY <1>6, <2>1 DEF Await, TakeLoopErr, TypeOK
<1>7. CASE TakeEvent(i)
  <2>1. /\ Head(watchEvents) \in States /\ Tail(watchEvents) \in Seq(States)
        /\ Len(Tail(watchEvents)) <= BufferSize
    BY <1>7, Taken, WtsAssumption DEF TakeEvent, TypeOK
  <2>2. QED
    BY <1>7, <2>1 DEF TakeEvent, TypeOK, Running
<1>8. CASE TakeCancel(i)
  <2>1. call' \in [Calls -> Places] /\ watchActive' = (\E j \in Calls : Running(j)')
    BY <1>2, <1>8 DEF TakeCancel, Running
  <2>2. queue' \in [Calls -> Seq(Messages)]
    <3>1. queue[i] \in Seq(Messages) /\ Append(queue[i], "close") \in Seq(Messages)
      BY Posted DEF TypeOK, Messages
    <3>2. QED
      BY <1>8, <3>1 DEF TakeCancel, TypeOK
  <2>3. QED
    BY <1>8, <2>1, <2>2 DEF TakeCancel, TypeOK
<1>9. CASE Cancel(i)
  BY <1>9 DEF Cancel, TypeOK, Running
<1>10. QED
  BY <1>1, <1>4, <1>5, <1>6, <1>7, <1>8, <1>9 DEF WatchStep

LEMMA TypeThread ==
    ASSUME TypeOK, NEW i \in Calls, ThreadStep(i) \/ PumpFails(i)
    PROVE  TypeOK'
<1> USE DEF watcher, EndLoop
<1>1. CASE CreateMessageWindow(i)
  <2>1. /\ loop' \in [Calls -> LoopPlaces] /\ loopErr' \in [Calls -> {"none", "nil", "error"}]
        /\ classExists' \in BOOLEAN /\ errors' \in Nat
    <3>1. classExists' \in BOOLEAN /\ errors' \in Nat
      <4>1. classExists' \in BOOLEAN
        BY <1>1, Zenon DEF CreateMessageWindow, TypeOK
      <4>2. errors' = errors \/ errors' = errors + 1
        BY <1>1, Zenon DEF CreateMessageWindow, Fault
      <4>3. QED
        BY <4>1, <4>2 DEF TypeOK
    <3>2. CASE EndLoop(i, "error")
      BY <3>1, <3>2 DEF TypeOK, LoopPlaces
    <3>3. CASE loop' = [loop EXCEPT ![i] = "register"] /\ UNCHANGED loopErr
      BY <3>1, <3>3 DEF TypeOK, LoopPlaces
    <3>4. QED
      BY <1>1, <3>2, <3>3 DEF CreateMessageWindow
  <2>2. QED
    BY <1>1, <2>1 DEF CreateMessageWindow, TypeOK, Running
<1>2. CASE Register(i)
  <2>1. /\ loop' \in [Calls -> LoopPlaces] /\ loopErr' \in [Calls -> {"none", "nil", "error"}]
        /\ registered' \in [Calls -> BOOLEAN] /\ errors' \in Nat
    <3>1. CASE /\ registered' = [registered EXCEPT ![i] = TRUE]
               /\ loop' = [loop EXCEPT ![i] = "pump"] /\ UNCHANGED <<loopErr, errors>>
      BY <3>1 DEF TypeOK, LoopPlaces
    <3>2. CASE Fault /\ EndLoop(i, "error") /\ UNCHANGED registered
      BY <3>2 DEF Fault, TypeOK, LoopPlaces
    <3>3. QED
      BY <1>2, <3>1, <3>2 DEF Register
  <2>2. QED
    BY <1>2, <2>1 DEF Register, TypeOK, Running
<1>3. CASE Dispatch(i)
  <2>1. Head(queue[i]) \in Messages /\ queue' \in [Calls -> Seq(Messages)]
    <3>1. queue[i] \in Seq(Messages) /\ queue[i] # <<>>
      BY <1>3 DEF Dispatch, TypeOK
    <3>2. Head(queue[i]) \in Messages /\ Tail(queue[i]) \in Seq(Messages)
      BY <3>1, Taken
    <3>3. QED
      BY <1>3, <3>2 DEF Dispatch, TypeOK
  <2>2. /\ watchEvents' \in Seq(States) /\ Len(watchEvents') <= BufferSize
        /\ missed' \in [Calls -> BOOLEAN]
    <3>1. CASE /\ Relevant(Head(queue[i])) /\ Len(watchEvents) < BufferSize
               /\ watchEvents' = Append(watchEvents, Head(queue[i]))
               /\ missed' = [missed EXCEPT ![i] = FALSE]
      BY <3>1, AppendProperties, LenProperties, WtsAssumption DEF Relevant, TypeOK
    <3>2. CASE UNCHANGED watchEvents /\ (UNCHANGED missed \/ missed' = [missed EXCEPT ![i] = TRUE])
      BY <3>2 DEF TypeOK
    <3>3. QED
      BY <1>3, <3>1, <3>2 DEF Dispatch
  <2>3. QED
    BY <1>3, <2>1, <2>2 DEF Dispatch, TypeOK, Running
<1>4. CASE CloseWindow(i)
  <2>1. queue' \in [Calls -> Seq(Messages)]
    BY <1>4, EmptySeq DEF CloseWindow, TypeOK
  <2>2. QED
    BY <1>4, <2>1 DEF CloseWindow, TypeOK, LoopPlaces, Running, history
<1>5. CASE PumpFails(i)
  BY <1>5 DEF PumpFails, Fault, TypeOK, LoopPlaces, Running
<1>6. QED
  BY <1>1, <1>2, <1>3, <1>4, <1>5 DEF ThreadStep

-----------------------------------------------------------------------------
(* One call at a time, and what its loop may be doing.                     *)
LEMMA CallWindows == TypeOK /\ CallInv /\ (Toggle \/ OtherEvent) => CallInv'
BY DEF Toggle, OtherEvent, CallInv, Running, watcher

LEMMA CallWatch ==
    ASSUME TypeOK, CallInv, OwnerInv, NEW i \in Calls, Begin(i) \/ Cancel(i) \/ WatchStep(i)
    PROVE  CallInv'
<1> USE DEF watcher, thread, history
<1>1. ASSUME Running(i), Return(i, "failed"), UNCHANGED <<loop, loopErr>>, loop[i] \in {"off", "ended"}
      PROVE  CallInv'
  BY <1>1 DEF Return, CallInv, Running, TypeOK
<1>2. CASE Begin(i)
  <2>1. CASE watchActive
    BY <1>2, <2>1 DEF Begin, CallInv, Running, TypeOK
  <2>2. CASE ~watchActive
    BY <1>2, <2>2 DEF Begin, CallInv, Running, TypeOK
  <2>3. QED
    BY <2>1, <2>2
<1>3. CASE ReadState(i)
  <2>1. CASE call' = [call EXCEPT ![i] = "spawn"]
    BY <1>3, <2>1 DEF ReadState, CallInv, Running, TypeOK
  <2>2. CASE Return(i, "failed")
    BY <1>1, <1>3, <2>2 DEF ReadState, CallInv, Running
  <2>3. QED
    BY <1>3, <2>1, <2>2 DEF ReadState
<1>4. CASE Spawn(i)
  BY <1>4 DEF Spawn, CallInv, Running, TypeOK
<1>5. CASE Await(i)
  <2>1. CASE registered[i] /\ call' = [call EXCEPT ![i] = "serve"]
    BY <1>5, <2>1 DEF Await, CallInv, OwnerInv, Running, TypeOK
  <2>2. CASE loopErr[i] # "none" /\ Return(i, "failed")
    BY <1>1, <1>5, <2>2 DEF Await, CallInv, Running
  <2>3. QED
    BY <1>5, <2>1, <2>2 DEF Await
<1>6. CASE TakeCancel(i)
  BY <1>6 DEF TakeCancel, Return, CallInv, Running, TypeOK
<1>7. CASE TakeLoopErr(i)
  BY <1>1, <1>7 DEF TakeLoopErr, CallInv, Running
<1>8. CASE TakeEvent(i) \/ Cancel(i)
  BY <1>8 DEF TakeEvent, Cancel, CallInv, Running
<1>9. QED
  BY <1>2, <1>3, <1>4, <1>5, <1>6, <1>7, <1>8 DEF WatchStep

(* What a step of a loop does to where it is.                              *)
LEMMA LoopMoves ==
    ASSUME TypeOK, NEW i \in Calls, ThreadStep(i) \/ PumpFails(i)
    PROVE  /\ loop[i] \in {"create", "register", "pump"}
           /\ UNCHANGED <<state, watcher>>
           /\ \A j \in Calls \ {i} : /\ loop'[j] = loop[j] /\ loopErr'[j] = loopErr[j]
                                     /\ registered'[j] = registered[j] /\ queue'[j] = queue[j]
           /\ \/ loop'[i] = "ended"
              \/ /\ loopErr'[i] = loopErr[i]
                 /\ \/ loop[i] = "create" /\ loop'[i] = "register"
                    \/ loop[i] = "register" /\ loop'[i] = "pump"
                    \/ loop[i] = "pump" /\ loop'[i] = "pump"
<1> USE DEF EndLoop, TypeOK
<1>1. CASE CreateMessageWindow(i)
  BY <1>1 DEF CreateMessageWindow
<1>2. CASE Register(i)
  BY <1>2 DEF Register
<1>3. CASE Dispatch(i)
  BY <1>3 DEF Dispatch
<1>4. CASE CloseWindow(i)
  BY <1>4 DEF CloseWindow
<1>5. CASE PumpFails(i)
  BY <1>5 DEF PumpFails
<1>6. QED
  BY <1>1, <1>2, <1>3, <1>4, <1>5 DEF ThreadStep

LEMMA CallThread ==
    ASSUME TypeOK, CallInv, NEW i \in Calls, ThreadStep(i) \/ PumpFails(i)
    PROVE  CallInv'
BY LoopMoves DEF CallInv, Running, watcher

-----------------------------------------------------------------------------
(* One loop at most has the window, and its queue is empty until then.     *)
LEMMA OwnerWindows ==
    ASSUME TypeOK, OwnerInv, NEW m \in Messages, Post(m), UNCHANGED <<loop, registered, classExists>>
    PROVE  OwnerInv'
BY PostType DEF OwnerInv, Owner

LEMMA OwnerWatch ==
    ASSUME TypeOK, CallInv, OwnerInv, NEW i \in Calls, Begin(i) \/ Cancel(i) \/ WatchStep(i)
    PROVE  OwnerInv'
<1> USE DEF watcher, thread
<1>1. CASE Spawn(i)
  BY <1>1 DEF Spawn, CallInv, OwnerInv, Owner, TypeOK
<1>2. CASE TakeCancel(i)
  BY <1>2 DEF TakeCancel, OwnerInv, Owner, TypeOK
<1>3. CASE UNCHANGED thread
  BY <1>3 DEF OwnerInv, Owner
<1>4. QED
  BY <1>1, <1>2, <1>3 DEF Begin, Cancel, WatchStep, ReadState, Await, TakeEvent, TakeLoopErr

LEMMA OwnerThread ==
    ASSUME TypeOK, CallInv, OwnerInv, NEW i \in Calls, ThreadStep(i) \/ PumpFails(i)
    PROVE  OwnerInv'
<1> USE DEF EndLoop
<1>1. CASE CreateMessageWindow(i)
  <2>1. CASE EndLoop(i, "error") /\ classExists' \in {classExists, TRUE}
    BY <1>1, <2>1 DEF CreateMessageWindow, OwnerInv, Owner, TypeOK
  <2>2. CASE ~classExists /\ classExists' = TRUE /\ loop' = [loop EXCEPT ![i] = "register"]
    BY <1>1, <2>2 DEF CreateMessageWindow, OwnerInv, Owner, TypeOK
  <2>3. QED
    BY <1>1, <2>1, <2>2 DEF CreateMessageWindow
<1>2. CASE Register(i)
  BY <1>2 DEF Register, OwnerInv, Owner, TypeOK
<1>3. CASE Dispatch(i)
  BY <1>3 DEF Dispatch, OwnerInv, Owner, TypeOK
<1>4. CASE CloseWindow(i)
  BY <1>4 DEF CloseWindow, OwnerInv, Owner, TypeOK
<1>5. CASE PumpFails(i)
  BY <1>5 DEF PumpFails, OwnerInv, Owner, TypeOK
<1>6. QED
  BY <1>1, <1>2, <1>3, <1>4, <1>5 DEF ThreadStep

-----------------------------------------------------------------------------
(* A Watch that has returned has left no loop that will not end.           *)
Closing(i) == loop[i] = "pump" /\ \E k \in 1 .. Len(queue[i]) : queue[i][k] = "close"

LEMMA StaysWindows ==
    ASSUME TypeOK, NothingStays, NEW m \in Messages, Post(m), UNCHANGED <<loop, call>>
    PROVE  NothingStays'
<1>1. ASSUME NEW i \in Calls, Closing(i) PROVE Closing(i)'
  <2>1. queue[i] \in Seq(Messages)
    BY DEF TypeOK
  <2>2. PICK k \in 1 .. Len(queue[i]) : queue[i][k] = "close"
    BY <1>1 DEF Closing
  <2>3. k \in 1 .. Len(queue'[i]) /\ queue'[i][k] = "close"
    <3>1. queue'[i] = queue[i] \/ queue'[i] = Append(queue[i], m)
      BY PostType
    <3>2. /\ Len(queue[i]) \in Nat /\ Len(Append(queue[i], m)) = Len(queue[i]) + 1
          /\ \A l \in 1 .. Len(queue[i]) : Append(queue[i], m)[l] = queue[i][l]
      BY <2>1, Posted
    <3>3. QED
      BY <2>2, <3>1, <3>2
  <2>4. QED
    BY <1>1, <2>3 DEF Closing
<1>2. QED
  BY <1>1 DEF NothingStays, Closing, Running

LEMMA StaysWatch ==
    ASSUME TypeOK, CallInv, NothingStays, NEW i \in Calls, Begin(i) \/ Cancel(i) \/ WatchStep(i)
    PROVE  NothingStays'
<1> USE DEF watcher, thread
<1>1. CASE TakeCancel(i)
  <2>1. ASSUME loop[i] = "pump" PROVE Closing(i)'
    <3>1. queue[i] \in Seq(Messages) /\ "close" \in Messages
      BY DEF TypeOK, Messages
    <3>2. queue'[i] = Append(queue[i], "close")
      BY <1>1, <2>1, <3>1 DEF TakeCancel, TypeOK
    <3>3. Len(queue[i]) + 1 \in 1 .. Len(queue'[i]) /\ queue'[i][Len(queue[i]) + 1] = "close"
      BY <3>1, <3>2, Posted
    <3>4. QED
      BY <1>1, <2>1, <3>3 DEF TakeCancel, Closing
  <2>2. loop[i] \in {"pump", "ended"} /\ loop' = loop
    BY <1>1 DEF TakeCancel, CallInv
  <2>3. ASSUME NEW j \in Calls \ {i} PROVE queue'[j] = queue[j] /\ call'[j] = call[j]
    BY <1>1 DEF TakeCancel, Return, TypeOK
  <2>4. QED
    BY <2>1, <2>2, <2>3 DEF NothingStays, Closing, Running
<1>2. ASSUME UNCHANGED <<loop, queue>>, call' = [call EXCEPT ![i] = "failed"],
             loop[i] \in {"off", "ended"}
      PROVE  NothingStays'
  BY <1>2 DEF NothingStays, Running, TypeOK
<1>3. CASE Begin(i)
  <2>1. call[i] = "idle" /\ loop[i] = "off" /\ UNCHANGED <<loop, queue>>
    BY <1>3 DEF Begin, CallInv
  <2>2. \A j \in Calls \ {i} : call'[j] = call[j]
    BY <1>3 DEF Begin, TypeOK
  <2>3. QED
    BY <2>1, <2>2 DEF NothingStays, Running
<1>4. CASE ReadState(i)
  <2>1. CASE call' = [call EXCEPT ![i] = "spawn"]
    BY <1>4, <2>1 DEF ReadState, NothingStays, Running, TypeOK
  <2>2. CASE Return(i, "failed")
    BY <1>2, <1>4, <2>2 DEF ReadState, CallInv, Return
  <2>3. QED
    BY <1>4, <2>1, <2>2 DEF ReadState
<1>5. CASE Spawn(i)
  BY <1>5 DEF Spawn, NothingStays, Running, TypeOK
<1>6. CASE Await(i)
  <2>1. CASE call' = [call EXCEPT ![i] = "serve"]
    BY <1>6, <2>1 DEF Await, NothingStays, Running, TypeOK
  <2>2. CASE loopErr[i] # "none" /\ Return(i, "failed")
    BY <1>2, <1>6, <2>2 DEF Await, CallInv, Return
  <2>3. QED
    BY <1>6, <2>1, <2>2 DEF Await
<1>7. CASE TakeLoopErr(i)
  BY <1>2, <1>7 DEF TakeLoopErr, CallInv, Return
<1>8. CASE TakeEvent(i) \/ Cancel(i)
  BY <1>8 DEF TakeEvent, Cancel, NothingStays, Running
<1>9. QED
  BY <1>1, <1>3, <1>4, <1>5, <1>6, <1>7, <1>8 DEF WatchStep

LEMMA StaysThread ==
    ASSUME TypeOK, CallInv, NothingStays, NEW i \in Calls, ThreadStep(i) \/ PumpFails(i)
    PROVE  NothingStays'
<1>1. UNCHANGED watcher /\ loop[i] \notin {"off", "ended"}
      /\ \A j \in Calls \ {i} : loop'[j] = loop[j] /\ queue'[j] = queue[j]
  BY LoopMoves
<1>2. ASSUME ~Running(i) PROVE loop'[i] = "ended" \/ Closing(i)'
  <2>1. Closing(i)
    BY <1>1, <1>2 DEF NothingStays, Closing
  <2>2. CASE Dispatch(i)
    <3>1. queue[i] \in Seq(Messages) /\ queue[i] # <<>> /\ Head(queue[i]) # "close"
          /\ queue'[i] = Tail(queue[i])
      BY <2>2 DEF Dispatch, TypeOK
    <3>2. PICK k \in 1 .. Len(queue[i]) : queue[i][k] = "close"
      BY <2>1 DEF Closing
    <3>3. k - 1 \in 1 .. Len(queue'[i]) /\ queue'[i][k - 1] = queue[i][k]
      BY <3>1, <3>2, Taken
    <3>4. QED
      BY <2>2, <3>2, <3>3 DEF Dispatch, Closing
  <2>3. CASE ~Dispatch(i)
    BY <2>1, <2>3 DEF Closing, ThreadStep, CreateMessageWindow, Register, CloseWindow,
          PumpFails, EndLoop, TypeOK
  <2>4. QED
    BY <2>2, <2>3
<1>3. QED
  BY <1>1, <1>2 DEF NothingStays, Closing, Running, watcher
-----------------------------------------------------------------------------
(* The truth is under way.  Said of queues: the last lock event of each    *)
(* window is the state.                                                    *)
LEMMA TruthOfQueues ==
    TruthInv <=>
        \A i \in Calls :
            /\ registered[i] => \A k \in LastLock(queue[i]) : queue[i][k] = state
            /\ call[i] = "spawn" /\ ~missed[i] => last[i] = state
            /\ call[i] \in {"await", "serve"} /\ ~missed[i] /\ MayOwn(i)
                  => (Locks(queue[i]) = {} => Newest(i) = state)
BY LocksOfQueue DEF TruthInv

LEMMA TruthOfQueuesNext ==
    (\A i \in Calls :
        /\ registered'[i] => \A k \in LastLock(queue'[i]) : queue'[i][k] = state'
        /\ call'[i] = "spawn" /\ ~missed'[i] => last'[i] = state'
        /\ call'[i] \in {"await", "serve"} /\ ~missed'[i] /\ MayOwn(i)'
              => (Locks(queue'[i]) = {} => Newest(i)' = state'))
    => TruthInv'
BY DEF TruthInv, Waiting, LastWaiting, Locks, LastLock

LEMMA TruthToggle ==
    ASSUME TypeOK, CallInv, OwnerInv, TruthInv, Toggle
    PROVE  TruthInv'
<1>1. state' \in States /\ state' \in Messages
  BY DEF Toggle, States, Messages
<1>2. ASSUME NEW i \in Calls, registered[i]
      PROVE  /\ \A k \in LastLock(queue'[i]) : queue'[i][k] = state'
             /\ Locks(queue'[i]) # {}
  <2>1. queue[i] \in Seq(Messages)
    BY DEF TypeOK
  <2>2. queue'[i] = Append(queue[i], state')
    BY <1>1, <1>2, PostType DEF Toggle
  <2>3. LastLock(queue'[i]) = {Len(queue[i]) + 1} /\ queue'[i][Len(queue[i]) + 1] = state'
    BY <1>1, <2>1, <2>2, PostedLock, Posted
  <2>4. QED
    BY <2>3 DEF LastLock
<1>3. ASSUME NEW i \in Calls, ~registered[i] PROVE missed'[i]
  BY <1>3 DEF Toggle, TypeOK
<1>4. UNCHANGED <<call, registered>>
  BY DEF Toggle, watcher
<1>5. ASSUME NEW i \in Calls, call[i] = "spawn" PROVE ~registered[i]
  BY <1>5 DEF CallInv, OwnerInv
<1>6. QED
  BY <1>2, <1>3, <1>4, <1>5, TruthOfQueuesNext

LEMMA TruthOther ==
    ASSUME TypeOK, TruthInv, OtherEvent
    PROVE  TruthInv'
<1>1. "other" \in Messages \ States
  BY DEF Messages, States
<1>2. ASSUME NEW i \in Calls
      PROVE  /\ Locks(queue'[i]) = Locks(queue[i]) /\ LastLock(queue'[i]) = LastLock(queue[i])
             /\ \A k \in LastLock(queue[i]) : queue'[i][k] = queue[i][k]
  <2>1. queue[i] \in Seq(Messages)
    BY DEF TypeOK
  <2>2. CASE registered[i]
    <3>1. queue'[i] = Append(queue[i], "other")
      BY <1>1, <2>2, PostType DEF OtherEvent
    <3>2. QED
      BY <1>1, <2>1, <3>1, PostedOther
  <2>3. CASE ~registered[i]
    BY <1>1, <2>3, PostType DEF OtherEvent
  <2>4. QED
    BY <2>2, <2>3
<1>3. UNCHANGED <<state, watchEvents, watcher, classExists, loop, registered, missed>>
  BY DEF OtherEvent
<1>4. \A i \in Calls : Newest(i)' = Newest(i) /\ MayOwn(i)' = MayOwn(i)
  BY <1>3 DEF Newest, MayOwn, Owner, watcher
<1>5. QED
  BY <1>2, <1>3, <1>4, TruthOfQueues, TruthOfQueuesNext DEF watcher

(* What a call does to the truth of another one: only the one that is      *)
(* served by the channel takes from it, and only it empties the channel.   *)
LEMMA TruthWatch ==
    ASSUME TypeOK, CallInv, OwnerInv, TruthInv,
           NEW i \in Calls, Begin(i) \/ Cancel(i) \/ WatchStep(i)
    PROVE  TruthInv'
<1> USE DEF watcher, thread, history
<1>1. ASSUME NEW place \in Places, call' = [call EXCEPT ![i] = place],
             place = "serve" => call[i] = "await", place \notin {"spawn", "await"},
             UNCHANGED <<state, last, watchEvents, thread, missed>>
      PROVE  TruthInv'
  <2>1. \A j \in Calls : Newest(j)' = Newest(j) /\ MayOwn(j)' = MayOwn(j)
    BY <1>1 DEF Newest, MayOwn, Owner
  <2>2. \A j \in Calls : call'[j] = IF j = i THEN place ELSE call[j]
    BY <1>1 DEF TypeOK
  <2>3. QED
    BY <1>1, <2>1, <2>2, TruthOfQueues, TruthOfQueuesNext
<1>2. CASE Begin(i)
  BY <1>1, <1>2 DEF Begin, Places
<1>3. CASE ReadState(i)
  <2>1. CASE /\ last' = [last EXCEPT ![i] = state] /\ missed' = [missed EXCEPT ![i] = FALSE]
             /\ call' = [call EXCEPT ![i] = "spawn"]
    <3>1. UNCHANGED <<state, watchEvents, thread>>
      BY <1>3 DEF ReadState
    <3>2. /\ call'[i] = "spawn" /\ last'[i] = state
          /\ \A j \in Calls \ {i} : call'[j] = call[j] /\ last'[j] = last[j] /\ missed'[j] = missed[j]
      BY <2>1 DEF TypeOK
    <3>3. \A j \in Calls : MayOwn(j)' = MayOwn(j) /\ (j # i => Newest(j)' = Newest(j))
      BY <3>1, <3>2 DEF MayOwn, Owner, Newest
    <3>4. QED
      BY <3>1, <3>2, <3>3, TruthOfQueues, TruthOfQueuesNext
  <2>2. CASE Return(i, "failed") /\ UNCHANGED <<last, missed>>
    BY <1>1, <1>3, <2>2 DEF ReadState, Return, Places
  <2>3. QED
    BY <1>3, <2>1, <2>2, Zenon DEF ReadState
<1>4. CASE Spawn(i)
  <2>1. /\ UNCHANGED <<state, last, registered, queue, classExists, missed>>
        /\ call[i] = "spawn" /\ Running(i) /\ watchEvents' = <<>>
        /\ \A j \in Calls : /\ call'[j] = IF j = i THEN "await" ELSE call[j]
                            /\ loop'[j] = IF j = i THEN "create" ELSE loop[j]
    BY <1>4 DEF Spawn, TypeOK, Running
  <2>2. \A j \in Calls : Newest(j)' = last[j]
    BY <2>1 DEF Newest
  <2>3. ~registered[i]
    BY <2>1 DEF CallInv, OwnerInv
  <2>4. \A j \in Calls : j # i => call[j] \notin {"await", "serve"}
    BY <2>1 DEF CallInv, Running
  <2>5. QED
    BY <2>1, <2>2, <2>3, <2>4, TruthOfQueues, TruthOfQueuesNext
<1>5. CASE Await(i)
  BY <1>1, <1>5 DEF Await, Return, Places
<1>6. CASE TakeEvent(i)
  <2>1. /\ UNCHANGED <<state, call, thread, missed>> /\ call[i] = "serve" /\ Running(i)
        /\ watchEvents # <<>> /\ watchEvents' = Tail(watchEvents)
        /\ \A j \in Calls : last'[j] = IF j = i THEN Head(watchEvents) ELSE last[j]
    BY <1>6 DEF TakeEvent, TypeOK, Running
  <2>2. Newest(i)' = Newest(i)
    <3>1. /\ Len(watchEvents) \in Nat \ {0} /\ Len(Tail(watchEvents)) = Len(watchEvents) - 1
          /\ Head(watchEvents) = watchEvents[1] /\ Tail(watchEvents) \in Seq(States)
          /\ \A k \in 1 .. Len(Tail(watchEvents)) : Tail(watchEvents)[k] = watchEvents[k + 1]
      BY <2>1, Taken DEF TypeOK
    <3>2. CASE Tail(watchEvents) = <<>>
      <4>1. Len(watchEvents) = 1
        BY <3>1, <3>2, EmptySeq, LenProperties
      <4>2. QED
        BY <2>1, <3>1, <3>2, <4>1 DEF Newest
    <3>3. CASE Tail(watchEvents) # <<>>
      <4>1. Len(Tail(watchEvents)) \in 1 .. Len(Tail(watchEvents))
        BY <3>1, <3>3, EmptySeq, LenProperties
      <4>2. Tail(watchEvents)[Len(Tail(watchEvents))] = watchEvents[Len(watchEvents)]
        BY <3>1, <4>1
      <4>3. QED
        BY <2>1, <3>3, <4>2 DEF Newest
    <3>4. QED
      BY <3>2, <3>3
  <2>3. \A j \in Calls : MayOwn(j)' = MayOwn(j)
    BY <2>1 DEF MayOwn, Owner
  <2>4. \A j \in Calls : j # i => call[j] \notin {"spawn", "await", "serve"}
    BY <2>1 DEF CallInv, Running
  <2>5. QED
    BY <2>1, <2>2, <2>3, <2>4, TruthOfQueues, TruthOfQueuesNext
<1>7. CASE TakeCancel(i)
  <2>1. /\ UNCHANGED <<state, last, watchEvents, classExists, loop, registered, missed>>
        /\ \A j \in Calls : call'[j] = IF j = i THEN "cancelled" ELSE call[j]
        /\ \A j \in Calls \ {i} : queue'[j] = queue[j]
        /\ queue'[i] = queue[i] \/ queue'[i] = Append(queue[i], "close")
    BY <1>7 DEF TakeCancel, Return, TypeOK
  <2>2. /\ LastLock(queue'[i]) = LastLock(queue[i])
        /\ \A k \in LastLock(queue[i]) : queue'[i][k] = queue[i][k]
    <3>1. queue[i] \in Seq(Messages) /\ "close" \in Messages \ States
      BY DEF TypeOK, Messages, States
    <3>2. QED
      BY <2>1, <3>1, PostedOther
  <2>3. \A j \in Calls : Newest(j)' = Newest(j) /\ MayOwn(j)' = MayOwn(j)
    BY <2>1 DEF Newest, MayOwn, Owner
  <2>4. QED
    BY <2>1, <2>2, <2>3, TruthOfQueues, TruthOfQueuesNext
<1>8. CASE TakeLoopErr(i)
  BY <1>1, <1>8 DEF TakeLoopErr, Return, Places
<1>9. CASE Cancel(i)
  BY <1>9 DEF Cancel, TruthInv, Newest, MayOwn, Owner, Waiting, LastWaiting
<1>10. QED
  BY <1>2, <1>3, <1>4, <1>5, <1>6, <1>7, <1>8, <1>9 DEF WatchStep
(* A window that hands over an event: the last lock event that waited for  *)
(* it was the state, and none waits behind it, so it is the state itself.  *)
LEMMA TruthDispatch ==
    ASSUME TypeOK, CallInv, OwnerInv, TruthInv, NEW i \in Calls, Dispatch(i)
    PROVE  TruthInv'
<1> DEFINE q == queue[i]
           m == Head(q)
<1>1. /\ q \in Seq(Messages) /\ q # <<>> /\ loop[i] = "pump" /\ registered[i] /\ classExists
      /\ queue'[i] = Tail(q) /\ \A j \in Calls \ {i} : queue'[j] = queue[j]
      /\ UNCHANGED <<state, call, last, registered, loop, classExists>>
  BY DEF Dispatch, TypeOK, OwnerInv, Owner, watcher
<1>2. \A k \in LastLock(Tail(q)) : k + 1 \in LastLock(q) /\ Tail(q)[k] = q[k + 1]
  BY <1>1, TakenLocks DEF LastLock
<1>3. \A j \in Calls \ {i} : ~MayOwn(j) /\ ~MayOwn(j)' /\ ~registered[j]
  BY <1>1 DEF MayOwn, Owner, OwnerInv
<1>4. MayOwn(i) /\ call[i] # "spawn"
  BY <1>1 DEF MayOwn, Owner, CallInv
<1>5. \A k \in LastLock(queue'[i]) : queue'[i][k] = state
  BY <1>1, <1>2, TruthOfQueues
<1>6. ASSUME Locks(Tail(q)) = {}, Relevant(m) PROVE m = state
  <2>1. m = q[1] /\ 1 \in Locks(q)
    BY <1>1, <1>6, Taken DEF Locks, Relevant
  <2>2. \A k \in Locks(q) : k = 1
    BY <1>1, <1>6, TakenLocks
  <2>3. 1 \in LastLock(q)
    BY <2>1, <2>2 DEF LastLock
  <2>4. QED
    BY <1>1, <2>1, <2>3, TruthOfQueues
<1>7. ASSUME call[i] \in {"await", "serve"}, ~missed'[i], Locks(Tail(q)) = {}
      PROVE  Newest(i)' = state
  <2>1. CASE /\ Relevant(m) /\ watchEvents' = Append(watchEvents, m)
    <3>1. m \in States /\ watchEvents \in Seq(States)
      BY <2>1 DEF Relevant, TypeOK
    <3>2. /\ Len(watchEvents) \in Nat /\ Len(watchEvents') = Len(watchEvents) + 1
          /\ watchEvents' \in Seq(States) /\ watchEvents'[Len(watchEvents) + 1] = m
      BY <2>1, <3>1, AppendProperties, LenProperties
    <3>3. watchEvents' # <<>>
      BY <3>2, EmptySeq
    <3>4. QED
      BY <1>6, <1>7, <2>1, <3>2, <3>3 DEF Newest
  <2>2. CASE missed' = [missed EXCEPT ![i] = TRUE]
    BY <1>7, <2>2 DEF TypeOK
  <2>3. CASE ~Relevant(m) /\ UNCHANGED <<watchEvents, missed>>
    <3>1. \A k \in Locks(q) : k # 1
      BY <1>1, <2>3, Taken DEF Locks, Relevant
    <3>2. Locks(q) = {}
      BY <1>1, <1>7, <3>1, TakenLocks
    <3>3. Newest(i) = state
      BY <1>4, <1>7, <2>3, <3>2, TruthOfQueues
    <3>4. QED
      BY <1>1, <2>3, <3>3 DEF Newest
  <2>4. QED
    BY <2>1, <2>2, <2>3 DEF Dispatch
<1>8. \A j \in Calls \ {i} : missed'[j] = missed[j]
  BY DEF Dispatch, TypeOK
<1>9. QED
  BY <1>1, <1>3, <1>4, <1>5, <1>7, <1>8, TruthOfQueues, TruthOfQueuesNext

LEMMA TruthThread ==
    ASSUME TypeOK, CallInv, OwnerInv, TruthInv, NEW i \in Calls, ThreadStep(i) \/ PumpFails(i)
    PROVE  TruthInv'
<1>1. CASE Dispatch(i)
  BY <1>1, TruthDispatch
<1>2. ASSUME ~Dispatch(i) PROVE TruthInv'
  <2>1. UNCHANGED <<state, watchEvents, watcher, missed>>
    BY <1>2 DEF ThreadStep, CreateMessageWindow, Register, CloseWindow, PumpFails, history
  <2>2. \A j \in Calls : Newest(j)' = Newest(j)
    BY <2>1 DEF Newest, watcher
  <2>3. ASSUME NEW j \in Calls
        PROVE  /\ MayOwn(j)' => MayOwn(j) /\ queue'[j] = queue[j]
               /\ registered'[j] => queue'[j] = queue[j] /\ (registered[j] \/ queue[j] = <<>>)
    <3>1. CASE CreateMessageWindow(i)
      <4>1. UNCHANGED <<registered, queue>> /\ loop[i] = "create"
        BY <3>1 DEF CreateMessageWindow
      <4>2. classExists => classExists'
        BY <3>1, Zenon DEF CreateMessageWindow
      <4>3. j # i => loop'[j] = loop[j]
        BY <3>1, LoopMoves DEF ThreadStep
      <4>4. \/ loop'[i] = "ended"
            \/ loop'[i] = "register" /\ ~classExists
        BY <3>1 DEF CreateMessageWindow, EndLoop, TypeOK
      <4>5. QED
        BY <4>1, <4>2, <4>3, <4>4 DEF MayOwn, Owner, OwnerInv
    <3>2. CASE Register(i)
      BY <3>2 DEF Register, EndLoop, MayOwn, Owner, OwnerInv, TypeOK
    <3>3. CASE CloseWindow(i)
      BY <3>3 DEF CloseWindow, EndLoop, MayOwn, Owner, OwnerInv, TypeOK
    <3>4. CASE PumpFails(i)
      BY <3>4 DEF PumpFails, EndLoop, MayOwn, Owner, OwnerInv, TypeOK
    <3>5. QED
      BY <1>2, <3>1, <3>2, <3>3, <3>4 DEF ThreadStep
  <2>4. LastLock(<<>>) = {}
    BY DEF LastLock, Locks
  <2>5. QED
    BY <2>1, <2>2, <2>3, <2>4, TruthOfQueues, TruthOfQueuesNext DEF watcher
<1>3. QED
  BY <1>1, <1>2

-----------------------------------------------------------------------------
LEMMA Inductive == TypeOK /\ WatchInv /\ [Next]_vars => TypeOK' /\ WatchInv'
<1> SUFFICES ASSUME TypeOK, WatchInv, [Next]_vars PROVE TypeOK' /\ WatchInv'
    OBVIOUS
<1> USE DEF WatchInv
<1>1. CASE Toggle
  <2>1. state' \in Messages /\ Post(state') /\ UNCHANGED <<watcher, classExists, loop, registered>>
    BY <1>1 DEF Toggle, States, Messages
  <2>2. QED
    BY <1>1, <2>1, TypeWindows, CallWindows, OwnerWindows, StaysWindows, TruthToggle DEF watcher
<1>2. CASE OtherEvent
  <2>1. "other" \in Messages /\ Post("other") /\ UNCHANGED <<watcher, classExists, loop, registered>>
    BY <1>2 DEF OtherEvent, Messages
  <2>2. QED
    BY <1>2, <2>1, TypeWindows, CallWindows, OwnerWindows, StaysWindows, TruthOther DEF watcher
<1>3. ASSUME NEW i \in Calls, Begin(i) \/ Cancel(i) \/ WatchStep(i) PROVE TypeOK' /\ WatchInv'
  BY <1>3, TypeWatch, CallWatch, OwnerWatch, StaysWatch, TruthWatch
<1>4. ASSUME NEW i \in Calls, ThreadStep(i) \/ PumpFails(i) PROVE TypeOK' /\ WatchInv'
  BY <1>4, TypeThread, CallThread, OwnerThread, StaysThread, TruthThread
<1>5. CASE UNCHANGED vars
  BY <1>5 DEF vars, watcher, thread, history, TypeOK, CallInv, OwnerInv, Owner, TruthInv, MayOwn,
        Waiting, LastWaiting, Newest, NothingStays, Running
<1>6. QED
  BY <1>1, <1>2, <1>3, <1>4, <1>5 DEF Next

LEMMA Invariant == Spec => [](TypeOK /\ WatchInv)
BY TypeInit, InvInit, Inductive, PTL DEF Spec

(* The variables keep their types: the channel never holds more than it    *)
(* has room for, and the mark "a watch is running" is set exactly while    *)
(* one is.                                                                 *)
THEOREM TypeCorrect == Spec => []TypeOK
BY Invariant, PTL

(* Whatever the interleaving, as long as Watch serves a registered window  *)
(* the last report or event under way is the session's state, unless an    *)
(* event was dropped and none has come through since: wndProc, the channel *)
(* of eight and Watch's select neither reorder events nor mix in those of  *)
(* another call's window.                                                  *)
THEOREM TruthIsUnderWay == Spec => []TruthUnderWay
<1>1. WatchInv => TruthUnderWay
  BY DEF WatchInv, TruthInv, TruthUnderWay, WillReport, MayOwn, Owner
<1>2. QED
  BY <1>1, Invariant, PTL

(* Whatever made a Watch return, its message loop has ended, was never     *)
(* started or has the message that ends it in its queue.                   *)
THEOREM NothingOutlivesWatch == Spec => []NothingStays
BY Invariant, PTL DEF WatchInv

-----------------------------------------------------------------------------
(* Watch is a SessionFeed.  For that, the channel must be empty when a     *)
(* window is first registered, and a window must not close under the call  *)
(* that is served by it.                                                   *)
NoStale ==
    /\ ~classExists => watchEvents = <<>>
    /\ \A i \in Calls : loop[i] = "register" => watchEvents = <<>>
NoClose(q) == \A k \in 1 .. Len(q) : q[k] # "close"
StaysOpen ==
    \A i \in Calls :
        /\ call[i] = "serve" => registered[i]
        /\ call[i] \in {"await", "serve"} => NoClose(queue[i])
FeedInv == NoStale /\ StaysOpen

LEMMA FeedInvInit == Init => FeedInv
BY EmptySeq DEF Init, FeedInv, NoStale, StaysOpen, NoClose

LEMMA NoStaleStep == TypeOK /\ WatchInv /\ NoStale /\ [Next]_vars => NoStale'
<1> SUFFICES ASSUME TypeOK, WatchInv, NoStale, [Next]_vars PROVE NoStale'
    OBVIOUS
<1> USE DEF NoStale
<1>1. CASE Toggle \/ OtherEvent \/ UNCHANGED vars
  BY <1>1 DEF Toggle, OtherEvent, vars, thread
<1>2. ASSUME NEW i \in Calls, Begin(i) \/ Cancel(i) \/ WatchStep(i) PROVE NoStale'
  <2>1. CASE Spawn(i)
    BY <2>1 DEF Spawn
  <2>2. CASE UNCHANGED <<classExists, loop>> /\ (UNCHANGED watchEvents \/ watchEvents # <<>>)
    BY <2>2
  <2>3. QED
    BY <1>2, <2>1, <2>2 DEF WatchStep, Begin, Cancel, ReadState, Await, TakeEvent, TakeCancel,
       TakeLoopErr, thread
<1>3. ASSUME NEW i \in Calls, ThreadStep(i) \/ PumpFails(i) PROVE NoStale'
  <2>1. \A j \in Calls \ {i} : loop'[j] = loop[j]
    BY <1>3, LoopMoves
  <2>2. CASE CreateMessageWindow(i)
    <3>1. UNCHANGED watchEvents
      BY <2>2 DEF CreateMessageWindow
    <3>2. classExists => classExists'
      BY <2>2, Zenon DEF CreateMessageWindow
    <3>3. \/ loop'[i] = "ended"
          \/ loop'[i] = "register" /\ ~classExists
      BY <2>2 DEF CreateMessageWindow, EndLoop, TypeOK
    <3>4. QED
      BY <2>1, <3>1, <3>2, <3>3
  <2>3. CASE Register(i)
    BY <2>3 DEF Register, EndLoop, TypeOK
  <2>4. CASE Dispatch(i)
    BY <2>4 DEF Dispatch, WatchInv, OwnerInv, Owner
  <2>5. CASE CloseWindow(i)
    BY <2>5 DEF CloseWindow, EndLoop, TypeOK
  <2>6. CASE PumpFails(i)
    BY <2>6 DEF PumpFails, EndLoop, TypeOK
  <2>7. QED
    BY <1>3, <2>2, <2>3, <2>4, <2>5, <2>6 DEF ThreadStep
<1>4. QED
  BY <1>1, <1>2, <1>3 DEF Next

LEMMA StaysOpenStep == TypeOK /\ WatchInv /\ StaysOpen /\ [Next]_vars => StaysOpen'
<1> SUFFICES ASSUME TypeOK, WatchInv, StaysOpen, [Next]_vars PROVE StaysOpen'
    OBVIOUS
<1>1. ASSUME NEW m \in Messages \ {"close"}, Post(m), UNCHANGED <<call, registered>>
      PROVE  StaysOpen'
  <2>1. ASSUME NEW i \in Calls, NoClose(queue[i]) PROVE NoClose(queue'[i])
    <3>1. queue[i] \in Seq(Messages)
      BY DEF TypeOK
    <3>2. NoClose(Append(queue[i], m))
      BY <2>1, <3>1, Posted DEF NoClose
    <3>3. queue'[i] = queue[i] \/ queue'[i] = Append(queue[i], m)
      BY <1>1, PostType
    <3>4. QED
      BY <2>1, <3>2, <3>3
  <2>2. QED
    BY <1>1, <2>1 DEF StaysOpen
<1>2. CASE Toggle
  <2>1. state' \in Messages \ {"close"} /\ Post(state') /\ UNCHANGED <<call, registered>>
    BY <1>2 DEF Toggle, States, Messages, watcher
  <2>2. QED
    BY <1>1, <2>1
<1>3. CASE OtherEvent
  <2>1. "other" \in Messages \ {"close"} /\ Post("other") /\ UNCHANGED <<call, registered>>
    BY <1>3 DEF OtherEvent, Messages, watcher
  <2>2. QED
    BY <1>1, <2>1
<1>4. ASSUME NEW i \in Calls, Begin(i) \/ Cancel(i) \/ WatchStep(i) PROVE StaysOpen'
  <2>1. ASSUME UNCHANGED <<registered, queue>>,
               \A j \in Calls \ {i} : call'[j] = call[j],
               \/ call'[i] \notin {"await", "serve"}
               \/ call'[i] = call[i]
               \/ call'[i] = "await" /\ queue[i] = <<>>
               \/ call'[i] = "serve" /\ call[i] = "await" /\ registered[i]
        PROVE  StaysOpen'
    <3>1. NoClose(<<>>)
      BY DEF NoClose
    <3>2. QED
      BY <2>1, <3>1 DEF StaysOpen
  <2>2. CASE Begin(i)
    BY <2>1, <2>2 DEF Begin, TypeOK, thread
  <2>3. CASE ReadState(i)
    BY <2>1, <2>3 DEF ReadState, Return, TypeOK, thread
  <2>4. CASE Spawn(i)
    <3>1. queue[i] = <<>>
      BY <2>4 DEF Spawn, WatchInv, CallInv, OwnerInv
    <3>2. QED
      BY <2>1, <2>4, <3>1 DEF Spawn, TypeOK
  <2>5. CASE Await(i)
    BY <2>1, <2>5 DEF Await, Return, TypeOK, thread
  <2>6. CASE TakeEvent(i) \/ Cancel(i)
    BY <2>1, <2>6 DEF TakeEvent, Cancel, thread
  <2>7. CASE TakeLoopErr(i)
    BY <2>1, <2>7 DEF TakeLoopErr, Return, TypeOK, thread
  <2>8. CASE TakeCancel(i)
    <3>1. /\ \A j \in Calls \ {i} : call'[j] = call[j] /\ queue'[j] = queue[j]
          /\ call'[i] = "cancelled" /\ UNCHANGED registered
      BY <2>8 DEF TakeCancel, Return, TypeOK
    <3>2. QED
      BY <3>1 DEF StaysOpen
  <2>9. QED
    BY <1>4, <2>2, <2>3, <2>4, <2>5, <2>6, <2>7, <2>8 DEF WatchStep
<1>5. ASSUME NEW i \in Calls, ThreadStep(i) \/ PumpFails(i) PROVE StaysOpen'
  <2>1. /\ UNCHANGED call
        /\ \A j \in Calls \ {i} : registered'[j] = registered[j] /\ queue'[j] = queue[j]
    BY <1>5, LoopMoves DEF watcher
  <2>2. ASSUME call[i] \in {"await", "serve"} PROVE NoClose(queue'[i]) /\ (registered[i] => registered'[i])
    <3>1. NoClose(queue[i]) /\ queue[i] \in Seq(Messages)
      BY <2>2 DEF StaysOpen, TypeOK
    <3>2. CASE Dispatch(i)
      <4>1. /\ queue'[i] = Tail(queue[i]) /\ UNCHANGED registered
            /\ Len(queue[i]) \in Nat \ {0} /\ Len(Tail(queue[i])) = Len(queue[i]) - 1
            /\ \A k \in 1 .. Len(Tail(queue[i])) : Tail(queue[i])[k] = queue[i][k + 1]
        BY <3>1, <3>2, Taken DEF Dispatch, TypeOK
      <4>2. QED
        BY <3>1, <4>1 DEF NoClose
    <3>3. CASE CloseWindow(i)
      <4>1. 1 \in 1 .. Len(queue[i]) /\ queue[i][1] = "close"
        BY <3>1, <3>3, Taken DEF CloseWindow
      <4>2. QED
        BY <3>1, <4>1 DEF NoClose
    <3>4. CASE CreateMessageWindow(i) \/ Register(i) \/ PumpFails(i)
      BY <3>1, <3>4 DEF CreateMessageWindow, Register, PumpFails, TypeOK
    <3>5. QED
      BY <1>5, <3>2, <3>3, <3>4 DEF ThreadStep
  <2>3. QED
    BY <2>1, <2>2 DEF StaysOpen
<1>6. CASE UNCHANGED vars
  BY <1>6 DEF vars, watcher, thread, StaysOpen
<1>7. QED
  BY <1>2, <1>3, <1>4, <1>5, <1>6 DEF Next

-----------------------------------------------------------------------------
(* What is in the channel, and then what waits for the window.             *)
LEMMA Joined ==
    ASSUME NEW S, NEW w \in Seq(S), NEW q \in Seq(S)
    PROVE  /\ w \o q \in Seq(S) /\ Len(w) \in Nat /\ Len(q) \in Nat /\ Len(w \o q) = Len(w) + Len(q)
           /\ \A k \in 1 .. Len(w) : (w \o q)[k] = w[k]
           /\ \A k \in 1 .. Len(q) : (w \o q)[Len(w) + k] = q[k]
<1>1. /\ w \o q \in Seq(S) /\ Len(w \o q) = Len(w) + Len(q)
      /\ \A k \in 1 .. Len(w) + Len(q) :
            (w \o q)[k] = IF k <= Len(w) THEN w[k] ELSE q[k - Len(w)]
  BY ConcatProperties
<1>2. Len(w) \in Nat /\ Len(q) \in Nat
  BY LenProperties
<1>3. ASSUME NEW k \in 1 .. Len(q) PROVE (w \o q)[Len(w) + k] = q[k]
  <2>1. Len(w) + k \in 1 .. Len(w) + Len(q) /\ ~(Len(w) + k <= Len(w)) /\ (Len(w) + k) - Len(w) = k
    BY <1>2
  <2>2. QED
    BY <1>1, <2>1
<1>4. QED
  BY <1>1, <1>2, <1>3

LEMMA PostedLast ==
    ASSUME NEW S, NEW w \in Seq(S), NEW q \in Seq(S), NEW m \in S
    PROVE  w \o Append(q, m) = Append(w \o q, m)
<1>1. <<m>> \in Seq(S) /\ w \o q \in Seq(S)
  BY Joined
<1>2. Append(q, m) = q \o <<m>> /\ Append(w \o q, m) = (w \o q) \o <<m>>
  BY <1>1, AppendIsConcat
<1>3. QED
  BY <1>1, <1>2, ConcatAssociative

LEMMA TakenFirst ==
    ASSUME NEW S, NEW w \in Seq(S), NEW q \in Seq(S), w # <<>>
    PROVE  w \o q # <<>> /\ Head(w \o q) = Head(w) /\ Tail(w \o q) = Tail(w) \o q
<1>1. /\ w \o q \in Seq(S) /\ Len(w \o q) = Len(w) + Len(q) /\ Len(q) \in Nat
      /\ Len(w) \in Nat \ {0} /\ Tail(w) \in Seq(S) /\ Len(Tail(w)) = Len(w) - 1
  BY Joined, Taken
<1>2. w \o q # <<>>
  BY <1>1, EmptySeq
<1>3. /\ Head(w \o q) = (w \o q)[1] /\ Head(w) = w[1]
      /\ Tail(w \o q) \in Seq(S) /\ Len(Tail(w \o q)) = Len(w) + Len(q) - 1
  BY <1>1, <1>2, Taken
<1>4. Tail(w) \o q \in Seq(S) /\ Len(Tail(w) \o q) = Len(w) - 1 + Len(q)
  BY <1>1, Joined
<1>5. ASSUME NEW k \in 1 .. Len(Tail(w \o q)) PROVE Tail(w \o q)[k] = (Tail(w) \o q)[k]
  <2>1. Tail(w \o q)[k] = (w \o q)[k + 1]
    BY <1>1, <1>2, <1>5, Taken
  <2>2. CASE k \in 1 .. Len(w) - 1
    <3>1. (w \o q)[k + 1] = w[k + 1]
      BY <1>1, <2>2, Joined
    <3>2. (Tail(w) \o q)[k] = Tail(w)[k] /\ Tail(w)[k] = w[k + 1]
      BY <1>1, <2>2, Joined, Taken
    <3>3. QED
      BY <2>1, <3>1, <3>2
  <2>3. CASE k - (Len(w) - 1) \in 1 .. Len(q)
    <3> DEFINE l == k - (Len(w) - 1)
    <3>1. Len(w) + l = k + 1 /\ (Len(w) - 1) + l = k
      BY <1>1, <1>3
    <3> HIDE DEF l
    <3>2. (w \o q)[Len(w) + l] = q[l] /\ (Tail(w) \o q)[(Len(w) - 1) + l] = q[l]
      BY <1>1, <2>3, Joined DEF l
    <3>3. QED
      BY <2>1, <3>1, <3>2
  <2>4. QED
    BY <1>1, <1>3, <2>2, <2>3
<1>6. Head(w \o q) = Head(w)
  BY <1>1, <1>3, Joined
<1>7. Tail(w \o q) = Tail(w) \o q
  BY <1>3, <1>4, <1>5, SeqEqual
<1>8. QED
  BY <1>2, <1>6, <1>7

LEMMA HandedOver ==
    ASSUME NEW S, NEW w \in Seq(S), NEW q \in Seq(S), q # <<>>
    PROVE  Append(w, Head(q)) \o Tail(q) = w \o q
<1>1. Head(q) \in S /\ Tail(q) \in Seq(S) /\ <<Head(q)>> \in Seq(S)
  BY Taken
<1>2. Append(w, Head(q)) = w \o <<Head(q)>>
  BY <1>1, AppendIsConcat
<1>3. <<Head(q)>> \o Tail(q) = q
  <2>1. /\ Len(q) \in Nat \ {0} /\ Head(q) = q[1] /\ Len(Tail(q)) = Len(q) - 1
        /\ \A k \in 1 .. Len(Tail(q)) : Tail(q)[k] = q[k + 1]
    BY Taken
  <2>2. /\ <<Head(q)>> \o Tail(q) \in Seq(S) /\ Len(<<Head(q)>> \o Tail(q)) = Len(q)
        /\ \A k \in 1 .. Len(q) :
              (<<Head(q)>> \o Tail(q))[k] = IF k <= 1 THEN <<Head(q)>>[k] ELSE Tail(q)[k - 1]
    BY <1>1, <2>1, ConcatProperties
  <2>3. \A k \in 1 .. Len(q) : (<<Head(q)>> \o Tail(q))[k] = q[k]
    BY <2>1, <2>2
  <2>4. QED
    BY <2>2, <2>3, SeqEqual
<1>4. QED
  BY <1>1, <1>2, <1>3, ConcatAssociative

LEMMA Dropped ==
    ASSUME NEW S, NEW w \in Seq(S), NEW q \in Seq(S), q # <<>>
    PROVE  /\ Len(w) + 1 \in 1 .. Len(w \o q) /\ (w \o q)[Len(w) + 1] = Head(q)
           /\ w \o Tail(q) = Feed!Without(w \o q, Len(w) + 1)
<1> DEFINE r == Feed!Without(w \o q, Len(w) + 1)
<1>1. /\ w \o q \in Seq(S) /\ Len(w \o q) = Len(w) + Len(q) /\ Len(w) \in Nat
      /\ Len(q) \in Nat \ {0} /\ Tail(q) \in Seq(S) /\ Len(Tail(q)) = Len(q) - 1 /\ Head(q) = q[1]
  BY Joined, Taken
<1>2. Len(w) + 1 \in 1 .. Len(w \o q) /\ (w \o q)[Len(w) + 1] = Head(q)
  BY <1>1, Joined
<1>3. w \o Tail(q) \in Seq(S) /\ Len(w \o Tail(q)) = Len(w) + Len(q) - 1
  BY <1>1, Joined
<1>4. r \in Seq(S) /\ Len(r) = Len(w) + Len(q) - 1
  BY <1>1 DEF Feed!Without
<1>5. ASSUME NEW k \in 1 .. Len(w) + Len(q) - 1 PROVE (w \o Tail(q))[k] = r[k]
  <2>1. CASE k \in 1 .. Len(w)
    BY <1>1, <2>1, Joined DEF Feed!Without
  <2>2. CASE k - Len(w) \in 1 .. Len(q) - 1
    <3> DEFINE l == k - Len(w)
    <3>1. k = Len(w) + l /\ k + 1 = Len(w) + (l + 1) /\ l + 1 \in 1 .. Len(q)
      BY <1>1, <2>2
    <3>2. r[k] = (w \o q)[k + 1]
      BY <1>1, <2>2 DEF Feed!Without
    <3> HIDE DEF l, r
    <3>3. (w \o Tail(q))[k] = Tail(q)[l] /\ Tail(q)[l] = q[l + 1]
      BY <1>1, <2>2, <3>1, Joined, Taken DEF l
    <3>4. (w \o q)[k + 1] = q[l + 1]
      BY <1>1, <3>1, Joined
    <3>5. QED
      BY <3>2, <3>3, <3>4
  <2>3. QED
    BY <1>1, <2>1, <2>2
<1> HIDE DEF r
<1>6. w \o Tail(q) = r
  BY <1>3, <1>4, <1>5, SeqEqual
<1>7. QED
  BY <1>2, <1>6 DEF r
-----------------------------------------------------------------------------
LEMMA WatchedCall == Watched \in Calls
BY WtsAssumption DEF Calls

LEMMA MoreMessages == \A q \in Seq(States) : q \in Seq(Messages)
BY DEF Messages

(* A step that SessionFeed does not see.                                   *)
Unseen ==
    /\ state' = state /\ last'[Watched] = last[Watched]
    /\ Serving(Watched)' = Serving(Watched) /\ UnderWay(Watched)' = UnderWay(Watched)

FeedMoves == Feed!Next \/ Unseen

(* A step that leaves alone what the call and its window hold.             *)
LEMMA NotSeen ==
    ASSUME state' = state, last'[Watched] = last[Watched], call'[Watched] = call[Watched],
           registered'[Watched] = registered[Watched], queue'[Watched] = queue[Watched],
           Serving(Watched) => watchEvents' = watchEvents
    PROVE  Unseen
BY DEF Unseen, Serving, UnderWay

(* While the call is not listening, nothing is under way for it.           *)
LEMMA NotListening ==
    ASSUME ~Serving(Watched), ~Serving(Watched)'
    PROVE  /\ Serving(Watched)' = Serving(Watched)
           /\ UnderWay(Watched) = <<>> /\ UnderWay(Watched)' = <<>>
BY DEF Serving, UnderWay

LEMMA FeedInitial == Init => Feed!Init
BY WatchedCall DEF Init, Feed!Init, Serving, UnderWay

(* Windows posts to the window of the call, if it is registered.           *)
LEMMA FeedPost ==
    ASSUME TypeOK, WatchInv, NEW m \in Messages, Post(m),
           UNCHANGED <<watchEvents, watcher, registered>>
    PROVE  /\ Serving(Watched)' = Serving(Watched)
           /\ UnderWay(Watched)' = IF Serving(Watched) THEN Append(UnderWay(Watched), m)
                                                       ELSE UnderWay(Watched)
<1>1. Serving(Watched)' = Serving(Watched)
  BY DEF Serving, watcher
<1>2. CASE Serving(Watched)
  <2>1. queue[Watched] \in Seq(Messages) /\ watchEvents \in Seq(Messages)
    BY WatchedCall, MoreMessages DEF TypeOK
  <2>2. queue'[Watched] = Append(queue[Watched], m)
    BY <1>2, WatchedCall, PostType DEF Serving
  <2>3. watchEvents \o Append(queue[Watched], m) = Append(watchEvents \o queue[Watched], m)
    BY <2>1, PostedLast
  <2>4. QED
    BY <1>1, <1>2, <2>2, <2>3 DEF UnderWay
<1>3. CASE ~Serving(Watched)
  BY <1>1, <1>3 DEF UnderWay
<1>4. QED
  BY <1>1, <1>2, <1>3

LEMMA FeedWindows == TypeOK /\ WatchInv /\ (Toggle \/ OtherEvent) => FeedMoves
<1> SUFFICES ASSUME TypeOK, WatchInv, Toggle \/ OtherEvent PROVE FeedMoves
    OBVIOUS
<1>1. CASE Toggle
  <2>1. /\ state' \in Messages /\ state' \in States \ {state} /\ Post(state')
        /\ UNCHANGED <<watchEvents, watcher, registered>>
    BY <1>1 DEF Toggle, TypeOK, States, Messages
  <2>2. last'[Watched] = last[Watched]
    BY <2>1 DEF watcher
  <2>3. Feed!Change
    BY <2>1, <2>2, FeedPost DEF Feed!Change, Feed!Happens
  <2>4. QED
    BY <2>3 DEF FeedMoves, Feed!Next
<1>2. CASE OtherEvent
  <2>1. /\ "other" \in Messages /\ Post("other") /\ state' = state
        /\ UNCHANGED <<watchEvents, watcher, registered>>
    BY <1>2 DEF OtherEvent, Messages
  <2>2. last'[Watched] = last[Watched]
    BY <2>1 DEF watcher
  <2>3. Feed!OtherEvent
    BY <2>1, <2>2, FeedPost DEF Feed!OtherEvent, Feed!Happens
  <2>4. QED
    BY <2>3 DEF FeedMoves, Feed!Next
<1>3. QED
  BY <1>1, <1>2

(* The goroutine in Watch.  Another call's touches the channel only while  *)
(* that call runs, and so while this one does not.                         *)
LEMMA FeedOtherWatch ==
    ASSUME TypeOK, WatchInv, NEW i \in Calls \ {Watched},
           Begin(i) \/ Cancel(i) \/ WatchStep(i)
    PROVE  Unseen
<1>1. /\ state' = state /\ last'[Watched] = last[Watched] /\ call'[Watched] = call[Watched]
      /\ registered'[Watched] = registered[Watched] /\ queue'[Watched] = queue[Watched]
  BY WatchedCall DEF Begin, Cancel, WatchStep, ReadState, Spawn, Await, TakeEvent, TakeCancel,
     TakeLoopErr, Return, TypeOK, thread
<1>2. UNCHANGED watchEvents \/ Running(i)
  BY DEF Begin, Cancel, WatchStep, ReadState, Spawn, Await, TakeEvent, TakeCancel, TakeLoopErr,
     Running
<1>3. Running(i) => ~Serving(Watched)
  BY WatchedCall DEF WatchInv, CallInv, Running, Serving
<1>4. QED
  BY <1>1, <1>2, <1>3, NotSeen

(* A call that returns listens no more.                                    *)
LEMMA FeedReturn ==
    ASSUME TypeOK, NEW why \in {"failed", "cancelled"}, Return(Watched, why),
           UNCHANGED <<state, last>>
    PROVE  Feed!End
<1>1. ~Serving(Watched)' /\ UnderWay(Watched)' = <<>>
  BY WatchedCall DEF Return, Serving, UnderWay, TypeOK
<1>2. QED
  BY <1>1 DEF Feed!End

LEMMA FeedWatch ==
    ASSUME TypeOK, WatchInv, FeedInv, Begin(Watched) \/ Cancel(Watched) \/ WatchStep(Watched)
    PROVE  FeedMoves
<1> DEFINE w == Watched
<1> USE WatchedCall
<1>1. CASE Begin(w)
  <2>1. ~Serving(w) /\ ~Serving(w)'
    BY <1>1 DEF Begin, Serving, TypeOK
  <2>2. QED
    BY <1>1, <2>1, NotListening DEF Begin, FeedMoves, Unseen
<1>2. CASE Cancel(w)
  BY <1>2, NotSeen DEF Cancel, thread, FeedMoves
<1>3. CASE ReadState(w)
  <2>1. ~Serving(w) /\ ~Serving(w)'
    BY <1>3 DEF ReadState, Return, Serving, TypeOK
  <2>2. state' = state /\ (last'[w] = state \/ last'[w] = last[w])
    BY <1>3 DEF ReadState, TypeOK
  <2>3. CASE last'[w] = state
    <3>1. Feed!Begin
      BY <2>1, <2>2, <2>3, NotListening DEF Feed!Begin
    <3>2. QED
      BY <3>1 DEF FeedMoves, Feed!Next
  <2>4. CASE last'[w] = last[w]
    BY <2>1, <2>2, <2>4, NotListening DEF FeedMoves, Unseen
  <2>5. QED
    BY <2>2, <2>3, <2>4
<1>4. CASE Spawn(w)
  <2>1. ~registered[w] /\ ~Serving(w) /\ ~Serving(w)'
    BY <1>4 DEF Spawn, WatchInv, CallInv, OwnerInv, Serving
  <2>2. QED
    BY <1>4, <2>1, NotListening DEF Spawn, FeedMoves, Unseen
<1>5. CASE Await(w)
  <2>1. CASE registered[w] /\ call' = [call EXCEPT ![w] = "serve"]
    <3>1. Serving(w) /\ Serving(w)'
      BY <1>5, <2>1 DEF Await, Serving, TypeOK, thread
    <3>2. QED
      BY <1>5, <3>1 DEF Await, thread, UnderWay, FeedMoves, Unseen
  <2>2. CASE Return(w, "failed")
    BY <1>5, <2>2, FeedReturn DEF Await, FeedMoves, Feed!Next
  <2>3. QED
    BY <1>5, <2>1, <2>2 DEF Await
<1>6. CASE TakeEvent(w)
  <2>1. /\ watchEvents \in Seq(States) /\ watchEvents # <<>> /\ watchEvents \in Seq(Messages)
        /\ queue[w] \in Seq(Messages)
    BY <1>6, MoreMessages DEF TakeEvent, TypeOK
  <2>2. /\ Head(watchEvents) \in States /\ last'[w] = Head(watchEvents)
        /\ state' = state /\ watchEvents' = Tail(watchEvents)
        /\ UNCHANGED <<call, registered, queue>>
    BY <1>6, <2>1, Taken DEF TakeEvent, TypeOK, thread
  <2>3. Serving(w) /\ Serving(w)'
    BY <1>6, <2>2 DEF TakeEvent, Serving, FeedInv, StaysOpen
  <2>4. /\ UnderWay(w) = watchEvents \o queue[w]
        /\ UnderWay(w)' = Tail(watchEvents) \o queue[w]
    BY <2>2, <2>3 DEF UnderWay
  <2>5. /\ UnderWay(w) # <<>> /\ Head(UnderWay(w)) = Head(watchEvents)
        /\ UnderWay(w)' = Tail(UnderWay(w))
    BY <2>1, <2>4, TakenFirst
  <2>6. Feed!Tell
    BY <2>2, <2>3, <2>5 DEF Feed!Tell
  <2>7. QED
    BY <2>6 DEF FeedMoves, Feed!Next
<1>7. CASE TakeCancel(w)
  BY <1>7, FeedReturn DEF TakeCancel, FeedMoves, Feed!Next
<1>8. CASE TakeLoopErr(w)
  BY <1>8, FeedReturn DEF TakeLoopErr, FeedMoves, Feed!Next
<1>9. QED
  BY <1>1, <1>2, <1>3, <1>4, <1>5, <1>6, <1>7, <1>8 DEF WatchStep

(* The thread.  Another call's puts nothing in the channel while this one  *)
(* has its window.                                                         *)
LEMMA FeedOtherThread ==
    ASSUME TypeOK, WatchInv, NEW i \in Calls \ {Watched}, ThreadStep(i) \/ PumpFails(i)
    PROVE  Unseen
<1>1. /\ state' = state /\ last'[Watched] = last[Watched] /\ call'[Watched] = call[Watched]
      /\ registered'[Watched] = registered[Watched] /\ queue'[Watched] = queue[Watched]
  BY WatchedCall DEF ThreadStep, CreateMessageWindow, Register, Dispatch, CloseWindow, PumpFails,
     EndLoop, TypeOK, watcher
<1>2. UNCHANGED watchEvents \/ loop[i] = "pump"
  BY DEF ThreadStep, CreateMessageWindow, Register, Dispatch, CloseWindow, PumpFails
<1>3. loop[i] = "pump" => ~Serving(Watched)
  BY WatchedCall DEF WatchInv, OwnerInv, Owner, Serving
<1>4. QED
  BY <1>1, <1>2, <1>3, NotSeen

LEMMA FeedRegister ==
    ASSUME TypeOK, WatchInv, FeedInv, Register(Watched)
    PROVE  FeedMoves
<1> DEFINE w == Watched
<1> USE WatchedCall
<1>1. /\ loop[w] = "register" /\ watchEvents = <<>> /\ ~registered[w] /\ queue[w] = <<>>
      /\ state' = state /\ UNCHANGED <<watchEvents, call, last, queue>>
  BY DEF Register, FeedInv, NoStale, WatchInv, OwnerInv, watcher
<1>2. ~Serving(w) /\ UnderWay(w) = <<>>
  BY <1>1 DEF Serving, UnderWay
<1>3. CASE Serving(w)'
  <2>1. UnderWay(w)' = <<>> \o <<>> /\ <<>> \o <<>> = <<>>
    BY <1>1, <1>3, EmptySeq, ConcatEmptySeq DEF UnderWay
  <2>2. Feed!Listen
    BY <1>1, <1>2, <1>3, <2>1 DEF Feed!Listen
  <2>3. QED
    BY <2>2 DEF FeedMoves, Feed!Next
<1>4. CASE ~Serving(w)'
  BY <1>1, <1>2, <1>4, NotListening DEF FeedMoves, Unseen
<1>5. QED
  BY <1>3, <1>4

(* What the window takes from its queue goes to the end of the channel, is *)
(* dropped because the channel is full, or says nothing of the lock.       *)
LEMMA FeedDispatch ==
    ASSUME TypeOK, WatchInv, Dispatch(Watched)
    PROVE  FeedMoves
<1> DEFINE w == Watched
           m == Head(queue[w])
<1> USE WatchedCall
<1>1. /\ queue[w] \in Seq(Messages) /\ queue[w] # <<>> /\ watchEvents \in Seq(Messages)
      /\ Len(watchEvents) \in Nat
  BY MoreMessages, LenProperties DEF Dispatch, TypeOK
<1>2. /\ state' = state /\ queue'[w] = Tail(queue[w])
      /\ UNCHANGED <<call, last, registered>>
  BY DEF Dispatch, TypeOK, watcher
<1>3. Serving(w)' = Serving(w)
  BY <1>2 DEF Serving
<1>4. CASE ~Serving(w)
  BY <1>2, <1>3, <1>4 DEF UnderWay, FeedMoves, Unseen
<1>5. CASE Serving(w)
  <2>1. /\ UnderWay(w) = watchEvents \o queue[w]
        /\ UnderWay(w)' = watchEvents' \o Tail(queue[w])
    BY <1>2, <1>3, <1>5 DEF UnderWay
  <2>2. CASE watchEvents' = Append(watchEvents, m)
    <3>1. Append(watchEvents, m) \o Tail(queue[w]) = watchEvents \o queue[w]
      BY <1>1, HandedOver
    <3>2. QED
      BY <1>2, <1>3, <2>1, <2>2, <3>1 DEF FeedMoves, Unseen
  <2>3. CASE UNCHANGED watchEvents /\ (m \in States => Len(watchEvents) = BufferSize)
    <3> DEFINE k == Len(watchEvents) + 1
    <3>1. /\ k \in 1 .. Len(UnderWay(w)) /\ UnderWay(w)[k] = m
          /\ UnderWay(w)' = Feed!Without(UnderWay(w), k)
      BY <1>1, <2>1, <2>3, Dropped
    <3>2. m \in States => k > BufferSize
      BY <1>1, <2>3, WtsAssumption
    <3> HIDE DEF k, m
    <3>3. Feed!Lose(k)
      BY <1>2, <1>3, <3>1, <3>2 DEF Feed!Lose
    <3>4. QED
      BY <3>1, <3>3 DEF FeedMoves, Feed!Next
  <2>4. QED
    BY <2>2, <2>3 DEF Dispatch, Relevant
<1>6. QED
  BY <1>4, <1>5

LEMMA FeedThread ==
    ASSUME TypeOK, WatchInv, FeedInv, ThreadStep(Watched) \/ PumpFails(Watched)
    PROVE  FeedMoves
<1> USE WatchedCall
<1>1. CASE CreateMessageWindow(Watched)
  BY <1>1, NotSeen DEF CreateMessageWindow, watcher, FeedMoves
<1>2. CASE PumpFails(Watched)
  BY <1>2, NotSeen DEF PumpFails, watcher, FeedMoves
<1>3. CASE CloseWindow(Watched)
  <2>1. queue[Watched] \in Seq(Messages) /\ queue[Watched] # <<>> /\ Head(queue[Watched]) = "close"
    BY <1>3 DEF CloseWindow, TypeOK
  <2>2. 1 \in 1 .. Len(queue[Watched]) /\ queue[Watched][1] = "close"
    BY <2>1, Taken
  <2>3. call[Watched] \notin {"await", "serve"}
    BY <2>2 DEF FeedInv, StaysOpen, NoClose
  <2>4. ~Serving(Watched) /\ ~Serving(Watched)'
    BY <1>3, <2>3 DEF CloseWindow, watcher, Serving
  <2>5. QED
    BY <1>3, <2>4, NotListening DEF CloseWindow, watcher, FeedMoves, Unseen
<1>4. QED
  BY <1>1, <1>2, <1>3, FeedRegister, FeedDispatch DEF ThreadStep

LEMMA FeedStep == TypeOK /\ WatchInv /\ FeedInv /\ [Next]_vars => [Feed!Next]_(Feed!vars)
<1> SUFFICES ASSUME TypeOK, WatchInv, FeedInv, [Next]_vars PROVE [Feed!Next]_(Feed!vars)
    OBVIOUS
<1>1. ASSUME Toggle \/ OtherEvent PROVE FeedMoves
  BY <1>1, FeedWindows
<1>2. ASSUME NEW i \in Calls, Begin(i) \/ Cancel(i) \/ WatchStep(i) PROVE FeedMoves
  <2>1. CASE i = Watched
    BY <1>2, <2>1, FeedWatch
  <2>2. CASE i # Watched
    BY <1>2, <2>2, FeedOtherWatch DEF FeedMoves
  <2>3. QED
    BY <2>1, <2>2
<1>3. ASSUME NEW i \in Calls, ThreadStep(i) \/ PumpFails(i) PROVE FeedMoves
  <2>1. CASE i = Watched
    BY <1>3, <2>1, FeedThread
  <2>2. CASE i # Watched
    BY <1>3, <2>2, FeedOtherThread DEF FeedMoves
  <2>3. QED
    BY <2>1, <2>2
<1>4. ASSUME UNCHANGED vars PROVE FeedMoves
  BY <1>4, NotSeen DEF vars, watcher, thread, FeedMoves
<1>5. FeedMoves
  BY <1>1, <1>2, <1>3, <1>4 DEF Next
<1>6. Unseen => UNCHANGED Feed!vars
  BY DEF Unseen, Feed!vars
<1>7. QED
  BY <1>5, <1>6 DEF FeedMoves

(* Any one call of Watch keeps what SessionFeed promises: once its window  *)
(* is registered, every change of the session is told, in order and once,  *)
(* unless the channel was full of earlier ones when the window took it     *)
(* from its queue; and no event of before, or of another call, is told.    *)
THEOREM WatchIsAFeed == Spec => KeepsFeed
<1>1. Init => Feed!Init
  BY FeedInitial
<1>2. TypeOK /\ WatchInv /\ FeedInv /\ [Next]_vars => FeedInv'
  BY NoStaleStep, StaysOpenStep DEF FeedInv
<1>3. QED
  BY <1>1, <1>2, TypeInit, InvInit, Inductive, FeedInvInit, FeedStep, PTL
     DEF Spec, KeepsFeed, Feed!Spec
=============================================================================
