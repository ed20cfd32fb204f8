------------------------------- MODULE WtsWatch -------------------------------
(***************************************************************************)
(* internal/session on Windows: Watch, its message loop and wndProc.       *)
(*                                                                         *)
(* Three parties: the goroutine in Watch, the OS thread that owns the      *)
(* message-only window, and Windows, which posts a message per session     *)
(* event once the window is registered for them.  The thread hands events  *)
(* to Watch over watchEvents, a channel of eight that is global to the     *)
(* process, and drops what does not fit.                                   *)
(*                                                                         *)
(* A window class stays registered until the process ends, and closing the *)
(* window throws away the messages that wait for it.                       *)
(***************************************************************************)
EXTENDS Integers, Sequences

CONSTANTS
    BufferSize,   \* capacity of watchEvents
    MaxCalls,     \* bound: calls of Watch in the process
    MaxEvents,    \* bound: session events
    MaxErrors,    \* bound: Windows calls that fail
    Watched       \* any one of the calls, for KeepsFeed to speak of

ASSUME WtsAssumption ==
    /\ BufferSize \in Nat /\ MaxCalls \in Nat
    /\ MaxEvents \in Nat /\ MaxErrors \in Nat
    /\ Watched \in 1 .. MaxCalls

VARIABLES
    state,       \* the session: "locked" or "unlocked"
    watchActive,
    watchEvents, \* what the channel holds
    classExists, \* RegisterClassEx has succeeded in this process
    call,        \* each call of Watch: where it is
    last,        \* what it reported last, "none" before its first report
    cancelled,   \* its context
    loop,        \* its message loop: where the thread is
    registered,  \* its window is registered for session events
    queue,       \* the messages that wait for its window
    loopErr,     \* what its loop has sent on loopErr
    events,      \* history: session events
    errors,      \* history: failed Windows calls
    missed       \* history: since a call's first report, or since its loop last
                 \* handed over an event, one came before the registration or
                 \* was dropped

watcher == <<call, last, cancelled, watchActive>>
thread == <<classExists, loop, registered, queue, loopErr>>
history == <<events, errors, missed>>
vars == <<state, watchEvents, watcher, thread, history>>

Calls == 1 .. MaxCalls
States == {"locked", "unlocked"}
Messages == States \cup {"other", "close"}
Places == {"idle", "busy", "read", "spawn", "await", "serve", "cancelled", "failed"}
LoopPlaces == {"off", "create", "register", "pump", "ended"}

Running(i) == call[i] \in {"read", "spawn", "await", "serve"}

-----------------------------------------------------------------------------
Init ==
    /\ state \in States
    /\ watchActive = FALSE
    /\ watchEvents = <<>>
    /\ classExists = FALSE
    /\ call = [i \in Calls |-> "idle"]
    /\ last = [i \in Calls |-> "none"]
    /\ cancelled = [i \in Calls |-> FALSE]
    /\ loop = [i \in Calls |-> "off"]
    /\ registered = [i \in Calls |-> FALSE]
    /\ queue = [i \in Calls |-> <<>>]
    /\ loopErr = [i \in Calls |-> "none"]
    /\ events = 0
    /\ errors = 0
    /\ missed = [i \in Calls |-> FALSE]

(* Windows.  The user locks or unlocks; other session events (a logon, a   *)
(* remote connection) reach the window too.                                *)
Post(m) == queue' = [i \in Calls |-> IF registered[i] THEN Append(queue[i], m) ELSE queue[i]]

Toggle ==
    /\ events < MaxEvents
    /\ events' = events + 1
    /\ state' = IF state = "locked" THEN "unlocked" ELSE "locked"
    /\ Post(state')
    /\ missed' = [i \in Calls |-> missed[i] \/ ~registered[i]]
    /\ UNCHANGED <<watchEvents, watcher, classExists, loop, registered, loopErr, errors>>

OtherEvent ==
    /\ events < MaxEvents
    /\ events' = events + 1
    /\ Post("other")
    /\ UNCHANGED <<state, watchEvents, watcher, classExists, loop, registered,
                   loopErr, errors, missed>>

Fault == errors < MaxErrors /\ errors' = errors + 1

-----------------------------------------------------------------------------
(* Watch.                                                                  *)
Return(i, why) ==
    /\ call' = [call EXCEPT ![i] = why]
    /\ watchActive' = FALSE

(* One watcher per process.                                                *)
Begin(i) ==
    /\ call[i] = "idle"
    /\ IF watchActive
       THEN call' = [call EXCEPT ![i] = "busy"] /\ UNCHANGED watchActive
       ELSE call' = [call EXCEPT ![i] = "read"] /\ watchActive' = TRUE
    /\ UNCHANGED <<state, watchEvents, last, cancelled, thread, history>>

(* The present state is read and reported.                                 *)
ReadState(i) ==
    /\ call[i] = "read"
    /\ \/ /\ last' = [last EXCEPT ![i] = state]
          /\ missed' = [missed EXCEPT ![i] = FALSE]
          /\ call' = [call EXCEPT ![i] = "spawn"]
          /\ UNCHANGED <<watchActive, errors>>
       \/ /\ Fault
          /\ Return(i, "failed")
          /\ UNCHANGED <<last, missed>>
    /\ UNCHANGED <<state, watchEvents, cancelled, thread, events>>

Spawn(i) ==
    /\ call[i] = "spawn"
    /\ watchEvents' = <<>>
    /\ loop' = [loop EXCEPT ![i] = "create"]
    /\ call' = [call EXCEPT ![i] = "await"]
    /\ UNCHANGED <<state, last, cancelled, watchActive, classExists, registered,
                   queue, loopErr, history>>

(* The window's handle, sent when it was registered, or the loop's error;  *)
(* either when both are there.                                             *)
Await(i) ==
    /\ call[i] = "await"
    /\ \/ /\ registered[i]
          /\ call' = [call EXCEPT ![i] = "serve"]
          /\ UNCHANGED watchActive
       \/ /\ loopErr[i] # "none"
          /\ Return(i, "failed")
    /\ UNCHANGED <<state, watchEvents, last, cancelled, thread, history>>

(* Its select: an event, the end of the context, or the end of the loop.   *)
TakeEvent(i) ==
    /\ call[i] = "serve"
    /\ watchEvents # <<>>
    /\ last' = [last EXCEPT ![i] = Head(watchEvents)]
    /\ watchEvents' = Tail(watchEvents)
    /\ UNCHANGED <<state, call, cancelled, watchActive, thread, history>>

(* The mutation forgets the message that closes the window.                *)
MutNoClose(i) ==
    /\ call[i] = "serve" /\ cancelled[i]
    /\ Return(i, "cancelled")
    /\ UNCHANGED <<state, watchEvents, last, cancelled, thread, history>>

(* The code does not look at whether PostMessage succeeded: it is assumed  *)
(* to, for a window of the process itself whose queue is not full.         *)
TakeCancel(i) ==
    /\ call[i] = "serve" /\ cancelled[i]
    /\ queue' = [queue EXCEPT ![i] = IF loop[i] = "pump" THEN Append(@, "close") ELSE @]
    /\ Return(i, "cancelled")
    /\ UNCHANGED <<state, watchEvents, last, cancelled, classExists, loop,
                   registered, loopErr, history>>

TakeLoopErr(i) ==
    /\ call[i] = "serve"
    /\ loopErr[i] # "none"
    /\ Return(i, "failed")
    /\ UNCHANGED <<state, watchEvents, last, cancelled, thread, history>>

Cancel(i) ==
    /\ Running(i) /\ ~cancelled[i]
    /\ cancelled' = [cancelled EXCEPT ![i] = TRUE]
    /\ UNCHANGED <<state, watchEvents, call, last, watchActive, thread, history>>

-----------------------------------------------------------------------------
(* The message loop.                                                       *)
EndLoop(i, err) ==
    /\ loop' = [loop EXCEPT ![i] = "ended"]
    /\ loopErr' = [loopErr EXCEPT ![i] = err]

(* createMessageWindow: registering the class fails when it exists.  The   *)
(* mutation goes on with the class that is there.                          *)
MutClassAgain(i) ==
    /\ loop[i] = "create"
    /\ classExists' = TRUE
    /\ loop' = [loop EXCEPT ![i] = "register"]
    /\ UNCHANGED <<state, watchEvents, watcher, registered, queue, loopErr, history>>

CreateMessageWindow(i) ==
    /\ loop[i] = "create"
    /\ \/ /\ classExists
          /\ EndLoop(i, "error")
          /\ UNCHANGED <<classExists, errors>>
       \/ /\ ~classExists
          /\ classExists' = TRUE
          /\ loop' = [loop EXCEPT ![i] = "register"]
          /\ UNCHANGED <<loopErr, errors>>
       \/ /\ Fault
          /\ classExists' \in {classExists, TRUE}
          /\ EndLoop(i, "error")
    /\ UNCHANGED <<state, watchEvents, watcher, registered, queue, events, missed>>

(* The window is registered for session events and its handle handed over. *)
Register(i) ==
    /\ loop[i] = "register"
    /\ \/ /\ registered' = [registered EXCEPT ![i] = TRUE]
          /\ loop' = [loop EXCEPT ![i] = "pump"]
          /\ UNCHANGED <<loopErr, errors>>
       \/ /\ Fault
          /\ EndLoop(i, "error")
          /\ UNCHANGED registered
    /\ UNCHANGED <<state, watchEvents, watcher, classExists, queue, events, missed>>

(* lockedFromSessionEvent: the events that say something of the lock.  The *)
(* mutation lets all of them through.                                      *)
MutRelevant(m) == TRUE
Relevant(m) == m \in States

(* wndProc on a session event: what does not fit in the channel is dropped.*)
(* The mutation has the events the wrong way round.                        *)
MutDispatch(i) ==
    /\ loop[i] = "pump" /\ queue[i] # <<>> /\ Head(queue[i]) # "close"
    /\ queue' = [queue EXCEPT ![i] = Tail(@)]
    /\ LET m == Head(queue[i]) IN
       IF m \in States /\ Len(watchEvents) < BufferSize
       THEN /\ watchEvents' = Append(watchEvents, IF m = "locked" THEN "unlocked" ELSE "locked")
            /\ missed' = [missed EXCEPT ![i] = FALSE]
       ELSE UNCHANGED <<watchEvents, missed>>
    /\ UNCHANGED <<state, watcher, classExists, loop, registered, loopErr, events, errors>>

Dispatch(i) ==
    /\ loop[i] = "pump"
    /\ queue[i] # <<>>
    /\ Head(queue[i]) # "close"
    /\ queue' = [queue EXCEPT ![i] = Tail(@)]
    /\ LET m == Head(queue[i]) IN
       \/ /\ Relevant(m) /\ Len(watchEvents) < BufferSize
          /\ watchEvents' = Append(watchEvents, m)
          /\ missed' = [missed EXCEPT ![i] = FALSE]
       \/ /\ Relevant(m) /\ Len(watchEvents) = BufferSize
          /\ missed' = [missed EXCEPT ![i] = TRUE]
          /\ UNCHANGED watchEvents
       \/ /\ ~Relevant(m)
          /\ UNCHANGED <<watchEvents, missed>>
    /\ UNCHANGED <<state, watcher, classExists, loop, registered, loopErr, events, errors>>

(* WM_CLOSE: the window is destroyed, which unregisters it and posts the   *)
(* WM_QUIT that ends the loop; loopErr has room for its one message.       *)
CloseWindow(i) ==
    /\ loop[i] = "pump"
    /\ queue[i] # <<>>
    /\ Head(queue[i]) = "close"
    /\ queue' = [queue EXCEPT ![i] = <<>>]
    /\ registered' = [registered EXCEPT ![i] = FALSE]
    /\ EndLoop(i, "nil")
    /\ UNCHANGED <<state, watchEvents, watcher, classExists, history>>

(* GetMessage fails: the loop ends and leaves the window.                  *)
PumpFails(i) ==
    /\ loop[i] = "pump"
    /\ Fault
    /\ EndLoop(i, "nil")
    /\ UNCHANGED <<state, watchEvents, watcher, classExists, registered, queue,
                   events, missed>>

WatchStep(i) ==
    \/ ReadState(i) \/ Spawn(i) \/ Await(i)
    \/ TakeEvent(i) \/ TakeCancel(i) \/ TakeLoopErr(i)
ThreadStep(i) ==
    \/ CreateMessageWindow(i) \/ Register(i)
    \/ Dispatch(i) \/ CloseWindow(i)

Next ==
    \/ Toggle \/ OtherEvent
    \/ \E i \in Calls : Begin(i) \/ Cancel(i) \/ WatchStep(i) \/ ThreadStep(i) \/ PumpFails(i)

Spec == Init /\ [][Next]_vars

(* The goroutine and the thread run when they can, and select, which takes *)
(* a ready case at random, sees the end of the context at some point.      *)
Fairness ==
    \A i \in Calls :
        /\ WF_vars(WatchStep(i)) /\ WF_vars(TakeCancel(i))
        /\ WF_vars(ThreadStep(i))

FairSpec == Spec /\ Fairness

-----------------------------------------------------------------------------
(* The variables have their types; the channel keeps within its capacity.  *)
TypeOK ==
    /\ state \in States
    /\ watchActive = (\E i \in Calls : Running(i))
    /\ watchEvents \in Seq(States) /\ Len(watchEvents) <= BufferSize
    /\ classExists \in BOOLEAN
    /\ call \in [Calls -> Places]
    /\ last \in [Calls -> States \cup {"none"}]
    /\ cancelled \in [Calls -> BOOLEAN]
    /\ loop \in [Calls -> LoopPlaces]
    /\ registered \in [Calls -> BOOLEAN]
    /\ queue \in [Calls -> Seq(Messages)]
    /\ loopErr \in [Calls -> {"none", "nil", "error"}]
    /\ events \in Nat /\ errors \in Nat
    /\ missed \in [Calls -> BOOLEAN]

(* What Watch will have reported when all that is under way has arrived is *)
(* the last lock event that waits for the window; if none waits, the last  *)
(* one in the channel; if that is empty, what it reported last.            *)
Newest(i) == IF watchEvents = <<>> THEN last[i] ELSE watchEvents[Len(watchEvents)]
Waiting(i) == {k \in 1 .. Len(queue[i]) : queue[i][k] \in States}
LastWaiting(i) == {k \in Waiting(i) : \A l \in Waiting(i) : l <= k}
WillReport(i, s) ==
    /\ \A k \in LastWaiting(i) : queue[i][k] = s
    /\ Waiting(i) = {} => Newest(i) = s

(* Whatever the interleaving of Windows, the message loop and Watch, the   *)
(* last report or event under way is the session's state, unless an event  *)
(* was lost and none has come through since: an event that is dropped when *)
(* the channel is full is made good by the next one that is not.           *)
TruthUnderWay ==
    \A i \in Calls : call[i] = "serve" /\ registered[i] /\ ~missed[i] => WillReport(i, state)

(* However a Watch returned, nothing of it stays: it has no message loop,  *)
(* or the message that ends the loop is in its queue (TakeCancel assumes   *)
(* that it could be posted).                                               *)
NothingStays ==
    \A i \in Calls :
        ~Running(i) => \/ loop[i] \in {"off", "ended"}
                       \/ loop[i] = "pump" /\ \E k \in 1 .. Len(queue[i]) : queue[i][k] = "close"

(* Watch tells what SessionFeed promises: first the present state, and once*)
(* its window is registered every change, in order, unless the channel is  *)
(* full of those before it.  What is under way is in the channel and in    *)
(* the queue of its window.                                                *)
Serving(i) == call[i] \in {"await", "serve"} /\ registered[i]
UnderWay(i) == IF Serving(i) THEN watchEvents \o queue[i] ELSE <<>>
Feed == INSTANCE SessionFeed WITH
    States <- States,
    Other <- "other",
    Capacity <- BufferSize,
    told <- last[Watched],
    listening <- Serving(Watched),
    pending <- UnderWay(Watched)
KeepsFeed == Feed!Spec

(* And so cancelling a Watch ends its thread, even after Watch itself has  *)
(* returned.  (A loop that ended because GetMessage failed leaves its      *)
(* window.)  The message that closes the window is assumed to be posted.   *)
CancelEndsLoop ==
    \A i \in Calls :
        cancelled[i] ~> (~Running(i) /\ loop[i] \in {"off", "ended"})
=============================================================================
