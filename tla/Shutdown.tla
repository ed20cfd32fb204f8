------------------------------ MODULE Shutdown ------------------------------
(***************************************************************************)
(* How "lockping-agent run" ends: the goroutines of runRelay (main.go),    *)
(* runWithTray (tray.go), relay.Client.Run and webui.Start, and the two    *)
(* contexts between them.                                                  *)
(*                                                                         *)
(* Without a tray the main goroutine itself runs the connection and ends   *)
(* with it.  With a tray the main goroutine sits in systray.Run, which the *)
(* library leaves once Quit was called: the connection's goroutine and the *)
(* menu's loop both call it.  The process is gone when main returns,       *)
(* whatever the other goroutines are doing.  A handler of the connection   *)
(* may call a session layer that never answers (hangs).                    *)
(***************************************************************************)
VARIABLES
    tray,     \* the agent runs with -tray
    hangs,    \* the operating system leaves session calls unanswered
    ctx,      \* runRelay's context is cancelled
    clicked,  \* "Stoppen" in the tray menu: trayCtx is cancelled
    stopping, \* the goroutine that webui's stop handler left behind
    quit,     \* systray.Quit was called
    main,     \* main goroutine: "start", "connect", "tray", "select", "exited"
    relay,    \* Client.Run: "none", "wait", "handle", "returned"
    menu,     \* the tray menu's loop: "none", "select", "done"
    server,   \* config UI: "none", "start", "up", "down"
    asked     \* history: a signal, the UI or the tray asked the agent to end

vars == <<tray, hangs, ctx, clicked, stopping, quit, main, relay, menu, server, asked>>

(* trayCtx is derived from ctx: cancelling the latter cancels both.        *)
ConnectDone == ctx \/ (tray /\ clicked)
(* Nothing runs beside the main goroutine before the files are loaded, nor *)
(* after main returns.                                                     *)
Running == main \notin {"start", "exited"}

Init ==
    /\ tray \in BOOLEAN /\ hangs \in BOOLEAN
    /\ ctx = FALSE /\ clicked = FALSE /\ stopping = FALSE /\ quit = FALSE
    /\ asked = FALSE
    /\ main = "start" /\ relay = "none" /\ menu = "none"
    /\ server \in {"none", "start"}          \* -no-ui, or not

-----------------------------------------------------------------------------
(* runRelay, once everything is loaded: into connect, or into systray.Run. *)
Serve ==
    /\ main = "start"
    /\ IF tray THEN main' = "tray" /\ UNCHANGED relay
               ELSE main' = "connect" /\ relay' = "wait"
    /\ UNCHANGED <<tray, hangs, ctx, clicked, stopping, quit, menu, server, asked>>

(* systray.Run calls onReady, which starts the two goroutines.             *)
OnReady ==
    /\ main = "tray" /\ menu = "none"
    /\ menu' = "select"
    /\ relay' = "wait"
    /\ UNCHANGED <<tray, hangs, ctx, clicked, stopping, quit, main, server, asked>>

(* Run handles a payload, or finds its context cancelled: it never returns *)
(* for another reason.  The mutation returns when the connection breaks.   *)
Payload ==
    /\ Running /\ relay = "wait" /\ ~ConnectDone
    /\ relay' = "handle"
    /\ UNCHANGED <<tray, hangs, ctx, clicked, stopping, quit, main, menu, server, asked>>

Handled ==
    /\ Running /\ relay = "handle" /\ ~hangs
    /\ relay' = "wait"
    /\ UNCHANGED <<tray, hangs, ctx, clicked, stopping, quit, main, menu, server, asked>>

MutMayReturn == TRUE
MayReturn == ConnectDone

(* connect returns; in the tray its goroutine calls Quit.                  *)
RunReturns ==
    /\ Running /\ relay = "wait" /\ MayReturn
    /\ relay' = "returned"
    /\ quit' = (quit \/ tray)
    /\ UNCHANGED <<tray, hangs, ctx, clicked, stopping, main, menu, server, asked>>

(* The menu's loop.  A click on "Stoppen" cancels trayCtx, which the loop  *)
(* sees next time round; the mutation only looks for clicks.               *)
MutMenuSees == clicked
MenuSees == ConnectDone

MenuQuits ==
    /\ Running /\ menu = "select" /\ MenuSees
    /\ quit' = TRUE
    /\ menu' = "done"
    /\ UNCHANGED <<tray, hangs, ctx, clicked, stopping, main, relay, server, asked>>

ClickQuit ==
    /\ Running /\ menu = "select"
    /\ clicked' = TRUE
    /\ asked' = TRUE
    /\ UNCHANGED <<tray, hangs, ctx, stopping, quit, main, relay, menu, server>>

(* systray.Run returns; runWithTray then takes the result if it is there,  *)
(* and does not wait for it.                                               *)
TrayReturns ==
    /\ main = "tray" /\ quit
    /\ main' = "select"
    /\ UNCHANGED <<tray, hangs, ctx, clicked, stopping, quit, relay, menu, server, asked>>

(* runRelay returns what connect returned.                                 *)
MainReturns ==
    /\ main = "select" \/ (main = "connect" /\ relay = "returned")
    /\ main' = "exited"
    /\ ctx' = TRUE
    /\ UNCHANGED <<tray, hangs, clicked, stopping, quit, relay, menu, server, asked>>

-----------------------------------------------------------------------------
(* signal.NotifyContext: the first signal cancels; later ones are caught   *)
(* and do nothing, and the first does not end the process by itself.       *)
Signal ==
    /\ main # "exited"
    /\ ctx' = TRUE
    /\ asked' = TRUE
    /\ UNCHANGED <<tray, hangs, clicked, stopping, quit, main, relay, menu, server>>

(* webui.Start listens, or fails, which is only logged; the mutation stops *)
(* the agent.                                                              *)
MutUiFailure == TRUE
UiFailure == ctx

UiStarts ==
    /\ Running /\ server = "start"
    /\ \/ server' = "up" /\ UNCHANGED ctx
       \/ server' = "down" /\ ctx' = UiFailure
    /\ UNCHANGED <<tray, hangs, clicked, stopping, quit, main, relay, menu, asked>>

(* POST /api/stop: the handler answers and leaves the cancelling to a      *)
(* goroutine.                                                              *)
UiStop ==
    /\ Running /\ server = "up"
    /\ stopping' = TRUE
    /\ asked' = TRUE
    /\ UNCHANGED <<tray, hangs, ctx, clicked, quit, main, relay, menu, server>>

UiCancels ==
    /\ Running /\ stopping
    /\ ctx' = TRUE
    /\ stopping' = FALSE
    /\ UNCHANGED <<tray, hangs, clicked, quit, main, relay, menu, server, asked>>

(* The server shuts down with the context.                                 *)
UiCloses ==
    /\ Running /\ server = "up" /\ ctx
    /\ server' = "down"
    /\ UNCHANGED <<tray, hangs, ctx, clicked, stopping, quit, main, relay, menu, asked>>

Next ==
    \/ Serve \/ OnReady \/ Payload \/ Handled \/ RunReturns
    \/ MenuQuits \/ ClickQuit \/ TrayReturns \/ MainReturns
    \/ Signal \/ UiStarts \/ UiStop \/ UiCancels \/ UiCloses

Spec == Init /\ [][Next]_vars

(* A goroutine that can go on does; nobody need click or signal.           *)
Fairness ==
    /\ WF_vars(Serve) /\ WF_vars(OnReady)
    /\ WF_vars(Handled) /\ WF_vars(RunReturns)
    /\ WF_vars(MenuQuits) /\ WF_vars(TrayReturns) /\ WF_vars(MainReturns)
    /\ WF_vars(UiCancels)

FairSpec == Spec /\ Fairness

-----------------------------------------------------------------------------
(* The variables have their types, and a goroutine is there only after     *)
(* what starts it.                                                         *)
TypeOK ==
    /\ {tray, hangs, ctx, clicked, stopping, quit, asked} \subseteq BOOLEAN
    /\ main \in {"start", "connect", "tray", "select", "exited"}
    /\ relay \in {"none", "wait", "handle", "returned"}
    /\ menu \in {"none", "select", "done"}
    /\ server \in {"none", "start", "up", "down"}
    /\ main = "start" => relay = "none" /\ menu = "none" /\ server # "up"
    /\ ~tray => menu = "none" /\ ~clicked /\ ~quit /\ main # "tray"

(* The agent ends only because a signal, the UI or the tray asked for it:  *)
(* neither a broken connection nor a UI that cannot listen takes it down.  *)
EndsWhenAsked == main \in {"select", "exited"} => asked

(* And it does end when asked: with a tray always, also when a handler     *)
(* hangs in the session layer; without one if no handler hangs.            *)
StopEnds == asked /\ (tray \/ ~hangs) ~> main = "exited"
=============================================================================
