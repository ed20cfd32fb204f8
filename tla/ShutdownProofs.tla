--------------------------- MODULE ShutdownProofs ---------------------------
(***************************************************************************)
(* How the agent ends, proved for every interleaving of its goroutines     *)
(* (TLC's run covers them all too, and checks that it does end).           *)
(*                                                                         *)
(* Reasons: whatever makes a goroutine return (a cancelled context, Quit,  *)
(* a result of connect) goes back to somebody who asked for the end.       *)
(***************************************************************************)
EXTENDS Shutdown, TLAPS

Reasons ==
    ctx \/ clicked \/ stopping \/ quit \/ relay = "returned" \/ main \in {"select", "exited"}
        => asked

EndInv == TypeOK /\ Reasons

LEMMA EndInit == Init => EndInv
BY DEF Init, EndInv, TypeOK, Reasons

LEMMA EndStep == EndInv /\ [Next]_vars => EndInv'
<1> SUFFICES ASSUME EndInv, [Next]_vars PROVE EndInv'
    OBVIOUS
<1> USE DEF EndInv, TypeOK, Reasons, Running, ConnectDone
<1>1. CASE Serve
  BY <1>1 DEF Serve
<1>2. CASE OnReady
  BY <1>2 DEF OnReady
<1>3. CASE Payload
  BY <1>3 DEF Payload
<1>4. CASE Handled
  BY <1>4 DEF Handled
<1>5. CASE RunReturns
  BY <1>5 DEF RunReturns, MayReturn
<1>6. CASE MenuQuits
  BY <1>6 DEF MenuQuits, MenuSees
<1>7. CASE ClickQuit
  BY <1>7 DEF ClickQuit
<1>8. CASE TrayReturns
  BY <1>8 DEF TrayReturns
<1>9. CASE MainReturns
  BY <1>9 DEF MainReturns
<1>10. CASE Signal
  BY <1>10 DEF Signal
<1>11. CASE UiStarts
  BY <1>11 DEF UiStarts, UiFailure
<1>12. CASE UiStop
  BY <1>12 DEF UiStop
<1>13. CASE UiCancels
  BY <1>13 DEF UiCancels
<1>14. CASE UiCloses
  BY <1>14 DEF UiCloses
<1>15. CASE UNCHANGED vars
  BY <1>15 DEF vars
<1>16. QED
  BY <1>1, <1>2, <1>3, <1>4, <1>5, <1>6, <1>7, <1>8, <1>9, <1>10, <1>11, <1>12, <1>13, <1>14, <1>15
   DEF Next

(* No goroutine runs before runRelay has started it, and the variables     *)
(* have their types.                                                       *)
THEOREM TypeCorrect == Spec => []TypeOK
BY EndInit, EndStep, PTL DEF Spec, EndInv

(* The agent ends only when a signal, the UI or the tray asked for it.     *)
THEOREM OnlyWhenAsked == Spec => []EndsWhenAsked
<1>1. EndInv => EndsWhenAsked
  BY DEF EndInv, Reasons, EndsWhenAsked
<1>2. QED
  BY <1>1, EndInit, EndStep, PTL DEF Spec
=============================================================================
