-------------------------- MODULE ListenerContract --------------------------
(***************************************************************************)
(* What the circuit promises one Metrics listener (the doc comment of      *)
(* Metrics in metrics.go): it hears every state change exactly once, in    *)
(* the order in which they happened, and it is never left behind for ever. *)
(* How transitions are committed, queued and delivered is hidden in the    *)
(* number of changes the listener has not heard of yet.                    *)
(***************************************************************************)
EXTENDS Naturals

VARIABLES
  open,    \* the state of the circuit
  behind,  \* how many changes of it the listener has still to hear of
  heard    \* the last state the listener was told

contractVars == <<open, behind, heard>>

Init == open = FALSE /\ behind = 0 /\ heard = FALSE

(* The circuit opens or closes.                                            *)
Flip ==
  /\ open' = ~open
  /\ behind' = behind + 1
  /\ UNCHANGED heard

(* The listener is told of the oldest change it has not heard of: that is  *)
(* the opposite of what it was told last.                                  *)
Hear ==
  /\ behind > 0
  /\ behind' = behind - 1
  /\ heard' = ~heard
  /\ UNCHANGED open

Next == Flip \/ Hear

SafeSpec == Init /\ [][Next]_contractVars
Spec == SafeSpec /\ WF_contractVars(Hear)
=============================================================================
