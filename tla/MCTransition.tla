---------------------------- MODULE MCTransition ----------------------------
(* Transition on small instances, for TLC.                                 *)
EXTENDS Transition, TLC

(* Goroutines are interchangeable.                                         *)
GoroutineSymmetry == Permutations(Goroutines)
=============================================================================
