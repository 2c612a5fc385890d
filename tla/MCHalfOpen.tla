----------------------------- MODULE MCHalfOpen -----------------------------
(* HalfOpen on small instances, for TLC.                                   *)
EXTENDS HalfOpen, TLC

(* The goroutines that call Execute are interchangeable, and so are those  *)
(* that call OpenCircuit and CloseCircuit.                                 *)
CallerSymmetry == Permutations(Requests) \cup Permutations(Operators)
=============================================================================
