---------------------------- MODULE MCCollectors ----------------------------
(* Collectors on a small instance, for TLC.                                *)
EXTENDS Collectors, TLC

(* What the thresholds are set to.                                         *)
SomeSettings ==
  [errorPercentage |-> {50, 100}, requestVolumeThreshold |-> {2},
   closeThreshold |-> {1, 2}, MaximumHealthyTime |-> {1, 2}]

(* The goroutines are interchangeable.                                     *)
CallerSymmetry == Permutations(Goroutines)
=============================================================================
