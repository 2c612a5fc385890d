-------------------------- MODULE MCRollingCounter --------------------------
(* RollingCounter on small instances, for TLC.                             *)
EXTENDS RollingCounter, TLC

(* The callers are interchangeable.                                        *)
CallerSymmetry == Permutations(Goroutines)
=============================================================================
