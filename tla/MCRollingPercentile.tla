------------------------- MODULE MCRollingPercentile ------------------------
(* RollingPercentile on small instances, for TLC.                          *)
EXTENDS RollingPercentile

(* With Width = 3: a negative duration and the greatest one.           *)
SomeDurations == {-1, 3}

(* The callers are interchangeable.                                        *)
CallerSymmetry == Permutations(Goroutines)
=============================================================================
