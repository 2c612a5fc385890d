SPECIFICATION Spec
CONSTANTS
  Goroutines = {g1, g2}
  NoHolder = NoHolder
  Size = 2
  Width = 3
  Durations <- SomeDurations
  MaxWindow = 1
  MaxSamples = 3
SYMMETRY CallerSymmetry
INVARIANTS
  BeyondIndexUnset
  NoStaleSample
  NoSampleMissed
  PercentilesOrdered
