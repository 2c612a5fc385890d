SPECIFICATION Spec
CONSTANTS
  Goroutines = {g1, g2}
  NoHolder = NoHolder
  NumBuckets = 2
  MaxIndex = 3
  MaxEvents = 2
SYMMETRY CallerSymmetry
INVARIANTS
  NoEventLost
  NoExpiredEventKept
  SumBracketed
PROPERTIES
  NeverRollsBack
