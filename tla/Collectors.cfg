SPECIFICATION Spec
CONSTANTS
  Goroutines = {g1, g2}
  Settings <- SomeSettings
  Durations = {2}
  MaxCalls = 3
SYMMETRY CallerSymmetry
INVARIANTS
  ErrorsWithinAttempts
  NeverMissesThreshold
  PercentageBracketed
  StreakIsConsecutive
  BooksBalance
