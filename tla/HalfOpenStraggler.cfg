SPECIFICATION Spec
CONSTANTS
  Requests = {r1, r2}
  Operators = {}
  NoHolder = NoHolder
  Nil = Nil
  SleepWindow = 3
  MaxAge = 1
  HalfOpenAttempts = 1
  RequiredConcurrentSuccessful = 1
  HandAssigned = FALSE
PROPERTIES
  ClosedByProbes
