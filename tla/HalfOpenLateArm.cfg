SPECIFICATION Spec
CONSTANTS
  Requests = {r1}
  Operators = {o1}
  NoHolder = NoHolder
  Nil = Nil
  SleepWindow = 3
  MaxAge = 1
  HalfOpenAttempts = 1
  RequiredConcurrentSuccessful = 1
  HandAssigned = FALSE
INVARIANTS
  NilWhileClosed
