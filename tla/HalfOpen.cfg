SPECIFICATION Spec
CONSTANTS
  Requests = {r1}
  Operators = {o1, o2}
  NoHolder = NoHolder
  Nil = Nil
  SleepWindow = 3
  MaxAge = 1
  HalfOpenAttempts = 2
  RequiredConcurrentSuccessful = 1
  HandAssigned = TRUE
SYMMETRY CallerSymmetry
INVARIANTS
  TypeOK
  ArmedOnlyWhileOpen
  ProbesWaitForTheWindow
