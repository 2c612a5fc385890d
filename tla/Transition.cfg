SPECIFICATION Spec
CONSTANTS
  Goroutines = {g1, g2, g3}
  NoHolder = NoHolder
  NumListeners = 1
  Automatic = {TRUE, FALSE}
  MaxPending = 2
  ListenerMayPanic = TRUE
  StateMachineMayPanic = TRUE
SYMMETRY GoroutineSymmetry
INVARIANTS
  TypeOK
  LockMatchesSection
  OneDeliverer
  NothingStranded
