SPECIFICATION FairSpec
CONSTANTS
  Goroutines = {g1, g2}
  NoHolder = NoHolder
  NumListeners = 2
  Automatic = {TRUE, FALSE}
  MaxPending = 2
  ListenerMayPanic = FALSE
  StateMachineMayPanic = FALSE
PROPERTIES
  LastListenerIsServed
INVARIANTS
  FirstListenerAlternates
  ListenersCaughtUp
  FlipRestsOnFreshEvidence
