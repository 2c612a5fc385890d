SPECIFICATION Spec
INVARIANTS
  ToldOnce
PROPERTIES
  EndsWithContext
  EveryOutcomeHeard
  NothingLeaks
CHECK_DEADLOCK FALSE
