SPECIFICATION Spec
CONSTANTS
  Goroutines = {g1, g2}
  Configs <- NormalAndOverridden
  MayPrevent = TRUE
  MayPanic = TRUE
SYMMETRY CallerSymmetry
INVARIANTS
  TypeOK
  RunsWithinLimit
  PlacesGivenBack
  ForceFlagsHonoured
  OneVerdictPerCall
