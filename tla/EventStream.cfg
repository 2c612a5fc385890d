SPECIFICATION Spec
CONSTANTS
  Creators = {g1, g2}
  Exporters = {r1}
  NoHolder = NoHolder
  Names = {"a", "b"}
  NumConstructors = 2
  NumConfigs = 2
  MaxCreates = 3
  Clients = {c1, c2}
  Capacity = 1
  StreamCreators = {g1}
INVARIANTS
  StatsMatchCircuit
  ConfigPrecedence
CHECK_DEADLOCK FALSE
PROPERTIES
  CreateReturns
  EveryListenerServed
  IdleWithoutListeners
  CloseEndsAll
