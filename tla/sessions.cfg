SPECIFICATION Spec
CONSTANTS
  w1 = w1
  w2 = w2
  api1 = api1
  api2 = api2
  nobody = nobody
\* A settled session stops: nothing is left to do.
CHECK_DEADLOCK FALSE
INVARIANTS
  GateSafety
  NothingStranded
  EffectsBounded
PROPERTIES
  DependencyOrder
  KeepsContract
  CompletedForGood
  Settles
