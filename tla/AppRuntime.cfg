SPECIFICATION Spec
CONSTANTS
  ActionCapacity = 1
  EffectCapacity = 1
  MaxClientActions = 2
INVARIANTS
  TypeOK
  TokensMatchEffectsInFlight
  ReturnsStopped
PROPERTIES
  CancelEndsExecution
  ShutdownEnds
CHECK_DEADLOCK FALSE
