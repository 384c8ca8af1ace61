CONSTANTS
  PoolSize = 2
  Phases = 2
  QueueBound = 2
SPECIFICATION Spec
PROPERTIES LeakedOnlyIfHeld
CHECK_DEADLOCK FALSE
