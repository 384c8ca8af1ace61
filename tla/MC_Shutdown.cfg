CONSTANTS
  PoolSize = 2
  Phases = 2
  QueueBound = 2
SPECIFICATION FairSpec
INVARIANTS PlayersShutDownAlone NothingUnrecorded
PROPERTIES EverybodyLeaves StationDestroyedByMain
CHECK_DEADLOCK FALSE
