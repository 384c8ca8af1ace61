CONSTANTS
  Scenario = {falcon}
  Runtime = {weapon}
  MaxTime = 3
  QueueBound = 3
SPECIFICATION FairSpec
INVARIANTS NoGhosts FileMirrorsDeclared IdentityIsReal
PROPERTIES RemovalIsWritten TimeNeverRunsBack BeamsOfKnownObjects
CHECK_DEADLOCK FALSE
