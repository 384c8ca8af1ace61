SPECIFICATION Spec
CONSTANTS
  NumPilots = 3
  NumThreads = 2
  MaxRange = 2
  HoldTime = 2
  EvadeHold = 2
  Side <- MCSide
  Worlds <- MCWorlds
  MayCrash = {1}
  Arbitrated = {2}
INVARIANTS AlertLastsItsHold NobodyRelays SupportsOnlyWhenCalm
PROPERTY SyncSpec
