CONSTANTS
  UI = ui
  Sim = sim
  Clients = {ui, sim}
  RealTime = 2
  ScaleInputs = {1, 2, 4}
  MinScale = 1
  MaxScale = 8
  StepBound = 1
  IdleBound = 2
  Ladder <- MCLadder
  RealTimeIndex = 2
  Keys = {"accelerate", "decelerate", "realTime", "pause", "step", "arm", "cancel", "quit"}
  MayChangeMode = FALSE
SPECIFICATION DSpec
INVARIANTS OneSpeedWriter LadderMatchesClock
PROPERTIES NoPhantomStepHere
CHECK_DEADLOCK FALSE
