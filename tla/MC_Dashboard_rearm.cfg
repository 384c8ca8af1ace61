CONSTANTS
  UI = ui
  Sim = sim
  Clients = {ui, sim}
  RealTime = 2
  ScaleInputs = {1, 2, 4}
  MinScale = 1
  MaxScale = 8
  StepBound = 1
  IdleBound = 2
  Ladder <- MCLadder
  RealTimeIndex = 2
  Keys = {"arm", "cancel"}
  MayChangeMode = TRUE
SPECIFICATION DSpec
INVARIANTS LadderMatchesClock
CHECK_DEADLOCK FALSE
