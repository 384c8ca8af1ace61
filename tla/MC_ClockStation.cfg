CONSTANTS
  Clients = {c1, c2}
  RealTime = 2
  ScaleInputs = {0, 1, 2, 3, 10}
  MinScale = 1
  MaxScale = 8
  StepBound = 2
  IdleBound = 2
SPECIFICATION FairSpec
INVARIANTS QuiesceIsProof StepNeverStretched
PROPERTIES StopIsConfirmed StepsAreServed GateSpec
