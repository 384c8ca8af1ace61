SPECIFICATION Spec
CONSTANTS
  Pools = {"tc", "bg"}
  Req <- MCReq
  Phases <- MCPhases
  Lists <- MCLists
  NoList = NoList
  Swappers = {"bg"}
CHECK_DEADLOCK FALSE
INVARIANTS CrashOnlyInFirstPhase UpdatesReadHeldList
PROPERTIES InLockstep FramesEnd
