SPECIFICATION Spec
CONSTANTS
  Intervals = {1, 2}
  Timeout = 5
  Stick = 1
  Sources = {"bridge", "tree"}
  MaxEpisode = 3
  MaxFrame = 9
CHECK_DEADLOCK FALSE
INVARIANTS StaleOnlyAtStart ObservationIsCurrent ThreeFramesLate
PROPERTIES EndsFullCircle
