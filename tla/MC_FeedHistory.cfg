CONSTANTS
  falcon = falcon
  wing = wing
  bandit = bandit
  alarm = alarm
  moved = moved
  telemetry = telemetry
  low = low
  sinking = sinking
  altitude = altitude
  Names = {falcon, wing, bandit}
  MaxPlayers = 2
  Messages = {alarm, moved, telemetry}
  Players <- MCPlayers
  When <- MCWhen
  MatchAll = {alarm}
  Every <- MCEvery
  Thresholds = {low, sinking}
  Hold <- MCHold
  Changes = {altitude}
  By <- MCBy
  Values = {0, 1, 2}
  HealthEvery = 2
  FlushEvery = 2
SPECIFICATION FSpec
INVARIANTS SlotsAreDistinct LossIsBounded LatencyIsBounded ReaderIsCurrent
PROPERTIES ArmedOnlyIfHeld
