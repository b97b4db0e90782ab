SPECIFICATION DriftFairSpec
CONSTANTS
  Axes = {"ra offset", "ra pulse", "dec auto"}
  Drifts <- MCDrifts
  Shifts <- MCShifts
  Nothing = Nothing
  MinFrames = 2
  Window = 3
  MaxUnits = 3
  Radius = 4
  LongGap = 2
  MeasureMin = 2
  MeasureMax = 3
  Hold = 3
  Reach = 5
  MaxTroubles = 2
INVARIANTS
  WindowIsOneTrack
PROPERTIES
  NeverOvercorrects
  SettledIsThere
  ComesBack
CHECK_DEADLOCK FALSE
