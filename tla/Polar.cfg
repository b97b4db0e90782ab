SPECIFICATION PolarSpec
CONSTANTS
  Places <- MCPlaces
  Side <- MCSide
  MinRotation = 3
  Points = 3
  KeptShots = 2
  Requesters = {p1, p2}
  MaxShots = 4
  MaxTurns = 1
  MaxResets = 1
  Nothing = Nothing
SYMMETRY Symmetry
INVARIANTS
  FitIsOfItsFrames
  OneMeasurement
PROPERTIES
  KnobsGoForward
CHECK_DEADLOCK FALSE
