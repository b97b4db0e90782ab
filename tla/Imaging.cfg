SPECIFICATION Spec
CONSTANTS
  Sessions = {s1, s2}
  Names = {n1, n2}
  Shared = FALSE
  Started <- MCStarted
  Patches <- MCPatches
  Exposures = {3}
  Count = 2
  MaxFrames = 3
  MaxTakes = 1
  None = None
  Gone = Gone
INVARIANTS
  
  
  LinkedFollow
PROPERTIES
  DeletedStaysDeleted
  
CHECK_DEADLOCK FALSE
