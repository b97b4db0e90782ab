\* A capture and a task beside the live view, with everything that can fail,
\* and abandoned SDK calls that later ones overtake.
CONSTANTS
  Users = {shot, goto}
  Tasks = {goto}
  Askers = {}
  View = View
  None = None
  Reconfigures = TRUE
  Aborts = TRUE
  Faulty = TRUE
  MaxThreads = 2
SPECIFICATION FairSpec
INVARIANTS
  ClaimsAreServed
  SensorIsReady
PROPERTIES
  WaitersGetIn
  LiveViewReturns
