\* Two dashboards that come and go, and everything published at any time.
CONSTANTS
  Clients = {a, b}
  History = 3
  QueueSize = 2
  MaxChanges = 2
  Explicit = TRUE
  Others = TRUE
  Racing = TRUE
  Carried = 2
  MaxMessages = 3
SPECIFICATION LogSpec
SYMMETRY Interchangeable
INVARIANTS
  RecordedInTurn
PROPERTIES
  NeverGoesBack
